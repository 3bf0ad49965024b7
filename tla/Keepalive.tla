------------------------------ MODULE Keepalive -----------------------------
(***************************************************************************)
(* Liveness of ONE tunnel: the pinger, writer and reader tasks of          *)
(* src/tunnel/lifecycle.rs, the bounded outbound channel they share with   *)
(* the forwarded requests, and last_pong_at of src/state.rs.               *)
(*                                                                         *)
(* Time is in whole seconds, as the code compares it.  The pinger looks at *)
(* last_pong_at only when its interval ticks, and a ping waits in the same *)
(* queue as everything else.                                               *)
(***************************************************************************)
EXTENDS Integers, Sequences

CONSTANTS
  PingInterval, PongTimeout,  \* [node_auth], each at least one second
  Cap,                        \* capacity of the outbound channel (256)
  MaxTime                     \* bound: seconds modelled

ASSUME TimingAssumption ==
  /\ PingInterval \in Nat \ {0} /\ PongTimeout \in Nat \ {0}
  /\ Cap \in Nat \ {0} /\ MaxTime \in Nat

VARIABLES
  now,       \* the clock
  nextTick,  \* when interval.tick() completes next
  lastPong,  \* last_pong_at
  asked,     \* when the oldest unanswered ping reached the node, -1 if none
  out,       \* the outbound channel
  pinger,    \* "waiting" for a tick, "sending" a ping, or "gone"
  writer,    \* "up", or "gone" after a failed socket write
  reader,    \* "select", or "answering" a WebSocket ping
  tunnel     \* "running", "closing" after signal_shutdown, or "closed"

pingerVars == <<now, nextTick, lastPong, asked, out, pinger, writer, reader, tunnel>>

PingerInit ==
  /\ now = 0 /\ nextTick = 0 /\ lastPong = 0 /\ asked = -1
  /\ out = <<>> /\ pinger = "waiting"
  /\ writer = "up" /\ reader = "select" /\ tunnel = "running"

(* Sensitivity: the two settings are applied twice. *)
SilenceLimitDoubled == 2 * (PingInterval + PongTimeout)

(* Sensitivity: the limit is the pong timeout alone, as docs/spec.md:123   *)
(* reads.                                                                  *)
SilenceLimitIsTimeout == PongTimeout

SilenceLimit == PingInterval + PongTimeout

(* interval.tick(): missed ticks are made up for at once.  A silence above *)
(* the limit ends the pinger and signals the reader, otherwise a ping is   *)
(* sent.                                                                   *)
PingerTick ==
  /\ tunnel = "running" /\ pinger = "waiting" /\ now >= nextTick
  /\ nextTick' = nextTick + PingInterval
  /\ IF now - lastPong > SilenceLimit
       THEN tunnel' = "closing" /\ pinger' = "gone"
       ELSE pinger' = "sending" /\ UNCHANGED tunnel
  /\ UNCHANGED <<now, lastPong, asked, out, writer, reader>>

(* send_frame waits for room. *)
PingerSend ==
  /\ tunnel = "running" /\ pinger = "sending" /\ writer = "up"
  /\ Len(out) < Cap
  /\ out' = Append(out, "ping")
  /\ pinger' = "waiting"
  /\ UNCHANGED <<now, nextTick, lastPong, asked, writer, reader, tunnel>>

(* send_frame fails once the writer has dropped the receiver: the pinger   *)
(* ends, and signals nobody.                                               *)
PingerStops ==
  /\ tunnel = "running" /\ pinger = "sending" /\ writer = "gone"
  /\ pinger' = "gone"
  /\ UNCHANGED <<now, nextTick, lastPong, asked, out, writer, reader, tunnel>>

(* A consumer request takes a place in the same channel. *)
Forward ==
  /\ tunnel # "closed" /\ writer = "up" /\ Len(out) < Cap
  /\ out' = Append(out, "request")
  /\ UNCHANGED <<now, nextTick, lastPong, asked, pinger, writer, reader, tunnel>>

(* The writer task gets a frame onto the socket.  A peer that does not     *)
(* read may keep it, and the lock on the socket, for any time.             *)
WriteFrame ==
  /\ tunnel # "closed" /\ writer = "up" /\ out # <<>>
  /\ out' = Tail(out)
  /\ asked' = IF Head(out) = "ping" /\ asked = -1 THEN now ELSE asked
  /\ UNCHANGED <<now, nextTick, lastPong, pinger, writer, reader, tunnel>>

(* A failed write ends the writer and with it the channel. *)
WriteFails ==
  /\ tunnel # "closed" /\ writer = "up" /\ out # <<>>
  /\ writer' = "gone"
  /\ out' = <<>>
  /\ UNCHANGED <<now, nextTick, lastPong, asked, pinger, reader, tunnel>>

(* The reader takes a Pong frame off the socket: touch_pong. *)
TouchPong ==
  /\ tunnel # "closed" /\ reader = "select"
  /\ lastPong' = now
  /\ asked' = -1
  /\ UNCHANGED <<now, nextTick, out, pinger, writer, reader, tunnel>>

(* The reader takes a WebSocket ping and locks the socket to answer it. *)
SocketPing ==
  /\ tunnel # "closed" /\ reader = "select"
  /\ reader' = "answering"
  /\ UNCHANGED <<now, nextTick, lastPong, asked, out, pinger, writer, tunnel>>

(* The answer is on the socket, or failed to get there: either goes on. *)
SocketPong ==
  /\ tunnel # "closed" /\ reader = "answering"
  /\ reader' = "select"
  /\ UNCHANGED <<now, nextTick, lastPong, asked, out, pinger, writer, tunnel>>

(* The reader leaves its loop, on the shutdown signal or on the end of the *)
(* socket; writer and pinger are aborted.                                  *)
ReaderExits ==
  /\ tunnel # "closed" /\ reader = "select"
  /\ tunnel' = "closed"
  /\ UNCHANGED <<now, nextTick, lastPong, asked, out, pinger, writer, reader>>

(* A second passes; the pinger runs whenever it can. *)
Second ==
  /\ tunnel # "closed" /\ now < MaxTime
  /\ tunnel = "running" =>
       /\ pinger = "waiting" => now < nextTick
       /\ pinger = "sending" => writer = "up" /\ Len(out) = Cap
  /\ now' = now + 1
  /\ UNCHANGED <<nextTick, lastPong, asked, out, pinger, writer, reader, tunnel>>

Over == (tunnel = "closed" \/ now = MaxTime) /\ UNCHANGED pingerVars

PingerNext ==
  \/ PingerTick \/ PingerSend \/ PingerStops
  \/ Forward \/ WriteFrame \/ WriteFails
  \/ TouchPong \/ SocketPing \/ SocketPong \/ ReaderExits
  \/ Second \/ Over

PingerSpec == PingerInit /\ [][PingerNext]_pingerVars

(* select! polls its branches in random order, so a reader that keeps      *)
(* coming back to it sees a signal.  An answer to a broken socket fails at *)
(* once.  Whether a frame leaves a working socket depends on the peer: no  *)
(* fairness.  Used to refute TimedOutTunnelCloses.                         *)
PingerFairSpec ==
  /\ PingerSpec
  /\ SF_pingerVars(tunnel = "closing" /\ ReaderExits)
  /\ WF_pingerVars(writer = "gone" /\ SocketPong)

-----------------------------------------------------------------------------
(* Every variable has its type; the channel keeps to its capacity. *)
PingerTypeOK ==
  /\ now \in 0 .. MaxTime
  /\ nextTick \in Nat
  /\ lastPong \in 0 .. now /\ asked \in -1 .. now
  /\ out \in Seq({"ping", "request"}) /\ Len(out) <= Cap
  /\ pinger \in {"waiting", "sending", "gone"}
  /\ writer \in {"up", "gone"} /\ reader \in {"select", "answering"}
  /\ tunnel \in {"running", "closing", "closed"}

(* A silent node is found out: while the pinger keeps its schedule, a      *)
(* running tunnel has heard from its node within two intervals and one     *)
(* pong timeout.                                                           *)
SilenceIsBounded ==
  (tunnel = "running" /\ pinger = "waiting" /\ now <= nextTick)
    => now - lastPong <= 2 * PingInterval + PongTimeout

(* A ping waits in the channel, or with the node. *)
PingUnanswered == asked # -1 \/ \E i \in DOMAIN out : out[i] = "ping"

(* A node that answers is never given up: while the writer lives, the      *)
(* pinger finds silence only with a ping of its own unanswered, however    *)
(* long the channel held it up and however many ticks it has to make up.   *)
SilentMeansUnanswered ==
  [][(tunnel = "running" /\ tunnel' = "closing" /\ writer = "up")
       => PingUnanswered]_pingerVars

(* Strengthening of SilentMeansUnanswered (TunnelProofs): with every ping  *)
(* answered, the next check comes within an interval of the last pong, and *)
(* is not overdue by more than the instant of that pong.                   *)
AnsweredIsFresh ==
  /\ nextTick <= now + PingInterval
  /\ (tunnel = "running" /\ pinger = "waiting" /\ writer = "up" /\ ~PingUnanswered)
       => nextTick <= lastPong + PingInterval /\ (now <= nextTick \/ now = lastPong)

(* Strengthening of SilenceIsBounded (TunnelProofs): the next check is     *)
(* never further away than that from the last pong.                        *)
NextCheckInTime ==
  tunnel = "running" => nextTick - lastPong <= 2 * PingInterval + PongTimeout

-----------------------------------------------------------------------------
(* docs/spec.md:123, "Node must respond pong within 10 seconds or the      *)
(* connection is closed and removed from TunnelRegistry", three ways.      *)

(* No ping stays unanswered for longer than the pong timeout. *)
PongWithinTimeout ==
  (tunnel = "running" /\ asked # -1) => now - asked <= PongTimeout

(* A node that says nothing loses its tunnel, whatever became of the other *)
(* tasks: a full outbound channel, or a writer that failed, leaves the     *)
(* pinger unable to look at last_pong_at.                                  *)
SilentNodeIsClosed ==
  tunnel = "running" => now - lastPong <= 2 * PingInterval + PongTimeout

(* A tunnel found silent is closed.  A reader that waits for the socket of *)
(* a peer that does not read, to answer a WebSocket ping, never sees the   *)
(* signal (refuted under PingerFairSpec).                                  *)
TimedOutTunnelCloses == (tunnel = "closing") ~> (tunnel = "closed")
=============================================================================
