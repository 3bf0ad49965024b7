---------------------------- MODULE TunnelProofs ----------------------------
(* Proofs about the tunnels of a node: its connections, for any number of  *)
(* them (Tunnel), and the tasks that keep one alive, for every interval,   *)
(* timeout and capacity (Keepalive).                                       *)
EXTENDS Tunnel, Keepalive, TLAPS

-----------------------------------------------------------------------------
(* Connections *)

(* Every variable keeps its type at every step. *)
LEMMA TypeStep == TypeOK /\ [Next]_vars => TypeOK'
<1> SUFFICES ASSUME TypeOK, [Next]_vars PROVE TypeOK'
  OBVIOUS
<1> USE RefreshAssumption DEF TypeOK, PC, tasks
<1>1. ASSUME NEW c \in Conns, Handshake(c) PROVE TypeOK'
  BY <1>1 DEF Handshake
<1>2. ASSUME NEW c \in Conns, ReplaceOld(c) PROVE TypeOK'
  <2>1. shutdown' \in [Conns -> BOOLEAN]
    BY <1>2, Zenon DEF ReplaceOld
  <2>2. pc' \in [Conns -> PC]
    BY <1>2 DEF ReplaceOld
  <2> QED
    BY <1>2, <2>1, <2>2 DEF ReplaceOld
<1>3. ASSUME NEW c \in Conns, Insert(c) PROVE TypeOK'
  BY <1>3 DEF Insert
<1>4. ASSUME NEW c \in Conns, SendReady(c) PROVE TypeOK'
  BY <1>4 DEF SendReady
<1>5. ASSUME NEW c \in Conns, Announce(c) PROVE TypeOK'
  BY <1>5 DEF Announce
<1>6. ASSUME NEW c \in Conns, Pong(c) PROVE TypeOK'
  BY <1>6 DEF Pong
<1>7. ASSUME NEW c \in Conns, ExitLoop(c) PROVE TypeOK'
  BY <1>7 DEF ExitLoop
<1>8. ASSUME NEW c \in Conns, Unregister(c) PROVE TypeOK'
  BY <1>8 DEF Unregister
<1>9. ASSUME NEW c \in Conns, RemoveModels(c) PROVE TypeOK'
  BY <1>9 DEF RemoveModels
<1>10. ASSUME NEW c \in Conns, EmitOffline(c) PROVE TypeOK'
  BY <1>10 DEF EmitOffline
<1>11. ASSUME NEW c \in Conns, FetchModels(c) PROVE TypeOK'
  BY <1>11 DEF FetchModels
<1>12. ASSUME NEW c \in Conns, UpsertModels(c) PROVE TypeOK'
  BY <1>12 DEF UpsertModels
<1>13. ASSUME NEW c \in Conns, SocketFails(c) PROVE TypeOK'
  BY <1>13 DEF SocketFails
<1>14. ASSUME NEW c \in Conns, SignalShutdown(c) PROVE TypeOK'
  BY <1>14 DEF SignalShutdown
<1>15. CASE UNCHANGED vars
  BY <1>15 DEF vars
<1> QED
  BY <1>1, <1>2, <1>3, <1>4, <1>5, <1>6, <1>7, <1>8, <1>9, <1>10, <1>11,
     <1>12, <1>13, <1>14, <1>15 DEF Next, ConnTask, RefreshTask, AllOver

(* The initial state has the right types. *)
LEMMA TypeInit == Init => TypeOK
BY DEF Init, TypeOK, PC

-----------------------------------------------------------------------------
(* No step leaves the registry naming a tunnel that cleaned up. *)
LEMMA ServedStep ==
  TypeOK /\ RegisteredIsServed /\ [Next]_vars => RegisteredIsServed'
<1> SUFFICES ASSUME TypeOK, RegisteredIsServed, [Next]_vars
             PROVE  RegisteredIsServed'
  OBVIOUS
<1> USE NoneAssumption DEF TypeOK, RegisteredIsServed
<1>1. ASSUME NEW c \in Conns, Handshake(c) PROVE RegisteredIsServed'
  BY <1>1 DEF Handshake
<1>2. ASSUME NEW c \in Conns, ReplaceOld(c) PROVE RegisteredIsServed'
  BY <1>2 DEF ReplaceOld
<1>3. ASSUME NEW c \in Conns, Insert(c) PROVE RegisteredIsServed'
  BY <1>3 DEF Insert
<1>4. ASSUME NEW c \in Conns, SendReady(c) PROVE RegisteredIsServed'
  BY <1>4 DEF SendReady
<1>5. ASSUME NEW c \in Conns, Announce(c) PROVE RegisteredIsServed'
  BY <1>5 DEF Announce
<1>6. ASSUME NEW c \in Conns, Pong(c) PROVE RegisteredIsServed'
  BY <1>6 DEF Pong
<1>7. ASSUME NEW c \in Conns, ExitLoop(c) PROVE RegisteredIsServed'
  BY <1>7 DEF ExitLoop
<1>8. ASSUME NEW c \in Conns, Unregister(c) PROVE RegisteredIsServed'
  BY <1>8 DEF Unregister
<1>9. ASSUME NEW c \in Conns, RemoveModels(c) \/ EmitOffline(c)
      PROVE  RegisteredIsServed'
  BY <1>9 DEF RemoveModels, EmitOffline
<1>10. ASSUME NEW c \in Conns,
              RefreshTask(c) \/ SignalShutdown(c) \/ SocketFails(c)
       PROVE  RegisteredIsServed'
  BY <1>10 DEF RefreshTask, FetchModels, UpsertModels, SignalShutdown,
               SocketFails
<1>11. CASE UNCHANGED vars
  BY <1>11 DEF vars
<1> QED
  BY <1>1, <1>2, <1>3, <1>4, <1>5, <1>6, <1>7, <1>8, <1>9, <1>10, <1>11
     DEF Next, ConnTask, AllOver

(* However many connections of a node overlap, requests are never routed   *)
(* to a tunnel that has already been through its cleanup.                  *)
THEOREM NoZombieEntry == Spec => []RegisteredIsServed
<1>1. Init => RegisteredIsServed
  BY DEF Init, RegisteredIsServed
<1> QED
  BY <1>1, TypeInit, TypeStep, ServedStep, PTL DEF Spec

-----------------------------------------------------------------------------
(* An "online" event always has an "offline" event still to come. *)
LEMMA OnlineStep == TypeOK /\ OnlineHasCleanup /\ [Next]_vars => OnlineHasCleanup'
<1> SUFFICES ASSUME TypeOK, OnlineHasCleanup, [Next]_vars
             PROVE  OnlineHasCleanup'
  OBVIOUS
<1> DEFINE Late == {"running", "exiting", "unregistered", "forgotten"}
<1> USE DEF TypeOK, OnlineHasCleanup
<1>1. ASSUME status' = status,
             \A d \in Conns : pc[d] \in Late => pc'[d] \in Late
      PROVE  OnlineHasCleanup'
  BY <1>1
<1>2. ASSUME NEW c \in Conns,
             \/ Handshake(c) \/ ReplaceOld(c) \/ Insert(c) \/ SendReady(c)
      PROVE  OnlineHasCleanup'
  BY <1>1, <1>2 DEF Handshake, ReplaceOld, Insert, SendReady
<1>3. ASSUME NEW c \in Conns, Announce(c) PROVE OnlineHasCleanup'
  BY <1>3 DEF Announce
<1>4. ASSUME NEW c \in Conns, Pong(c) PROVE OnlineHasCleanup'
  BY <1>4 DEF Pong
<1>5. ASSUME NEW c \in Conns, ExitLoop(c) \/ Unregister(c) \/ RemoveModels(c)
      PROVE  OnlineHasCleanup'
  BY <1>1, <1>5 DEF ExitLoop, Unregister, RemoveModels
<1>6. ASSUME NEW c \in Conns, EmitOffline(c) PROVE OnlineHasCleanup'
  BY <1>6 DEF EmitOffline
<1>7. ASSUME NEW c \in Conns,
             RefreshTask(c) \/ SignalShutdown(c) \/ SocketFails(c)
      PROVE  OnlineHasCleanup'
  BY <1>1, <1>7 DEF RefreshTask, FetchModels, UpsertModels, SignalShutdown,
                    SocketFails
<1>8. CASE UNCHANGED vars
  BY <1>1, <1>8 DEF vars
<1> QED
  BY <1>2, <1>3, <1>4, <1>5, <1>6, <1>7, <1>8 DEF Next, ConnTask, AllOver

(* Subscribers of the status events are never left with a node shown as    *)
(* online once all its connections are over.                               *)
THEOREM NoPhantomOnline == Spec => []OfflineComesLast
<1>1. Init => OnlineHasCleanup
  BY DEF Init, OnlineHasCleanup
<1>2. OnlineHasCleanup => OfflineComesLast
  BY DEF OnlineHasCleanup, OfflineComesLast, Gone
<1> QED
  BY <1>1, <1>2, TypeInit, TypeStep, OnlineStep, PTL DEF Spec

-----------------------------------------------------------------------------
(* The pinger *)

(* The initial state has the right types. *)
LEMMA PingerTypeInit == PingerInit => PingerTypeOK
BY TimingAssumption DEF PingerInit, PingerTypeOK

(* Every variable keeps its type at every step. *)
LEMMA PingerTypeStep == PingerTypeOK /\ [PingerNext]_pingerVars => PingerTypeOK'
<1> SUFFICES ASSUME PingerTypeOK, [PingerNext]_pingerVars PROVE PingerTypeOK'
  OBVIOUS
<1> USE TimingAssumption DEF PingerTypeOK
<1>1. CASE PingerTick
  BY <1>1 DEF PingerTick
<1>2. CASE PingerSend
  <2>1. out' \in Seq({"ping", "request"}) /\ Len(out') <= Cap
    BY <1>2 DEF PingerSend
  <2> QED
    BY <1>2, <2>1 DEF PingerSend
<1>3. CASE PingerStops
  BY <1>3 DEF PingerStops
<1>4. CASE Forward
  <2>1. out' \in Seq({"ping", "request"}) /\ Len(out') <= Cap
    BY <1>4 DEF Forward
  <2> QED
    BY <1>4, <2>1 DEF Forward
<1>5. CASE WriteFrame
  <2>1. out' \in Seq({"ping", "request"}) /\ Len(out') <= Cap
    BY <1>5 DEF WriteFrame
  <2> QED
    BY <1>5, <2>1 DEF WriteFrame
<1>6. CASE WriteFails
  BY <1>6 DEF WriteFails
<1>7. CASE TouchPong
  BY <1>7 DEF TouchPong
<1>8. CASE SocketPing \/ SocketPong \/ ReaderExits
  BY <1>8 DEF SocketPing, SocketPong, ReaderExits
<1>9. CASE Second
  BY <1>9 DEF Second
<1>10. CASE UNCHANGED pingerVars
  BY <1>10 DEF pingerVars
<1> QED
  BY <1>1, <1>2, <1>3, <1>4, <1>5, <1>6, <1>7, <1>8, <1>9, <1>10
     DEF PingerNext, Over

(* Type correctness; the outbound channel never exceeds its capacity. *)
THEOREM PingerTypeCorrect == PingerSpec => []PingerTypeOK
BY PingerTypeInit, PingerTypeStep, PTL DEF PingerSpec

-----------------------------------------------------------------------------
(* Only a tick moves the next check, and then by one interval from a       *)
(* moment at which the silence was within the limit.                       *)
LEMMA NextCheckStep ==
  PingerTypeOK /\ NextCheckInTime /\ [PingerNext]_pingerVars => NextCheckInTime'
<1> SUFFICES ASSUME PingerTypeOK, NextCheckInTime, [PingerNext]_pingerVars
             PROVE  NextCheckInTime'
  OBVIOUS
<1> USE TimingAssumption DEF PingerTypeOK, NextCheckInTime
<1>1. CASE PingerTick
  BY <1>1 DEF PingerTick, SilenceLimit
<1>2. CASE TouchPong
  <2>1. lastPong <= now
    OBVIOUS
  <2> QED
    BY <1>2, <2>1 DEF TouchPong
<1>3. ASSUME UNCHANGED <<nextTick, lastPong>>,
             tunnel' = "running" => tunnel = "running"
      PROVE  NextCheckInTime'
  BY <1>3
<1>4. CASE PingerSend \/ PingerStops \/ Forward \/ WriteFrame \/ WriteFails
  BY <1>3, <1>4 DEF PingerSend, PingerStops, Forward, WriteFrame, WriteFails
<1>5. CASE SocketPing \/ SocketPong \/ ReaderExits \/ Second \/ UNCHANGED pingerVars
  BY <1>3, <1>5 DEF SocketPing, SocketPong, ReaderExits, Second, pingerVars
<1> QED
  BY <1>1, <1>2, <1>4, <1>5 DEF PingerNext, Over

(* While the pinger keeps its schedule, a running tunnel heard from its    *)
(* node within two ping intervals and one pong timeout.                    *)
THEOREM SilentNodeFound == PingerSpec => []SilenceIsBounded
<1>1. PingerInit => NextCheckInTime
  BY TimingAssumption DEF PingerInit, NextCheckInTime
<1>2. PingerTypeOK /\ NextCheckInTime => SilenceIsBounded
  BY TimingAssumption DEF PingerTypeOK, NextCheckInTime, SilenceIsBounded
<1> QED
  BY <1>1, <1>2, PingerTypeInit, PingerTypeStep, NextCheckStep, PTL DEF PingerSpec

-----------------------------------------------------------------------------
(* A frame put at the end of the channel is there; one taken from its head *)
(* leaves the others.                                                      *)
LEMMA PingStays ==
  ASSUME PingerTypeOK
  PROVE  /\ \E i \in DOMAIN Append(out, "ping") : Append(out, "ping")[i] = "ping"
         /\ \A f \in {"ping", "request"} : PingUnanswered =>
              asked # -1 \/ \E i \in DOMAIN Append(out, f) : Append(out, f)[i] = "ping"
         /\ (out # <<>> /\ PingUnanswered /\ asked = -1 /\ Head(out) # "ping")
              => \E i \in DOMAIN Tail(out) : Tail(out)[i] = "ping"
<1> USE DEF PingerTypeOK, PingUnanswered
<1>1. \E i \in DOMAIN Append(out, "ping") : Append(out, "ping")[i] = "ping"
  <2>1. Append(out, "ping")[Len(out) + 1] = "ping"
    OBVIOUS
  <2> QED
    BY <2>1
<1>2. ASSUME NEW f \in {"ping", "request"}, NEW i \in DOMAIN out, out[i] = "ping"
      PROVE  \E j \in DOMAIN Append(out, f) : Append(out, f)[j] = "ping"
  <2>1. i \in DOMAIN Append(out, f) /\ Append(out, f)[i] = "ping"
    BY <1>2
  <2> QED
    BY <2>1
<1>3. ASSUME out # <<>>, Head(out) # "ping", NEW i \in DOMAIN out, out[i] = "ping"
      PROVE  \E j \in DOMAIN Tail(out) : Tail(out)[j] = "ping"
  <2>1. i # 1 /\ i \in 1 .. Len(out)
    BY <1>3
  <2>2. i - 1 \in DOMAIN Tail(out) /\ Tail(out)[i - 1] = "ping"
    BY <1>3, <2>1
  <2> QED
    BY <2>2
<1> QED
  BY <1>1, <1>2, <1>3

(* Only a pong answers a ping, and it makes the last pong the present. *)
LEMMA FreshStep ==
  PingerTypeOK /\ AnsweredIsFresh /\ [PingerNext]_pingerVars => AnsweredIsFresh'
<1> SUFFICES ASSUME PingerTypeOK, AnsweredIsFresh, [PingerNext]_pingerVars
             PROVE  AnsweredIsFresh'
  OBVIOUS
<1> USE TimingAssumption DEF PingerTypeOK, AnsweredIsFresh
<1>1. ASSUME UNCHANGED <<now, nextTick, lastPong>>,
             tunnel' = "running" => tunnel = "running",
             pinger' = "waiting" => pinger = "waiting",
             writer' = "up" => writer = "up",
             writer' = "up" /\ PingUnanswered => PingUnanswered'
      PROVE  AnsweredIsFresh'
  BY <1>1
<1>2. CASE PingerTick
  BY <1>2 DEF PingerTick
<1>3. CASE PingerSend
  <2>1. PingUnanswered'
    BY <1>3, PingStays DEF PingerSend, PingUnanswered
  <2> QED
    BY <1>3, <2>1 DEF PingerSend
<1>4. CASE Forward
  <2>1. PingUnanswered => PingUnanswered'
    BY <1>4, PingStays DEF Forward, PingUnanswered
  <2> QED
    BY <1>1, <1>4, <2>1 DEF Forward
<1>5. CASE WriteFrame
  <2>1. PingUnanswered => PingUnanswered'
    <3>1. CASE asked # -1
      BY <1>5, <3>1 DEF WriteFrame, PingUnanswered
    <3>2. CASE Head(out) = "ping" /\ asked = -1
      <4>1. asked' = now /\ now # -1
        BY <1>5, <3>2 DEF WriteFrame
      <4> QED
        BY <4>1 DEF PingUnanswered
    <3>3. CASE Head(out) # "ping" /\ asked = -1
      <4>1. PingUnanswered => \E i \in DOMAIN out' : out'[i] = "ping"
        BY <1>5, <3>3, PingStays DEF WriteFrame
      <4> QED
        BY <4>1 DEF PingUnanswered
    <3> QED
      BY <3>1, <3>2, <3>3
  <2> QED
    BY <1>1, <1>5, <2>1 DEF WriteFrame
<1>6. CASE WriteFails
  BY <1>6 DEF WriteFails
<1>7. CASE TouchPong
  BY <1>7 DEF TouchPong
<1>8. CASE PingerStops \/ SocketPing \/ SocketPong \/ ReaderExits \/ UNCHANGED pingerVars
  BY <1>1, <1>8 DEF PingerStops, SocketPing, SocketPong, ReaderExits, pingerVars,
                    PingUnanswered
<1>9. CASE Second
  <2>1. PingUnanswered' <=> PingUnanswered
    BY <1>9 DEF Second, PingUnanswered
  <2> QED
    BY <1>9, <2>1 DEF Second
<1> QED
  BY <1>2, <1>3, <1>4, <1>5, <1>6, <1>7, <1>8, <1>9 DEF PingerNext, Over

(* For every interval and timeout, the pinger gives a node up only while a *)
(* ping is unanswered or after the writer failed.                          *)
THEOREM AnsweringNodeKept == PingerSpec => SilentMeansUnanswered
<1>1. PingerInit => AnsweredIsFresh
  BY TimingAssumption DEF PingerInit, AnsweredIsFresh
<1>2. PingerTypeOK /\ AnsweredIsFresh /\ [PingerNext]_pingerVars
        => [(tunnel = "running" /\ tunnel' = "closing" /\ writer = "up")
              => PingUnanswered]_pingerVars
  <2> SUFFICES ASSUME PingerTypeOK, AnsweredIsFresh, [PingerNext]_pingerVars,
                      tunnel = "running", tunnel' = "closing", writer = "up",
                      ~PingUnanswered
               PROVE  FALSE
    OBVIOUS
  <2>1. PingerTick /\ now - lastPong > SilenceLimit /\ pinger = "waiting"
    BY DEF PingerNext, Over, PingerTick, PingerSend, PingerStops, Forward,
           WriteFrame, WriteFails, TouchPong, SocketPing, SocketPong,
           ReaderExits, Second, pingerVars
  <2>2. now <= lastPong + PingInterval
    BY <2>1, TimingAssumption DEF AnsweredIsFresh, PingerTypeOK
  <2> QED
    BY <2>1, <2>2, TimingAssumption DEF SilenceLimit, PingerTypeOK
<1> QED
  BY <1>1, <1>2, PingerTypeInit, PingerTypeStep, FreshStep, PTL
     DEF PingerSpec, SilentMeansUnanswered
=============================================================================
