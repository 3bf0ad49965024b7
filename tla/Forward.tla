------------------------------ MODULE Forward -------------------------------
(***************************************************************************)
(* One tunnel and the requests forwarded through it: the pending map and   *)
(* its bounded channels (src/tunnel/dispatch.rs), the two ways an answer   *)
(* reaches the client (src/consumer/sse.rs), the end of chat_completions   *)
(* (src/consumer/forward.rs), session activation                           *)
(* (src/consumer/activate.rs) and the fetch of a node's model list         *)
(* (src/consumer/models.rs).                                               *)
(*                                                                         *)
(* The node answers a request with response, chunk 1 .. Chunks and end, or *)
(* with an error at any point.  Some chunks of a stream report usage (the  *)
(* usage event, receipt checkpoints); a collected answer is one JSON text, *)
(* of which only the whole can be read.  An activation is answered with    *)
(* its key or an error.  Frames of one request arrive in order.  A         *)
(* streamed answer goes through a bridge task and a second bounded channel *)
(* to the response body, which advances only when the client reads; the    *)
(* others are received by their caller.                                    *)
(***************************************************************************)
EXTENDS Integers, Sequences

CONSTANTS
  Requests,  \* requests sent through the tunnel
  Mixes,     \* what they may be, together
  Chunks,    \* chunks of an answer
  Receipts,  \* those that report usage in a stream
  Cap        \* capacity of the mpsc channels (256)

(* chat_completions without and with "stream": true, activate_session,     *)
(* fetch_models_from_tunnel                                                *)
Kinds == {"collect", "stream", "activate", "fetch"}

ASSUME SizesAssumption ==
  /\ Mixes \subseteq [Requests -> Kinds]
  /\ Chunks \in Nat \ {0} /\ Receipts \subseteq 1 .. Chunks
  /\ Cap \in Nat \ {0}

VARIABLES
  kind,     \* per request: what it is
  tunnel,   \* "up"; "failed": fail_all_pending ran, the writer still holds
            \* the outbound receiver; "down": the receiver is dropped
  pending,  \* rids in NodeTunnel.pending
  chan,     \* per request: frames in the channel of its pending entry
  bridge,   \* per request: frames between bridge task and response body
  task,     \* per request: its bridge task, which holds the PendingRequest
  node,     \* per request: frames the node has sent, -1 before it was asked
  pc,       \* per request: where handler or response body is
  body,     \* per request: chunks handed to the client
  outcome,  \* per request: how it ended for the client
  fired,    \* per request: SseStreamCompletion.fired / usage step reached
  calls,    \* per request: calls of on_complete or record_parsed_usage
  metered   \* per request: chunks whose report was handed to the batcher

vars == <<kind, tunnel, pending, chan, bridge, task, node, pc, body, outcome,
          fired, calls, metered>>

(* Frames are numbered in the order the node sends them. *)
Response == 0
End      == Chunks + 1
Error    == Chunks + 2
Granted  == Chunks + 3  \* ActivateResponse
Terminal == {End, Error, Granted}
Frames   == 0 .. Granted
IsChunk(f) == f \in 1 .. Chunks

(* extract_usage_from_sse_body: what the accumulated events report, be the *)
(* stream complete or not.  The tokens are those of the last usage event,  *)
(* or of a later, larger receipt.                                          *)
UsageInEvents(b) == {f \in Receipts : \E i \in DOMAIN b : b[i] = f}

(* extract_usage_from_body: JSON that is not complete does not parse. *)
UsageInBody(b) == IF Len(b) = Chunks THEN 1 .. Chunks ELSE {}

Streaming == {r \in Requests : kind[r] = "stream"}

(* A bridge task is not running, receives, or sends the frame it names. *)
Off       == -2
Receiving == -1
Bridging(r) == task[r] # Off

Init ==
  /\ kind \in Mixes
  /\ tunnel = "up" /\ pending = {}
  /\ chan = [r \in Requests |-> <<>>] /\ bridge = [r \in Requests |-> <<>>]
  /\ task = [r \in Requests |-> Off]
  /\ node = [r \in Requests |-> -1]
  /\ pc = [r \in Requests |-> "idle"]
  /\ body = [r \in Requests |-> <<>>]
  /\ outcome = [r \in Requests |-> "none"]
  /\ fired = [r \in Requests |-> FALSE]
  /\ calls = [r \in Requests |-> 0]
  /\ metered = [r \in Requests |-> {}]

-----------------------------------------------------------------------------
(* Dispatch *)

(* register_pending, with the Arc of the tunnel taken from the registry    *)
(* earlier: the tunnel may have failed meanwhile.                          *)
Register(r) ==
  /\ pc[r] = "idle"
  /\ pending' = pending \cup {r}
  /\ pc' = [pc EXCEPT ![r] = "send"]
  /\ UNCHANGED <<kind, tunnel, chan, bridge, task, node, body, outcome, fired,
                 calls, metered>>

(* send_frame: an error once the outbound receiver is gone; a frame        *)
(* accepted after the writer was aborted reaches nobody.                   *)
SendRequest(r) ==
  /\ pc[r] = "send"
  /\ IF tunnel = "down"
       THEN /\ pending' = pending \ {r}
            /\ outcome' = [outcome EXCEPT ![r] = "error"]
            /\ pc' = [pc EXCEPT ![r] = "done"]
            /\ UNCHANGED <<node, task>>
       ELSE /\ node' = [node EXCEPT ![r] = IF tunnel = "up" THEN 0 ELSE -1]
            /\ task' = [task EXCEPT ![r] = IF r \in Streaming THEN Receiving ELSE Off]
            /\ pc' = [pc EXCEPT ![r] = "recv"]
            /\ UNCHANGED <<pending, outcome>>
  /\ UNCHANGED <<kind, tunnel, chan, bridge, body, fired, calls, metered>>

(* Sensitivity: a channel without a bound. *)
OfferUnbounded(q, f) == Append(q, f)

Offer(q, f) == IF Len(q) < Cap THEN Append(q, f) ELSE q

(* Sensitivity: a frame that does not fit is dropped, its entry kept. *)
RouteKeepsEntry(r, f) ==
  IF r \notin pending THEN UNCHANGED <<pending, chan>>
  ELSE /\ chan' = [chan EXCEPT ![r] = Offer(@, f)]
       /\ pending' = IF f \in Terminal THEN pending \ {r} ELSE pending

(* route_inbound: a terminal frame removes the entry and is offered to the *)
(* channel; another frame that does not fit removes the entry.             *)
Route(r, f) ==
  IF r \notin pending THEN UNCHANGED <<pending, chan>>
  ELSE /\ chan' = [chan EXCEPT ![r] = Offer(@, f)]
       /\ pending' = IF f \in Terminal \/ Len(chan[r]) >= Cap
                       THEN pending \ {r} ELSE pending

NodeFrame(r, f) ==
  /\ tunnel = "up"
  /\ node[r] \in 0 .. End
  /\ f \in {IF kind[r] = "activate" THEN Granted ELSE node[r], Error}
  /\ node' = [node EXCEPT ![r] = IF f \in Terminal THEN Error ELSE f + 1]
  /\ Route(r, f)
  /\ UNCHANGED <<kind, tunnel, bridge, task, pc, body, outcome, fired, calls,
                 metered>>

(* fail_all_pending: at the end of the tunnel, or earlier, by the          *)
(* connection that replaces it while its own loop still runs.              *)
FailAllPending ==
  /\ tunnel = "up"
  /\ tunnel' \in {"up", "failed"}
  /\ chan' = [r \in Requests |-> IF r \in pending THEN Offer(chan[r], Error)
                                                 ELSE chan[r]]
  /\ pending' = {}
  /\ UNCHANGED <<kind, bridge, task, node, pc, body, outcome, fired, calls,
                 metered>>

(* The aborted writer task is dropped, and the outbound receiver with it. *)
DropWriter ==
  /\ tunnel = "failed"
  /\ tunnel' = "down"
  /\ UNCHANGED <<kind, pending, chan, bridge, task, node, pc, body, outcome,
                 fired, calls, metered>>

-----------------------------------------------------------------------------
(* collect_http_response and the end of chat_completions *)

(* A successful chat completion is searched for usage. *)
Meter(r, how) ==
  LET chat == how = "ok" /\ kind[r] = "collect" IN
  /\ calls' = [calls EXCEPT ![r] = IF chat THEN @ + 1 ELSE @]
  /\ metered' = [metered EXCEPT ![r] = IF chat THEN UsageInBody(body[r]) ELSE {}]

(* Sensitivity: no PendingCleanup, only terminal frames remove an entry. *)
AnswerWithoutCleanup(r, how) ==
  /\ pc' = [pc EXCEPT ![r] = "done"]
  /\ outcome' = [outcome EXCEPT ![r] = how]
  /\ Meter(r, how)
  /\ UNCHANGED pending

(* The caller returns, and PendingRequest is dropped. *)
Answer(r, how) ==
  /\ pc' = [pc EXCEPT ![r] = "done"]
  /\ outcome' = [outcome EXCEPT ![r] = how]
  /\ pending' = pending \ {r}
  /\ Meter(r, how)

(* A model list is parsed at its end, which fails unless it is complete. *)
FetchedList(r) == IF Len(body[r]) = Chunks THEN "ok" ELSE "error"

(* An activation succeeds with its key, at no other frame. *)
ActivationAt(f) == IF f = Granted THEN "ok" ELSE "error"

(* The loop over the channel ends, at an end frame or because the channel  *)
(* is closed.                                                              *)
AtEnd(r) ==
  CASE kind[r] = "collect"  -> "ok"
    [] kind[r] = "fetch"    -> FetchedList(r)
    [] kind[r] = "activate" -> ActivationAt(End)

Collect(r) ==
  /\ pc[r] = "recv" /\ r \notin Streaming
  /\ \/ /\ chan[r] # <<>>
        /\ LET f == Head(chan[r]) IN
             /\ body' = [body EXCEPT ![r] = IF IsChunk(f) THEN Append(@, f) ELSE @]
             /\ \/ f = End /\ Answer(r, AtEnd(r))
                \/ f = Error /\ Answer(r, "error")
                \/ f = Granted /\ Answer(r, ActivationAt(f))
                \/ f \notin Terminal /\ UNCHANGED <<pc, outcome, pending, calls, metered>>
        /\ chan' = [chan EXCEPT ![r] = Tail(@)]
     \/ /\ chan[r] = <<>> /\ r \notin pending
        /\ Answer(r, AtEnd(r))
        /\ UNCHANGED <<chan, body>>
  /\ UNCHANGED <<kind, tunnel, bridge, task, node, fired>>

CollectTimeout(r) ==
  /\ pc[r] = "recv" /\ r \notin Streaming
  /\ Answer(r, "timeout")
  /\ UNCHANGED <<kind, tunnel, chan, bridge, task, node, body, fired>>

-----------------------------------------------------------------------------
(* sse_from_pending_with_guard *)

(* Sensitivity: a bridge that goes on listening to a closed channel. *)
BridgeNeverStops(r) ==
  /\ task[r] = Receiving
  /\ \/ /\ chan[r] # <<>>
        /\ task' = [task EXCEPT ![r] = Head(chan[r])]
        /\ chan' = [chan EXCEPT ![r] = Tail(@)]
     \/ /\ chan[r] = <<>> /\ r \notin pending
        /\ UNCHANGED <<task, chan>>
  /\ UNCHANGED <<kind, tunnel, pending, bridge, node, pc, body, outcome, fired,
                 calls, metered>>

(* The bridge task waits for a frame, or stops when the channel of its     *)
(* pending entry is closed and drained; stopping drops the PendingRequest. *)
BridgeRecv(r) ==
  /\ task[r] = Receiving
  /\ \/ /\ chan[r] # <<>>
        /\ task' = [task EXCEPT ![r] = Head(chan[r])]
        /\ chan' = [chan EXCEPT ![r] = Tail(@)]
     \/ /\ chan[r] = <<>> /\ r \notin pending
        /\ task' = [task EXCEPT ![r] = Off]
        /\ UNCHANGED chan
  /\ UNCHANGED <<kind, tunnel, pending, bridge, node, pc, body, outcome, fired,
                 calls, metered>>

(* It passes the frame on when there is room, or finds the body gone. *)
BridgeSend(r) ==
  /\ task[r] \in Frames
  /\ \/ /\ pc[r] # "done" /\ Len(bridge[r]) < Cap
        /\ bridge' = [bridge EXCEPT ![r] = Append(@, task[r])]
        /\ task' = [task EXCEPT ![r] = Receiving]
        /\ UNCHANGED pending
     \/ /\ pc[r] = "done"
        /\ task' = [task EXCEPT ![r] = Off]
        /\ pending' = pending \ {r}
        /\ UNCHANGED bridge
  /\ UNCHANGED <<kind, tunnel, chan, node, pc, body, outcome, fired, calls, metered>>

(* Sensitivity: the fired flag is set but not tested. *)
FireAgain(r, seen) ==
  /\ fired' = [fired EXCEPT ![r] = TRUE]
  /\ calls' = [calls EXCEPT ![r] = @ + 1]
  /\ metered' = [metered EXCEPT ![r] = UsageInEvents(seen)]

(* SseStreamCompletion::fire, at most once: capacity, then the callback. *)
Fire(r, seen) ==
  IF fired[r] THEN UNCHANGED <<fired, calls, metered>>
  ELSE /\ fired' = [fired EXCEPT ![r] = TRUE]
       /\ calls' = [calls EXCEPT ![r] = @ + 1]
       /\ metered' = [metered EXCEPT ![r] = UsageInEvents(seen)]

(* Sensitivity: the bill is closed by the first report, not by the end. *)
FiresAtReport(f) == f \in Receipts \cup {End}

(* The frame at which the loop itself completes the stream. *)
Fires(f) == f = End

(* The body advances by one frame because the client reads.  An end frame  *)
(* runs on to the end of the generator; an error event is yielded first.   *)
StreamFrame(r) ==
  /\ pc[r] = "recv" /\ r \in Streaming
  /\ bridge[r] # <<>>
  /\ bridge' = [bridge EXCEPT ![r] = Tail(@)]
  /\ LET f == Head(bridge[r]) IN
       /\ body' = [body EXCEPT ![r] = IF IsChunk(f) THEN Append(@, f) ELSE @]
       /\ pc' = [pc EXCEPT ![r] = CASE f = End -> "closing"
                                    [] f = Error -> "yielded"
                                    [] OTHER -> @]
       /\ outcome' = [outcome EXCEPT ![r] = CASE f = End -> "ok"
                                              [] f = Error -> "error"
                                              [] OTHER -> @]
       /\ IF Fires(f) THEN Fire(r, body[r]) ELSE UNCHANGED <<fired, calls, metered>>
  /\ UNCHANGED <<kind, tunnel, pending, chan, task, node>>

(* The bridge is gone without a terminal frame: the loop just ends. *)
StreamCut(r) ==
  /\ pc[r] = "recv" /\ r \in Streaming
  /\ bridge[r] = <<>> /\ ~Bridging(r)
  /\ outcome' = [outcome EXCEPT ![r] = "ok"]
  /\ pc' = [pc EXCEPT ![r] = "closing"]
  /\ UNCHANGED <<kind, tunnel, pending, chan, bridge, task, node, body, fired,
                 calls, metered>>

(* Sensitivity: the loop goes on after the error event. *)
StreamTimeoutGoesOn(r) ==
  /\ pc[r] = "recv" /\ r \in Streaming
  /\ outcome' = [outcome EXCEPT ![r] = "timeout"]
  /\ UNCHANGED <<kind, tunnel, pending, chan, bridge, task, node, pc, body,
                 fired, calls, metered>>

(* The deadline, noticed when the client reads: an error event. *)
StreamTimeout(r) ==
  /\ pc[r] = "recv" /\ r \in Streaming
  /\ outcome' = [outcome EXCEPT ![r] = "timeout"]
  /\ pc' = [pc EXCEPT ![r] = "yielded"]
  /\ UNCHANGED <<kind, tunnel, pending, chan, bridge, task, node, body, fired,
                 calls, metered>>

(* After the loop, at once or on the read that follows the error event:    *)
(* what has been reported so far is metered, whatever ended the loop.      *)
StreamEnd(r) ==
  /\ pc[r] \in {"closing", "yielded"}
  /\ Fire(r, body[r])
  /\ pc' = [pc EXCEPT ![r] = "done"]
  /\ UNCHANGED <<kind, tunnel, pending, chan, bridge, task, node, body, outcome>>

(* The client goes away.  A handler's future is dropped with its           *)
(* PendingRequest; a response body is dropped with its completion, which   *)
(* then reports no usage, and the bridge finds out later.                  *)
Cancel(r) ==
  /\ pc[r] \in {"send", "recv", "yielded"}
  /\ pc' = [pc EXCEPT ![r] = "done"]
  /\ outcome' = [outcome EXCEPT ![r] = IF @ = "none" THEN "cancelled" ELSE @]
  /\ IF r \in Streaming /\ pc[r] # "send"
       THEN Fire(r, <<>>) /\ UNCHANGED pending
       ELSE UNCHANGED <<fired, calls, metered>> /\ pending' = pending \ {r}
  /\ UNCHANGED <<kind, tunnel, chan, bridge, task, node, body>>

(* Nothing is left to run.  A bridge whose entry was registered after      *)
(* fail_all_pending and whose client left waits for ever: its entry holds  *)
(* the sender it waits on.                                                 *)
AllDone ==
  /\ tunnel = "down"
  /\ \A r \in Requests :
       pc[r] = "done" /\ (Bridging(r) => /\ task[r] = Receiving
                                         /\ chan[r] = <<>> /\ r \in pending)
  /\ UNCHANGED vars

Next ==
  \/ \E r \in Requests :
       \/ Register(r) \/ SendRequest(r)
       \/ \E f \in Frames : NodeFrame(r, f)
       \/ Collect(r) \/ CollectTimeout(r)
       \/ BridgeRecv(r) \/ BridgeSend(r)
       \/ StreamFrame(r) \/ StreamCut(r) \/ StreamTimeout(r)
       \/ StreamEnd(r) \/ Cancel(r)
  \/ FailAllPending \/ DropWriter \/ AllDone

Spec == Init /\ [][Next]_vars

(* Tasks run and the client reads; timers are not relied upon. *)
FairSpec ==
  /\ Spec
  /\ WF_vars(DropWriter)
  /\ \A r \in Requests :
       /\ WF_vars(SendRequest(r)) /\ WF_vars(Collect(r))
       /\ WF_vars(BridgeRecv(r)) /\ WF_vars(BridgeSend(r))
       /\ WF_vars(StreamFrame(r)) /\ WF_vars(StreamCut(r)) /\ WF_vars(StreamEnd(r))

-----------------------------------------------------------------------------
(* Every variable has its type; no channel exceeds its capacity. *)
TypeOK ==
  /\ kind \in Mixes /\ tunnel \in {"up", "failed", "down"}
  /\ pending \subseteq Requests
  /\ chan \in [Requests -> Seq(Frames)] /\ bridge \in [Requests -> Seq(Frames)]
  /\ \A r \in Requests : Len(chan[r]) <= Cap /\ Len(bridge[r]) <= Cap
  /\ task \in [Requests -> Off .. Granted]
  /\ node \in [Requests -> -1 .. Error]
  /\ pc \in [Requests -> {"idle", "send", "recv", "closing", "yielded", "done"}]
  /\ body \in [Requests -> Seq(1 .. Chunks)]
  /\ outcome \in [Requests -> {"none", "ok", "error", "timeout", "cancelled"}]
  /\ fired \in [Requests -> BOOLEAN]
  /\ calls \in [Requests -> Nat]
  /\ metered \in [Requests -> SUBSET (1 .. Chunks)]

(* The client never sees a gap: what it has received is a prefix of what   *)
(* the node sent, through full channels, disconnects and both hops.        *)
BodyIsPrefix ==
  \A r \in Requests : body[r] = [i \in 1 .. Len(body[r]) |-> i]

(* Every entry of the pending map is held: a handler or a bridge task has  *)
(* its PendingRequest, whose drop removes it.  And none outlives the       *)
(* failure of the pending requests but that of a request which registered  *)
(* too late for the node to be asked (EntryEndsWithUpstream is about the   *)
(* fate of such an entry).                                                 *)
PendingHasOwner ==
  \A r \in pending :
    /\ pc[r] \in {"send", "recv"} \/ Bridging(r)
    /\ tunnel # "up" => node[r] = -1

(* The completion of a stream runs exactly once, whichever of the end      *)
(* frame, the end of the loop and the drop of the body comes first.        *)
CompletesOnce ==
  \A r \in Requests :
    /\ calls[r] <= 1
    /\ (r \in Streaming /\ pc[r] = "done" /\ (Bridging(r) \/ node[r] >= 0))
         => calls[r] = 1

(* What the client of r owes for the chunks it was given: every report in  *)
(* a stream, however it ended; a collected answer only if it is whole.     *)
Due(r) ==
  IF r \in Streaming THEN Receipts \cap 1 .. Len(body[r])
  ELSE IF Len(body[r]) = Chunks THEN 1 .. Chunks ELSE {}

(* Metering agrees with delivery: nothing is metered but what is due for   *)
(* the chunks the client was given, all of it at once; and an answer that  *)
(* ended as a success is metered for all of it.                            *)
MeteredWasDelivered ==
  \A r \in Requests :
    /\ metered[r] \in {{}, Due(r)}
    /\ (outcome[r] = "ok" /\ calls[r] # 0) => metered[r] = Due(r)

(* A disconnect is not waited out: a request that lost its pending entry   *)
(* ends without the help of any timer.                                     *)
DisconnectIsNoticed ==
  \A r \in Requests :
    (tunnel # "up" /\ pc[r] = "recv" /\ r \notin pending) ~> pc[r] = "done"

(* The bill of a request is closed by its completion. *)
Closed == [r \in Requests |-> calls[r] # 0]

Promise == INSTANCE Answers WITH closed <- Closed, bill <- metered

(* The pending map, the channels, the bridge and the completion give each  *)
(* client the node's chunks in order and then one verdict that nothing     *)
(* follows, and close its bill at most once, for chunks it was given and   *)
(* for nothing if it left: every step is one of Answers, or changes        *)
(* nothing there.                                                          *)
ImplementsAnswers == Promise!Spec

-----------------------------------------------------------------------------
(* Strengthenings that make the invariants inductive (ForwardProofs) *)

(* Where a request has nothing yet, and who still looks after it. *)
Control(r) ==
  /\ pc[r] \in {"idle", "send"} => /\ task[r] = Off /\ node[r] = -1
                                  /\ bridge[r] = <<>> /\ body[r] = <<>>
  /\ pc[r] = "idle" => r \notin pending /\ chan[r] = <<>>
  /\ pc[r] = "send" /\ r \in pending => chan[r] = <<>>
  /\ pc[r] \in {"closing", "yielded"} => r \in Streaming
  /\ r \notin Streaming => task[r] = Off /\ bridge[r] = <<>>
  /\ r \notin Streaming /\ pc[r] = "done" => r \notin pending
  /\ r \in Streaming /\ r \in pending /\ pc[r] # "send" => Bridging(r)

(* The fired flag counts the completions of a stream, and a stream that    *)
(* ended without it was never asked for.                                   *)
Completion(r) ==
  /\ r \in Streaming => calls[r] = IF fired[r] THEN 1 ELSE 0
  /\ r \in Streaming /\ fired[r] => pc[r] \in {"closing", "done"}
  /\ r \notin Streaming => calls[r] = 0 \/ (calls[r] = 1 /\ pc[r] = "done")
  /\ r \in Streaming /\ pc[r] = "done" => fired[r] \/ (task[r] = Off /\ node[r] = -1)

(* Frames that are numbered by their order, which errors and keys are not. *)
Plain(f) == f \in 0 .. End
Numbered(q, b) == \A i \in 1 .. Len(q) : Plain(q[i]) => q[i] = b + i - 1

(* The frames of r under way continue at number b: first those between     *)
(* bridge and body, then the one the bridge holds, then those in the       *)
(* channel; and as long as its entry is there, the node's next frame.      *)
InOrder(r, b) ==
  LET held == b + Len(bridge[r])
      rest == IF task[r] \in Frames THEN held + 1 ELSE held
  IN  /\ Numbered(bridge[r], b)
      /\ Plain(task[r]) => task[r] = held
      /\ Numbered(chan[r], rest)
      /\ r \in pending /\ Plain(node[r]) => node[r] = rest + Len(chan[r])

(* Only activations are answered with a key. *)
NoKey(r) ==
  /\ task[r] # Granted
  /\ \A i \in 1 .. Len(bridge[r]) : bridge[r][i] # Granted
  /\ \A i \in 1 .. Len(chan[r]) : chan[r][i] # Granted

(* A body holds the chunks from the first one on, and while it may still   *)
(* grow, the frames under way follow what it has: the response, or the     *)
(* chunk after the last one.                                               *)
Order(r) ==
  /\ \A i \in 1 .. Len(body[r]) : body[r][i] = i
  /\ kind[r] # "activate" => NoKey(r)
  /\ pc[r] \in {"idle", "send", "recv"} =>
       \E b \in {0, Len(body[r]) + 1} : (b = 0 => body[r] = <<>>) /\ InOrder(r, b)

(* What was metered is due, and its body does not grow. *)
Metered(r) ==
  metered[r] # {} => pc[r] \in {"closing", "done"} /\ metered[r] = Due(r)

(* A request has its verdict when its loop has ended, not before; one that *)
(* was abandoned is over, and a success has been metered.                  *)
Ended(r) ==
  /\ outcome[r] = "none" <=> pc[r] \in {"idle", "send", "recv"}
  /\ outcome[r] = "cancelled" => pc[r] = "done"
  /\ pc[r] = "yielded" => outcome[r] # "ok"
  /\ (outcome[r] = "ok" /\ calls[r] # 0) => metered[r] = Due(r)

(* The node has not been asked for what is left in the map of a tunnel     *)
(* whose pending requests were failed.                                     *)
Unasked == \A r \in pending : tunnel # "up" => node[r] = -1

EndedInv == \A r \in Requests : Ended(r)

ForwardInv ==
  \A r \in Requests : Control(r) /\ Completion(r) /\ Order(r) /\ Metered(r)

-----------------------------------------------------------------------------
(* Statements of the documentation that the code does not keep. *)

(* docs/spec.md:281, "chunk payloads contain raw response body segments    *)
(* that the router concatenates into a normal JSON HTTP response": an      *)
(* answer delivered as a success is whole.                                 *)
SuccessIsWhole ==
  \A r \in Requests :
    (pc[r] = "done" /\ outcome[r] = "ok") => Len(body[r]) = Chunks

(* src/consumer/sse.rs:145, "Fire metering when the upstream tunnel ends,  *)
(* not when the HTTP client drains the response body": with the end frame  *)
(* already in the router, a finished stream has been metered.              *)
UpstreamEndIsMetered ==
  \A r \in Streaming :
    (pc[r] = "done" /\ \E i \in DOMAIN bridge[r] : bridge[r][i] = End)
      => metered[r] # {}

(* docs/spec.md:119, "In-flight requests that were pending at disconnect   *)
(* receive a 502 Bad Gateway": once the tunnel is down nobody is left      *)
(* waiting in its pending map.                                             *)
NobodyWaitsOnDeadTunnel ==
  tunnel = "down" => \A r \in pending : pc[r] # "recv"

(* src/consumer/sse.rs:133, "so `PendingRequest` stays registered until    *)
(* upstream closes": after that, the entry of a stream whose client is     *)
(* gone goes.  That of a request which registered after fail_all_pending   *)
(* never does: its bridge waits on the sender the entry itself holds.      *)
EntryEndsWithUpstream ==
  \A r \in Requests :
    (tunnel = "down" /\ pc[r] = "done" /\ r \in pending) ~> r \notin pending
=============================================================================
