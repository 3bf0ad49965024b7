----------------------------- MODULE Telemetry ------------------------------
(***************************************************************************)
(* What subscribers of GET /status/subscribe are told: chat_completions    *)
(* (src/consumer/forward.rs) over admission control, the telemetry bus     *)
(* (src/telemetry/mod.rs), the node's tunnel as far as it sends events     *)
(* (src/tunnel) and the subscriber's task (src/status/subscribe.rs).       *)
(*                                                                         *)
(* One (node, model), whose connections follow one another (a reconnect    *)
(* that overtakes a live tunnel is in Tunnel).  Admission control is the   *)
(* semaphore of Admission, which Capacity implements.                      *)
(*                                                                         *)
(* The bus is a tokio broadcast channel: it keeps the last Cap events, and *)
(* a receiver that fell further behind is told so and goes on with the     *)
(* oldest event kept.  queue[s] is what s has not received of them.        *)
(*                                                                         *)
(* emit_model_capacity reads the counters and sends what it read, in two   *)
(* steps between which other requests run.  Changes of active_requests are *)
(* numbered; a reading is the number of the last change it reflects.  A    *)
(* request that enters or leaves the queue reports nothing by itself.      *)
(***************************************************************************)
EXTENDS Integers, Sequences, FiniteSets

CONSTANTS
  Requests,       \* calls of chat_completions for the model
  Streaming,      \* those with "stream": true
  Concurrencies,  \* the limits the catalog may report for the model
  Subscribers,    \* sockets of GET /status/subscribe
  Cap,            \* TELEMETRY_CHANNEL_CAPACITY (256)
  Stale,          \* [portal].stale_threshold_secs
  Ages,           \* ages of the last pong that a snapshot may find
  MaxLives,       \* bound: connections of the node
  MaxPongs        \* bound: pongs that are reported

ASSUME TelemetryAssumption ==
  /\ IsFiniteSet(Requests) /\ Streaming \subseteq Requests
  /\ Concurrencies \subseteq Nat /\ Ages \subseteq Nat
  /\ {Cap, Stale} \subseteq Nat \ {0}
  /\ {MaxLives, MaxPongs} \subseteq Nat

VARIABLES
  stage, limit, forgotten,  \* admission control
  pc,       \* per request: where its handler is
  reading,  \* per request: the counters as emit_model_capacity read them
  changes,  \* changes of the counters so far
  owed,     \* the last change whose author reports it
  tunnel,   \* the node's tunnel
  lives,    \* connections of the node so far
  pongs,    \* pongs reported so far
  task,     \* per subscriber: where its task is
  queue,    \* per subscriber: events kept for it
  missed,   \* per subscriber: events were dropped since its last recv
  lagged,   \* per subscriber: it was told so at least once
  view      \* per subscriber: node status and reading shown, newest reading seen

admission == <<stage, limit, forgotten>>
handlers  == <<pc, reading, changes, owed>>
node      == <<tunnel, lives, pongs>>
bus       == <<queue, missed>>
clients   == <<task, lagged, view>>
vars      == <<admission, handlers, node, bus, clients>>

Semaphore == INSTANCE Admission

Blank == [status |-> "none", shown |-> 0, seen |-> 0]

Init ==
  /\ Semaphore!Init
  /\ pc = [r \in Requests |-> "idle"]
  /\ reading = [r \in Requests |-> 0]
  /\ changes = 0 /\ owed = 0
  /\ tunnel = "away" /\ lives = 0 /\ pongs = 0
  /\ task = [s \in Subscribers |-> "idle"]
  /\ queue = [s \in Subscribers |-> <<>>]
  /\ missed = [s \in Subscribers |-> FALSE]
  /\ lagged = [s \in Subscribers |-> FALSE]
  /\ view = [s \in Subscribers |-> Blank]

-----------------------------------------------------------------------------
(* The bus *)

(* Subscribers whose receiver exists. *)
Listeners == {s \in Subscribers : task[s] \notin {"idle", "closed"}}

(* TelemetryBus::emit: every receiver gets the event; one with Cap unread  *)
(* events loses the oldest.  With no receiver the event is gone.           *)
Send(e) ==
  /\ queue' = [s \in Subscribers |->
                 IF s \notin Listeners THEN queue[s]
                 ELSE IF Len(queue[s]) = Cap THEN Append(Tail(queue[s]), e)
                 ELSE Append(queue[s], e)]
  /\ missed' = [s \in Subscribers |->
                  missed[s] \/ (s \in Listeners /\ Len(queue[s]) = Cap)]

NodeStatus(st) == [topic |-> "node", status |-> st]
ModelCapacity(v) == [topic |-> "model", at |-> v]

(* What an event tells a subscriber that knew v. *)
Told(v, e) ==
  IF e.topic = "node"
    THEN [v EXCEPT !.status = e.status]
    ELSE [v EXCEPT !.shown = e.at, !.seen = IF e.at > @ THEN e.at ELSE @]

(* tunnel_status_for_pong, for a pong of this age. *)
TunnelStatusForPong(age) ==
  IF age <= Stale THEN "online" ELSE IF age <= 2 * Stale THEN "degraded" ELSE "offline"

Registered == tunnel \in {"registered", "up", "cleared"}

-----------------------------------------------------------------------------
(* chat_completions *)

(* Unknown model, or no tunnel: answered at once.  Otherwise the request   *)
(* asks for a place under the limit c that the catalog reports.            *)
Enter(r, c) ==
  /\ pc[r] = "idle"
  /\ \/ /\ Registered
        /\ Semaphore!Ask(r, c)
        /\ pc' = [pc EXCEPT ![r] = IF c = 0 THEN "noteStart" ELSE "asking"]
     \/ /\ pc' = [pc EXCEPT ![r] = "done"]
        /\ UNCHANGED admission
  /\ UNCHANGED <<reading, changes, owed, node, bus, clients>>

Admit(r) ==
  /\ pc[r] = "asking"
  /\ Semaphore!Admit(r)
  /\ changes' = changes + 1 /\ owed' = changes'
  /\ pc' = [pc EXCEPT ![r] = "noteStart"]
  /\ UNCHANGED <<reading, node, bus, clients>>

(* Answered with 429, or the client left the queue. *)
Reject(r) ==
  /\ pc[r] = "asking"
  /\ Semaphore!TurnAway(r)
  /\ pc' = [pc EXCEPT ![r] = "done"]
  /\ UNCHANGED <<reading, changes, owed, node, bus, clients>>

(* emit_model_capacity, first half: snapshot_with_concurrency. *)
ReadCount(r) ==
  /\ pc[r] \in {"noteStart", "noteEnd"}
  /\ reading' = [reading EXCEPT ![r] = changes]
  /\ pc' = [pc EXCEPT ![r] = IF @ = "noteStart" THEN "emitStart" ELSE "emitEnd"]
  /\ UNCHANGED <<admission, changes, owed, node, bus, clients>>

(* emit_model_capacity, second half. *)
EmitCount(r) ==
  /\ pc[r] \in {"emitStart", "emitEnd"}
  /\ Send(ModelCapacity(reading[r]))
  /\ reading' = [reading EXCEPT ![r] = 0]
  /\ pc' = [pc EXCEPT ![r] = IF @ = "emitStart" THEN "forward" ELSE "done"]
  /\ UNCHANGED <<admission, changes, owed, node, clients>>

(* The guard is dropped: a request without a limit holds no place. *)
DropGuard(r) ==
  /\ Semaphore!Leave(r)
  /\ changes' = IF limit[r] = 0 THEN changes ELSE changes + 1

(* The guard is dropped and the counters are about to be reported. *)
ReleaseAndNote(r) ==
  /\ DropGuard(r)
  /\ owed' = IF limit[r] = 0 THEN owed ELSE changes'
  /\ pc' = [pc EXCEPT ![r] = "noteEnd"]
  /\ UNCHANGED <<reading, node, bus, clients>>

(* forward_http_request: the frame is accepted, or the handler gives up. *)
Forward(r) ==
  /\ pc[r] = "forward"
  /\ \/ /\ pc' = [pc EXCEPT ![r] = "answer"]
        /\ UNCHANGED <<admission, reading, changes, owed, node, bus, clients>>
     \/ ReleaseAndNote(r)

(* Sensitivity: the counters are read before the guard is dropped. *)
FinishReadsEarly(r) ==
  /\ pc[r] = "answer"
  /\ DropGuard(r)
  /\ reading' = [reading EXCEPT ![r] = changes]
  /\ owed' = IF limit[r] = 0 THEN owed ELSE changes'
  /\ pc' = [pc EXCEPT ![r] = "emitEnd"]
  /\ UNCHANGED <<node, bus, clients>>

(* The answer ends, fails or times out; a stream also ends when the client *)
(* drops it: SseStreamCompletion releases the guard and reports.           *)
Finish(r) ==
  /\ pc[r] = "answer"
  /\ ReleaseAndNote(r)

(* The client leaves while the handler's future holds the guard: the guard *)
(* goes with it and nothing after the await runs.                          *)
Abandon(r) ==
  /\ pc[r] = "forward" \/ (pc[r] = "answer" /\ r \notin Streaming)
  /\ DropGuard(r)
  /\ pc' = [pc EXCEPT ![r] = "done"]
  /\ UNCHANGED <<reading, owed, node, bus, clients>>

-----------------------------------------------------------------------------
(* The node's tunnel, as far as it sends events *)

(* tunnels.insert, before the Ready frame is sent. *)
Register ==
  /\ tunnel \in {"away", "failed"} /\ lives < MaxLives
  /\ tunnel' = "registered" /\ lives' = lives + 1
  /\ UNCHANGED <<admission, handlers, pongs, bus, clients>>

(* The Ready frame fails: the entry goes and nobody is told. *)
ReadyFails ==
  /\ tunnel = "registered"
  /\ tunnel' = "failed"
  /\ UNCHANGED <<admission, handlers, lives, pongs, bus, clients>>

Announce ==
  /\ tunnel = "registered"
  /\ tunnel' = "up"
  /\ Send(NodeStatus("online"))
  /\ UNCHANGED <<admission, handlers, lives, pongs, clients>>

(* A pong was just stored: its age is 0. *)
Pong ==
  /\ tunnel = "up" /\ pongs < MaxPongs
  /\ pongs' = pongs + 1
  /\ Send(NodeStatus(TunnelStatusForPong(0)))
  /\ UNCHANGED <<admission, handlers, tunnel, lives, clients>>

(* The cleanup of run_tunnel_lifecycle: clear_node (a change of the        *)
(* counters nobody reports), then the registry, then the offline event.    *)
ClearNode ==
  /\ tunnel = "up"
  /\ tunnel' = "cleared"
  /\ Semaphore!Forget
  /\ changes' = changes + 1
  /\ UNCHANGED <<pc, reading, owed, lives, pongs, bus, clients>>

Unregister ==
  /\ tunnel = "cleared"
  /\ tunnel' = "removed"
  /\ UNCHANGED <<admission, handlers, lives, pongs, bus, clients>>

(* Sensitivity: the cleanup ends without an event. *)
EndUnreported ==
  /\ tunnel = "removed"
  /\ tunnel' = "away"
  /\ UNCHANGED <<admission, handlers, lives, pongs, bus, clients>>

EmitOffline ==
  /\ tunnel = "removed"
  /\ tunnel' = "away"
  /\ Send(NodeStatus("offline"))
  /\ UNCHANGED <<admission, handlers, lives, pongs, clients>>

-----------------------------------------------------------------------------
(* handle_subscribe *)

(* The task ends and its receiver goes. *)
Close(s) ==
  /\ task' = [task EXCEPT ![s] = "closed"]
  /\ queue' = [queue EXCEPT ![s] = <<>>]
  /\ missed' = [missed EXCEPT ![s] = FALSE]
  /\ lagged' = [lagged EXCEPT ![s] = FALSE]
  /\ view' = [view EXCEPT ![s] = Blank]
  /\ UNCHANGED <<admission, handlers, node>>

(* The credentials are accepted (else nothing happens) and the receiver is *)
(* created: from here on every event reaches it.                           *)
Subscribe(s) ==
  /\ task[s] = "idle"
  /\ task' = [task EXCEPT ![s] = "nodes"]
  /\ UNCHANGED <<admission, handlers, node, bus, lagged, view>>

(* send_snapshot reads the registry, then the counters ... *)
SnapshotNodes(s) ==
  /\ task[s] = "nodes"
  /\ IF Registered
       THEN \E age \in Ages :
              view' = [view EXCEPT ![s].status = TunnelStatusForPong(age)]
       ELSE UNCHANGED view
  /\ task' = [task EXCEPT ![s] = "counts"]
  /\ UNCHANGED <<admission, handlers, node, bus, lagged>>

SnapshotCounts(s) ==
  /\ task[s] = "counts"
  /\ view' = [view EXCEPT ![s].shown = changes, ![s].seen = changes]
  /\ task' = [task EXCEPT ![s] = "deliver"]
  /\ UNCHANGED <<admission, handlers, node, bus, lagged>>

(* Sensitivity: the receiver is created after the snapshot was read. *)
DeliverThenSubscribe(s) ==
  /\ task[s] = "deliver"
  /\ task' = [task EXCEPT ![s] = "listen"]
  /\ queue' = [queue EXCEPT ![s] = <<>>]
  /\ missed' = [missed EXCEPT ![s] = FALSE]
  /\ UNCHANGED <<admission, handlers, node, lagged, view>>

(* ... and sends the snapshot, or the socket fails and the task ends. *)
SnapshotDeliver(s) ==
  /\ task[s] = "deliver"
  /\ \/ /\ task' = [task EXCEPT ![s] = "listen"]
        /\ UNCHANGED <<admission, handlers, node, bus, lagged, view>>
     \/ Close(s)

(* rx.recv() returns an event; sending it on may fail. *)
Receive(s) ==
  /\ task[s] = "listen" /\ ~missed[s] /\ queue[s] # <<>>
  /\ \/ /\ view' = [view EXCEPT ![s] = Told(@, Head(queue[s]))]
        /\ queue' = [queue EXCEPT ![s] = Tail(@)]
        /\ UNCHANGED <<admission, handlers, node, missed, task, lagged>>
     \/ Close(s)

(* Sensitivity: a lagging receiver is not moved. *)
LaggedInPlace(s) ==
  /\ task[s] = "listen" /\ missed[s]
  /\ lagged' = [lagged EXCEPT ![s] = TRUE]
  /\ UNCHANGED <<admission, handlers, node, bus, task, view>>

(* RecvError::Lagged: the receiver goes on with the oldest event kept. *)
Lagged(s) ==
  /\ task[s] = "listen" /\ missed[s]
  /\ lagged' = [lagged EXCEPT ![s] = TRUE]
  /\ missed' = [missed EXCEPT ![s] = FALSE]
  /\ UNCHANGED <<admission, handlers, node, queue, task, view>>

(* The peer closes the socket, or reading it fails. *)
Unsubscribe(s) == task[s] = "listen" /\ Close(s)

(* A subscriber that has received all there is. *)
UpToDate(s) == task[s] = "listen" /\ queue[s] = <<>>

(* Nothing is left to do but to wait for events. *)
Idle ==
  /\ \A r \in Requests : pc[r] = "done"
  /\ tunnel \in {"away", "failed"} /\ lives = MaxLives
  /\ \A s \in Subscribers : task[s] \in {"idle", "closed"} \/ UpToDate(s)
  /\ UNCHANGED vars

Handle(r) ==
  \/ Admit(r) \/ Reject(r) \/ ReadCount(r) \/ EmitCount(r)
  \/ Forward(r) \/ Finish(r) \/ Abandon(r)
  \/ \E c \in Concurrencies : Enter(r, c)

Follow(s) ==
  \/ SnapshotNodes(s) \/ SnapshotCounts(s) \/ SnapshotDeliver(s)
  \/ Receive(s) \/ Lagged(s)

Next ==
  \/ \E r \in Requests : Handle(r)
  \/ \E s \in Subscribers : Subscribe(s) \/ Follow(s) \/ Unsubscribe(s)
  \/ Register \/ ReadyFails \/ Announce \/ Pong
  \/ ClearNode \/ Unregister \/ EmitOffline
  \/ Idle

Spec == Init /\ [][Next]_vars

(* The subscriber's task is scheduled and its peer reads. *)
FairSpec == Spec /\ \A s \in Subscribers : WF_vars(Follow(s))

-----------------------------------------------------------------------------
Statuses == {"none", "online", "degraded", "offline"}

(* Events and views in which the newest reading is at most n. *)
Event(n) == [topic : {"node"}, status : Statuses] \cup [topic : {"model"}, at : 0 .. n]
View(n)  == [status : Statuses, shown : 0 .. n, seen : 0 .. n]

(* Every variable has its type; no more than Cap events are kept, and a    *)
(* subscriber is shown no reading of a change that has not happened.       *)
TypeOK ==
  /\ stage \in [Requests -> {"new", "asking", "running", "over"}]
  /\ limit \in [Requests -> Concurrencies \cup {0}]
  /\ forgotten \in BOOLEAN
  /\ pc \in [Requests -> {"idle", "asking", "noteStart", "emitStart", "forward",
                          "answer", "noteEnd", "emitEnd", "done"}]
  /\ changes \in Nat /\ owed \in 0 .. changes
  /\ reading \in [Requests -> 0 .. changes]
  /\ tunnel \in {"away", "registered", "failed", "up", "cleared", "removed"}
  /\ lives \in 0 .. MaxLives /\ pongs \in 0 .. MaxPongs
  /\ task \in [Subscribers -> {"idle", "nodes", "counts", "deliver", "listen", "closed"}]
  /\ queue \in [Subscribers -> Seq(Event(changes))]
  /\ \A s \in Subscribers : Len(queue[s]) <= Cap
  /\ missed \in [Subscribers -> BOOLEAN] /\ lagged \in [Subscribers -> BOOLEAN]
  /\ view \in [Subscribers -> View(changes)]
  /\ \A s \in Subscribers : view[s].shown <= view[s].seen

(* A subscriber that is up to date and lost nothing. *)
Current(s) == UpToDate(s) /\ ~missed[s] /\ ~lagged[s]

(* A request that has changed the counters and not yet reported it. *)
Reporting(r) == pc[r] \in {"noteStart", "emitStart", "noteEnd", "emitEnd"}

(* No change is lost between snapshot and stream: a subscriber that lost   *)
(* nothing and has received everything was told, by its snapshot or by an  *)
(* event, counters as new as the last change whose author reports it, once *)
(* no report is under way.                                                 *)
EveryChangeIsTold ==
  \A s \in Subscribers :
    Current(s) /\ (\A r \in Requests : ~Reporting(r)) => view[s].seen >= owed

(* A node whose disconnect is complete is not left online in the view of a *)
(* subscriber that lost nothing, however its snapshot fell between the     *)
(* steps of the cleanup.                                                   *)
GoneNodeIsNotOnline ==
  \A s \in Subscribers :
    Current(s) /\ tunnel = "away" => view[s].status \in {"none", "offline"}

(* A subscriber that stays connected catches up with the bus again and     *)
(* again, however far it lagged.                                           *)
SubscriberCatchesUp ==
  \A s \in Subscribers : task[s] = "listen" ~> UpToDate(s) \/ task[s] = "closed"

-----------------------------------------------------------------------------
(* Strengthenings that make the invariants inductive (TelemetryProofs) *)

(* A socket that was not accepted yet has seen nothing. *)
Unopened ==
  \A s \in Subscribers :
    task[s] = "idle" =>
      queue[s] = <<>> /\ view[s] = Blank /\ ~missed[s] /\ ~lagged[s]

Lossless(s) == ~missed[s] /\ ~lagged[s]

(* The last thing s has been told, or will be once it has received what is *)
(* kept for it, does not leave the node online.                            *)
LearnsItIsGone(s) ==
  \E i \in 0 .. Len(queue[s]) :
    /\ IF i = 0 THEN view[s].status \in {"none", "offline"}
                ELSE queue[s][i] = NodeStatus("offline")
    /\ \A j \in i + 1 .. Len(queue[s]) : queue[s][j].topic = "model"

GoneInv ==
  \A s \in Listeners : Lossless(s) /\ tunnel = "away" => LearnsItIsGone(s)

(* r is about to read the counters, or to send a reading as new as owed. *)
Due(r) ==
  \/ pc[r] \in {"noteStart", "noteEnd"}
  \/ pc[r] \in {"emitStart", "emitEnd"} /\ reading[r] >= owed

(* s has been told counters as new as owed, or will be by an event that is *)
(* kept for it.                                                            *)
LearnsCounts(s) ==
  \/ view[s].seen >= owed
  \/ \E i \in 1 .. Len(queue[s]) : queue[s][i].topic = "model" /\ queue[s][i].at >= owed

CountInv ==
  \A s \in Subscribers :
    task[s] \in {"deliver", "listen"} /\ Lossless(s)
      => LearnsCounts(s) \/ \E r \in Requests : Due(r)

-----------------------------------------------------------------------------
(* Statements of the documentation that the code does not keep. *)

(* README.md:20, "Live active_requests / queued_requests counters are      *)
(* pushed on GET /status/subscribe WebSocket events": with no report under *)
(* way a subscriber that lost nothing shows the counters as they are.      *)
ShownCountIsLive ==
  \A s \in Subscribers :
    Current(s) /\ (\A r \in Requests : ~Reporting(r)) => view[s].shown >= owed

(* The same with the requests whose client left included. *)
AbandonedIsReported ==
  \A s \in Subscribers :
    Current(s) /\ ~forgotten /\ (\A r \in Requests : ~Reporting(r))
      => view[s].seen = changes

(* node_status events: a node that is not registered is not shown online   *)
(* to a subscriber that is up to date and lost nothing.                    *)
ShownStatusIsLive ==
  \A s \in Subscribers :
    Current(s) /\ tunnel \in {"away", "failed"} => view[s].status \in {"none", "offline"}

(* The same for a subscriber that lagged and has caught up since. *)
LaggardCatchesUp ==
  \A s \in Subscribers :
    UpToDate(s) /\ ~missed[s] /\ tunnel = "away" => view[s].status \in {"none", "offline"}
=============================================================================
