-------------------------- MODULE TelemetryProofs ---------------------------
(* Proofs about what subscribers are told, for any requests, limits and    *)
(* subscribers, any capacity of the bus, any number of connections.        *)
EXTENDS Telemetry, TLAPS

-----------------------------------------------------------------------------
(* Types *)

Handlers ==
  /\ stage \in [Requests -> {"new", "asking", "running", "over"}]
  /\ limit \in [Requests -> Concurrencies \cup {0}]
  /\ forgotten \in BOOLEAN
  /\ pc \in [Requests -> {"idle", "asking", "noteStart", "emitStart", "forward",
                          "answer", "noteEnd", "emitEnd", "done"}]

Counters ==
  /\ changes \in Nat /\ owed \in 0 .. changes
  /\ reading \in [Requests -> 0 .. changes]

Places ==
  /\ tunnel \in {"away", "registered", "failed", "up", "cleared", "removed"}
  /\ lives \in 0 .. MaxLives /\ pongs \in 0 .. MaxPongs
  /\ task \in [Subscribers -> {"idle", "nodes", "counts", "deliver", "listen", "closed"}]

Queues ==
  /\ queue \in [Subscribers -> Seq(Event(changes))]
  /\ \A s \in Subscribers : Len(queue[s]) <= Cap
  /\ missed \in [Subscribers -> BOOLEAN] /\ lagged \in [Subscribers -> BOOLEAN]

Views ==
  /\ view \in [Subscribers -> View(changes)]
  /\ \A s \in Subscribers : view[s].shown <= view[s].seen

Types == Handlers /\ Counters /\ Places /\ Queues /\ Views

(* The type invariant, in parts. *)
LEMMA TypesAreTypes == Types <=> TypeOK
BY DEF Types, Handlers, Counters, Places, Queues, Views, TypeOK

(* Later readings include the earlier ones. *)
LEMMA LaterEvents ==
  ASSUME NEW m \in Nat, NEW n \in Nat, m <= n
  PROVE  /\ Event(m) \subseteq Event(n)
         /\ Seq(Event(m)) \subseteq Seq(Event(n))
         /\ View(m) \subseteq View(n)
<1>1. 0 .. m \subseteq 0 .. n
  OBVIOUS
<1>2. Event(m) \subseteq Event(n)
  BY <1>1 DEF Event
<1>3. Seq(Event(m)) \subseteq Seq(Event(n))
  BY <1>2
<1>4. View(m) \subseteq View(n)
  BY <1>1 DEF View
<1> QED
  BY <1>2, <1>3, <1>4

(* The events the router sends. *)
LEMMA EventTypes ==
  ASSUME NEW n \in Nat
  PROVE  /\ \A st \in Statuses : NodeStatus(st) \in Event(n)
         /\ \A v \in 0 .. n : ModelCapacity(v) \in Event(n)
         /\ \A e \in Event(n) : \/ e.topic = "node" /\ e.status \in Statuses
                                \/ e.topic = "model" /\ e.at \in 0 .. n
BY DEF NodeStatus, ModelCapacity, Event

(* Every step of the counters is upward. *)
LEMMA ChangesGrow ==
  Types /\ [Next]_vars => changes' \in Nat /\ changes <= changes'
<1> SUFFICES ASSUME Types, [Next]_vars
             PROVE  changes' \in Nat /\ changes <= changes'
  OBVIOUS
<1> USE DEF Types, Counters
<1>1. CASE changes' = changes \/ changes' = changes + 1
  BY <1>1
<1>2. ASSUME NEW r \in Requests, Handle(r)
      PROVE  changes' = changes \/ changes' = changes + 1
  BY <1>2 DEF Handle, Admit, Reject, ReadCount, EmitCount, Forward, Finish,
              Abandon, Enter, ReleaseAndNote, DropGuard
<1>3. ASSUME NEW s \in Subscribers, Subscribe(s) \/ Follow(s) \/ Unsubscribe(s)
      PROVE  changes' = changes
  BY <1>3 DEF Subscribe, Follow, Unsubscribe, SnapshotNodes, SnapshotCounts,
              SnapshotDeliver, Receive, Lagged, Close, handlers
<1>4. CASE \/ Register \/ ReadyFails \/ Announce \/ Pong \/ ClearNode
           \/ Unregister \/ EmitOffline \/ UNCHANGED vars
  BY <1>1, <1>4 DEF Register, ReadyFails, Announce, Pong, ClearNode, Unregister,
                    EmitOffline, handlers, vars
<1> QED
  BY <1>1, <1>2, <1>3, <1>4 DEF Next, Idle

(* Handlers stay in their stages. *)
LEMMA HandlersStep == Types /\ [Next]_vars => Handlers'
<1> SUFFICES ASSUME Types, [Next]_vars PROVE Handlers'
  OBVIOUS
<1> USE DEF Types, Handlers
<1>1. ASSUME NEW r \in Requests, NEW c \in Concurrencies, Enter(r, c)
      PROVE  Handlers'
  BY <1>1 DEF Enter, Semaphore!Ask, admission
<1>2. ASSUME NEW r \in Requests, Admit(r) \/ Reject(r) PROVE Handlers'
  BY <1>2 DEF Admit, Reject, Semaphore!Admit, Semaphore!TurnAway
<1>3. ASSUME NEW r \in Requests, ReadCount(r) \/ EmitCount(r) PROVE Handlers'
  BY <1>3 DEF ReadCount, EmitCount, admission
<1>4. ASSUME NEW r \in Requests, Forward(r) \/ Finish(r) \/ Abandon(r)
      PROVE  Handlers'
  BY <1>4 DEF Forward, Finish, Abandon, ReleaseAndNote, DropGuard,
              Semaphore!Leave, admission
<1>5. ASSUME NEW s \in Subscribers, Subscribe(s) \/ Follow(s) \/ Unsubscribe(s)
      PROVE  Handlers'
  BY <1>5 DEF Subscribe, Follow, Unsubscribe, SnapshotNodes, SnapshotCounts,
              SnapshotDeliver, Receive, Lagged, Close, handlers, admission
<1>6. CASE \/ Register \/ ReadyFails \/ Announce \/ Pong
           \/ Unregister \/ EmitOffline \/ UNCHANGED vars
  BY <1>6 DEF Register, ReadyFails, Announce, Pong, Unregister,
              EmitOffline, handlers, admission, vars
<1>7. CASE ClearNode
  BY <1>7 DEF ClearNode, Semaphore!Forget
<1> QED
  BY <1>1, <1>2, <1>3, <1>4, <1>5, <1>6, <1>7 DEF Next, Handle, Idle

(* Readings are of changes that have happened. *)
LEMMA CountersStep == Types /\ [Next]_vars => Counters'
<1> SUFFICES ASSUME Types, [Next]_vars PROVE Counters'
  OBVIOUS
<1>0. changes' \in Nat /\ changes <= changes'
  BY ChangesGrow
<1> USE <1>0 DEF Types, Counters
<1>1. ASSUME NEW r \in Requests, Handle(r) PROVE Counters'
  BY <1>1 DEF Handle, Admit, Reject, ReadCount, EmitCount, Forward, Finish,
              Abandon, Enter, ReleaseAndNote, DropGuard
<1>2. ASSUME NEW s \in Subscribers, Subscribe(s) \/ Follow(s) \/ Unsubscribe(s)
      PROVE  Counters'
  BY <1>2 DEF Subscribe, Follow, Unsubscribe, SnapshotNodes, SnapshotCounts,
              SnapshotDeliver, Receive, Lagged, Close, handlers
<1>3. CASE \/ Register \/ ReadyFails \/ Announce \/ Pong \/ ClearNode
           \/ Unregister \/ EmitOffline \/ UNCHANGED vars
  BY <1>3 DEF Register, ReadyFails, Announce, Pong, ClearNode, Unregister,
              EmitOffline, handlers, vars
<1> QED
  BY <1>1, <1>2, <1>3 DEF Next, Idle

(* The tunnel and the subscribers' tasks stay in their places. *)
LEMMA PlacesStep == Types /\ [Next]_vars => Places'
<1> SUFFICES ASSUME Types, [Next]_vars PROVE Places'
  OBVIOUS
<1> USE TelemetryAssumption DEF Types, Places
<1>1. ASSUME NEW r \in Requests, Handle(r) PROVE Places'
  BY <1>1 DEF Handle, Admit, Reject, ReadCount, EmitCount, Forward, Finish,
              Abandon, Enter, ReleaseAndNote, node, clients
<1>2. ASSUME NEW s \in Subscribers, Subscribe(s) \/ Follow(s) \/ Unsubscribe(s)
      PROVE  Places'
  BY <1>2 DEF Subscribe, Follow, Unsubscribe, SnapshotNodes, SnapshotCounts,
              SnapshotDeliver, Receive, Lagged, Close, node
<1>3. CASE \/ Register \/ ReadyFails \/ Announce \/ Pong \/ ClearNode
           \/ Unregister \/ EmitOffline \/ UNCHANGED vars
  BY <1>3 DEF Register, ReadyFails, Announce, Pong, ClearNode, Unregister,
              EmitOffline, node, clients, vars
<1> QED
  BY <1>1, <1>2, <1>3 DEF Next, Idle

(* TelemetryBus::emit keeps to the capacity of the channel. *)
LEMMA SendTypes ==
  ASSUME Types, NEW e \in Event(changes), Send(e), NEW s \in Subscribers
  PROVE  /\ queue'[s] \in Seq(Event(changes))
         /\ Len(queue'[s]) <= Cap
         /\ missed'[s] \in BOOLEAN
<1> DEFINE E == Event(changes)
<1>1. queue[s] \in Seq(E) /\ Len(queue[s]) <= Cap /\ Cap \in Nat \ {0}
  BY TelemetryAssumption DEF Types, Queues
<1>2. queue'[s] = IF s \notin Listeners THEN queue[s]
                  ELSE IF Len(queue[s]) = Cap THEN Append(Tail(queue[s]), e)
                  ELSE Append(queue[s], e)
  BY DEF Send
<1>3. missed'[s] \in BOOLEAN
  BY DEF Send
<1>4. e \in E
  OBVIOUS
<1> HIDE DEF E
<1>5. CASE s \in Listeners /\ Len(queue[s]) = Cap
  <2>1. Tail(queue[s]) \in Seq(E) /\ Len(Tail(queue[s])) = Cap - 1
    BY <1>1, <1>5
  <2> QED
    BY <1>1, <1>2, <1>3, <1>4, <1>5, <2>1 DEF E
<1>6. CASE s \in Listeners /\ Len(queue[s]) # Cap
  BY <1>1, <1>2, <1>3, <1>4, <1>6 DEF E
<1>7. CASE s \notin Listeners
  BY <1>1, <1>2, <1>3, <1>7 DEF E
<1> QED
  BY <1>5, <1>6, <1>7

(* What Send leaves is a set of queues again. *)
LEMMA SendQueues ==
  ASSUME Types, NEW e \in Event(changes), Send(e),
         changes' = changes, lagged' = lagged
  PROVE  Queues'
<1>1. \A s \in Subscribers : queue'[s] \in Seq(Event(changes)) /\ Len(queue'[s]) <= Cap
  BY SendTypes
<1>2. queue' \in [Subscribers -> Seq(Event(changes))]
  BY <1>1 DEF Send
<1>3. missed' \in [Subscribers -> BOOLEAN]
  BY Zenon DEF Send, Types, Queues
<1> QED
  BY <1>1, <1>2, <1>3 DEF Types, Queues

(* The queues stay queues of events, also while changes are counted. *)
LEMMA SameQueues ==
  ASSUME Types, changes' \in Nat, changes <= changes', UNCHANGED <<bus, lagged>>
  PROVE  Queues'
<1>1. Seq(Event(changes)) \subseteq Seq(Event(changes'))
  BY LaterEvents DEF Types, Counters
<1>2. queue' \in [Subscribers -> Seq(Event(changes'))]
  BY <1>1 DEF Types, Queues, bus
<1> QED
  BY <1>2 DEF Types, Queues, bus

(* A task that ends leaves nothing behind. *)
LEMMA CloseQueues ==
  ASSUME Types, NEW s \in Subscribers, Close(s)
  PROVE  Queues'
<1>1. changes' = changes
  BY DEF Close, handlers
<1>2. queue' \in [Subscribers -> Seq(Event(changes))]
  BY DEF Close, Types, Queues
<1>3. \A t \in Subscribers : Len(queue'[t]) <= Cap
  BY TelemetryAssumption DEF Close, Types, Queues
<1>4. missed' \in [Subscribers -> BOOLEAN] /\ lagged' \in [Subscribers -> BOOLEAN]
  BY DEF Close, Types, Queues
<1> QED
  BY <1>1, <1>2, <1>3, <1>4 DEF Queues

(* No queue outgrows the channel. *)
LEMMA QueuesStep == Types /\ [Next]_vars => Queues'
<1> SUFFICES ASSUME Types, [Next]_vars PROVE Queues'
  OBVIOUS
<1>0. changes' \in Nat /\ changes <= changes' /\ changes \in Nat
  BY ChangesGrow DEF Types, Counters
<1>1. ASSUME UNCHANGED <<bus, lagged>> PROVE Queues'
  BY <1>0, <1>1, SameQueues
<1>2. ASSUME NEW r \in Requests, EmitCount(r) PROVE Queues'
  <2>1. ModelCapacity(reading[r]) \in Event(changes)
    BY <1>0, EventTypes DEF Types, Counters
  <2> QED
    BY <1>2, <2>1, SendQueues DEF EmitCount, clients
<1>3. ASSUME NEW r \in Requests, Handle(r), ~EmitCount(r) PROVE Queues'
  BY <1>1, <1>3 DEF Handle, Admit, Reject, ReadCount, Forward, Finish,
                    Abandon, Enter, ReleaseAndNote, clients
<1>4. CASE Announce \/ Pong \/ EmitOffline
  <2>1. \A st \in Statuses : NodeStatus(st) \in Event(changes)
    BY <1>0, EventTypes
  <2>2. TunnelStatusForPong(0) \in Statuses
    BY TelemetryAssumption DEF TunnelStatusForPong, Statuses
  <2>3. "online" \in Statuses /\ "offline" \in Statuses
    BY DEF Statuses
  <2> QED
    BY <1>4, <2>1, <2>2, <2>3, SendQueues
       DEF Announce, Pong, EmitOffline, clients, handlers
<1>5. CASE Register \/ ReadyFails \/ ClearNode \/ Unregister \/ UNCHANGED vars
  BY <1>1, <1>5 DEF Register, ReadyFails, ClearNode, Unregister, clients, vars
<1>6. ASSUME NEW s \in Subscribers, Close(s) PROVE Queues'
  BY <1>6, CloseQueues
<1>7. ASSUME NEW s \in Subscribers, Receive(s) PROVE Queues'
  <2>1. CASE Close(s)
    BY <1>6, <2>1
  <2>2. CASE ~Close(s)
    <3>1. /\ queue' = [queue EXCEPT ![s] = Tail(@)] /\ queue[s] # <<>>
          /\ UNCHANGED <<missed, lagged, changes>>
      BY <1>7, <2>2 DEF Receive, handlers
    <3>2. queue \in [Subscribers -> Seq(Event(changes))]
      BY DEF Types, Queues
    <3>3. Tail(queue[s]) \in Seq(Event(changes)) /\ Len(Tail(queue[s])) <= Len(queue[s])
      BY <3>1, <3>2
    <3>4. queue' \in [Subscribers -> Seq(Event(changes))]
      BY <3>1, <3>2, <3>3
    <3>5. \A t \in Subscribers : Len(queue'[t]) <= Cap
      BY <3>1, <3>2, <3>3, TelemetryAssumption DEF Types, Queues
    <3> QED
      BY <3>1, <3>4, <3>5 DEF Types, Queues
  <2> QED
    BY <2>1, <2>2
<1>8. ASSUME NEW s \in Subscribers, Lagged(s) PROVE Queues'
  BY <1>8 DEF Lagged, handlers, Types, Queues
<1>9. ASSUME NEW s \in Subscribers,
             Subscribe(s) \/ SnapshotNodes(s) \/ SnapshotCounts(s)
      PROVE  Queues'
  BY <1>1, <1>9 DEF Subscribe, SnapshotNodes, SnapshotCounts
<1>10. ASSUME NEW s \in Subscribers, SnapshotDeliver(s) \/ Unsubscribe(s)
       PROVE  Queues'
  BY <1>1, <1>6, <1>10 DEF SnapshotDeliver, Unsubscribe
<1> QED
  BY <1>2, <1>3, <1>4, <1>5, <1>7, <1>8, <1>9, <1>10 DEF Next, Follow, Idle

(* A view of what has happened stays one. *)
LEMMA SameViews ==
  ASSUME Types, changes' \in Nat, changes <= changes', view' = view
  PROVE  Views'
<1>1. View(changes) \subseteq View(changes')
  BY LaterEvents DEF Types, Counters
<1>2. view' \in [Subscribers -> View(changes')]
  BY <1>1 DEF Types, Views
<1> QED
  BY <1>2 DEF Types, Views

(* One view changes, to a proper one. *)
LEMMA OneView ==
  ASSUME Types, NEW s \in Subscribers, NEW v \in View(changes), v.shown <= v.seen,
         view' = [view EXCEPT ![s] = v], changes' = changes
  PROVE  Views'
BY DEF Types, Views

(* What an event tells. *)
LEMMA ToldTypes ==
  ASSUME NEW n \in Nat, NEW v \in View(n), v.shown <= v.seen, NEW e \in Event(n)
  PROVE  /\ Told(v, e) \in View(n)
         /\ Told(v, e).shown <= Told(v, e).seen
         /\ Told(v, e).seen >= v.seen
         /\ e.topic = "model" => Told(v, e).seen >= e.at /\ Told(v, e).status = v.status
         /\ e.topic = "node" => Told(v, e).status = e.status
<1>1. CASE e.topic = "node" /\ e.status \in Statuses
  BY <1>1 DEF Told, View
<1>2. CASE e.topic = "model" /\ e.at \in 0 .. n
  <2>1. Told(v, e) = [status |-> v.status, shown |-> e.at,
                      seen |-> IF e.at > v.seen THEN e.at ELSE v.seen]
    BY <1>2 DEF Told, View
  <2> QED
    BY <1>2, <2>1 DEF View
<1> QED
  BY <1>1, <1>2, EventTypes

(* A snapshot of the counters leaves the status. *)
LEMMA BothCounts ==
  ASSUME NEW n, NEW m, NEW v \in View(n)
  PROVE  [v EXCEPT !.shown = m, !.seen = m]
           = [status |-> v.status, shown |-> m, seen |-> m]
<1> DEFINE w == [v EXCEPT !.shown = m]
<1>1. w = [status |-> v.status, shown |-> m, seen |-> v.seen]
  BY DEF View
<1> HIDE DEF w
<1>2. [w EXCEPT !.seen = m] = [status |-> v.status, shown |-> m, seen |-> m]
  BY <1>1
<1> QED
  BY <1>2 DEF w

(* Nobody is shown a change that has not happened. *)
LEMMA ViewsStep == Types /\ [Next]_vars => Views'
<1> SUFFICES ASSUME Types, [Next]_vars PROVE Views'
  OBVIOUS
<1>0. changes' \in Nat /\ changes <= changes' /\ changes \in Nat
  BY ChangesGrow DEF Types, Counters
<1>1. ASSUME view' = view PROVE Views'
  BY <1>0, <1>1, SameViews
<1>2. ASSUME NEW r \in Requests, Handle(r) PROVE Views'
  BY <1>1, <1>2 DEF Handle, Admit, Reject, ReadCount, EmitCount, Forward, Finish,
                    Abandon, Enter, ReleaseAndNote, clients
<1>3. CASE \/ Register \/ ReadyFails \/ Announce \/ Pong \/ ClearNode
           \/ Unregister \/ EmitOffline \/ UNCHANGED vars
  BY <1>1, <1>3 DEF Register, ReadyFails, Announce, Pong, ClearNode, Unregister,
                    EmitOffline, clients, vars
<1>4. \A s \in Subscribers : view[s] \in View(changes) /\ view[s].shown <= view[s].seen
  BY DEF Types, Views
<1>5. ASSUME NEW s \in Subscribers, Close(s) PROVE Views'
  <2>1. Blank \in View(changes) /\ Blank.shown <= Blank.seen
    BY <1>0 DEF Blank, View, Statuses
  <2> QED
    BY <1>5, <2>1, OneView DEF Close, handlers
<1>6. ASSUME NEW s \in Subscribers, SnapshotNodes(s) PROVE Views'
  <2>1. CASE view' = view
    BY <1>1, <2>1
  <2>2. CASE view' # view
    <3>1. PICK age \in Ages :
            view' = [view EXCEPT ![s].status = TunnelStatusForPong(age)]
      BY <1>6, <2>2 DEF SnapshotNodes
    <3> DEFINE v == [view[s] EXCEPT !.status = TunnelStatusForPong(age)]
    <3>2. view' = [view EXCEPT ![s] = v]
      BY <3>1
    <3>3. v \in View(changes) /\ v.shown <= v.seen
      BY <1>4 DEF View, TunnelStatusForPong, Statuses
    <3>4. changes' = changes
      BY <1>6 DEF SnapshotNodes, handlers
    <3> QED
      BY <3>2, <3>3, <3>4, OneView
  <2> QED
    BY <2>1, <2>2
<1>7. ASSUME NEW s \in Subscribers, SnapshotCounts(s) PROVE Views'
  <2> DEFINE v == [status |-> view[s].status, shown |-> changes, seen |-> changes]
  <2>1. view' = [view EXCEPT ![s] = v] /\ changes' = changes
    <3>1. view' = [view EXCEPT ![s] = [view[s] EXCEPT !.shown = changes, !.seen = changes]]
      BY <1>7 DEF SnapshotCounts, Types, Views
    <3>2. [view[s] EXCEPT !.shown = changes, !.seen = changes] = v
      BY <1>4, BothCounts
    <3> QED
      BY <1>7, <3>1, <3>2 DEF SnapshotCounts, handlers
  <2>2. v \in View(changes) /\ v.shown <= v.seen
    BY <1>0, <1>4 DEF View
  <2> QED
    BY <2>1, <2>2, OneView
<1>8. ASSUME NEW s \in Subscribers, Receive(s) PROVE Views'
  <2>1. CASE Close(s)
    BY <1>5, <2>1
  <2>2. CASE ~Close(s)
    <3>1. /\ view' = [view EXCEPT ![s] = Told(view[s], Head(queue[s]))]
          /\ changes' = changes /\ queue[s] # <<>>
      BY <1>8, <2>2 DEF Receive, handlers, Types, Views
    <3>2. Head(queue[s]) \in Event(changes)
      BY <3>1 DEF Types, Queues
    <3>3. /\ Told(view[s], Head(queue[s])) \in View(changes)
          /\ Told(view[s], Head(queue[s])).shown <= Told(view[s], Head(queue[s])).seen
      BY <1>0, <1>4, <3>2, ToldTypes
    <3> QED
      BY <3>1, <3>3, OneView
  <2> QED
    BY <2>1, <2>2
<1>9. ASSUME NEW s \in Subscribers, Subscribe(s) \/ Lagged(s) PROVE Views'
  BY <1>1, <1>9 DEF Subscribe, Lagged
<1>10. ASSUME NEW s \in Subscribers, SnapshotDeliver(s) \/ Unsubscribe(s)
       PROVE  Views'
  BY <1>1, <1>5, <1>10 DEF SnapshotDeliver, Unsubscribe
<1> QED
  BY <1>2, <1>3, <1>6, <1>7, <1>8, <1>9, <1>10 DEF Next, Follow, Idle

(* The initial state has the right types. *)
LEMMA TypesInit == Init => Types
<1> SUFFICES ASSUME Init PROVE Types
  OBVIOUS
<1>1. Handlers
  <2>1. /\ stage \in [Requests -> {"new", "asking", "running", "over"}]
        /\ limit \in [Requests -> Concurrencies \cup {0}]
    BY DEF Init, Semaphore!Init
  <2>2. forgotten \in BOOLEAN
    BY DEF Init, Semaphore!Init
  <2>3. pc \in [Requests -> {"idle", "asking", "noteStart", "emitStart", "forward",
                            "answer", "noteEnd", "emitEnd", "done"}]
    BY DEF Init
  <2> QED
    BY <2>1, <2>2, <2>3 DEF Handlers
<1>2. Counters
  BY DEF Init, Counters
<1>3. Places
  BY TelemetryAssumption DEF Init, Places
<1>4. Queues
  BY TelemetryAssumption DEF Init, Queues
<1>5. Views
  BY DEF Init, Views, View, Blank, Statuses
<1> QED
  BY <1>1, <1>2, <1>3, <1>4, <1>5 DEF Types

(* The types hold in every state. *)
LEMMA TypesInvariance == Spec => []Types
<1>1. Types /\ [Next]_vars => Types'
  BY HandlersStep, CountersStep, PlacesStep, QueuesStep, ViewsStep DEF Types
<1> QED
  BY <1>1, TypesInit, PTL DEF Spec

(* Every variable keeps its type: no receiver is kept more than the        *)
(* capacity of the channel, and no subscriber is shown counters of the     *)
(* future.                                                                 *)
THEOREM TypeCorrect == Spec => []TypeOK
BY TypesAreTypes, TypesInvariance, PTL

-----------------------------------------------------------------------------
(* What one step does to one subscriber *)

(* A listener that loses nothing gets the event behind what is kept. *)
LEMMA SendToListener ==
  ASSUME Types, NEW e, Send(e), NEW s \in Listeners, ~missed'[s]
  PROVE  ~missed[s] /\ queue'[s] = Append(queue[s], e)
BY DEF Send, Listeners, Types, Queues

(* Nobody else gets anything. *)
LEMMA SendToOthers ==
  ASSUME Types, NEW e, Send(e), NEW s \in Subscribers, s \notin Listeners
  PROVE  missed'[s] = missed[s] /\ queue'[s] = queue[s]
<1>1. queue'[s] = queue[s]
  BY DEF Send
<1>2. missed'[s] = missed[s]
  BY Zenon DEF Send, Types, Queues
<1> QED
  BY <1>1, <1>2

(* The parts of the state that belong to one subscriber. *)
Untouched(s) ==
  /\ task'[s] = task[s] /\ queue'[s] = queue[s] /\ view'[s] = view[s]
  /\ missed'[s] = missed[s] /\ lagged'[s] = lagged[s]

(* A step of one subscriber's task is its own. *)
LEMMA TasksAreApart ==
  ASSUME Types, NEW s \in Subscribers, NEW t \in Subscribers, s # t,
         Subscribe(t) \/ Follow(t) \/ Unsubscribe(t)
  PROVE  Untouched(s)
<1>1. /\ \A u \in Subscribers : u # t => view'[u] = view[u]
      /\ UNCHANGED <<queue, missed, lagged>> \/ Close(t) \/ Receive(t) \/ Lagged(t)
  BY DEF Subscribe, Follow, Unsubscribe, SnapshotNodes, SnapshotCounts,
         SnapshotDeliver, Receive, Lagged, Close, bus, Types, Views
<1>2. task'[s] = task[s]
  BY DEF Subscribe, Follow, Unsubscribe, SnapshotNodes, SnapshotCounts,
         SnapshotDeliver, Receive, Lagged, Close, Types, Places
<1>3. queue'[s] = queue[s] /\ missed'[s] = missed[s] /\ lagged'[s] = lagged[s]
  BY <1>1 DEF Receive, Lagged, Close, Types, Queues
<1> QED
  BY <1>1, <1>2, <1>3 DEF Untouched

(* A request that does not report touches no subscriber. *)
LEMMA HandlersAreApart ==
  ASSUME NEW r \in Requests, Handle(r), ~EmitCount(r)
  PROVE  UNCHANGED <<task, lagged, view, queue, missed>> /\ UNCHANGED tunnel
BY DEF Handle, Admit, Reject, ReadCount, Forward, Finish, Abandon, Enter,
       ReleaseAndNote, clients, bus, node

-----------------------------------------------------------------------------
(* A socket that was not accepted yet *)

LEMMA UnopenedStep == Types /\ Unopened /\ [Next]_vars => Unopened'
<1> SUFFICES ASSUME Types, Unopened, [Next]_vars,
                    NEW s \in Subscribers, task'[s] = "idle"
             PROVE  queue'[s] = <<>> /\ view'[s] = Blank /\ ~missed'[s] /\ ~lagged'[s]
  BY DEF Unopened
<1>1. ASSUME Untouched(s)
      PROVE  queue'[s] = <<>> /\ view'[s] = Blank /\ ~missed'[s] /\ ~lagged'[s]
  BY <1>1 DEF Untouched, Unopened
<1>2. ASSUME NEW e, Send(e), UNCHANGED clients PROVE Untouched(s)
  <2>1. task[s] = "idle" /\ s \notin Listeners
    BY <1>2 DEF clients, Listeners
  <2> QED
    BY <1>2, <2>1, SendToOthers DEF Untouched, clients
<1>3. ASSUME NEW r \in Requests, Handle(r) PROVE Untouched(s)
  <2>1. CASE EmitCount(r)
    BY <1>2, <2>1 DEF EmitCount
  <2>2. CASE ~EmitCount(r)
    BY <1>3, <2>2, HandlersAreApart DEF Untouched
  <2> QED
    BY <2>1, <2>2
<1>4. ASSUME NEW t \in Subscribers, Subscribe(t) \/ Follow(t) \/ Unsubscribe(t)
      PROVE  Untouched(s)
  <2>1. CASE t = s
    <3>1. task'[s] # "idle"
      BY <1>4, <2>1 DEF Subscribe, Follow, Unsubscribe, SnapshotNodes, SnapshotCounts,
                        SnapshotDeliver, Receive, Lagged, Close, Types, Places
    <3> QED
      BY <3>1
  <2>2. CASE t # s
    BY <1>4, <2>2, TasksAreApart
  <2> QED
    BY <2>1, <2>2
<1>5. CASE Announce \/ Pong \/ EmitOffline
  BY <1>1, <1>2, <1>5 DEF Announce, Pong, EmitOffline
<1>6. CASE Register \/ ReadyFails \/ ClearNode \/ Unregister \/ UNCHANGED vars
  BY <1>1, <1>6 DEF Register, ReadyFails, ClearNode, Unregister, vars, bus, clients,
                    Untouched
<1> QED
  BY <1>1, <1>3, <1>4, <1>5, <1>6 DEF Next, Idle

(* Sockets that were not accepted have seen nothing, in every state. *)
LEMMA UnopenedInvariance == Spec => [](Types /\ Unopened)
<1>1. Init => Unopened
  BY DEF Init, Unopened
<1>2. Types /\ Unopened /\ [Next]_vars => Unopened'
  BY UnopenedStep
<1> QED
  BY <1>1, <1>2, TypesInvariance, PTL DEF Spec

-----------------------------------------------------------------------------
(* A node that is gone *)

(* The last word on the node stays the last one behind counters. *)
LEMMA GoneBehindCounts ==
  ASSUME Types, NEW s \in Subscribers, LearnsItIsGone(s), NEW v,
         queue'[s] = Append(queue[s], ModelCapacity(v)), view'[s] = view[s]
  PROVE  LearnsItIsGone(s)'
<1>1. queue[s] \in Seq(Event(changes))
  BY DEF Types, Queues
<1>2. PICK i \in 0 .. Len(queue[s]) :
        /\ IF i = 0 THEN view[s].status \in {"none", "offline"}
                    ELSE queue[s][i] = NodeStatus("offline")
        /\ \A j \in i + 1 .. Len(queue[s]) : queue[s][j].topic = "model"
  BY DEF LearnsItIsGone
<1> DEFINE e == ModelCapacity(v)
           q == Append(queue[s], e)
<1>3. e.topic = "model"
  BY DEF ModelCapacity
<1> HIDE DEF e
<1>4. /\ Len(q) = Len(queue[s]) + 1 /\ q[Len(queue[s]) + 1] = e
      /\ \A j \in 1 .. Len(queue[s]) : q[j] = queue[s][j]
  BY <1>1
<1>5. queue'[s] = q
  BY DEF e
<1> HIDE DEF q
<1>6. IF i = 0 THEN view'[s].status \in {"none", "offline"}
               ELSE q[i] = NodeStatus("offline")
  BY <1>2, <1>4
<1>7. \A j \in i + 1 .. Len(q) : q[j].topic = "model"
  BY <1>1, <1>2, <1>3, <1>4
<1>8. i \in 0 .. Len(q)
  BY <1>1, <1>4
<1> QED
  BY <1>5, <1>6, <1>7, <1>8 DEF LearnsItIsGone

(* The offline event is the last word on the node. *)
LEMMA GoneAfterOffline ==
  ASSUME Types, NEW s \in Subscribers,
         queue'[s] = Append(queue[s], NodeStatus("offline"))
  PROVE  LearnsItIsGone(s)'
<1>1. queue[s] \in Seq(Event(changes))
  BY DEF Types, Queues
<1> DEFINE e == NodeStatus("offline")
           q == Append(queue[s], e)
<1> HIDE DEF e
<1>2. Len(q) = Len(queue[s]) + 1 /\ q[Len(queue[s]) + 1] = e /\ Len(queue[s]) \in Nat
  BY <1>1
<1>3. queue'[s] = q
  BY DEF e
<1> HIDE DEF q
<1>4. Len(q) \in 0 .. Len(q) /\ Len(q) # 0 /\ q[Len(q)] = NodeStatus("offline")
  BY <1>2 DEF e
<1>5. \A j \in Len(q) + 1 .. Len(q) : q[j].topic = "model"
  BY <1>2
<1> QED
  BY <1>3, <1>4, <1>5 DEF LearnsItIsGone

(* Receiving what is kept only brings the last word nearer. *)
LEMMA GoneIsReceived ==
  ASSUME Types, NEW s \in Subscribers, LearnsItIsGone(s), queue[s] # <<>>,
         queue'[s] = Tail(queue[s]), view'[s] = Told(view[s], Head(queue[s]))
  PROVE  LearnsItIsGone(s)'
<1>0. changes \in Nat /\ view[s] \in View(changes) /\ view[s].shown <= view[s].seen
  BY DEF Types, Counters, Views
<1>1. queue[s] \in Seq(Event(changes))
  BY DEF Types, Queues
<1>2. PICK i \in 0 .. Len(queue[s]) :
        /\ IF i = 0 THEN view[s].status \in {"none", "offline"}
                    ELSE queue[s][i] = NodeStatus("offline")
        /\ \A j \in i + 1 .. Len(queue[s]) : queue[s][j].topic = "model"
  BY DEF LearnsItIsGone
<1> DEFINE q == Tail(queue[s])
<1>3. /\ Len(q) = Len(queue[s]) - 1 /\ Len(queue[s]) \in Nat \ {0}
      /\ \A j \in 1 .. Len(q) : q[j] = queue[s][j + 1]
      /\ Head(queue[s]) = queue[s][1] /\ queue[s][1] \in Event(changes)
  BY <1>1
<1>4. queue'[s] = q
  OBVIOUS
<1> HIDE DEF q
<1>5. /\ queue[s][1].topic = "model" => view'[s].status = view[s].status
      /\ queue[s][1].topic = "node" => view'[s].status = queue[s][1].status
  BY <1>0, <1>3, ToldTypes
<1>6. CASE i > 1
  <2>1. i - 1 \in 0 .. Len(q) /\ i - 1 # 0 /\ q[i - 1] = NodeStatus("offline")
    BY <1>2, <1>3, <1>6
  <2>2. \A j \in (i - 1) + 1 .. Len(q) : q[j].topic = "model"
    BY <1>2, <1>3, <1>6
  <2> QED
    BY <1>4, <2>1, <2>2 DEF LearnsItIsGone
<1>7. CASE i \in {0, 1}
  <2>1. view'[s].status \in {"none", "offline"}
    <3>1. CASE i = 0
      BY <1>2, <1>3, <1>5, <3>1
    <3>2. CASE i = 1
      BY <1>2, <1>5, <3>2 DEF NodeStatus
    <3> QED
      BY <1>7, <3>1, <3>2
  <2>2. \A j \in 0 + 1 .. Len(q) : q[j].topic = "model"
    BY <1>2, <1>3, <1>7
  <2>3. 0 \in 0 .. Len(q)
    BY <1>3
  <2> QED
    BY <1>4, <2>1, <2>2, <2>3 DEF LearnsItIsGone
<1> QED
  BY <1>6, <1>7

(* Every step keeps the last word on a node that is gone. *)
LEMMA GoneStep == Types /\ Unopened /\ GoneInv /\ [Next]_vars => GoneInv'
<1> SUFFICES ASSUME Types, Unopened, GoneInv, [Next]_vars,
                    NEW s \in Listeners', Lossless(s)', tunnel' = "away"
             PROVE  LearnsItIsGone(s)'
  BY DEF GoneInv
<1>0. s \in Subscribers /\ task'[s] \notin {"idle", "closed"} /\ ~missed'[s] /\ ~lagged'[s]
  BY DEF Listeners, Lossless
<1>1. ASSUME Untouched(s), tunnel = "away" PROVE LearnsItIsGone(s)'
  <2>1. s \in Listeners /\ Lossless(s)
    BY <1>0, <1>1 DEF Untouched, Listeners, Lossless
  <2>2. LearnsItIsGone(s)
    BY <1>1, <2>1 DEF GoneInv
  <2> QED
    BY <1>1, <2>2 DEF Untouched, LearnsItIsGone
<1>2. ASSUME UNCHANGED clients PROVE s \in Listeners /\ ~lagged[s] /\ view'[s] = view[s]
  BY <1>0, <1>2 DEF clients, Listeners
<1>3. ASSUME NEW r \in Requests, Handle(r) PROVE LearnsItIsGone(s)'
  <2>1. CASE EmitCount(r)
    <3>1. UNCHANGED clients /\ Send(ModelCapacity(reading[r])) /\ tunnel = "away"
      BY <2>1 DEF EmitCount, node
    <3>2. ~missed[s] /\ queue'[s] = Append(queue[s], ModelCapacity(reading[r]))
      BY <1>0, <1>2, <3>1, SendToListener
    <3>3. LearnsItIsGone(s)
      BY <1>2, <3>1, <3>2 DEF GoneInv, Lossless
    <3> QED
      BY <1>0, <1>2, <3>1, <3>2, <3>3, GoneBehindCounts
  <2>2. CASE ~EmitCount(r)
    BY <1>1, <1>3, <2>2, HandlersAreApart DEF Untouched
  <2> QED
    BY <2>1, <2>2
<1>4. ASSUME NEW t \in Subscribers, Subscribe(t) \/ Follow(t) \/ Unsubscribe(t)
      PROVE  LearnsItIsGone(s)'
  <2>0. tunnel = "away"
    BY <1>4 DEF Subscribe, Follow, Unsubscribe, SnapshotNodes, SnapshotCounts,
                SnapshotDeliver, Receive, Lagged, Close, node
  <2>1. CASE t # s
    BY <1>0, <1>1, <1>4, <2>0, <2>1, TasksAreApart
  <2>2. CASE t = s
    <3>1. ~Close(s)
      BY <1>0 DEF Close, Types, Places
    <3>2. ~Lagged(s)
      BY <1>0 DEF Lagged, Types, Queues
    <3>3. CASE Subscribe(s)
      <4>1. queue'[s] = <<>> /\ view'[s] = Blank
        BY <1>0, <3>3 DEF Subscribe, Unopened, bus
      <4>2. 0 \in 0 .. Len(<<>>) /\ \A j \in 0 + 1 .. Len(<<>>) : <<>>[j].topic = "model"
        OBVIOUS
      <4> QED
        BY <4>1, <4>2 DEF LearnsItIsGone, Blank
    <3>4. CASE SnapshotNodes(s) \/ SnapshotCounts(s) \/ SnapshotDeliver(s)
      <4>1. /\ UNCHANGED <<queue, missed, lagged>>
            /\ task[s] \in {"nodes", "counts", "deliver"}
        BY <3>1, <3>4 DEF SnapshotNodes, SnapshotCounts, SnapshotDeliver, bus
      <4>2. LearnsItIsGone(s)
        BY <1>0, <2>0, <4>1 DEF GoneInv, Listeners, Lossless
      <4>3. view'[s].status = view[s].status
        <5>1. view[s] \in View(changes)
          BY <1>0 DEF Types, Views
        <5>2. CASE SnapshotNodes(s)
          BY <2>0, <5>2 DEF SnapshotNodes, Registered
        <5>3. CASE SnapshotCounts(s)
          <6>1. view'[s] = [view[s] EXCEPT !.shown = changes, !.seen = changes]
            BY <1>0, <5>3 DEF SnapshotCounts, Types, Views
          <6>2. [view[s] EXCEPT !.shown = changes, !.seen = changes]
                  = [status |-> view[s].status, shown |-> changes, seen |-> changes]
            BY <5>1, BothCounts
          <6> QED
            BY <6>1, <6>2
        <5>4. CASE SnapshotDeliver(s)
          BY <3>1, <5>4 DEF SnapshotDeliver
        <5> QED
          BY <3>4, <5>2, <5>3, <5>4
      <4> QED
        BY <4>1, <4>2, <4>3 DEF LearnsItIsGone
    <3>5. CASE Receive(s)
      <4>1. /\ task[s] = "listen" /\ ~missed[s] /\ queue[s] # <<>> /\ lagged' = lagged
            /\ view'[s] = Told(view[s], Head(queue[s])) /\ queue'[s] = Tail(queue[s])
        BY <1>0, <3>1, <3>5 DEF Receive, Types, Views, Queues
      <4>2. LearnsItIsGone(s)
        BY <1>0, <2>0, <4>1 DEF GoneInv, Listeners, Lossless
      <4> QED
        BY <1>0, <4>1, <4>2, GoneIsReceived
    <3> QED
      BY <1>4, <2>2, <3>1, <3>2, <3>3, <3>4, <3>5 DEF Follow, Unsubscribe
  <2> QED
    BY <2>1, <2>2
<1>5. CASE EmitOffline
  <2>1. UNCHANGED clients /\ Send(NodeStatus("offline"))
    BY <1>5 DEF EmitOffline
  <2>2. queue'[s] = Append(queue[s], NodeStatus("offline"))
    BY <1>0, <1>2, <2>1, SendToListener
  <2> QED
    BY <1>0, <2>2, GoneAfterOffline
<1>6. CASE UNCHANGED vars
  BY <1>1, <1>6 DEF vars, bus, clients, node, Untouched
<1>7. ~(Register \/ ReadyFails \/ Announce \/ Pong \/ ClearNode \/ Unregister)
  BY DEF Register, ReadyFails, Announce, Pong, ClearNode, Unregister
<1> QED
  BY <1>3, <1>4, <1>5, <1>6, <1>7 DEF Next, Idle

(* A subscriber that lost nothing is not left with a node online whose     *)
(* disconnect is complete, however its snapshot, the events and the steps  *)
(* of the cleanup interleave.                                              *)
THEOREM GoneIsLearned == Spec => []GoneNodeIsNotOnline
<1>1. Init => GoneInv
  BY DEF Init, GoneInv, Listeners
<1>2. Types /\ Unopened /\ GoneInv /\ [Next]_vars => GoneInv'
  BY GoneStep
<1>3. Types /\ GoneInv => GoneNodeIsNotOnline
  <2> SUFFICES ASSUME Types, GoneInv, NEW s \in Subscribers, Current(s), tunnel = "away"
               PROVE  view[s].status \in {"none", "offline"}
    BY DEF GoneNodeIsNotOnline
  <2>1. s \in Listeners /\ Lossless(s) /\ queue[s] = <<>>
    BY DEF Current, UpToDate, Listeners, Lossless
  <2>2. LearnsItIsGone(s)
    BY <2>1 DEF GoneInv
  <2>3. 0 .. Len(queue[s]) = {0}
    BY <2>1
  <2> QED
    BY <2>2, <2>3 DEF LearnsItIsGone
<1> QED
  BY <1>1, <1>2, <1>3, UnopenedInvariance, PTL DEF Spec

-----------------------------------------------------------------------------
(* Counters *)

(* Counters that are kept for s stay kept behind any other event. *)
LEMMA CountsBehind ==
  ASSUME Types, NEW s \in Subscribers, LearnsCounts(s), NEW e,
         queue'[s] = Append(queue[s], e), view'[s] = view[s], owed' = owed
  PROVE  LearnsCounts(s)'
<1>1. queue[s] \in Seq(Event(changes))
  BY DEF Types, Queues
<1> DEFINE q == Append(queue[s], e)
<1>2. /\ Len(q) = Len(queue[s]) + 1 /\ Len(queue[s]) \in Nat
      /\ \A j \in 1 .. Len(queue[s]) : q[j] = queue[s][j]
  BY <1>1
<1>3. queue'[s] = q
  OBVIOUS
<1> HIDE DEF q
<1>4. CASE view[s].seen >= owed
  BY <1>4 DEF LearnsCounts
<1>5. ASSUME NEW i \in 1 .. Len(queue[s]),
             queue[s][i].topic = "model" /\ queue[s][i].at >= owed
      PROVE  LearnsCounts(s)'
  <2>1. i \in 1 .. Len(q) /\ q[i].topic = "model" /\ q[i].at >= owed
    BY <1>2, <1>5
  <2> QED
    BY <1>3, <2>1 DEF LearnsCounts
<1> QED
  BY <1>4, <1>5 DEF LearnsCounts

(* A reading as new as owed tells every listener. *)
LEMMA CountsAreSent ==
  ASSUME Types, NEW s \in Subscribers, NEW v, v >= owed, owed' = owed,
         queue'[s] = Append(queue[s], ModelCapacity(v))
  PROVE  LearnsCounts(s)'
<1>1. queue[s] \in Seq(Event(changes))
  BY DEF Types, Queues
<1> DEFINE e == ModelCapacity(v)
           q == Append(queue[s], e)
<1>2. e.topic = "model" /\ e.at = v
  BY DEF ModelCapacity
<1> HIDE DEF e
<1>3. Len(q) = Len(queue[s]) + 1 /\ q[Len(queue[s]) + 1] = e /\ Len(queue[s]) \in Nat
  BY <1>1
<1>4. queue'[s] = q
  BY DEF e
<1> HIDE DEF q
<1>5. Len(q) \in 1 .. Len(q) /\ q[Len(q)].topic = "model" /\ q[Len(q)].at >= owed
  BY <1>2, <1>3
<1> QED
  BY <1>4, <1>5 DEF LearnsCounts

(* Receiving an event keeps what s has learnt, or is about to. *)
LEMMA CountsAreReceived ==
  ASSUME Types, NEW s \in Subscribers, LearnsCounts(s), queue[s] # <<>>,
         queue'[s] = Tail(queue[s]), view'[s] = Told(view[s], Head(queue[s])),
         owed' = owed
  PROVE  LearnsCounts(s)'
<1>0. /\ changes \in Nat /\ owed \in Nat
      /\ view[s] \in View(changes) /\ view[s].shown <= view[s].seen
  BY DEF Types, Counters, Views
<1>1. queue[s] \in Seq(Event(changes))
  BY DEF Types, Queues
<1> DEFINE q == Tail(queue[s])
           e == queue[s][1]
<1>2. /\ Len(q) = Len(queue[s]) - 1 /\ Len(queue[s]) \in Nat \ {0}
      /\ \A j \in 1 .. Len(q) : q[j] = queue[s][j + 1]
      /\ Head(queue[s]) = e /\ e \in Event(changes)
  BY <1>1
<1>3. queue'[s] = q
  OBVIOUS
<1> HIDE DEF q, e
<1>4. /\ view'[s].seen >= view[s].seen /\ view'[s].seen \in Nat
      /\ e.topic = "model" => view'[s].seen >= e.at
  <2>1. Told(view[s], e) \in View(changes)
    BY <1>0, <1>2, ToldTypes
  <2>2. Told(view[s], e).seen \in Nat
    BY <1>0, <2>1 DEF View
  <2> QED
    BY <1>0, <1>2, <2>2, ToldTypes
<1>5. view[s].seen \in Nat /\ (e.topic = "model" => e.at \in Nat)
  BY <1>0, <1>2, EventTypes DEF View
<1>6. CASE view[s].seen >= owed
  <2>1. view'[s].seen >= owed
    BY <1>0, <1>4, <1>5, <1>6
  <2> QED
    BY <2>1 DEF LearnsCounts
<1>7. ASSUME NEW i \in 1 .. Len(queue[s]),
             queue[s][i].topic = "model" /\ queue[s][i].at >= owed
      PROVE  LearnsCounts(s)'
  <2>1. CASE i = 1
    <3>1. view'[s].seen >= owed
      BY <1>0, <1>4, <1>5, <1>7, <2>1 DEF e
    <3> QED
      BY <3>1 DEF LearnsCounts
  <2>2. CASE i # 1
    <3>1. i - 1 \in 1 .. Len(q) /\ q[i - 1].topic = "model" /\ q[i - 1].at >= owed
      BY <1>2, <1>7, <2>2
    <3> QED
      BY <1>3, <3>1 DEF LearnsCounts
  <2> QED
    BY <2>1, <2>2
<1> QED
  BY <1>6, <1>7 DEF LearnsCounts

(* Who changes the counters and reports it is due to report; who is due    *)
(* stays so until its reading is sent.                                     *)
LEMMA DueStep ==
  ASSUME Types, NEW r \in Requests, Handle(r), ~EmitCount(r)
  PROVE  \/ owed' = owed /\ \A q \in Requests : Due(q) => Due(q)'
         \/ Due(r)'
<1> USE DEF Types, Handlers, Counters
<1>1. CASE Admit(r) \/ (Forward(r) /\ ReleaseAndNote(r)) \/ Finish(r)
  <2>1. pc'[r] \in {"noteStart", "noteEnd"}
    BY <1>1 DEF Admit, Finish, ReleaseAndNote
  <2> QED
    BY <2>1 DEF Due
<1>2. CASE ReadCount(r)
  <2>1. pc'[r] \in {"emitStart", "emitEnd"} /\ reading'[r] = changes /\ owed' = owed
    BY <1>2 DEF ReadCount
  <2>2. changes >= owed
    OBVIOUS
  <2> QED
    BY <2>1, <2>2 DEF Due
<1>3. CASE Reject(r) \/ (Forward(r) /\ ~ReleaseAndNote(r)) \/ Abandon(r)
  <2>1. /\ owed' = owed /\ reading' = reading
        /\ pc[r] \in {"asking", "forward", "answer"}
        /\ \A q \in Requests : q # r => pc'[q] = pc[q]
    BY <1>3 DEF Reject, Forward, Abandon
  <2> QED
    BY <2>1 DEF Due
<1>4. ASSUME NEW c \in Concurrencies, Enter(r, c)
      PROVE  owed' = owed /\ \A q \in Requests : Due(q) => Due(q)'
  <2>1. /\ owed' = owed /\ reading' = reading /\ pc[r] = "idle"
        /\ \A q \in Requests : q # r => pc'[q] = pc[q]
    BY <1>4 DEF Enter
  <2> QED
    BY <2>1 DEF Due
<1> QED
  BY <1>1, <1>2, <1>3, <1>4 DEF Handle

(* Every step keeps counters as new as owed within reach of a subscriber   *)
(* that lost nothing.                                                      *)
LEMMA CountStep == Types /\ CountInv /\ [Next]_vars => CountInv'
<1> SUFFICES ASSUME Types, CountInv, [Next]_vars,
                    NEW s \in Subscribers, task'[s] \in {"deliver", "listen"},
                    Lossless(s)'
             PROVE  LearnsCounts(s)' \/ \E r \in Requests : Due(r)'
  BY DEF CountInv
<1>0. ~missed'[s] /\ ~lagged'[s]
  BY DEF Lossless
<1>1. ASSUME Untouched(s), owed' = owed, \A r \in Requests : Due(r) => Due(r)'
      PROVE  LearnsCounts(s)' \/ \E r \in Requests : Due(r)'
  <2>1. LearnsCounts(s) \/ \E r \in Requests : Due(r)
    BY <1>0, <1>1 DEF Untouched, CountInv, Lossless
  <2>2. LearnsCounts(s) => LearnsCounts(s)'
    BY <1>1 DEF Untouched, LearnsCounts
  <2> QED
    BY <1>1, <2>1, <2>2
<1>2. ASSUME NEW e, Send(e), UNCHANGED clients, owed' = owed
      PROVE  /\ queue'[s] = Append(queue[s], e)
             /\ LearnsCounts(s) => LearnsCounts(s)'
             /\ LearnsCounts(s) \/ \E r \in Requests : Due(r)
  <2>1. s \in Listeners /\ ~lagged[s] /\ view'[s] = view[s] /\ task[s] \in {"deliver", "listen"}
    BY <1>0, <1>2 DEF clients, Listeners
  <2>2. ~missed[s] /\ queue'[s] = Append(queue[s], e)
    BY <1>0, <1>2, <2>1, SendToListener
  <2>3. LearnsCounts(s) => LearnsCounts(s)'
    BY <1>2, <2>1, <2>2, CountsBehind
  <2> QED
    BY <2>1, <2>2, <2>3 DEF CountInv, Lossless
<1>3. ASSUME NEW r \in Requests, Handle(r)
      PROVE  LearnsCounts(s)' \/ \E q \in Requests : Due(q)'
  <2>1. CASE EmitCount(r)
    <3>1. /\ UNCHANGED clients /\ Send(ModelCapacity(reading[r])) /\ owed' = owed
          /\ pc[r] \in {"emitStart", "emitEnd"}
          /\ \A q \in Requests : q # r => pc'[q] = pc[q] /\ reading'[q] = reading[q]
      BY <2>1 DEF EmitCount, Types, Handlers, Counters
    <3>2. CASE LearnsCounts(s)
      BY <1>2, <3>1, <3>2
    <3>3. CASE Due(r)
      <4>1. reading[r] >= owed
        BY <3>1, <3>3 DEF Due
      <4> QED
        BY <1>2, <3>1, <4>1, CountsAreSent
    <3>4. ASSUME NEW q \in Requests, Due(q), q # r PROVE Due(q)'
      BY <3>1, <3>4 DEF Due
    <3> QED
      BY <1>2, <3>1, <3>2, <3>3, <3>4
  <2>2. CASE ~EmitCount(r)
    BY <1>1, <1>3, <2>2, HandlersAreApart, DueStep DEF Untouched
  <2> QED
    BY <2>1, <2>2
<1>4. ASSUME UNCHANGED <<pc, reading, owed>> PROVE \A r \in Requests : Due(r) => Due(r)'
  BY <1>4 DEF Due
<1>5. ASSUME NEW t \in Subscribers, Subscribe(t) \/ Follow(t) \/ Unsubscribe(t)
      PROVE  LearnsCounts(s)' \/ \E r \in Requests : Due(r)'
  <2>0. UNCHANGED <<pc, reading, owed>>
    BY <1>5 DEF Subscribe, Follow, Unsubscribe, SnapshotNodes, SnapshotCounts,
                SnapshotDeliver, Receive, Lagged, Close, handlers
  <2>1. CASE t # s
    BY <1>1, <1>4, <1>5, <2>0, <2>1, TasksAreApart
  <2>2. CASE t = s
    <3>1. ~Close(s) /\ ~Subscribe(s) /\ ~SnapshotNodes(s)
      BY DEF Close, Subscribe, SnapshotNodes, Types, Places
    <3>2. ~Lagged(s)
      BY <1>0 DEF Lagged, Types, Queues
    <3>3. CASE SnapshotCounts(s)
      <4>1. view'[s] = [view[s] EXCEPT !.shown = changes, !.seen = changes]
        BY <3>3 DEF SnapshotCounts, Types, Views
      <4>2. [view[s] EXCEPT !.shown = changes, !.seen = changes]
              = [status |-> view[s].status, shown |-> changes, seen |-> changes]
        BY BothCounts DEF Types, Views
      <4>3. view'[s].seen = changes
        BY <4>1, <4>2
      <4>4. changes >= owed
        BY DEF Types, Counters
      <4> QED
        BY <2>0, <4>3, <4>4 DEF LearnsCounts
    <3>4. CASE SnapshotDeliver(s)
      <4>1. /\ UNCHANGED <<queue, missed, lagged, view>> /\ task[s] = "deliver"
        BY <3>1, <3>4 DEF SnapshotDeliver, bus
      <4>2. LearnsCounts(s) \/ \E r \in Requests : Due(r)
        BY <1>0, <4>1 DEF CountInv, Lossless
      <4>3. LearnsCounts(s) => LearnsCounts(s)'
        BY <2>0, <4>1 DEF LearnsCounts
      <4> QED
        BY <1>4, <2>0, <4>2, <4>3
    <3>5. CASE Receive(s)
      <4>1. /\ task[s] = "listen" /\ ~missed[s] /\ queue[s] # <<>> /\ lagged' = lagged
            /\ view'[s] = Told(view[s], Head(queue[s])) /\ queue'[s] = Tail(queue[s])
        BY <3>1, <3>5 DEF Receive, Types, Views, Queues
      <4>2. LearnsCounts(s) \/ \E r \in Requests : Due(r)
        BY <1>0, <4>1 DEF CountInv, Lossless
      <4>3. LearnsCounts(s) => LearnsCounts(s)'
        BY <2>0, <4>1, CountsAreReceived
      <4> QED
        BY <1>4, <2>0, <4>2, <4>3
    <3> QED
      BY <1>5, <2>2, <3>1, <3>2, <3>3, <3>4, <3>5 DEF Follow, Unsubscribe
  <2> QED
    BY <2>1, <2>2
<1>6. CASE Announce \/ Pong \/ EmitOffline
  <2>1. PICK e : Send(e)
    BY <1>6 DEF Announce, Pong, EmitOffline
  <2>2. UNCHANGED clients /\ UNCHANGED <<pc, reading, owed>>
    BY <1>6 DEF Announce, Pong, EmitOffline, handlers
  <2> QED
    BY <1>2, <1>4, <2>1, <2>2
<1>7. CASE Register \/ ReadyFails \/ ClearNode \/ Unregister \/ UNCHANGED vars
  BY <1>1, <1>4, <1>7 DEF Register, ReadyFails, ClearNode, Unregister, vars, bus,
                          clients, handlers, Untouched
<1> QED
  BY <1>3, <1>5, <1>6, <1>7 DEF Next, Idle

(* No change is lost between snapshot and stream: once no report is under  *)
(* way, a subscriber that lost nothing and has received everything was     *)
(* told counters as new as the last change whose author reports it.        *)
THEOREM NoChangeIsLost == Spec => []EveryChangeIsTold
<1>1. Init => CountInv
  BY DEF Init, CountInv
<1>2. Types /\ CountInv /\ [Next]_vars => CountInv'
  BY CountStep
<1>3. Types /\ CountInv => EveryChangeIsTold
  <2> SUFFICES ASSUME Types, CountInv, NEW s \in Subscribers, Current(s),
                      \A r \in Requests : ~Reporting(r)
               PROVE  view[s].seen >= owed
    BY DEF EveryChangeIsTold
  <2>1. task[s] = "listen" /\ Lossless(s) /\ queue[s] = <<>>
    BY DEF Current, UpToDate, Lossless
  <2>2. \A r \in Requests : ~Due(r)
    BY DEF Due, Reporting
  <2>3. LearnsCounts(s)
    BY <2>1, <2>2 DEF CountInv
  <2>4. 1 .. Len(queue[s]) = {}
    BY <2>1
  <2> QED
    BY <2>3, <2>4 DEF LearnsCounts
<1> QED
  BY <1>1, <1>2, <1>3, TypesInvariance, PTL DEF Spec
=============================================================================
