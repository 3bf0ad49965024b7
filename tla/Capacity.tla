------------------------------ MODULE Capacity ------------------------------
(***************************************************************************)
(* Per-model admission control: CapacityTracker of src/capacity/mod.rs, at *)
(* the granularity of its atomic operations.                               *)
(*                                                                         *)
(* The tracker maps a (node, model) key to an Arc<Slot> holding two        *)
(* AtomicU32 counters and a tokio Notify.  Every operation works on one    *)
(* key and clear_node works key by key, so the module models ONE key.  The *)
(* Slot OBJECTS of that key are numbered in allocation order: acquire      *)
(* keeps the Arc it looked up, release_inner looks the key up again, and   *)
(* clear_node unmaps the object while requests still use it.               *)
(*                                                                         *)
(* Requests are the calls of POST /v1/chat/completions for the key.  Each  *)
(* one passes through                                                      *)
(*   idle -> load -> cas -> held -> notify -> done         (admitted)      *)
(*   load -> queueLoad -> refused                          (QueueFull)     *)
(*   queueLoad -> queueCas -> poll -> wait -> woken -> dequeue -> load     *)
(*   wait -> expired -> timedOut                           (WaitTimeout)   *)
(*   wait -> cancelled                 (the caller's future is dropped)    *)
(***************************************************************************)
EXTENDS Integers, Sequences, FiniteSets

CONSTANTS
  Requests,       \* the calls of acquire
  Concurrencies,  \* the limits the model catalog may report for the key
  RatioNum,       \* [capacity].queue_depth_ratio, as a fraction
  RatioDen,
  U32,            \* modulus of the counters (2^32 in the program)
  MaxClears,      \* bound: disconnects of the node (clear_node)
  MaxCancels      \* bound: callers that give up while queued

ASSUME ConstantsAssumption ==
  /\ IsFiniteSet(Requests)
  /\ U32 \in Nat \ {0, 1}
  /\ Concurrencies \subseteq 0 .. (U32 - 1)
  /\ RatioNum \in Nat
  /\ RatioDen \in Nat \ {0}
  /\ MaxClears \in Nat
  /\ MaxCancels \in Nat

VARIABLES
  slots,     \* the DashMap entry of the key: a slot object, or 0 if absent
  born,      \* number of Slot objects allocated so far
  clears,    \* number of clear_node calls that removed an entry
  cancels,   \* number of callers that gave up while queued
  active,    \* per slot object: active_requests
  queued,    \* per slot object: queued_requests
  permit,    \* per slot object: the single permit Notify can store
  waiters,   \* per slot object: the futures registered with Notify, FIFO
  pc,        \* per request: where its task is
  slot,      \* per request: the slot object its Arc or Ref points to
  conc,      \* per request: the concurrency argument of acquire
  seen       \* per request: the counter value it loaded last

vars == <<slots, born, clears, cancels, active, queued, permit, waiters,
          pc, slot, conc, seen>>

Slots == 1 .. (MaxClears + 1)

PC == {"idle", "load", "cas", "held", "notify", "done", "queueLoad",
       "refused", "queueCas", "poll", "wait", "woken", "dequeue",
       "expired", "timedOut", "cancelled"}

-----------------------------------------------------------------------------
(* Helpers *)

(* max_queue_depth: floor(concurrency * ratio) as u32, which saturates, and *)
(* at least one place as soon as the model is limited.                     *)
MaxQueueDepth(c) ==
  LET floor == (c * RatioNum) \div RatioDen
      depth == IF floor > U32 - 1 THEN U32 - 1 ELSE floor
  IN  IF c = 0 THEN 0 ELSE IF depth < 1 THEN 1 ELSE depth

(* Sensitivity: a decrement that does not wrap. *)
FetchSubUnbounded(n) == n - 1

(* fetch_sub(1) on an AtomicU32 wraps around. *)
FetchSub(n) == (n - 1) % U32

(* slot_for: the mapped object, or a fresh one inserted for the key. *)
SlotFor ==
  /\ slots' = IF slots = 0 THEN born + 1 ELSE slots
  /\ born'  = IF slots = 0 THEN born + 1 ELSE born

(* Notify::notify_one: wake the oldest registered future, else store the   *)
(* permit, of which there is at most one.  p is pc after the caller's move. *)
NotifyOne(s, q, p) ==
  IF q = <<>>
    THEN /\ permit'  = [permit EXCEPT ![s] = TRUE]
         /\ waiters' = [waiters EXCEPT ![s] = q]
         /\ pc'      = p
    ELSE /\ waiters' = [waiters EXCEPT ![s] = Tail(q)]
         /\ pc'      = [p EXCEPT ![Head(q)] = "woken"]
         /\ UNCHANGED permit

Without(q, r) ==
  LET at == CHOOSE i \in 1 .. Len(q) : q[i] = r
  IN  [i \in 1 .. (Len(q) - 1) |-> IF i < at THEN q[i] ELSE q[i + 1]]

(* Dropping a Notified future: a registered one is unlinked; one that was  *)
(* already notified hands its notification on.                             *)
DropNotified(r, p) ==
  IF pc[r] = "woken"
    THEN NotifyOne(slot[r], waiters[slot[r]], p)
    ELSE /\ waiters' = [waiters EXCEPT ![slot[r]] = Without(@, r)]
         /\ pc' = p
         /\ UNCHANGED permit

-----------------------------------------------------------------------------
Init ==
  /\ slots = 0 /\ born = 0 /\ clears = 0 /\ cancels = 0
  /\ active  = [s \in Slots |-> 0]
  /\ queued  = [s \in Slots |-> 0]
  /\ permit  = [s \in Slots |-> FALSE]
  /\ waiters = [s \in Slots |-> <<>>]
  /\ pc   = [r \in Requests |-> "idle"]
  /\ slot = [r \in Requests |-> 0]
  /\ conc = [r \in Requests |-> 0]
  /\ seen = [r \in Requests |-> 0]

(* acquire up to its loop; concurrency 0 is an untracked guard. *)
Acquire(r, c) ==
  /\ pc[r] = "idle"
  /\ conc' = [conc EXCEPT ![r] = c]
  /\ IF c = 0
       THEN /\ pc' = [pc EXCEPT ![r] = "held"]
            /\ UNCHANGED <<slots, born, slot>>
       ELSE /\ SlotFor
            /\ slot' = [slot EXCEPT ![r] = slots']
            /\ pc' = [pc EXCEPT ![r] = "load"]
  /\ UNCHANGED <<clears, cancels, active, queued, permit, waiters, seen>>

LoadActive(r) ==
  /\ pc[r] = "load"
  /\ seen' = [seen EXCEPT ![r] = active[slot[r]]]
  /\ pc' = [pc EXCEPT ![r] = IF active[slot[r]] < conc[r] THEN "cas"
                                                          ELSE "queueLoad"]
  /\ UNCHANGED <<slots, born, clears, cancels, active, queued, permit,
                 waiters, slot, conc>>

(* Sensitivity: a plain store instead of the exchange. *)
StoreActive(r) ==
  /\ pc[r] = "cas"
  /\ active' = [active EXCEPT ![slot[r]] = seen[r] + 1]
  /\ pc' = [pc EXCEPT ![r] = "held"]
  /\ UNCHANGED <<slots, born, clears, cancels, queued, permit, waiters,
                 slot, conc, seen>>

(* compare_exchange_weak on active, success. *)
CasActive(r) ==
  /\ pc[r] = "cas"
  /\ active[slot[r]] = seen[r]
  /\ active' = [active EXCEPT ![slot[r]] = seen[r] + 1]
  /\ pc' = [pc EXCEPT ![r] = "held"]
  /\ UNCHANGED <<slots, born, clears, cancels, queued, permit, waiters,
                 slot, conc, seen>>

LoadQueued(r) ==
  /\ pc[r] = "queueLoad"
  /\ seen' = [seen EXCEPT ![r] = queued[slot[r]]]
  /\ pc' = [pc EXCEPT ![r] =
              IF \/ MaxQueueDepth(conc[r]) = 0
                 \/ queued[slot[r]] >= MaxQueueDepth(conc[r])
                THEN "refused" ELSE "queueCas"]
  /\ UNCHANGED <<slots, born, clears, cancels, active, queued, permit,
                 waiters, slot, conc>>

(* compare_exchange_weak on queued, success. *)
CasQueued(r) ==
  /\ pc[r] = "queueCas"
  /\ queued[slot[r]] = seen[r]
  /\ queued' = [queued EXCEPT ![slot[r]] = seen[r] + 1]
  /\ pc' = [pc EXCEPT ![r] = "poll"]
  /\ UNCHANGED <<slots, born, clears, cancels, active, permit, waiters,
                 slot, conc, seen>>

(* Either exchange fails: another thread won, or the weak form failed      *)
(* spuriously.  Both go back to the top of the loop.                       *)
CasFails(r) ==
  /\ pc[r] \in {"cas", "queueCas"}
  /\ pc' = [pc EXCEPT ![r] = "load"]
  /\ UNCHANGED <<slots, born, clears, cancels, active, queued, permit,
                 waiters, slot, conc, seen>>

(* First poll of notify.notified(): take the permit or register. *)
PollNotified(r) ==
  /\ pc[r] = "poll"
  /\ IF permit[slot[r]]
       THEN /\ permit' = [permit EXCEPT ![slot[r]] = FALSE]
            /\ pc' = [pc EXCEPT ![r] = "dequeue"]
            /\ UNCHANGED waiters
       ELSE /\ waiters' = [waiters EXCEPT ![slot[r]] = Append(@, r)]
            /\ pc' = [pc EXCEPT ![r] = "wait"]
            /\ UNCHANGED permit
  /\ UNCHANGED <<slots, born, clears, cancels, active, queued, slot, conc,
                 seen>>

(* The notified future is polled again. *)
Resume(r) ==
  /\ pc[r] = "woken"
  /\ pc' = [pc EXCEPT ![r] = "dequeue"]
  /\ UNCHANGED <<slots, born, clears, cancels, active, queued, permit,
                 waiters, slot, conc, seen>>

(* tokio::time::timeout gives up; a notification may arrive between its    *)
(* last poll of the future and the future's drop.                          *)
WaitTimeout(r) ==
  /\ pc[r] \in {"wait", "woken"}
  /\ DropNotified(r, [pc EXCEPT ![r] = "expired"])
  /\ UNCHANGED <<slots, born, clears, cancels, active, queued, slot, conc,
                 seen>>

(* Sensitivity: a wait that timed out returns before the fetch_sub. *)
DequeueIfNotified(r) ==
  /\ pc[r] \in {"dequeue", "expired"}
  /\ queued' = [queued EXCEPT ![slot[r]] = IF pc[r] = "dequeue" THEN FetchSub(@)
                                                               ELSE @]
  /\ pc' = [pc EXCEPT ![r] = IF pc[r] = "dequeue" THEN "load"
                                                  ELSE "timedOut"]
  /\ UNCHANGED <<slots, born, clears, cancels, active, permit, waiters,
                 slot, conc, seen>>

(* queued.fetch_sub after the wait, then retry or Err(WaitTimeout). *)
Dequeue(r) ==
  /\ pc[r] \in {"dequeue", "expired"}
  /\ queued' = [queued EXCEPT ![slot[r]] = FetchSub(@)]
  /\ pc' = [pc EXCEPT ![r] = IF pc[r] = "dequeue" THEN "load"
                                                  ELSE "timedOut"]
  /\ UNCHANGED <<slots, born, clears, cancels, active, permit, waiters,
                 slot, conc, seen>>

(* The handler's future is dropped at its only await, the wait: nothing    *)
(* after the await runs.                                                   *)
Cancel(r) ==
  /\ pc[r] \in {"wait", "woken"}
  /\ cancels < MaxCancels
  /\ cancels' = cancels + 1
  /\ DropNotified(r, [pc EXCEPT ![r] = "cancelled"])
  /\ UNCHANGED <<slots, born, clears, active, queued, slot, conc, seen>>

(* Sensitivity: the drop forgets that an unlimited guard holds no place. *)
ReleaseAlways(r) ==
  /\ pc[r] = "held"
  /\ IF slots = 0
       THEN /\ pc' = [pc EXCEPT ![r] = "done"]
            /\ UNCHANGED <<active, slot>>
       ELSE /\ active' = [active EXCEPT ![slots] = FetchSub(@)]
            /\ slot' = [slot EXCEPT ![r] = slots]
            /\ pc' = [pc EXCEPT ![r] = "notify"]
  /\ UNCHANGED <<slots, born, clears, cancels, queued, permit, waiters,
                 conc, seen>>

(* Drop of the CapacityGuard: release_inner looks the key up AGAIN and     *)
(* decrements whatever object it finds, keeping the map entry locked until *)
(* it has notified.                                                        *)
Release(r) ==
  /\ pc[r] = "held"
  /\ IF conc[r] = 0 \/ slots = 0
       THEN /\ pc' = [pc EXCEPT ![r] = "done"]
            /\ UNCHANGED <<active, slot>>
       ELSE /\ active' = [active EXCEPT ![slots] = FetchSub(@)]
            /\ slot' = [slot EXCEPT ![r] = slots]
            /\ pc' = [pc EXCEPT ![r] = "notify"]
  /\ UNCHANGED <<slots, born, clears, cancels, queued, permit, waiters,
                 conc, seen>>

(* Sensitivity: release_inner frees the place without notifying. *)
ReleaseSilently(r) ==
  /\ pc[r] = "notify"
  /\ pc' = [pc EXCEPT ![r] = "done"]
  /\ UNCHANGED <<slots, born, clears, cancels, active, queued, permit,
                 waiters, slot, conc, seen>>

ReleaseNotify(r) ==
  /\ pc[r] = "notify"
  /\ NotifyOne(slot[r], waiters[slot[r]], [pc EXCEPT ![r] = "done"])
  /\ UNCHANGED <<slots, born, clears, cancels, active, queued, slot, conc,
                 seen>>

(* snapshot (a capacity event, GET /v1/providers) goes through slot_for:   *)
(* reading an absent key allocates its slot.                               *)
Snapshot ==
  /\ slots = 0
  /\ SlotFor
  /\ UNCHANGED <<clears, cancels, active, queued, permit, waiters, pc, slot,
                 conc, seen>>

(* clear_node at the end of the node's tunnel; retain needs the shard lock *)
(* that a releasing guard holds.                                           *)
ClearNode ==
  /\ slots # 0
  /\ clears < MaxClears
  /\ \A r \in Requests : pc[r] # "notify"
  /\ slots' = 0
  /\ clears' = clears + 1
  /\ UNCHANGED <<born, cancels, active, queued, permit, waiters, pc, slot,
                 conc, seen>>

Answered == {"done", "refused", "timedOut", "cancelled"}

(* Every request has been answered: the instance has nothing left to do. *)
Quiescent ==
  /\ \A r \in Requests : pc[r] \in Answered
  /\ UNCHANGED vars

Step(r) ==
  \/ LoadActive(r) \/ CasActive(r) \/ LoadQueued(r) \/ CasQueued(r)
  \/ CasFails(r) \/ PollNotified(r) \/ Resume(r) \/ WaitTimeout(r)
  \/ Dequeue(r) \/ Cancel(r) \/ Release(r) \/ ReleaseNotify(r)
  \/ \E c \in Concurrencies : Acquire(r, c)

Next ==
  \/ \E r \in Requests : Step(r)
  \/ Snapshot
  \/ ClearNode
  \/ Quiescent

Spec == Init /\ [][Next]_vars

(* The runtime polls every runnable task, a weak exchange does not fail    *)
(* for ever, and an admitted request ends (its upstream timeout bounds it). *)
Progress(r) ==
  /\ WF_vars(LoadActive(r)) /\ SF_vars(CasActive(r))
  /\ WF_vars(LoadQueued(r)) /\ SF_vars(CasQueued(r))
  /\ WF_vars(CasFails(r))   /\ WF_vars(PollNotified(r))
  /\ WF_vars(Resume(r))     /\ WF_vars(Dequeue(r))
  /\ WF_vars(Release(r))    /\ WF_vars(ReleaseNotify(r))

(* No fairness of WaitTimeout: a wait may last as long as it likes. *)
FairSpec == Spec /\ \A r \in Requests : Progress(r)

-----------------------------------------------------------------------------
(* State predicates *)

Guards     == {r \in Requests : pc[r] = "held" /\ conc[r] # 0}
Queuers(s) == {r \in Requests :
                 /\ slot[r] = s
                 /\ pc[r] \in {"poll", "wait", "woken", "dequeue", "expired",
                               "cancelled"}}

(* Every variable has its type; the counters are u32 values. *)
TypeOK ==
  /\ slots \in 0 .. (MaxClears + 1)
  /\ born \in 0 .. (MaxClears + 1)
  /\ clears \in 0 .. MaxClears
  /\ cancels \in 0 .. MaxCancels
  /\ active \in [Slots -> 0 .. (U32 - 1)]
  /\ queued \in [Slots -> 0 .. (U32 - 1)]
  /\ permit \in [Slots -> BOOLEAN]
  /\ waiters \in [Slots -> Seq(Requests)]
  /\ pc \in [Requests -> PC]
  /\ slot \in [Requests -> 0 .. (MaxClears + 1)]
  /\ conc \in [Requests -> Concurrencies \cup {0}]
  /\ seen \in [Requests -> 0 .. (U32 - 1)]

(* As long as the tunnel has stayed up, the active counter of the key is   *)
(* the number of guards alive: no admission is lost or counted twice       *)
(* between acquire's exchange and release_inner's fetch_sub.               *)
ActiveCountsGuards ==
  clears = 0 => IF slots = 0 THEN Guards = {}
                             ELSE active[slots] = Cardinality(Guards)

(* Admission control: as long as the tunnel has stayed up, admitting a     *)
(* request leaves at most as many requests running as the limit the        *)
(* request was admitted under, whatever the interleaving of the exchanges  *)
(* and however the catalog changed the limit in between.                   *)
AdmitWithinLimit ==
  [][\A r \in Requests :
       (clears' = 0 /\ pc[r] = "cas" /\ pc'[r] = "held")
         => Cardinality(Guards') <= conc[r]]_vars

(* The queued counter of every slot object is the number of requests       *)
(* between acquire's increment and its fetch_sub, a caller that gave up in *)
(* between included, and never exceeds the largest queue depth in use.     *)
QueuedCountsQueuers ==
  \A s \in Slots :
    /\ queued[s] = Cardinality(Queuers(s))
    /\ queued[s] = 0 \/ \E c \in Concurrencies : queued[s] <= MaxQueueDepth(c)

(* Requests whose task will look at the active counter of s again, or      *)
(* notify s, without being notified first.                                 *)
InFlight(s) ==
  {r \in Requests :
     slot[r] = s /\ pc[r] \in {"load", "cas", "notify", "woken", "dequeue"}}

(* No wake-up is lost: when nothing runs on a slot object, nobody sleeps   *)
(* on it unless somebody is already on the way to take the free place or   *)
(* to wake the sleeper.                                                    *)
IdleSlotHasNoSleeper ==
  \A s \in Slots : active[s] = 0 /\ waiters[s] # <<>> => InFlight(s) # {}

(* Every call of acquire returns, and does not need its timer to do so: as *)
(* long as the tunnel stays up, a request that entered acquire is admitted *)
(* or answered because the requests before it end.                         *)
AcquireReturns ==
  \A r \in Requests :
    pc[r] = "load" ~> \/ pc[r] \in Answered \cup {"held", "notify"}
                      \/ clears > 0

-----------------------------------------------------------------------------
(* Refinement: what the counters and the Notify add up to *)

Stage ==
  [r \in Requests |->
     CASE pc[r] = "idle" -> "new"
       [] pc[r] = "held" -> "running"
       [] pc[r] \in Answered \cup {"notify"} -> "over"
       [] OTHER -> "asking"]

Semaphore == INSTANCE Admission WITH
  stage <- Stage, limit <- conc, forgotten <- clears > 0

(* CapacityTracker is a semaphore: every interleaving of its loads,        *)
(* exchanges, notifications, time-outs and cancellations is a behaviour of *)
(* Admission, in which a place is given only below the caller's limit and  *)
(* given back once.                                                        *)
ImplementsSemaphore == Semaphore!Spec

-----------------------------------------------------------------------------
(* Strengthenings that make the invariants inductive (CapacityProofs) *)

(* Slot objects: only the youngest can be mapped, and a request past       *)
(* slot_for points to an object that exists.                               *)
SlotInv ==
  /\ slots \in {0, born}
  /\ born <= clears + 1
  /\ slots = 0 => born <= clears
  /\ \A r \in Requests :
       /\ pc[r] # "idle" /\ conc[r] # 0 => slot[r] \in 1 .. born
       /\ conc[r] = 0 => pc[r] \in {"idle", "held", "done"}

(* What a request remembers of its last load is below its limit. *)
SeenInv ==
  \A r \in Requests :
    /\ pc[r] = "cas" => seen[r] < conc[r]
    /\ pc[r] = "queueCas" => seen[r] < MaxQueueDepth(conc[r])

(* The futures registered with a Notify are those of the sleeping          *)
(* requests, each one once.                                                *)
WaitInv ==
  /\ \A s \in Slots : \A i \in 1 .. Len(waiters[s]) :
       /\ pc[waiters[s][i]] = "wait"
       /\ slot[waiters[s][i]] = s
       /\ \A j \in 1 .. Len(waiters[s]) :
            waiters[s][i] = waiters[s][j] => i = j
  /\ \A r \in Requests : pc[r] = "wait" =>
       \E i \in 1 .. Len(waiters[slot[r]]) : waiters[slot[r]][i] = r

(* Requests that found the model full and do not look at the active        *)
(* counter again before they are notified.                                 *)
Sleepy(s) ==
  {r \in Requests :
     slot[r] = s /\ pc[r] \in {"queueLoad", "queueCas", "poll", "wait"}}

(* A permit is stored only while nobody is registered; and a request on    *)
(* its way to sleep beside an idle slot object will find the permit, or    *)
(* somebody is on the way to notify.                                       *)
WakeInv ==
  \A s \in Slots :
    /\ permit[s] => waiters[s] = <<>>
    /\ active[s] = 0 /\ Sleepy(s) # {} => permit[s] \/ InFlight(s) # {}

(* A fresh slot object starts at zero, and before the first disconnect     *)
(* every request past slot_for uses the mapped object.                     *)
OneSlotInv ==
  /\ \A s \in Slots : s > born => active[s] = 0
  /\ clears = 0 => \A r \in Requests :
       pc[r] # "idle" /\ conc[r] # 0 => slot[r] = slots
  /\ ActiveCountsGuards

-----------------------------------------------------------------------------
(* Statements of the documentation that the code does not keep (README,    *)
(* section 5).                                                             *)

(* README.md:20, "admission control enforces operator-declared             *)
(* concurrency": never more requests running than the largest limit.       *)
ConcurrencyEnforced ==
  \/ Guards = {}
  \/ \E c \in Concurrencies : Cardinality(Guards) <= c

AllAnswered == \A r \in Requests : pc[r] \in Answered

(* README.md:20, "live active_requests counters": with nothing running,    *)
(* the counter reads zero.                                                 *)
ActiveReturnsToZero == AllAnswered /\ slots # 0 => active[slots] = 0

(* README.md:20, "live queued_requests counters": with nobody waiting, the *)
(* counter reads zero.                                                     *)
QueuedReturnsToZero == AllAnswered /\ slots # 0 => queued[slots] = 0

(* README.md:20, requests wait and "then receive HTTP 429 when full": a    *)
(* request that sleeps with nobody on the way to wake it sleeps because    *)
(* the model is at the request's limit.                                    *)
WaitingMeansFull ==
  \A r \in Requests :
    pc[r] = "wait" /\ InFlight(slot[r]) = {} => active[slot[r]] >= conc[r]

=============================================================================
