------------------------- MODULE SessionCacheProofs -------------------------
(* Proofs about the chain watcher and the session cache, for any number of *)
(* requests and flushes and any chain length.                              *)
EXTENDS SessionCache, TLAPS

(* Every step keeps the types. *)
LEMMA TypeStep == TypeOK /\ [Next]_vars => TypeOK'
<1> SUFFICES ASSUME TypeOK, [Next]_vars PROVE TypeOK'
  OBVIOUS
<1> USE ChainAssumption DEF TypeOK, Released, Open, Tasks, Readers, Verdict
<1>1. CASE Mine
  BY <1>1 DEF Mine
<1>2. CASE Expire
  BY <1>2 DEF Expire
<1>3. ASSUME NEW t \in Tasks, Lookup(t) PROVE TypeOK'
  BY <1>3 DEF Lookup
<1>4. ASSUME NEW t \in Tasks, Fetch(t) PROVE TypeOK'
  BY <1>4 DEF Fetch, View
<1>5. ASSUME NEW t \in Tasks, WarmFetch(t) PROVE TypeOK'
  BY <1>5 DEF WarmFetch, AfterWarm
<1>6. ASSUME NEW t \in Tasks, Insert(t) PROVE TypeOK'
  BY <1>6 DEF Insert, AfterWarm
<1>7. ASSUME NEW t \in Tasks, Judge(t) PROVE TypeOK'
  BY <1>7 DEF Judge
<1>8. ASSUME NEW t \in Tasks, RefreshAfterFlush(t) PROVE TypeOK'
  BY <1>8 DEF RefreshAfterFlush
<1>9. CASE PollHead
  BY <1>9 DEF PollHead
<1>10. CASE PollOpened
  BY <1>10 DEF PollOpened
<1>11. CASE PollReleased
  BY <1>11 DEF PollReleased
<1>12. CASE Evict
  <2>1. pc' \in [Tasks -> {"idle", "fetch", "insert", "have", "warm",
                         "warmInsert", "admitted", "refused", "done", "asleep",
                         "logOpened", "logReleased", "evict"}]
    BY <1>12 DEF Evict
  <2>2. last' \in 0 .. head' /\ handled' \in Nat
    BY <1>12 DEF Evict
  <2> QED
    BY <1>12, <2>1, <2>2 DEF Evict
<1>13. CASE PollFails
  BY <1>13 DEF PollFails
<1>14. CASE UNCHANGED vars
  BY <1>14 DEF vars
<1> QED
  BY <1>1, <1>2, <1>3, <1>4, <1>5, <1>6, <1>7, <1>8, <1>9, <1>10, <1>11,
     <1>12, <1>13, <1>14 DEF Next, WatcherStep, ReaderStep

(* The router starts in a state of the right types. *)
LEMMA TypeInit == Init => TypeOK
<1> SUFFICES ASSUME Init PROVE TypeOK
  OBVIOUS
<1>1. pc \in [Tasks -> {"idle", "fetch", "insert", "have", "warm", "warmInsert",
                      "admitted", "refused", "done", "asleep", "logOpened",
                      "logReleased", "evict"}]
  BY DEF Init
<1>2. got \in [Tasks -> Verdict]
  BY DEF Init, Verdict
<1>3. head \in StartHead .. MaxHead /\ openAt \in -1 .. head
  BY ChainAssumption DEF Init
<1>4. releaseAt = -1 /\ last = 0 /\ start = -1 /\ to = 0 /\ handled = 0
  BY DEF Init
<1>5. cached \in BOOLEAN
  BY DEF Init
<1> QED
  BY ONLY <1>1, <1>2, <1>3, <1>4, <1>5, ChainAssumption DEF TypeOK, Released

(* Every variable keeps its type; in particular no poll reaches beyond the *)
(* head of the chain.                                                      *)
THEOREM TypeCorrect == Spec => []TypeOK
BY TypeInit, TypeStep, PTL DEF Spec

-----------------------------------------------------------------------------
(* What a step of somebody else leaves alone. *)
Watched == <<releaseAt, last, start, to, handled, pc["watcher"]>>

(* Requests and flushes do not interfere with the watcher. *)
LEMMA ReaderStepWatched ==
  ASSUME TypeOK, NEW t \in Readers, ReaderStep(t) PROVE UNCHANGED Watched
<1> USE ChainAssumption DEF TypeOK, Tasks, Readers, Watched
<1>1. t # "watcher"
  OBVIOUS
<1> QED
  BY <1>1 DEF ReaderStep, Lookup, Fetch, WarmFetch, Insert, Judge,
              RefreshAfterFlush

(* Every step keeps last_block in its place. *)
LEMMA WatchStep == TypeOK /\ WatchInv /\ [Next]_vars => WatchInv'
<1> SUFFICES ASSUME TypeOK, WatchInv, [Next]_vars PROVE WatchInv'
  OBVIOUS
<1> USE ChainAssumption DEF TypeOK, WatchInv, HandledOnce, Released, Tasks
<1>1. CASE UNCHANGED Watched
  BY <1>1 DEF Watched
<1>2. CASE Mine
  <2>1. releaseAt' = releaseAt \/ (releaseAt = -1 /\ releaseAt' = head + 1)
    BY <1>2 DEF Mine, Open
  <2> QED
    BY <1>2, <2>1 DEF Mine
<1>3. CASE Expire
  BY <1>1, <1>3 DEF Expire, Watched
<1>4. ASSUME NEW t \in Readers, ReaderStep(t) PROVE WatchInv'
  BY <1>1, <1>4, ReaderStepWatched
<1>5. CASE PollHead
  BY <1>5 DEF PollHead
<1>6. CASE PollOpened
  BY <1>6 DEF PollOpened
<1>7. CASE WarmFetch("watcher")
  BY <1>7 DEF WarmFetch, AfterWarm
<1>8. CASE Insert("watcher")
  BY <1>8 DEF Insert, AfterWarm
<1>9. CASE PollReleased
  BY <1>9 DEF PollReleased, From
<1>10. CASE Evict
  BY <1>10 DEF Evict
<1>11. CASE PollFails
  BY <1>11 DEF PollFails
<1>12. CASE UNCHANGED vars
  BY <1>1, <1>12 DEF vars, Watched
<1> QED
  BY <1>2, <1>3, <1>4, <1>5, <1>6, <1>7, <1>8, <1>9, <1>10, <1>11, <1>12
     DEF Next, WatcherStep

(* Before the first poll nothing has been handled. *)
LEMMA WatchInit == Init => WatchInv
BY DEF Init, WatchInv, HandledOnce, Released, Tasks

(* A release is flushed, removed and evicted by exactly one poll: the      *)
(* ranges of successive polls never overlap, from genesis on.              *)
THEOREM NeverHandledTwice == Spec => []HandledOnce
<1>1. TypeOK /\ WatchInv => HandledOnce
  BY DEF WatchInv
<1> QED
  BY <1>1, TypeInit, TypeStep, WatchInit, WatchStep, PTL DEF Spec

-----------------------------------------------------------------------------
(* The ranges of successive polls leave no gap once last_block is not 0. *)
LEMMA NoGapStep ==
  ASSUME StartHead >= 2
  PROVE  TypeOK /\ WatchInv /\ NoBlockSkipped /\ [Next]_vars => NoBlockSkipped'
<1> SUFFICES ASSUME TypeOK, WatchInv, NoBlockSkipped, [Next]_vars
             PROVE  NoBlockSkipped'
  OBVIOUS
<1> USE ChainAssumption DEF TypeOK, WatchInv, NoBlockSkipped, Released, Tasks
<1>1. CASE UNCHANGED Watched
  BY <1>1 DEF Watched
<1>2. CASE Mine
  <2>1. releaseAt' = releaseAt \/ releaseAt' = head + 1
    BY <1>2 DEF Mine
  <2> QED
    BY <1>2, <2>1 DEF Mine
<1>3. CASE Expire
  BY <1>1, <1>3 DEF Expire, Watched
<1>4. ASSUME NEW t \in Readers, ReaderStep(t) PROVE NoBlockSkipped'
  BY <1>1, <1>4, ReaderStepWatched
<1>5. CASE PollHead
  <2>1. CASE start = -1
    BY <1>5, <2>1 DEF PollHead
  <2>2. CASE start # -1
    <3>1. last >= 1
      BY <2>2
    <3> QED
      BY <1>5, <2>2, <3>1 DEF PollHead
  <2> QED
    BY <2>1, <2>2
<1>6. CASE PollOpened
  BY <1>6 DEF PollOpened
<1>7. CASE WarmFetch("watcher")
  BY <1>7 DEF WarmFetch
<1>8. CASE Insert("watcher")
  BY <1>8 DEF Insert
<1>9. CASE PollReleased
  BY <1>9 DEF PollReleased, From
<1>10. CASE Evict
  BY <1>10 DEF Evict
<1>11. CASE PollFails
  BY <1>11 DEF PollFails
<1>12. CASE UNCHANGED vars
  BY <1>1, <1>12 DEF vars, Watched
<1> QED
  BY <1>2, <1>3, <1>4, <1>5, <1>6, <1>7, <1>8, <1>9, <1>10, <1>11, <1>12
     DEF Next, WatcherStep

(* On a chain that has left genesis when the router starts, no release is  *)
(* skipped between polls, failed polls included.                           *)
THEOREM NoGap ==
  ASSUME StartHead >= 2
  PROVE  Spec => []NoBlockSkipped
<1>1. Init => NoBlockSkipped
  BY DEF Init, NoBlockSkipped, Released
<1>2. TypeOK /\ WatchInv /\ NoBlockSkipped /\ [Next]_vars => NoBlockSkipped'
  BY NoGapStep
<1> QED
  BY <1>1, <1>2, TypeInit, TypeStep, WatchInit, WatchStep, PTL DEF Spec

-----------------------------------------------------------------------------
(* One step does not bring a forgotten session back. *)
LEMMA ForgottenStep ==
  ASSUME TypeOK, [Next]_vars, Released, ~cached, StaleFetches = {}
  PROVE  ~cached' /\ StaleFetches' = {}
<1> USE ChainAssumption DEF TypeOK, Released, StaleFetches, Tasks, Readers
<1>1. View = "closed"
  BY DEF View, Open
<1>2. ASSUME NEW t \in Tasks, Insert(t) PROVE FALSE
  BY <1>2 DEF Insert
<1>3. ASSUME NEW t \in Tasks, Fetch(t) PROVE ~cached' /\ StaleFetches' = {}
  BY <1>1, <1>3 DEF Fetch
<1>4. ASSUME NEW t \in Tasks, WarmFetch(t) PROVE ~cached' /\ StaleFetches' = {}
  BY <1>1, <1>4 DEF WarmFetch, AfterWarm
<1>5. ASSUME NEW t \in Tasks, Lookup(t) \/ Judge(t) \/ RefreshAfterFlush(t)
      PROVE  ~cached' /\ StaleFetches' = {}
  BY <1>5 DEF Lookup, Judge, RefreshAfterFlush
<1>6. ASSUME PollHead \/ PollOpened \/ PollReleased \/ Evict \/ PollFails
      PROVE  ~cached' /\ StaleFetches' = {}
  BY <1>6 DEF PollHead, PollOpened, PollReleased, Evict, PollFails
<1>7. ASSUME Mine \/ Expire \/ UNCHANGED vars
      PROVE  ~cached' /\ StaleFetches' = {}
  BY <1>7 DEF Mine, Expire, vars
<1> QED
  BY <1>2, <1>3, <1>4, <1>5, <1>6, <1>7 DEF Next, WatcherStep, ReaderStep

(* A released session that has left the cache, with no read from before    *)
(* the release still to be inserted, never returns to it.                  *)
THEOREM ForgottenForGood == Spec => StaysForgotten
<1>1. TypeOK /\ [Next]_vars =>
        [Released /\ ~cached /\ StaleFetches = {} =>
           ~cached' /\ StaleFetches' = {}]_vars
  BY ForgottenStep
<1> QED
  BY <1>1, TypeCorrect, PTL DEF Spec, StaysForgotten
=============================================================================
