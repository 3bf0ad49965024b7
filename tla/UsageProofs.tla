---------------------------- MODULE UsageProofs -----------------------------
(* Proofs about usage, from the answer to the chain.  The token accounting *)
(* of a session (UsageBatch): any finite number of reports of any size,    *)
(* any chunk, any number of attempts and of transactions that go           *)
(* unconfirmed.  The metering of a stream (Metering): any stream, cut into *)
(* chunks anywhere.                                                        *)
EXTENDS UsageBatch, Metering, FiniteSetTheorems, WellFoundedInduction, TLAPS

(* Total(f, S) as a sum *)

Tokens(f, S) == UNION {{x} \X (1 .. f[x]) : x \in S}

(* The tokens of one element are as many as it carries. *)
LEMMA OneTotal ==
  ASSUME NEW x, NEW n \in Nat
  PROVE  IsFiniteSet({x} \X (1 .. n)) /\ Cardinality({x} \X (1 .. n)) = n
<1>1. IsFiniteSet({x}) /\ Cardinality({x}) = 1
  BY FS_Singleton
<1>2. IsFiniteSet(1 .. n) /\ Cardinality(1 .. n) = n
  BY FS_Interval
<1>3. Cardinality({x} \X (1 .. n)) = 1 * n
  BY <1>1, <1>2, FS_Product
<1>4. IsFiniteSet({x} \X (1 .. n))
  BY <1>1, <1>2, FS_Product
<1>5. QED
  BY <1>3, <1>4

(* There are finitely many tokens. *)
LEMMA TotalType ==
  ASSUME NEW S, IsFiniteSet(S), NEW f, \A x \in S : f[x] \in Nat
  PROVE  IsFiniteSet(Tokens(f, S)) /\ Total(f, S) \in Nat
<1> DEFINE T == {{x} \X (1 .. f[x]) : x \in S}
           g == [x \in S |-> {x} \X (1 .. f[x])]
<1>1. g \in Surjection(S, T)
  BY DEF Surjection
<1>2. IsFiniteSet(T)
  BY <1>1, FS_Surjection
<1>3. ASSUME NEW t \in T PROVE IsFiniteSet(t)
  <2>1. PICK x \in S : t = {x} \X (1 .. f[x])
    OBVIOUS
  <2>2. QED
    BY <2>1, OneTotal
<1>4. IsFiniteSet(UNION T)
  BY <1>2, <1>3, FS_UNION
<1>5. QED
  BY <1>4, FS_CardinalityType DEF Total, Tokens

(* One more element adds what it carries. *)
LEMMA TotalAdd ==
  ASSUME NEW S, IsFiniteSet(S), NEW f, \A x \in S : f[x] \in Nat,
         NEW y, y \notin S, f[y] \in Nat
  PROVE  Total(f, S \cup {y}) = Total(f, S) + f[y]
<1> DEFINE A == Tokens(f, S)
           B == {y} \X (1 .. f[y])
<1>1. Tokens(f, S \cup {y}) = A \cup B
  BY DEF Tokens
<1>2. A \cap B = {}
  BY DEF Tokens
<1>3. IsFiniteSet(A) /\ Cardinality(A) \in Nat
  BY TotalType DEF Total, Tokens
<1>4. IsFiniteSet(B) /\ Cardinality(B) = f[y]
  BY OneTotal
<1> HIDE DEF A, B
<1>5. Cardinality(A \cup B) = Cardinality(A) + Cardinality(B) - Cardinality(A \cap B)
  BY <1>3, <1>4, FS_Union
<1>6. Cardinality(A \cap B) = 0
  BY <1>2, FS_EmptySet
<1>7. Cardinality(A \cup B) = Cardinality(A) + f[y]
  BY <1>3, <1>4, <1>5, <1>6
<1>8. QED
  BY <1>1, <1>7 DEF A, Total, Tokens

(* Fewer elements carry no more. *)
LEMMA TotalSubset ==
  ASSUME NEW T, IsFiniteSet(T), NEW S \in SUBSET T, NEW f, \A x \in T : f[x] \in Nat
  PROVE  Total(f, S) <= Total(f, T)
<1>1. Tokens(f, S) \subseteq Tokens(f, T)
  BY DEF Tokens
<1>2. IsFiniteSet(Tokens(f, T))
  BY TotalType
<1>3. Cardinality(Tokens(f, S)) <= Cardinality(Tokens(f, T))
  BY <1>1, <1>2, FS_Subset
<1>4. QED
  BY <1>3 DEF Total, Tokens

(* The sum depends on what the elements carry, and on nothing else. *)
LEMMA TotalSame ==
  ASSUME NEW S, NEW f, NEW g, \A x \in S : f[x] = g[x]
  PROVE  Total(f, S) = Total(g, S)
<1>1. {{x} \X (1 .. f[x]) : x \in S} = {{x} \X (1 .. g[x]) : x \in S}
  OBVIOUS
<1>2. QED
  BY <1>1 DEF Total

(* Nothing carries more than all together. *)
LEMMA TotalElement ==
  ASSUME NEW S, IsFiniteSet(S), NEW f, \A x \in S : f[x] \in Nat, NEW y \in S
  PROVE  f[y] <= Total(f, S)
<1>1. {y} \X (1 .. f[y]) \subseteq Tokens(f, S)
  BY DEF Tokens
<1>2. IsFiniteSet(Tokens(f, S))
  BY TotalType
<1>3. Cardinality({y} \X (1 .. f[y])) <= Cardinality(Tokens(f, S))
  BY <1>1, <1>2, FS_Subset
<1>4. QED
  BY <1>3, OneTotal DEF Total, Tokens
-----------------------------------------------------------------------------
(* Types *)

PC == {"idle", "asleep", "serving", "addEnsure", "addFetch", "add", "lost",
       "flushEnsure", "flushFetch", "take", "await", "remove", "exit", "done",
       "stopped"}

BatchType == [tokens : Nat, awaited : BOOLEAN, attempt : 1 .. MaxAttempts,
              state : {"sending", "recorded", "dropped"}]

(* Where a flush returns to. *)
LEMMA ReturnType ==
  ASSUME TypeOK, WatcherInv, NEW p \in Tasks, Return(p), pc[p] = "take" \/ p = "main"
  PROVE  pc' \in [Tasks -> PC] /\ flushed' \in 0 .. 2 /\ WatcherInv'
<1>1. pc \in [Tasks -> PC] /\ flushed \in 0 .. 2
  BY DEF TypeOK, PC
<1>2. pc' \in [Tasks -> PC]
  BY <1>1 DEF Return, PC
<1>3. CASE p = "watcher"
  <2>1. flushed \in 0 .. 1 /\ flushed' = flushed + 1
    BY <1>1, <1>3, SettlementAssumption DEF Return, WatcherInv, Flushing
  <2>2. pc'["watcher"] = IF flushed = 0 THEN "flushEnsure" ELSE "remove"
    BY <1>1, <1>3 DEF Return
  <2>3. QED
    BY <1>2, <2>1, <2>2 DEF WatcherInv, Flushing
<1>4. CASE p # "watcher"
  <2>1. pc'["watcher"] = pc["watcher"] /\ flushed' = flushed
    BY <1>1, <1>4 DEF Return, Tasks
  <2>2. QED
    BY <1>1, <1>2, <2>1 DEF WatcherInv
<1>5. QED
  BY <1>3, <1>4

(* A batch that is submitted stays a batch. *)
LEMMA RetryType ==
  ASSUME NEW b \in BatchType
  PROVE  Retry(b) \in BatchType /\ Retry(b).tokens = b.tokens
BY SettlementAssumption DEF BatchType, Retry

(* Every variable keeps its type at every step. *)
LEMMA TypeStep == TypeOK /\ WatcherInv /\ [Next]_vars => TypeOK' /\ WatcherInv'
<1> SUFFICES ASSUME TypeOK, WatcherInv, [Next]_vars PROVE TypeOK' /\ WatcherInv'
  OBVIOUS
<1>a. /\ pc \in [Tasks -> PC] /\ batches \in Seq(BatchType)
      /\ "watcher" \in Tasks
  BY DEF TypeOK, PC, BatchType, Tasks
<1>b. ASSUME NEW p \in Tasks, NEW q \in PC, pc' = [pc EXCEPT ![p] = q],
             q \in Flushing \cup {"idle"} => p # "watcher" \/ flushed <= 1,
             flushed' = flushed
      PROVE  pc' \in [Tasks -> PC] /\ WatcherInv'
  BY <1>a, <1>b DEF WatcherInv
<1>1. ASSUME NEW p \in Tasks, EnsureSession(p) PROVE TypeOK' /\ WatcherInv'
  <2>1. PICK q \in PC : /\ pc' = [pc EXCEPT ![p] = q]
                        /\ q # "idle" /\ (q \in Flushing => pc[p] \in Flushing)
    BY <1>1, <1>a DEF EnsureSession, Ensured, PC, Flushing
  <2>2. pc' \in [Tasks -> PC] /\ WatcherInv'
    BY <1>1, <1>b, <2>1 DEF EnsureSession, WatcherInv
  <2>3. QED
    BY <1>1, <2>2 DEF EnsureSession, TypeOK, PC
<1>2. ASSUME NEW p \in Tasks, FetchSession(p) PROVE TypeOK' /\ WatcherInv'
  <2>1. PICK q \in PC : /\ pc' = [pc EXCEPT ![p] = q]
                        /\ q # "idle" /\ (q \in Flushing => pc[p] \in Flushing)
    BY <1>2, <1>a DEF FetchSession, Ensured, PC, Flushing
  <2>2. pc' \in [Tasks -> PC] /\ WatcherInv'
    BY <1>2, <1>b, <2>1 DEF FetchSession, WatcherInv
  <2>3. entry' \in BOOLEAN
    BY <1>2, Zenon DEF FetchSession, TypeOK
  <2>4. ~entry' => ~entry
    BY <1>2 DEF FetchSession
  <2>5. QED
    BY <1>2, <2>2, <2>3, <2>4 DEF FetchSession, TypeOK, PC
<1>3. ASSUME NEW p \in Tasks, TakeBatch(p) PROVE TypeOK' /\ WatcherInv'
  <2>1. pc' \in [Tasks -> PC] /\ flushed' \in 0 .. 2 /\ WatcherInv'
    <3>1. CASE Return(p)
      BY <1>3, <3>1, ReturnType DEF TakeBatch
    <3>2. CASE p = "main" /\ pc' = [pc EXCEPT ![p] = "await"] /\ UNCHANGED flushed
      <4>1. pc' \in [Tasks -> PC] /\ WatcherInv'
        BY <1>b, <3>2 DEF PC, Flushing
      <4>2. QED
        BY <3>2, <4>1 DEF TypeOK
    <3>3. QED
      BY <1>3, <3>1, <3>2 DEF TakeBatch
  <2>2. Batch(p, pending) \in BatchType
    <3>1. (p = "main") \in BOOLEAN
      OBVIOUS
    <3>2. QED
      BY <3>1, SettlementAssumption DEF Batch, BatchType, TypeOK
  <2>3. batches' \in Seq(BatchType)
    BY <1>3, <1>a, <2>2 DEF TakeBatch
  <2>4. /\ due' \in BOOLEAN /\ pending' \in Nat
        /\ ~entry => pending' = 0 /\ ~due'
    <3>1. \/ UNCHANGED <<pending, due>>
          \/ pending' = 0 /\ due' = FALSE
      BY <1>3 DEF TakeBatch
    <3>2. due' \in BOOLEAN
      BY <3>1, Zenon DEF TypeOK
    <3>3. QED
      BY <3>1, <3>2 DEF TypeOK
  <2>5. QED
    BY <1>3, <2>1, <2>3, <2>4 DEF TakeBatch, TypeOK, PC, BatchType
<1>4. ASSUME NEW r \in Reports, AddUsage(r) PROVE TypeOK' /\ WatcherInv'
  <2>1. r \in Tasks /\ r # "watcher"
    BY SettlementAssumption DEF Tasks
  <2>2. \E q \in PC : pc' = [pc EXCEPT ![r] = q]
    BY <1>4, <1>a DEF AddUsage, PC
  <2>3. pc' \in [Tasks -> PC] /\ WatcherInv'
    BY <1>4, <1>b, <2>1, <2>2 DEF AddUsage
  <2>4. pending' \in Nat /\ (~entry => pending' = 0)
    BY <1>4 DEF AddUsage, TypeOK
  <2>5. QED
    BY <1>4, <2>3, <2>4 DEF AddUsage, TypeOK, PC
<1>5. ASSUME NEW r \in Reports, NEW n \in Sizes[r], Report(r, n)
      PROVE  TypeOK' /\ WatcherInv'
  <2>1. r \in Tasks /\ r # "watcher" /\ n \in Nat
    BY SettlementAssumption DEF Tasks
  <2>2. \E q \in PC : pc' = [pc EXCEPT ![r] = q]
    BY <1>5 DEF Report, PC
  <2>3. pc' \in [Tasks -> PC] /\ WatcherInv'
    BY <1>5, <1>b, <2>1, <2>2 DEF Report
  <2>4. size' \in [Reports -> Nat]
    BY <1>5, <2>1 DEF Report, TypeOK
  <2>5. QED
    BY <1>5, <2>3, <2>4 DEF Report, TypeOK, PC
<1>6. ASSUME NEW i \in DOMAIN batches, Submit(i) PROVE TypeOK' /\ WatcherInv'
  <2>1. batches[i] \in BatchType
    BY <1>a
  <2>2. \/ batches' = [batches EXCEPT ![i].state = "recorded"]
        \/ batches' = [batches EXCEPT ![i] = Retry(batches[i])]
    BY <1>6 DEF Submit
  <2>3. \E b \in BatchType : batches' = [batches EXCEPT ![i] = b]
    <3>1. [batches[i] EXCEPT !.state = "recorded"] \in BatchType
      BY <2>1 DEF BatchType
    <3>2. Retry(batches[i]) \in BatchType
      BY <2>1, RetryType
    <3>3. QED
      BY <2>2, <3>1, <3>2
  <2>4. batches' \in Seq(BatchType)
    BY <1>a, <2>3
  <2>5. recorded' \in Nat /\ unconfirmed' \in 0 .. MaxUnconfirmed
    <3>1. batches[i].tokens \in Nat
      BY <2>1 DEF BatchType
    <3>2. recorded \in Nat /\ unconfirmed \in 0 .. MaxUnconfirmed /\ MaxUnconfirmed \in Nat
      BY SettlementAssumption DEF TypeOK
    <3>3. recorded' \in {recorded, recorded + batches[i].tokens}
      BY <1>6 DEF Submit
    <3>4. unconfirmed' = unconfirmed \/ (unconfirmed < MaxUnconfirmed /\ unconfirmed' = unconfirmed + 1)
      BY <1>6 DEF Submit
    <3>5. QED
      BY <3>1, <3>2, <3>3, <3>4
  <2>6. QED
    BY <1>6, <2>4, <2>5 DEF Submit, TypeOK, BatchType, WatcherInv
<1>7. CASE AwaitChain
  <2>1. pc' \in [Tasks -> PC] /\ flushed' \in 0 .. 2 /\ WatcherInv'
    BY <1>7, ReturnType DEF AwaitChain, Tasks
  <2>2. QED
    BY <1>7, <2>1 DEF AwaitChain, TypeOK, PC
<1>8. CASE Elapse
  <2>1. due' \in BOOLEAN
    BY <1>8, Zenon DEF Elapse
  <2>2. QED
    BY <1>8, <2>1 DEF Elapse, TypeOK, WatcherInv
<1>9. CASE Sweep
  <2>1. pc' \in [Tasks -> PC] /\ WatcherInv'
    BY <1>9, <1>b DEF Sweep, PC, Tasks
  <2>2. QED
    BY <1>9, <2>1 DEF Sweep, TypeOK, PC
<1>10. CASE FundsReleased
  <2>1. flushed <= 1 /\ pc' = [pc EXCEPT !["watcher"] = "flushEnsure"]
    BY <1>10 DEF FundsReleased, WatcherInv
  <2>2. pc' \in [Tasks -> PC] /\ WatcherInv'
    BY <1>10, <1>a, <1>b, <2>1 DEF FundsReleased, PC
  <2>3. QED
    BY <1>10, <2>2 DEF FundsReleased, TypeOK, PC
<1>11. CASE RemoveSession
  <2>1. pc' \in [Tasks -> PC] /\ WatcherInv'
    BY <1>11, <1>a, <1>b DEF RemoveSession, PC, Flushing
  <2>2. entry' \in BOOLEAN /\ due' \in BOOLEAN
    BY <1>11, Zenon DEF RemoveSession
  <2>3. QED
    BY <1>11, <2>1, <2>2 DEF RemoveSession, TypeOK, PC
<1>12. CASE Drain \/ Exit
  <2>1. \E q \in PC : pc' = [pc EXCEPT !["main"] = q]
    BY <1>12 DEF Drain, Exit, PC
  <2>2. pc' \in [Tasks -> PC] /\ WatcherInv'
    BY <1>12, <1>b, <2>1 DEF Drain, Exit, Tasks
  <2>3. QED
    BY <1>12, <2>2 DEF Drain, Exit, TypeOK, PC
<1>13. CASE UNCHANGED vars
  BY <1>13 DEF vars, TypeOK, WatcherInv
<1>14. QED
  BY <1>1, <1>2, <1>3, <1>4, <1>5, <1>6, <1>7, <1>8, <1>9, <1>10, <1>11,
     <1>12, <1>13 DEF Next, TaskStep, Terminated

(* The initial state has the right types. *)
LEMMA TypeInit == Init => TypeOK /\ WatcherInv
<1> SUFFICES ASSUME Init PROVE TypeOK /\ WatcherInv
  OBVIOUS
<1>1. entry \in BOOLEAN /\ due \in BOOLEAN
  BY Zenon DEF Init
<1>2. pc \in [Tasks -> PC]
  BY DEF Init, PC
<1>3. batches \in Seq(BatchType)
  BY DEF Init
<1>4. unconfirmed \in 0 .. MaxUnconfirmed
  BY SettlementAssumption DEF Init
<1>5. size \in [Reports -> Nat]
  BY DEF Init
<1>6. WatcherInv
  BY DEF Init, WatcherInv
<1>7. QED
  BY <1>1, <1>2, <1>3, <1>4, <1>5, <1>6 DEF Init, TypeOK, PC, BatchType

(* In every state the types are right. *)
LEMMA TypeInvariance == Spec => [](TypeOK /\ WatcherInv)
BY TypeInit, TypeStep, PTL DEF Spec

(* Type correctness of the usage batcher: a session without an entry has   *)
(* no tokens pending, and no batch is tried more than MAX_ATTEMPTS times.  *)
THEOREM TypeCorrect == Spec => []TypeOK
BY TypeInvariance, PTL
-----------------------------------------------------------------------------
(* What a step does to the sums *)

(* The sums are numbers. *)
LEMMA SumTypes ==
  ASSUME TypeOK
  PROVE  /\ IsFiniteSet(Added) /\ AddedTokens \in Nat
         /\ IsFiniteSet(DOMAIN batches) /\ BatchedTokens \in Nat
         /\ Confirmed \in SUBSET DOMAIN batches /\ IsFiniteSet(Confirmed)
         /\ Total(Carried, Confirmed) \in Nat
         /\ Total(Carried, Confirmed) <= BatchedTokens
         /\ \A i \in DOMAIN batches : /\ batches[i] \in BatchType
                                     /\ Carried[i] = batches[i].tokens
                                     /\ Carried[i] \in Nat
                                     /\ Carried[i] <= BatchedTokens
<1>1. batches \in Seq(BatchType) /\ size \in [Reports -> Nat]
  BY DEF TypeOK, BatchType
<1>2. IsFiniteSet(DOMAIN batches)
  <2>1. DOMAIN batches = 1 .. Len(batches) /\ Len(batches) \in Nat
    BY <1>1
  <2>2. QED
    BY <2>1, FS_Interval
<1>3. \A i \in DOMAIN batches : /\ batches[i] \in BatchType
                               /\ Carried[i] = batches[i].tokens
                               /\ Carried[i] \in Nat
  <2>1. \A i \in DOMAIN batches : batches[i] \in BatchType
    BY <1>1
  <2>2. \A b \in BatchType : b.tokens \in Nat
    BY DEF BatchType
  <2>3. QED
    BY <2>1, <2>2 DEF Carried
<1>4. IsFiniteSet(Added)
  <2>1. Added \in SUBSET Reports
    BY DEF Added
  <2>2. QED
    BY <2>1, FS_Subset, SettlementAssumption
<1>5. AddedTokens \in Nat
  <2>1. \A r \in Added : size[r] \in Nat
    BY <1>1 DEF Added
  <2>2. QED
    BY <1>4, <2>1, TotalType DEF AddedTokens
<1>6. BatchedTokens \in Nat
  BY <1>2, <1>3, TotalType DEF BatchedTokens
<1>7. Confirmed \in SUBSET DOMAIN batches
  BY DEF Confirmed
<1>8. IsFiniteSet(Confirmed)
  BY <1>2, <1>7, FS_Subset
<1>9. Total(Carried, Confirmed) \in Nat
  <2>1. \A i \in Confirmed : Carried[i] \in Nat
    BY <1>3, <1>7
  <2>2. QED
    BY <1>8, <2>1, TotalType
<1>10. Total(Carried, Confirmed) <= BatchedTokens
  BY <1>2, <1>3, <1>7, TotalSubset DEF BatchedTokens
<1>11. \A i \in DOMAIN batches : Carried[i] <= BatchedTokens
  BY <1>2, <1>3, TotalElement DEF BatchedTokens
<1>12. QED
  BY <1>2, <1>3, <1>4, <1>5, <1>6, <1>7, <1>8, <1>9, <1>10, <1>11

Accepted == Flushing \cup {"done"}

(* Moves that neither accept a report nor forget one. *)
LEMMA AddedSame ==
  ASSUME size' = size, \A r \in Reports : pc'[r] \in Accepted <=> pc[r] \in Accepted
  PROVE  AddedTokens' = AddedTokens
<1>1. Added' = Added
  BY DEF Added, Accepted
<1>2. QED
  BY <1>1 DEF AddedTokens

(* The batch takes the tokens of a report. *)
LEMMA AddEffect ==
  ASSUME TypeOK, NEW r \in Reports, AddUsage(r), entry
  PROVE  AddedTokens' = AddedTokens + size[r] /\ pending' = pending + size[r]
<1>1. pc[r] = "add" /\ pc'[r] \in Accepted /\ \A x \in Reports \ {r} : pc'[x] = pc[x]
  BY DEF AddUsage, TypeOK, Tasks, Accepted, Flushing
<1>2. Added' = Added \cup {r} /\ r \notin Added
  BY <1>1 DEF Added, Accepted, Flushing
<1>3. IsFiniteSet(Added)
  BY SumTypes
<1>4. size[r] \in Nat /\ \A x \in Added : size[x] \in Nat
  BY DEF TypeOK, Added
<1>5. Total(size, Added \cup {r}) = Total(size, Added) + size[r]
  BY <1>2, <1>3, <1>4, TotalAdd
<1>6. QED
  BY <1>2, <1>5 DEF AddedTokens, AddUsage

(* An empty report is accepted without a change; any other waits. *)
LEMMA ReportEffect ==
  ASSUME TypeOK, NEW r \in Reports, NEW n \in Sizes[r], Report(r, n)
  PROVE  AddedTokens' = AddedTokens
<1>1. /\ pc[r] = "idle" /\ pc'[r] = IF n = 0 THEN "done" ELSE "addEnsure"
      /\ \A x \in Reports \ {r} : pc'[x] = pc[x]
  BY DEF Report, TypeOK, Tasks
<1>2. size' = [size EXCEPT ![r] = n] /\ size \in [Reports -> Nat]
  BY DEF Report, TypeOK
<1>3. r \notin Added /\ Added \in SUBSET Reports
  BY <1>1 DEF Added, Flushing
<1>4. Total(size', Added) = Total(size, Added)
  <2>1. \A x \in Added : size'[x] = size[x]
    BY <1>2, <1>3
  <2>2. QED
    BY <2>1, TotalSame
<1>5. CASE n = 0
  <2>1. Added' = Added \cup {r}
    BY <1>1, <1>5 DEF Added, Flushing
  <2>2. size'[r] = 0 /\ \A x \in Added : size'[x] \in Nat
    BY <1>2, <1>3, <1>5
  <2>3. Total(size', Added \cup {r}) = Total(size', Added) + size'[r]
    BY <1>3, <2>2, SumTypes, TotalAdd
  <2>4. Total(size', Added) \in Nat
    BY <1>4, SumTypes DEF AddedTokens
  <2>5. QED
    BY <1>4, <2>1, <2>2, <2>3, <2>4 DEF AddedTokens
<1>6. CASE n # 0
  <2>1. Added' = Added
    BY <1>1, <1>6 DEF Added, Flushing
  <2>2. QED
    BY <1>4, <2>1 DEF AddedTokens
<1>7. QED
  BY <1>5, <1>6

(* The pending tokens become one more batch, which is not confirmed. *)
LEMMA TakeEffect ==
  ASSUME TypeOK, NEW p \in Tasks, batches' = Append(batches, Batch(p, pending))
  PROVE  /\ BatchedTokens' = BatchedTokens + pending
         /\ Total(Carried, Confirmed)' = Total(Carried, Confirmed)
<1> DEFINE n == Len(batches) + 1
<1>1. batches \in Seq(BatchType) /\ pending \in Nat
  BY DEF TypeOK, BatchType
<1>2. /\ DOMAIN batches' = DOMAIN batches \cup {n} /\ n \notin DOMAIN batches
      /\ batches'[n] = Batch(p, pending)
      /\ \A i \in DOMAIN batches : batches'[i] = batches[i]
  BY <1>1
<1>3. /\ Carried'[n] = pending
      /\ \A i \in DOMAIN batches : Carried'[i] = Carried[i]
  BY <1>2 DEF Carried, Batch
<1>4. Total(Carried', DOMAIN batches) = BatchedTokens
  BY <1>3, TotalSame DEF BatchedTokens
<1>5. Total(Carried', DOMAIN batches \cup {n}) = Total(Carried', DOMAIN batches) + Carried'[n]
  <2>1. \A i \in DOMAIN batches : Carried'[i] \in Nat
    BY <1>3, SumTypes
  <2>2. IsFiniteSet(DOMAIN batches)
    BY SumTypes
  <2>3. n \notin DOMAIN batches /\ Carried'[n] \in Nat
    BY <1>1, <1>2, <1>3
  <2> HIDE DEF n
  <2>4. QED
    BY <2>1, <2>2, <2>3, TotalAdd
<1>6. Confirmed' = Confirmed
  BY <1>2 DEF Confirmed, Batch
<1>7. Total(Carried', Confirmed) = Total(Carried, Confirmed)
  BY <1>3, SumTypes, TotalSame
<1>8. QED
  BY <1>2, <1>3, <1>4, <1>5, <1>6, <1>7 DEF BatchedTokens

(* An attempt to submit moves no tokens between batches; a confirmation    *)
(* confirms the whole batch.                                               *)
LEMMA SubmitEffect ==
  ASSUME TypeOK, NEW i \in DOMAIN batches, Submit(i)
  PROVE  /\ BatchedTokens' = BatchedTokens
         /\ \/ /\ recorded' = recorded + Carried[i] /\ UNCHANGED unconfirmed
               /\ Total(Carried, Confirmed)' = Total(Carried, Confirmed) + Carried[i]
            \/ /\ UNCHANGED <<recorded, unconfirmed>>
               /\ Total(Carried, Confirmed)' = Total(Carried, Confirmed)
            \/ /\ recorded' = recorded + Carried[i] /\ unconfirmed' = unconfirmed + 1
               /\ Total(Carried, Confirmed)' = Total(Carried, Confirmed)
<1>1. batches \in Seq(BatchType) /\ batches[i] \in BatchType
  BY SumTypes DEF TypeOK, BatchType
<1>2. batches[i].state = "sending"
  BY DEF Submit, Settled
<1>3. ASSUME NEW b \in BatchType, batches' = [batches EXCEPT ![i] = b],
             b.tokens = batches[i].tokens
      PROVE  /\ DOMAIN batches' = DOMAIN batches /\ batches'[i] = b
             /\ \A j \in DOMAIN batches : j # i => batches'[j] = batches[j]
             /\ Carried' = Carried
             /\ BatchedTokens' = BatchedTokens
  <2>1. /\ DOMAIN batches' = DOMAIN batches /\ batches'[i] = b
        /\ \A j \in DOMAIN batches : j # i => batches'[j] = batches[j]
    BY <1>1, <1>3
  <2>2. Carried' = Carried
    BY <1>3, <2>1 DEF Carried
  <2>3. QED
    BY <2>1, <2>2 DEF BatchedTokens
<1>4. CASE /\ batches' = [batches EXCEPT ![i].state = "recorded"]
           /\ recorded' = recorded + batches[i].tokens /\ UNCHANGED unconfirmed
  <2> DEFINE b == [batches[i] EXCEPT !.state = "recorded"]
  <2>1. b \in BatchType /\ b.tokens = batches[i].tokens /\ b.state = "recorded"
    BY <1>1 DEF BatchType
  <2>2. batches' = [batches EXCEPT ![i] = b]
    BY <1>4
  <2> HIDE DEF b
  <2>3. Confirmed' = Confirmed \cup {i} /\ i \notin Confirmed
    BY <1>2, <1>3, <2>1, <2>2 DEF Confirmed
  <2>4. \A j \in Confirmed : Carried[j] \in Nat
    BY SumTypes
  <2>5. Total(Carried, Confirmed \cup {i}) = Total(Carried, Confirmed) + Carried[i]
    BY <2>3, <2>4, SumTypes, TotalAdd
  <2>6. QED
    BY <1>3, <1>4, <2>1, <2>2, <2>3, <2>5, SumTypes
<1>5. ASSUME batches' = [batches EXCEPT ![i] = Retry(@)]
      PROVE  /\ BatchedTokens' = BatchedTokens
             /\ Total(Carried, Confirmed)' = Total(Carried, Confirmed)
  <2>1. Retry(batches[i]) \in BatchType /\ Retry(batches[i]).tokens = batches[i].tokens
    BY <1>1, RetryType
  <2>2. Retry(batches[i]).state # "recorded"
    BY <1>1, <1>2 DEF Retry, BatchType
  <2>3. Confirmed' = Confirmed
    BY <1>2, <1>3, <1>5, <2>1, <2>2 DEF Confirmed
  <2>4. QED
    BY <1>3, <1>5, <2>1, <2>3
<1>6. QED
  BY <1>4, <1>5, SumTypes DEF Submit

(* Every step is one of five kinds. *)
Quiet == /\ UNCHANGED <<pending, batches, recorded, unconfirmed>>
         /\ AddedTokens' = AddedTokens
Adds  == /\ \E n \in Nat : pending' = pending + n /\ AddedTokens' = AddedTokens + n
         /\ UNCHANGED <<batches, recorded, unconfirmed>>
Takes == /\ BatchedTokens' = BatchedTokens + pending /\ pending' = 0
         /\ Total(Carried, Confirmed)' = Total(Carried, Confirmed)
         /\ AddedTokens' = AddedTokens
         /\ UNCHANGED <<recorded, unconfirmed>>
Tries == /\ \E i \in DOMAIN batches : Submit(i)
         /\ pending' = pending /\ AddedTokens' = AddedTokens
Drops == /\ pending' = 0 /\ pc'["watcher"] = "done"
         /\ UNCHANGED <<batches, recorded, unconfirmed>>
         /\ AddedTokens' = AddedTokens

(* Which task flushes, sweeps or drains does not matter to the sums. *)
LEMMA FiveKinds ==
  ASSUME TypeOK, [Next]_vars
  PROVE  /\ Quiet \/ Adds \/ Takes \/ Tries \/ Drops
         /\ pc["watcher"] = "done" => pc'["watcher"] = "done"
<1>a. /\ pc \in [Tasks -> PC] /\ Reports \subseteq Tasks
      /\ {"watcher", "main", "sweeper"} \subseteq Tasks
      /\ Reports \cap {"sweeper", "watcher", "main"} = {}
  BY SettlementAssumption DEF TypeOK, PC, Tasks
<1>b. ASSUME NEW p \in Tasks, NEW q, pc' = [pc EXCEPT ![p] = q], size' = size,
             p \in Reports => (q \in Accepted <=> pc[p] \in Accepted)
      PROVE  AddedTokens' = AddedTokens
  <2>1. \A r \in Reports : pc'[r] \in Accepted <=> pc[r] \in Accepted
    BY <1>a, <1>b
  <2>2. QED
    BY <1>b, <2>1, AddedSame
<1>1. ASSUME NEW p \in Tasks, EnsureSession(p) \/ FetchSession(p)
      PROVE  Quiet /\ (pc["watcher"] = "done" => pc'["watcher"] = "done")
  <2>1. \E q : /\ pc' = [pc EXCEPT ![p] = q]
               /\ q \in Accepted <=> pc[p] \in Accepted
    BY <1>1, <1>a DEF EnsureSession, FetchSession, Ensured, Accepted, Flushing
  <2>2. AddedTokens' = AddedTokens
    BY <1>1, <1>b, <2>1 DEF EnsureSession, FetchSession
  <2>3. QED
    BY <1>1, <1>a, <2>2 DEF EnsureSession, FetchSession, Quiet
<1>2. ASSUME NEW p \in Tasks, TakeBatch(p)
      PROVE  /\ Quiet \/ Takes
             /\ pc["watcher"] = "done" => pc'["watcher"] = "done"
  <2>1. \E q : /\ pc' = [pc EXCEPT ![p] = q]
               /\ p \in Reports => q \in Accepted
    BY <1>2, <1>a DEF TakeBatch, Return, Accepted, Flushing
  <2>2. AddedTokens' = AddedTokens
    BY <1>2, <1>b, <2>1 DEF TakeBatch, Accepted, Flushing
  <2>3. pc["watcher"] = "done" => pc'["watcher"] = "done"
    BY <1>2, <1>a, <2>1 DEF TakeBatch
  <2>4. CASE UNCHANGED <<pending, due, batches>>
    BY <1>2, <2>2, <2>3, <2>4 DEF TakeBatch, Quiet
  <2>5. CASE batches' = Append(batches, Batch(p, pending)) /\ pending' = 0
    BY <1>2, <2>2, <2>3, <2>5, TakeEffect DEF TakeBatch, Takes
  <2>6. QED
    BY <1>2, <2>4, <2>5 DEF TakeBatch
<1>3. ASSUME NEW r \in Reports, AddUsage(r)
      PROVE  /\ Quiet \/ Adds
             /\ pc["watcher"] = "done" => pc'["watcher"] = "done"
  <2>1. pc["watcher"] = "done" => pc'["watcher"] = "done"
    BY <1>3, <1>a DEF AddUsage
  <2>2. CASE entry
    <3>1. size[r] \in Nat
      BY DEF TypeOK
    <3>2. QED
      BY <1>3, <2>1, <2>2, <3>1, AddEffect DEF AddUsage, Adds
  <2>3. CASE ~entry
    <3>1. pc' = [pc EXCEPT ![r] = "lost"] /\ UNCHANGED <<pending, size>>
      BY <1>3, <2>3 DEF AddUsage
    <3>2. AddedTokens' = AddedTokens
      BY <1>3, <1>a, <1>b, <3>1 DEF AddUsage, Accepted, Flushing
    <3>3. QED
      BY <1>3, <2>1, <3>1, <3>2 DEF AddUsage, Quiet
  <2>4. QED
    BY <2>2, <2>3
<1>4. ASSUME NEW r \in Reports, NEW n \in Sizes[r], Report(r, n)
      PROVE  Quiet /\ (pc["watcher"] = "done" => pc'["watcher"] = "done")
  BY <1>4, <1>a, ReportEffect DEF Report, Quiet
<1>5. ASSUME NEW i \in DOMAIN batches, Submit(i)
      PROVE  Tries /\ (pc["watcher"] = "done" => pc'["watcher"] = "done")
  <2>1. AddedTokens' = AddedTokens
    BY <1>5, AddedSame DEF Submit
  <2>2. QED
    BY <1>5, <2>1 DEF Submit, Tries
<1>6. CASE AwaitChain \/ Sweep \/ FundsReleased \/ Drain \/ Exit
  <2>1. \E p \in {"main", "sweeper", "watcher"} :
          /\ \E q : pc' = [pc EXCEPT ![p] = q]
          /\ pc[p] # "done" \/ p # "watcher"
    BY <1>6 DEF AwaitChain, Return, Sweep, FundsReleased, Drain, Exit
  <2>2. AddedTokens' = AddedTokens
    BY <1>6, <1>a, <1>b, <2>1 DEF AwaitChain, Return, Sweep, FundsReleased, Drain, Exit
  <2>3. pc["watcher"] = "done" => pc'["watcher"] = "done"
    BY <1>a, <2>1
  <2>4. QED
    BY <1>6, <2>2, <2>3 DEF AwaitChain, Sweep, FundsReleased, Drain, Exit, Quiet
<1>7. CASE Elapse
  BY <1>7, AddedSame DEF Elapse, Quiet
<1>8. CASE RemoveSession
  <2>1. AddedTokens' = AddedTokens
    BY <1>8, <1>a, <1>b DEF RemoveSession
  <2>2. QED
    BY <1>8, <1>a, <2>1 DEF RemoveSession, Drops
<1>9. CASE UNCHANGED vars
  BY <1>9, AddedSame DEF vars, Quiet
<1>10. QED
  BY <1>1, <1>2, <1>3, <1>4, <1>5, <1>6, <1>7, <1>8, <1>9 DEF Next, TaskStep, Terminated
-----------------------------------------------------------------------------
(* Conservation of tokens *)

(* A step that is none of the watcher's removal keeps the books balanced.  *)
LEMMA AccountedStep ==
  TypeOK /\ TypeOK' /\ EveryTokenAccounted /\ [Next]_vars => EveryTokenAccounted'
<1> SUFFICES ASSUME TypeOK, TypeOK', EveryTokenAccounted, [Next]_vars,
                    pc'["watcher"] # "done"
             PROVE  pending' + BatchedTokens' = AddedTokens'
  BY DEF EveryTokenAccounted
<1>1. pending + BatchedTokens = AddedTokens /\ pending \in Nat
  BY FiveKinds DEF EveryTokenAccounted, TypeOK
<1>2. BatchedTokens \in Nat /\ AddedTokens \in Nat
  BY SumTypes
<1>a. UNCHANGED batches => BatchedTokens' = BatchedTokens
  BY DEF BatchedTokens, Carried
<1>3. CASE Quiet
  BY <1>1, <1>a, <1>3 DEF Quiet
<1>4. CASE Adds
  BY <1>1, <1>2, <1>a, <1>4 DEF Adds
<1>5. CASE Takes
  BY <1>1, <1>2, <1>5 DEF Takes
<1>6. CASE Tries
  BY <1>1, <1>6, SubmitEffect DEF Tries
<1>7. CASE Drops
  BY <1>7 DEF Drops
<1>8. QED
  BY <1>3, <1>4, <1>5, <1>6, <1>7, FiveKinds

(* At the start there are no tokens. *)
LEMMA SumsInit ==
  ASSUME Init
  PROVE  AddedTokens = 0 /\ BatchedTokens = 0 /\ Total(Carried, Confirmed) = 0
<1>1. \A f : Total(f, {}) = 0
  <2>1. \A f : UNION {{x} \X (1 .. f[x]) : x \in {}} = {}
    OBVIOUS
  <2>2. QED
    BY <2>1, FS_EmptySet DEF Total
<1>2. Added = {}
  <2>1. ASSUME NEW r \in Reports PROVE r \notin Added
    <3>1. pc[r] = "idle"
      BY SettlementAssumption DEF Init, Tasks
    <3>2. QED
      BY <3>1 DEF Added, Flushing
  <2>2. QED
    BY <2>1 DEF Added
<1>3. DOMAIN batches = {} /\ Confirmed = {}
  BY DEF Init, Confirmed
<1>4. QED
  BY <1>1, <1>2, <1>3 DEF AddedTokens, BatchedTokens

(* Until remove_session has run, every token that add_usage accepted is    *)
(* pending or in exactly one batch, however many reports, sweeps, releases *)
(* and the shutdown race for the batch of the session.                     *)
THEOREM TokensAccounted == Spec => []EveryTokenAccounted
<1>1. Init => EveryTokenAccounted
  <2> SUFFICES ASSUME Init PROVE EveryTokenAccounted
    OBVIOUS
  <2>1. pending = 0
    BY DEF Init
  <2>2. QED
    BY <2>1, SumsInit DEF EveryTokenAccounted
<1>2. QED
  BY <1>1, TypeInvariance, AccountedStep, PTL DEF Spec

-----------------------------------------------------------------------------
(* What the chain records *)

(* Products grow with their factors. *)
LEMMA ProductGrows ==
  ASSUME NEW u \in Nat, NEW a \in Nat, NEW b \in Nat, a <= b
  PROVE  /\ u * a \in Nat /\ u * b \in Nat
         /\ u * a <= u * b
         /\ (u + 1) * a = u * a + a
<1>1. b - a \in Nat
  OBVIOUS
<1>2. u * (b - a) \in Nat
  BY <1>1
<1>3. u * b = u * a + u * (b - a)
  BY <1>1
<1>4. QED
  BY <1>2, <1>3

(* An attempt adds at most one batch to what is recorded: a confirmed one, *)
(* or one of those that went unconfirmed.                                  *)
LEMMA TokenStep == TypeOK /\ TypeOK' /\ TokenInv /\ [Next]_vars => TokenInv'
<1> SUFFICES ASSUME TypeOK, TypeOK', TokenInv, [Next]_vars PROVE TokenInv'
  OBVIOUS
<1> DEFINE A == AddedTokens
           B == BatchedTokens
           C == Total(Carried, Confirmed)
           u == unconfirmed
<1>1. A \in Nat /\ B \in Nat /\ C \in Nat /\ C <= B
  BY SumTypes
<1>2. pending \in Nat /\ recorded \in Nat /\ u \in Nat
  BY DEF TypeOK
<1>3. pending + B <= A /\ recorded <= C + u * A
  BY DEF TokenInv
<1>a. UNCHANGED batches => B' = B /\ C' = C
  BY DEF BatchedTokens, Carried, Confirmed
<1>b. u * A \in Nat /\ (u + 1) * A = u * A + A
  BY <1>1, <1>2, ProductGrows
<1>4. SUFFICES pending' + B' <= A' /\ recorded' <= C' + u' * A'
  BY DEF TokenInv
<1>5. CASE Quiet
  BY <1>3, <1>a, <1>5 DEF Quiet
<1>6. CASE Adds
  <2>1. PICK n \in Nat : pending' = pending + n /\ A' = A + n
    BY <1>6 DEF Adds
  <2>2. u' = u /\ recorded' = recorded /\ B' = B /\ C' = C
    BY <1>6, <1>a DEF Adds
  <2>3. A' \in Nat /\ A <= A'
    BY <1>1, <2>1
  <2>4. u * A <= u * A' /\ u * A' \in Nat
    BY <1>1, <1>2, <2>3, ProductGrows
  <2> HIDE DEF A, B, C, u
  <2>5. QED
    BY <1>1, <1>2, <1>3, <1>b, <2>1, <2>2, <2>4
<1>7. CASE Takes
  BY <1>1, <1>2, <1>3, <1>7 DEF Takes
<1>8. CASE Tries
  <2>1. PICK i \in DOMAIN batches : Submit(i)
    BY <1>8 DEF Tries
  <2>2. Carried[i] \in Nat /\ Carried[i] <= B
    BY SumTypes
  <2>3. B' = B /\ pending' = pending /\ A' = A
    BY <1>8, <2>1, SubmitEffect DEF Tries
  <2>4. \/ recorded' = recorded + Carried[i] /\ u' = u /\ C' = C + Carried[i]
        \/ recorded' = recorded /\ u' = u /\ C' = C
        \/ recorded' = recorded + Carried[i] /\ u' = u + 1 /\ C' = C
    BY <2>1, SubmitEffect
  <2> HIDE DEF A, B, C, u
  <2>5. Carried[i] <= A
    BY <1>1, <1>2, <1>3, <2>2
  <2>6. CASE recorded' = recorded + Carried[i] /\ u' = u /\ C' = C + Carried[i]
    BY <1>1, <1>2, <1>3, <1>b, <2>2, <2>3, <2>6
  <2>7. CASE recorded' = recorded + Carried[i] /\ u' = u + 1 /\ C' = C
    BY <1>1, <1>2, <1>3, <1>b, <2>2, <2>3, <2>5, <2>7
  <2>8. QED
    BY <1>3, <2>3, <2>4, <2>6, <2>7
<1>9. CASE Drops
  BY <1>1, <1>2, <1>3, <1>a, <1>9 DEF Drops
<1>10. QED
  BY <1>5, <1>6, <1>7, <1>8, <1>9, FiveKinds

(* The strengthening holds in every state. *)
LEMMA TokenInvariance == Spec => []TokenInv
<1>1. Init => TokenInv
  <2> SUFFICES ASSUME Init PROVE TokenInv
    OBVIOUS
  <2>1. pending = 0 /\ recorded = 0 /\ unconfirmed = 0
    BY DEF Init
  <2>2. QED
    BY <2>1, SumsInit DEF TokenInv
<1>2. QED
  BY <1>1, TypeInvariance, TokenStep, PTL DEF Spec

(* A session is charged for no more than was reported as long as every     *)
(* landed transaction is confirmed, and at most once more for each one     *)
(* that is not, however often record_usage_with_retry tries.               *)
THEOREM ChargedWithinReports == Spec => []NeverOvercharged
<1>1. TypeOK /\ TokenInv => NeverOvercharged
  <2> SUFFICES ASSUME TypeOK, TokenInv PROVE NeverOvercharged
    OBVIOUS
  <2>1. /\ AddedTokens \in Nat /\ BatchedTokens \in Nat
        /\ Total(Carried, Confirmed) \in Nat
        /\ Total(Carried, Confirmed) <= BatchedTokens
    BY SumTypes
  <2>2. pending \in Nat /\ unconfirmed \in Nat /\ recorded \in Nat
    BY DEF TypeOK
  <2>3. (unconfirmed + 1) * AddedTokens = unconfirmed * AddedTokens + AddedTokens
        /\ unconfirmed * AddedTokens \in Nat
    BY <2>1, <2>2, ProductGrows
  <2>4. recorded <= unconfirmed * AddedTokens + AddedTokens
    BY <2>1, <2>2, <2>3 DEF TokenInv
  <2>5. AddedTokens * (1 + unconfirmed) = (unconfirmed + 1) * AddedTokens
    BY <2>1, <2>2
  <2>6. QED
    BY <2>3, <2>4, <2>5 DEF NeverOvercharged
<1>2. QED
  BY <1>1, TypeInvariance, TokenInvariance, PTL

-----------------------------------------------------------------------------
(* Full chunks *)

(* Whoever fills a chunk goes on to flush it, and only who takes the       *)
(* tokens stops flushing while a chunk is full.                            *)
LEMMA FullChunkStep ==
  TypeOK /\ FullChunkIsBeingFlushed /\ [Next]_vars => FullChunkIsBeingFlushed'
<1> SUFFICES ASSUME TypeOK, FullChunkIsBeingFlushed, [Next]_vars,
                    entry', pending' >= Chunk
             PROVE  \E p \in Tasks : pc'[p] \in Flushing
  BY DEF FullChunkIsBeingFlushed
<1>a. /\ pc \in [Tasks -> PC] /\ Reports \subseteq Tasks
      /\ Chunk \in Nat /\ Chunk >= 1 /\ pending \in Nat
      /\ ~entry => pending = 0
  BY SettlementAssumption DEF TypeOK, PC, Tasks, Chunk
<1>b. ASSUME NEW p \in Tasks, NEW q, pc' = [pc EXCEPT ![p] = q], pending' = pending,
             pc[p] \in Flushing => q \in Flushing
      PROVE  \E x \in Tasks : pc'[x] \in Flushing
  <2>1. entry /\ pending >= Chunk
    BY <1>a, <1>b
  <2>2. PICK x \in Tasks : pc[x] \in Flushing
    BY <2>1 DEF FullChunkIsBeingFlushed
  <2>3. pc'[x] \in Flushing
    BY <1>a, <1>b, <2>2
  <2>4. QED
    BY <2>3
<1>1. ASSUME NEW p \in Tasks, EnsureSession(p) \/ FetchSession(p)
      PROVE  \E x \in Tasks : pc'[x] \in Flushing
  <2>1. \E q : /\ pc' = [pc EXCEPT ![p] = q]
               /\ pc[p] \in Flushing => q \in Flushing
    BY <1>1, <1>a DEF EnsureSession, FetchSession, Ensured, Flushing
  <2>2. QED
    BY <1>1, <1>b, <2>1 DEF EnsureSession, FetchSession
<1>2. ASSUME NEW p \in Tasks, TakeBatch(p)
      PROVE  \E x \in Tasks : pc'[x] \in Flushing
  <2>1. CASE pending' = 0
    BY <1>a, <2>1
  <2>2. CASE pending' # 0
    <3>1. pending' = pending /\ entry
      BY <1>2, <2>2 DEF TakeBatch
    <3>2. ~(\/ ~entry \/ pending = 0
            \/ p \in Reports /\ pending < Chunk /\ ~due)
      BY <1>a, <2>2, <3>1
    <3>3. QED
      BY <1>2, <2>2, <3>2 DEF TakeBatch
  <2>3. QED
    BY <2>1, <2>2
<1>3. ASSUME NEW r \in Reports, AddUsage(r)
      PROVE  \E x \in Tasks : pc'[x] \in Flushing
  <2>1. entry
    BY <1>3 DEF AddUsage
  <2>2. pc' = [pc EXCEPT ![r] = "flushEnsure"]
    BY <1>3, <2>1 DEF AddUsage
  <2>3. pc'[r] = "flushEnsure"
    BY <1>a, <2>2
  <2>4. QED
    BY <1>a, <2>3 DEF Flushing
<1>4. ASSUME NEW r \in Reports, NEW n \in Sizes[r], Report(r, n)
      PROVE  \E x \in Tasks : pc'[x] \in Flushing
  BY <1>4, <1>a, <1>b DEF Report, Flushing
<1>5. CASE UNCHANGED <<entry, pending, pc>>
  BY <1>5 DEF FullChunkIsBeingFlushed
<1>6. CASE AwaitChain \/ Sweep \/ FundsReleased \/ Drain \/ Exit
  <2>1. \E p \in Tasks : \E q : pc' = [pc EXCEPT ![p] = q] /\ pc[p] \notin Flushing
    BY <1>6 DEF AwaitChain, Return, Sweep, FundsReleased, Drain, Exit, Tasks, Flushing
  <2>2. pending' = pending
    BY <1>6 DEF AwaitChain, Sweep, FundsReleased, Drain, Exit
  <2>3. QED
    BY <1>b, <2>1, <2>2
<1>7. CASE RemoveSession
  BY <1>7 DEF RemoveSession
<1>8. QED
  BY <1>1, <1>2, <1>3, <1>4, <1>5, <1>6, <1>7
     DEF Next, TaskStep, Terminated, Submit, Elapse, vars

(* A full chunk never waits for the sweeper: some task is on its way to    *)
(* take it, whichever of add_usage, sweep, release and shutdown that is.   *)
THEOREM FullChunksFlushed == Spec => []FullChunkIsBeingFlushed
<1>1. Init => FullChunkIsBeingFlushed
  BY DEF Init, FullChunkIsBeingFlushed
<1>2. QED
  BY <1>1, TypeInvariance, FullChunkStep, PTL DEF Spec

-----------------------------------------------------------------------------
(* Largest and smallest elements *)

(* A largest element is the maximum, a smallest one the minimum. *)
LEMMA MaxIs ==
  ASSUME NEW S \in SUBSET Int, NEW m \in S, \A y \in S : m >= y
  PROVE  Max(S) = m
<1>1. \E x \in S : \A y \in S : x >= y
  OBVIOUS
<1> DEFINE x == Max(S)
<1>2. x \in S /\ \A y \in S : x >= y
  BY <1>1 DEF Max
<1> HIDE DEF x
<1>3. x \in Int /\ m \in Int /\ x >= m /\ m >= x
  BY <1>2
<1> QED
  BY <1>3 DEF x

LEMMA MinIs ==
  ASSUME NEW S \in SUBSET Int, NEW m \in S, \A y \in S : m <= y
  PROVE  Min(S) = m
<1>1. \E x \in S : \A y \in S : x =< y
  OBVIOUS
<1> DEFINE x == Min(S)
<1>2. x \in S /\ \A y \in S : x =< y
  BY <1>1 DEF Min
<1> HIDE DEF x
<1>3. x \in Int /\ m \in Int /\ x <= m /\ m <= x
  BY <1>2
<1> QED
  BY <1>3 DEF x

(* A finite set of integers has a maximum: an element with as few as       *)
(* possible above it has none above it.                                    *)
LEMMA MaxOf ==
  ASSUME NEW S \in SUBSET Int, IsFiniteSet(S), S # {}
  PROVE  Max(S) \in S /\ \A y \in S : Max(S) >= y
<1> DEFINE Above(x) == {y \in S : y > x}
           T == {Above(x) : x \in S}
           R == StrictSubsetOrdering(S)
<1>1. T \subseteq FiniteSubsetsOf(S) /\ T # {}
  <2>1. FiniteSubsetsOf(S) = SUBSET S
    BY FS_FiniteSubsetsOfFinite
  <2>2. \A x \in S : Above(x) \in SUBSET S
    OBVIOUS
  <2> HIDE DEF Above
  <2>3. T \subseteq SUBSET S /\ T # {}
    BY <2>2
  <2> QED
    BY <2>1, <2>3
<1>2. IsWellFoundedOn(R, FiniteSubsetsOf(S))
  BY FS_StrictSubsetOrderingWellFounded
<1> HIDE DEF T, R
<1>3. \E A \in T : \A B \in T : ~ (<<B, A>> \in R)
  BY <1>1, <1>2, WFMin
<1>4. PICK x \in S : \A B \in T : ~ (<<B, Above(x)>> \in R)
  BY <1>3 DEF T
<1>5. \A y \in S : x >= y
  <2> SUFFICES ASSUME NEW y \in S, ~(x >= y) PROVE FALSE
    OBVIOUS
  <2>0. S \subseteq Int /\ x \in Int /\ y \in Int /\ y > x
    OBVIOUS
  <2>1. /\ \A z \in S : z > y => z > x
        /\ y > x /\ ~(y > y)
    BY <2>0
  <2>2. Above(y) \in T
    BY DEF T
  <2>3. Above(y) \subseteq Above(x) /\ y \in Above(x) /\ y \notin Above(y)
    BY <2>1
  <2>4. <<Above(y), Above(x)>> \in R
    BY <2>3 DEF R, StrictSubsetOrdering
  <2> QED
    BY <1>4, <2>2, <2>4
<1> QED
  BY <1>5 DEF Max

-----------------------------------------------------------------------------
(* The text *)

Usages == [input : Nat, output : Nat]
Events == [usage : {None} \cup Usages, receipt : {None} \cup Nat, quotes : BOOLEAN]

(* Where the text of the i-th event begins. *)
At(i) == 5 * (i - 1) + 1

(* Every place of the text belongs to one event. *)
LEMMA Places5 ==
  ASSUME NEW p \in Nat \ {0}
  PROVE  \E i \in Nat \ {0}, k \in 0 .. 4 : p = At(i) + k
<1> DEFINE i == (p - 1) \div 5 + 1
           k == (p - 1) % 5
<1>1. i \in Nat \ {0} /\ k \in 0 .. 4 /\ p = At(i) + k
  BY DEF At
<1> QED
  BY <1>1

(* What is at place p, the k-th of event i. *)
LEMMA PieceAt ==
  ASSUME NEW s, NEW p, NEW i, NEW k, (p - 1) \div 5 + 1 = i, (p - 1) % 5 = k
  PROVE  /\ k = 0 => Piece(s, p) = [is |-> "data"]
         /\ k = 1 => Piece(s, p) = [is |-> "open", event |-> i]
         /\ k = 2 => Piece(s, p) = IF s[i].quotes THEN [is |-> "data"] ELSE [is |-> "text"]
         /\ k = 3 => Piece(s, p) = [is |-> "close", event |-> i]
         /\ k = 4 => Piece(s, p) = [is |-> "line"]
<1> DEFINE data  == [is |-> "data"]
           open  == [is |-> "open", event |-> i]
           text  == IF s[i].quotes THEN [is |-> "data"] ELSE [is |-> "text"]
           close == [is |-> "close", event |-> i]
           line  == [is |-> "line"]
<1>1. Piece(s, p) = CASE k = 0 -> data [] k = 1 -> open [] k = 2 -> text
                      [] k = 3 -> close [] k = 4 -> line
  BY Zenon DEF Piece, Pieces
<1> HIDE DEF data, open, text, close, line
<1>2. /\ k = 0 => Piece(s, p) = data
      /\ k = 1 => Piece(s, p) = open
      /\ k = 2 => Piece(s, p) = text
      /\ k = 3 => Piece(s, p) = close
      /\ k = 4 => Piece(s, p) = line
  BY <1>1
<1> QED
  BY <1>2 DEF data, open, text, close, line

(* The five pieces of an event. *)
LEMMA PiecesOf ==
  ASSUME NEW s, NEW i \in Nat \ {0}
  PROVE  /\ Piece(s, At(i)) = [is |-> "data"]
         /\ Piece(s, At(i) + 1) = [is |-> "open", event |-> i]
         /\ Piece(s, At(i) + 2) = IF s[i].quotes THEN [is |-> "data"] ELSE [is |-> "text"]
         /\ Piece(s, At(i) + 3) = [is |-> "close", event |-> i]
         /\ Piece(s, At(i) + 4) = [is |-> "line"]
<1>1. /\ (At(i) - 1) % 5 = 0 /\ (At(i) - 1) \div 5 + 1 = i
      /\ ((At(i) + 1) - 1) % 5 = 1 /\ ((At(i) + 1) - 1) \div 5 + 1 = i
      /\ ((At(i) + 2) - 1) % 5 = 2 /\ ((At(i) + 2) - 1) \div 5 + 1 = i
      /\ ((At(i) + 3) - 1) % 5 = 3 /\ ((At(i) + 3) - 1) \div 5 + 1 = i
      /\ ((At(i) + 4) - 1) % 5 = 4 /\ ((At(i) + 4) - 1) \div 5 + 1 = i
  BY DEF At
<1> HIDE DEF At
<1> QED
  BY <1>1, PieceAt

(* What the pieces of an event are, but for its text. *)
LEMMA KindsOf ==
  ASSUME NEW s, NEW i \in Nat \ {0}
  PROVE  /\ Piece(s, At(i)).is = "data" /\ Piece(s, At(i) + 1).is = "open"
         /\ Piece(s, At(i) + 3).is = "close" /\ Piece(s, At(i) + 4).is = "line"
<1>1. /\ Piece(s, At(i)) = [is |-> "data"]
      /\ Piece(s, At(i) + 1) = [is |-> "open", event |-> i]
      /\ Piece(s, At(i) + 3) = [is |-> "close", event |-> i]
      /\ Piece(s, At(i) + 4) = [is |-> "line"]
  BY PiecesOf
<1> QED
  BY <1>1

(* The text so far is a sequence of pieces. *)
LEMMA TextIs ==
  ASSUME NEW s, NEW n \in Nat
  PROVE  /\ Len(Text(s, n)) = n /\ DOMAIN Text(s, n) = 1 .. n
         /\ \A p \in 1 .. n : Text(s, n)[p] = Piece(s, p)
BY DEF Text

(* A segment that is cut off by the end of the text ends there. *)
LEMMA OpenSegment ==
  ASSUME NEW s, NEW n \in Nat, NEW p \in 1 .. n,
         \A q \in p + 1 .. n : Piece(s, q).is \notin {"data", "line"}
  PROVE  SegmentEnd(Text(s, n), p) = n + 1
<1> DEFINE t == Text(s, n)
           S == {q \in p + 1 .. Len(t) : t[q].is \in {"data", "line"}}
<1>1. Len(t) = n /\ \A q \in 1 .. n : t[q] = Piece(s, q)
  BY TextIs
<1>2. SegmentEnd(t, p) = Min(S \cup {Len(t) + 1})
  BY DEF SegmentEnd
<1> HIDE DEF t
<1>3. \A q \in p + 1 .. Len(t) : t[q] = Piece(s, q)
  BY <1>1
<1>4. S = {}
  BY <1>1, <1>3
<1> HIDE DEF S
<1>5. SegmentEnd(t, p) = Min({n + 1})
  BY <1>1, <1>2, <1>4
<1>6. Min({n + 1}) = n + 1
  BY MinIs
<1> QED
  BY <1>5, <1>6 DEF t

(* A segment ends at the next "data:" or end of line. *)
LEMMA ClosedSegment ==
  ASSUME NEW s, NEW n \in Nat, NEW p \in 1 .. n, NEW m \in p + 1 .. n,
         \A q \in p + 1 .. m - 1 : Piece(s, q).is \notin {"data", "line"},
         Piece(s, m).is \in {"data", "line"}
  PROVE  SegmentEnd(Text(s, n), p) = m
<1> DEFINE t == Text(s, n)
           S == {q \in p + 1 .. Len(t) : t[q].is \in {"data", "line"}}
<1>1. Len(t) = n /\ \A q \in 1 .. n : t[q] = Piece(s, q)
  BY TextIs
<1>2. SegmentEnd(t, p) = Min(S \cup {Len(t) + 1})
  BY DEF SegmentEnd
<1> HIDE DEF t
<1>3. \A q \in p + 1 .. Len(t) : t[q] = Piece(s, q)
  BY <1>1
<1>4. m \in S /\ S \subseteq Int
  BY <1>1, <1>3
<1>5. \A q \in S : m <= q
  <2> SUFFICES ASSUME NEW q \in S, ~(m <= q) PROVE FALSE
    OBVIOUS
  <2>1. q \in p + 1 .. m - 1 /\ t[q] = Piece(s, q) /\ t[q].is \in {"data", "line"}
    BY <1>1, <1>3
  <2> QED
    BY <2>1
<1> HIDE DEF S
<1> DEFINE T == S \cup {Len(t) + 1}
<1>6. T \in SUBSET Int /\ m \in T /\ \A y \in T : m <= y
  BY <1>1, <1>4, <1>5
<1> HIDE DEF T
<1>7. Min(T) = m
  BY <1>6, MinIs
<1> QED
  BY <1>2, <1>7 DEF T, t

(* The payload of a segment, piece by piece. *)
LEMMA PayloadIs ==
  ASSUME NEW s, NEW n \in Nat, NEW p \in 1 .. n, NEW m \in p + 1 .. n + 1,
         SegmentEnd(Text(s, n), p) = m
  PROVE  /\ Len(Payload(Text(s, n), p)) = m - 1 - p
         /\ \A j \in 1 .. m - 1 - p : Payload(Text(s, n), p)[j] = Piece(s, p + j)
<1> DEFINE t == Text(s, n)
           x == SubSeq(t, p + 1, m - 1)
           T == {Piece(s, q) : q \in 1 .. n}
<1>0. t \in Seq(T)
  BY DEF Text
<1>1. Len(t) = n /\ \A q \in 1 .. n : t[q] = Piece(s, q)
  BY TextIs
<1>2. Payload(t, p) = x
  BY DEF Payload
<1> HIDE DEF t, T
<1>3. Len(x) = m - 1 - p /\ \A j \in 1 .. m - 1 - p : x[j] = t[p + j]
  BY <1>0, <1>1
<1>4. \A j \in 1 .. m - 1 - p : p + j \in 1 .. n
  OBVIOUS
<1> QED
  BY <1>1, <1>2, <1>3, <1>4 DEF t

(* The "data:" that begins an event is followed by an object when the      *)
(* text goes on to the end of it and carries no "data:" of its own.        *)
LEMMA FirstData ==
  ASSUME NEW s, NEW n \in Nat, NEW i \in Nat \ {0}, At(i) <= n
  PROVE  IsObject(Payload(Text(s, n), At(i))) <=> ~s[i].quotes /\ 5 * i <= n + 1
<1> DEFINE p == At(i)
           x == Payload(Text(s, n), p)
<1>1. p \in 1 .. n /\ 5 * i = p + 4
  BY DEF At
<1>2. /\ Piece(s, p + 1) = [is |-> "open", event |-> i]
      /\ Piece(s, p + 2) = IF s[i].quotes THEN [is |-> "data"] ELSE [is |-> "text"]
      /\ Piece(s, p + 3) = [is |-> "close", event |-> i]
      /\ Piece(s, p + 4) = [is |-> "line"]
  BY PiecesOf
<1> HIDE DEF p
<1>3. ASSUME NEW m \in p + 1 .. n + 1, SegmentEnd(Text(s, n), p) = m, m # p + 4
      PROVE  ~IsObject(x)
  <2>1. Len(x) = m - 1 - p
    BY <1>1, <1>3, PayloadIs
  <2> HIDE DEF x
  <2> QED
    BY <1>1, <1>3, <2>1 DEF IsObject
<1>4. CASE s[i].quotes
  <2>1. /\ Piece(s, p + 1).is \notin {"data", "line"}
        /\ Piece(s, p + 2).is \in {"data", "line"}
    BY <1>2, <1>4
  <2>2. CASE n >= p + 2
    <3>1. SegmentEnd(Text(s, n), p) = p + 2
      <4>1. \A q \in p + 1 .. (p + 2) - 1 : Piece(s, q).is \notin {"data", "line"}
        BY <1>1, <2>1
      <4> QED
        BY <1>1, <2>1, <2>2, <4>1, ClosedSegment
    <3>2. p + 2 \in p + 1 .. n + 1 /\ p + 2 # p + 4
      BY <1>1, <2>2
    <3> QED
      BY <1>3, <1>4, <3>1, <3>2 DEF p
  <2>3. CASE n < p + 2
    <3>1. SegmentEnd(Text(s, n), p) = n + 1
      <4>1. \A q \in p + 1 .. n : Piece(s, q).is \notin {"data", "line"}
        BY <1>1, <2>1, <2>3
      <4> QED
        BY <1>1, <4>1, OpenSegment
    <3>2. n + 1 \in p + 1 .. n + 1 /\ n + 1 # p + 4
      BY <1>1, <2>3
    <3> QED
      BY <1>3, <1>4, <3>1, <3>2 DEF p
  <2> QED
    BY <1>1, <2>2, <2>3
<1>5. CASE ~s[i].quotes
  <2>1. /\ Piece(s, p + 1).is = "open" /\ Piece(s, p + 2).is = "text"
        /\ Piece(s, p + 3).is = "close" /\ Piece(s, p + 4).is = "line"
    BY <1>2, <1>5
  <2>2. \A q \in p + 1 .. p + 3 : Piece(s, q).is \notin {"data", "line"}
    <3> SUFFICES ASSUME NEW q \in p + 1 .. p + 3
                 PROVE  Piece(s, q).is \notin {"data", "line"}
      OBVIOUS
    <3>1. q = p + 1 \/ q = p + 2 \/ q = p + 3
      BY <1>1
    <3> QED
      BY <2>1, <3>1
  <2>3. CASE n < p + 3
    <3>1. SegmentEnd(Text(s, n), p) = n + 1
      <4>1. \A q \in p + 1 .. n : Piece(s, q).is \notin {"data", "line"}
        BY <1>1, <2>2, <2>3
      <4> QED
        BY <1>1, <4>1, OpenSegment
    <3>2. n + 1 \in p + 1 .. n + 1 /\ n + 1 # p + 4 /\ ~(5 * i <= n + 1)
      BY <1>1, <2>3
    <3> QED
      BY <1>3, <3>1, <3>2 DEF p
  <2>4. CASE n >= p + 3
    <3>1. SegmentEnd(Text(s, n), p) = p + 4
      <4>1. CASE n = p + 3
        <5>1. \A q \in p + 1 .. n : Piece(s, q).is \notin {"data", "line"}
          BY <2>2, <4>1
        <5>2. SegmentEnd(Text(s, n), p) = n + 1
          BY <1>1, <5>1, OpenSegment
        <5> QED
          BY <1>1, <4>1, <5>2
      <4>2. CASE n > p + 3
        <5>1. \A q \in p + 1 .. (p + 4) - 1 : Piece(s, q).is \notin {"data", "line"}
          BY <1>1, <2>2
        <5>2. p + 4 \in p + 1 .. n
          BY <1>1, <4>2
        <5> QED
          BY <1>1, <2>1, <5>1, <5>2, ClosedSegment
      <4> QED
        BY <1>1, <2>4, <4>1, <4>2
    <3>2. p + 4 \in p + 1 .. n + 1 /\ 5 * i <= n + 1
      BY <1>1, <2>4
    <3>3. /\ Len(x) = (p + 4) - 1 - p
          /\ \A j \in 1 .. (p + 4) - 1 - p : x[j] = Piece(s, p + j)
      BY <1>1, <3>1, <3>2, PayloadIs
    <3> HIDE DEF x
    <3>4. (p + 4) - 1 - p = 3 /\ 1 \in 1 .. 3 /\ 2 \in 1 .. 3 /\ 3 \in 1 .. 3
      BY <1>1
    <3>5. IsObject(x)
      BY <2>1, <3>3, <3>4 DEF IsObject
    <3> QED
      BY <1>5, <3>2, <3>5 DEF x, p
  <2> QED
    BY <1>1, <2>3, <2>4
<1> QED
  BY <1>4, <1>5

(* The "data:" that the model wrote is followed by none. *)
LEMMA QuotedData ==
  ASSUME NEW s, NEW n \in Nat, NEW i \in Nat \ {0}, At(i) + 2 <= n
  PROVE  ~IsObject(Payload(Text(s, n), At(i) + 2))
<1> DEFINE p == At(i) + 2
           x == Payload(Text(s, n), p)
<1>1. p \in 1 .. n /\ p = At(i) + 2 /\ p + 1 = At(i) + 3 /\ p + 2 = At(i) + 4
  BY DEF At
<1>2. Piece(s, p + 1).is = "close" /\ Piece(s, p + 2).is = "line"
  <2>1. Piece(s, At(i) + 3).is = "close" /\ Piece(s, At(i) + 4).is = "line"
    BY KindsOf
  <2> QED
    BY <1>1, <2>1
<1> HIDE DEF p
<1>3. ASSUME NEW m \in p + 1 .. n + 1, SegmentEnd(Text(s, n), p) = m, m # p + 4
      PROVE  ~IsObject(x)
  <2>1. Len(x) = m - 1 - p
    BY <1>1, <1>3, PayloadIs
  <2> HIDE DEF x
  <2> QED
    BY <1>1, <1>3, <2>1 DEF IsObject
<1>4. CASE n >= p + 2
  <2>1. \A q \in p + 1 .. (p + 2) - 1 : Piece(s, q).is \notin {"data", "line"}
    BY <1>1, <1>2
  <2>2. p + 2 \in p + 1 .. n /\ p + 2 \in p + 1 .. n + 1 /\ p + 2 # p + 4
    BY <1>1, <1>4
  <2>3. SegmentEnd(Text(s, n), p) = p + 2
    BY <1>1, <1>2, <2>1, <2>2, ClosedSegment
  <2> QED
    BY <1>3, <2>2, <2>3 DEF p
<1>5. CASE n < p + 2
  <2>1. \A q \in p + 1 .. n : Piece(s, q).is \notin {"data", "line"}
    BY <1>1, <1>2, <1>5
  <2>2. n + 1 \in p + 1 .. n + 1 /\ n + 1 # p + 4
    BY <1>1, <1>5
  <2>3. SegmentEnd(Text(s, n), p) = n + 1
    BY <1>1, <2>1, OpenSegment
  <2> QED
    BY <1>3, <2>2, <2>3 DEF p
<1> QED
  BY <1>1, <1>4, <1>5

(* The events whose object the scan of n pieces finds. *)
Found(s, n) == {i \in 1 .. (n + 1) \div 5 : ~s[i].quotes}

(* The scan finds the complete objects, where their events begin. *)
LEMMA ObjectsAre ==
  ASSUME NEW s, NEW n \in Nat
  PROVE  Objects(Text(s, n)) = {At(i) : i \in Found(s, n)}
<1> DEFINE t == Text(s, n)
<1>1. DOMAIN t = 1 .. n /\ \A q \in 1 .. n : t[q] = Piece(s, q)
  BY TextIs
<1>2. ASSUME NEW p \in Objects(t) PROVE \E i \in Found(s, n) : p = At(i)
  <2>1. p \in 1 .. n /\ Piece(s, p).is = "data" /\ IsObject(Payload(t, p))
    BY <1>1, <1>2 DEF Objects
  <2>2. PICK i \in Nat \ {0}, k \in 0 .. 4 : p = At(i) + k
    BY <2>1, Places5
  <2>3. /\ Piece(s, At(i) + 1).is = "open" /\ Piece(s, At(i) + 3).is = "close"
        /\ Piece(s, At(i) + 4).is = "line"
    BY KindsOf
  <2>4. k = 0 \/ k = 1 \/ k = 2 \/ k = 3 \/ k = 4
    OBVIOUS
  <2>5. k = 0 \/ k = 2
    BY <2>1, <2>2, <2>3, <2>4
  <2>6. k # 2
    BY <2>1, <2>2, QuotedData
  <2>7. p = At(i)
    BY <2>2, <2>5, <2>6 DEF At
  <2>8. ~s[i].quotes /\ 5 * i <= n + 1
    BY <2>1, <2>7, FirstData
  <2>9. i \in 1 .. (n + 1) \div 5
    BY <2>8
  <2> QED
    BY <2>7, <2>8, <2>9 DEF Found
<1>3. ASSUME NEW i \in Found(s, n) PROVE At(i) \in Objects(t)
  <2>1. i \in Nat \ {0} /\ 5 * i <= n + 1 /\ ~s[i].quotes
    BY DEF Found
  <2>2. At(i) \in 1 .. n /\ At(i) <= n
    BY <2>1 DEF At
  <2>3. IsObject(Payload(t, At(i)))
    BY <2>1, <2>2, FirstData
  <2>4. Piece(s, At(i)).is = "data"
    BY <2>1, KindsOf
  <2> QED
    BY <1>1, <2>2, <2>3, <2>4 DEF Objects
<1> HIDE DEF t
<1>4. Objects(t) = {At(i) : i \in Found(s, n)}
  BY <1>2, <1>3
<1> QED
  BY <1>4 DEF t

(* The event that is read at the place of an object is its own. *)
LEMMA EventAt ==
  ASSUME NEW s, NEW n \in Nat, NEW i \in Found(s, n)
  PROVE  s[Text(s, n)[At(i) + 1].event] = s[i]
<1>1. i \in Nat \ {0} /\ 5 * i <= n + 1
  BY DEF Found
<1>2. At(i) + 1 \in 1 .. n
  BY <1>1 DEF At
<1>3. Text(s, n)[At(i) + 1] = [is |-> "open", event |-> i]
  <2>1. Text(s, n)[At(i) + 1] = Piece(s, At(i) + 1)
    BY <1>2, TextIs
  <2> QED
    BY <1>1, <2>1, PiecesOf
<1> QED
  BY <1>3

-----------------------------------------------------------------------------
(* extract_usage_from_sse_body *)

(* Those of the events I that report usage. *)
Counts(s, I) == {i \in I : s[i].usage # None}

(* The largest receipt of the events I. *)
Largest(s, I) == Max(({s[i].receipt : i \in I} \ {None}) \cup {0})

(* The usage that the events I report. *)
UsageOf(s, I) ==
  Combine(IF Counts(s, I) = {} THEN None ELSE s[Max(Counts(s, I))].usage, Largest(s, I))

(* Events come in order: the last place is that of the last event. *)
LEMMA LastPlace ==
  ASSUME NEW n \in Nat, NEW J \in SUBSET (1 .. n), J # {}
  PROVE  Max(J) \in J /\ Max({At(i) : i \in J}) = At(Max(J))
<1>0. IsFiniteSet(1 .. n)
  BY FS_Interval
<1>1. J \in SUBSET Int /\ IsFiniteSet(J)
  <2>1. IsFiniteSet(J)
    BY <1>0, FS_Subset
  <2> QED
    BY <2>1
<1> DEFINE m == Max(J)
           T == {At(i) : i \in J}
<1>2. m \in J /\ \A j \in J : m >= j
  BY <1>1, MaxOf
<1> HIDE DEF m
<1>3. T \in SUBSET Int
  BY <1>1 DEF At
<1>4. At(m) \in T /\ \A y \in T : At(m) >= y
  BY <1>1, <1>2 DEF At
<1> HIDE DEF T
<1>5. Max(T) = At(m)
  BY <1>3, <1>4, MaxIs
<1> QED
  BY <1>2, <1>5 DEF m, T

(* A scan reports what the complete events report whose text holds no      *)
(* "data:".                                                                *)
LEMMA ExtractIs ==
  ASSUME NEW s, NEW n \in Nat
  PROVE  Extract(s, Text(s, n)) = UsageOf(s, Found(s, n))
<1> DEFINE t == Text(s, n)
           I == Found(s, n)
           J == Counts(s, I)
           Of(p) == s[t[p + 1].event]
           reports == {p \in Objects(t) : Of(p).usage # None}
           receipts == {Of(p).receipt : p \in Objects(t)} \ {None}
<1>1. Objects(t) = {At(i) : i \in I}
  BY ObjectsAre
<1>2. \A i \in I : Of(At(i)) = s[i]
  BY EventAt
<1>3. Extract(s, t) = Combine(IF reports = {} THEN None ELSE Of(Max(reports)).usage,
                              Max(receipts \cup {0}))
  BY DEF Extract
<1>4. I \subseteq 1 .. (n + 1) \div 5 /\ (n + 1) \div 5 \in Nat
  BY DEF Found
<1> HIDE DEF t, I, Of
<1>5. reports = {At(i) : i \in J}
  BY <1>1, <1>2 DEF Counts
<1>6. receipts = {s[i].receipt : i \in I} \ {None}
  BY <1>1, <1>2
<1>7. J \subseteq I
  BY DEF Counts
<1> HIDE DEF J, reports, receipts
<1>8. CASE J = {}
  <2>1. reports = {}
    BY <1>5, <1>8
  <2> QED
    BY <1>3, <1>6, <1>8, <2>1 DEF UsageOf, Largest, J, t, I
<1>9. CASE J # {}
  <2>1. Max(J) \in J /\ Max(reports) = At(Max(J))
    BY <1>4, <1>5, <1>7, <1>9, LastPlace
  <2>2. Of(Max(reports)) = s[Max(J)] /\ reports # {}
    BY <1>2, <1>5, <1>7, <1>9, <2>1
  <2> QED
    BY <1>3, <1>6, <1>9, <2>2 DEF UsageOf, Largest, J, t, I
<1> QED
  BY <1>8, <1>9

(* What a set of events reports, and that it is well defined. *)
LEMMA UsageTypes ==
  ASSUME NEW n \in Nat, NEW I \in SUBSET (1 .. n), NEW s,
         \A i \in I : s[i].usage \in {None} \cup Usages /\ s[i].receipt \in {None} \cup Nat
  PROVE  /\ Counts(s, I) # {} => Max(Counts(s, I)) \in Counts(s, I)
                                /\ s[Max(Counts(s, I))].usage \in Usages
         /\ Largest(s, I) \in Nat
         /\ \A i \in I : s[i].receipt # None => Largest(s, I) >= s[i].receipt
         /\ Largest(s, I) # 0 => \E i \in I : s[i].receipt = Largest(s, I)
<1> DEFINE J == Counts(s, I)
           f == [i \in I |-> s[i].receipt]
           T == {s[i].receipt : i \in I}
           R == (T \ {None}) \cup {0}
<1>1. J # {} => Max(J) \in J /\ s[Max(J)].usage \in Usages
  <2>1. J \in SUBSET (1 .. n)
    BY DEF Counts
  <2>2. J # {} => Max(J) \in J
    <3> HIDE DEF J
    <3> QED
      BY <2>1, LastPlace
  <2>3. \A j \in J : s[j].usage \in Usages
    BY DEF Counts
  <2> QED
    BY <2>2, <2>3
<1>2. IsFiniteSet(R)
  <2>1. IsFiniteSet(I)
    <3>1. IsFiniteSet(1 .. n)
      BY FS_Interval
    <3> QED
      BY <3>1, FS_Subset
  <2>2. f \in Surjection(I, T)
    BY DEF Surjection
  <2> HIDE DEF f, T
  <2>3. IsFiniteSet(T)
    BY <2>1, <2>2, FS_Surjection
  <2>4. IsFiniteSet(T \ {None})
    BY <2>3, FS_Subset
  <2> QED
    BY <2>4, FS_AddElement
<1>3. R \subseteq Nat /\ 0 \in R /\ \A i \in I : s[i].receipt # None => s[i].receipt \in R
  OBVIOUS
<1>4. \A x \in R : x # 0 => \E i \in I : s[i].receipt = x
  OBVIOUS
<1> HIDE DEF R
<1>5. R \in SUBSET Int /\ R # {}
  BY <1>3
<1>6. Max(R) \in R /\ \A y \in R : Max(R) >= y
  BY <1>2, <1>5, MaxOf
<1>7. Largest(s, I) = Max(R)
  BY DEF Largest, R
<1> QED
  BY <1>1, <1>3, <1>4, <1>6, <1>7

(* Combine, in the words of the reference. *)
LEMMA CombineIs ==
  ASSUME NEW u \in Usages, NEW r \in Nat, u # None
  PROVE  /\ Combine(u, r) = [input |-> u.input, output |-> Max({u.output, r})]
         /\ Combine(u, r) \in Usages
         /\ Combine(u, r).output >= r
<1> DEFINE o == u.output
<1>1. u = [input |-> u.input, output |-> o] /\ o \in Nat /\ u.input \in Nat
  BY DEF Usages
<1>2. Combine(u, r) = IF r > o THEN [u EXCEPT !.output = r] ELSE u
  BY DEF Combine
<1> HIDE DEF o
<1>3. CASE r > o
  <2>1. Max({o, r}) = r
    BY <1>1, <1>3, MaxIs
  <2>2. [u EXCEPT !.output = r] = [input |-> u.input, output |-> r]
    BY DEF Usages
  <2> QED
    BY <1>1, <1>2, <1>3, <2>1, <2>2 DEF Usages, o
<1>4. CASE ~(r > o)
  <2>1. Max({o, r}) = o
    BY <1>1, <1>4, MaxIs
  <2> QED
    BY <1>1, <1>2, <1>4, <2>1 DEF Usages, o
<1> QED
  BY <1>3, <1>4

(* The streams the node may send. *)
LEMMA StreamTypes ==
  ASSUME NEW s \in Streams
  PROVE  /\ s \in Seq(Events) /\ Len(s) \in Nat \ {0} /\ DOMAIN s = 1 .. Len(s)
         /\ \A i \in 1 .. Len(s) : /\ s[i].usage \in {None} \cup Usages
                                   /\ s[i].receipt \in {None} \cup Nat
                                   /\ s[i].quotes \in BOOLEAN
<1>1. s \in Seq(Events) /\ s # <<>>
  BY MeteringAssumption DEF Events, Usages
<1>2. Len(s) \in Nat \ {0} /\ DOMAIN s = 1 .. Len(s) /\ \A i \in 1 .. Len(s) : s[i] \in Events
  BY <1>1
<1>3. \A e \in Events : /\ e.usage \in {None} \cup Usages
                        /\ e.receipt \in {None} \cup Nat
                        /\ e.quotes \in BOOLEAN
  BY DEF Events
<1> QED
  BY <1>1, <1>2, <1>3

(* What the events I of a stream report: nothing, or token counts with no  *)
(* fewer output tokens than any receipt of theirs.                         *)
LEMMA UsageOfTypes ==
  ASSUME NEW s \in Streams, NEW I \in SUBSET (1 .. Len(s))
  PROVE  /\ UsageOf(s, I) \in {None} \cup Usages
         /\ UsageOf(s, I) = None <=> Counts(s, I) = {} /\ Largest(s, I) = 0
         /\ UsageOf(s, I) # None =>
              \A i \in I : s[i].receipt # None => UsageOf(s, I).output >= s[i].receipt
<1> DEFINE u == UsageOf(s, I)
           r == Largest(s, I)
           c == s[Max(Counts(s, I))].usage
<1>1. /\ Counts(s, I) # {} => c \in Usages
      /\ r \in Nat /\ \A i \in I : s[i].receipt # None => r >= s[i].receipt
  BY StreamTypes, UsageTypes
<1>2. \A i \in I : s[i].receipt # None => s[i].receipt \in Nat
  BY StreamTypes
<1>3. u = Combine(IF Counts(s, I) = {} THEN None ELSE c, r)
  BY DEF UsageOf
<1>4. \A x \in Usages : x # None
  BY MeteringAssumption DEF Usages
<1> HIDE DEF u, r, c
<1>5. CASE Counts(s, I) = {}
  <2>1. u = IF r = 0 THEN None ELSE [input |-> 0, output |-> r]
    BY <1>3, <1>5 DEF Combine
  <2>2. [input |-> 0, output |-> r] \in Usages
    BY <1>1 DEF Usages
  <2>3. r # 0 => u = [input |-> 0, output |-> r] /\ u.output = r
    BY <2>1
  <2> QED
    BY <1>1, <1>4, <1>5, <2>1, <2>2, <2>3 DEF u, r
<1>6. CASE Counts(s, I) # {}
  <2>1. c \in Usages /\ c # None
    BY <1>1, <1>4, <1>6
  <2>2. u \in Usages /\ u.output >= r
    BY <1>1, <1>3, <1>6, <2>1, CombineIs
  <2>3. u.output \in Nat
    BY <2>2 DEF Usages
  <2>4. \A i \in I : s[i].receipt # None => u.output >= s[i].receipt
    BY <1>1, <1>2, <2>2, <2>3
  <2> QED
    BY <1>4, <1>6, <2>2, <2>4 DEF u, r
<1> QED
  BY <1>5, <1>6

(* The reference, as the report of the first m events. *)
LEMMA ReportedIs ==
  ASSUME NEW s \in Streams, NEW m \in 0 .. Len(s)
  PROVE  Reported(s, m) = UsageOf(s, 1 .. m)
<1> DEFINE J == Counts(s, 1 .. m)
           r == Largest(s, 1 .. m)
           c == s[Max(J)].usage
<1>1. /\ {i \in 1 .. m : s[i].usage # None} = J
      /\ Max(({s[i].receipt : i \in 1 .. m} \ {None}) \cup {0}) = r
  BY DEF Counts, Largest
<1>2. Reported(s, m) = IF J = {} THEN IF r = 0 THEN None ELSE [input |-> 0, output |-> r]
                       ELSE [input |-> c.input, output |-> Max({c.output, r})]
  BY <1>1 DEF Reported
<1>3. UsageOf(s, 1 .. m) = Combine(IF J = {} THEN None ELSE c, r)
  BY DEF UsageOf
<1>4. (J # {} => c \in Usages) /\ r \in Nat
  <2>1. Len(s) \in Nat /\ 1 .. m \in SUBSET (1 .. Len(s))
    BY StreamTypes
  <2> QED
    BY <2>1, StreamTypes, UsageTypes
<1>5. \A x \in Usages : x # None
  BY MeteringAssumption DEF Usages
<1> HIDE DEF J, r, c
<1>6. CASE J = {}
  BY <1>2, <1>3, <1>6 DEF Combine
<1>7. CASE J # {}
  <2>1. c \in Usages /\ c # None
    BY <1>4, <1>5, <1>7
  <2>2. Combine(c, r) = [input |-> c.input, output |-> Max({c.output, r})]
    BY <1>4, <2>1, CombineIs
  <2> QED
    BY <1>2, <1>3, <1>7, <2>2
<1> QED
  BY <1>6, <1>7

(* Fewer events report nothing when more of them do not. *)
LEMMA NothingEarlier ==
  ASSUME NEW s \in Streams, NEW m \in 0 .. Len(s), NEW k \in 0 .. m,
         UsageOf(s, 1 .. m) = None
  PROVE  UsageOf(s, 1 .. k) = None
<1>1. /\ Len(s) \in Nat /\ 1 .. m \in SUBSET (1 .. Len(s)) /\ 1 .. k \in SUBSET (1 .. Len(s))
      /\ 1 .. k \subseteq 1 .. m
  BY StreamTypes
<1>2. Counts(s, 1 .. m) = {} /\ Largest(s, 1 .. m) = 0
  BY <1>1, UsageOfTypes
<1>3. Counts(s, 1 .. k) = {}
  BY <1>1, <1>2 DEF Counts
<1>4. Largest(s, 1 .. k) = 0
  <2> SUFFICES ASSUME Largest(s, 1 .. k) # 0 PROVE FALSE
    OBVIOUS
  <2>1. PICK i \in 1 .. k : s[i].receipt = Largest(s, 1 .. k)
    BY <1>1, StreamTypes, UsageTypes
  <2>2. Largest(s, 1 .. k) \in Nat
    BY <1>1, StreamTypes, UsageTypes
  <2>3. s[i].receipt # None /\ i \in 1 .. m
    BY <1>1, <2>1, <2>2, MeteringAssumption
  <2>4. Largest(s, 1 .. m) >= s[i].receipt
    BY <1>1, <2>3, StreamTypes, UsageTypes
  <2> QED
    BY <1>2, <2>1, <2>2, <2>4
<1> QED
  BY <1>1, <1>3, <1>4, UsageOfTypes

(* In a plain stream the scan of n pieces reports what the reference does, *)
(* for the events that n pieces complete.                                  *)
LEMMA ScanIsReference ==
  ASSUME NEW s \in Streams, NEW n \in 0 .. Length(s),
         \A i \in DOMAIN s : s[i].quotes => s[i].usage = None /\ s[i].receipt = None
  PROVE  /\ (n + 1) \div 5 \in 0 .. Len(s)
         /\ Extract(s, Text(s, n)) = UsageOf(s, 1 .. (n + 1) \div 5)
<1> DEFINE m == (n + 1) \div 5
           I == Found(s, n)
<1>1. Len(s) \in Nat \ {0} /\ DOMAIN s = 1 .. Len(s)
  BY StreamTypes
<1>2. n \in Nat /\ m \in 0 .. Len(s)
  BY <1>1 DEF Length, Pieces
<1>3. I = {i \in 1 .. m : ~s[i].quotes}
  BY DEF Found
<1>4. Extract(s, Text(s, n)) = UsageOf(s, I)
  BY <1>2, ExtractIs
<1> HIDE DEF I, m
<1>5. \A i \in 1 .. m : i \notin I => s[i].usage = None /\ s[i].receipt = None
  BY <1>1, <1>2, <1>3
<1>6. Counts(s, I) = Counts(s, 1 .. m)
  BY <1>3, <1>5 DEF Counts
<1>7. {s[i].receipt : i \in I} \ {None} = {s[i].receipt : i \in 1 .. m} \ {None}
  BY <1>3, <1>5
<1>8. UsageOf(s, I) = UsageOf(s, 1 .. m)
  BY <1>6, <1>7 DEF UsageOf, Largest
<1> QED
  BY <1>2, <1>4, <1>8 DEF m

-----------------------------------------------------------------------------
(* The metering of a stream *)

(* A scan of any part of any stream finds token counts or nothing. *)
LEMMA ExtractTypes ==
  ASSUME NEW s \in Streams, NEW n \in 0 .. Length(s)
  PROVE  Extract(s, Text(s, n)) \in {None} \cup Usages
<1>1. Len(s) \in Nat
  BY StreamTypes
<1>2. n \in Nat /\ (n + 1) \div 5 \in 0 .. Len(s)
  BY <1>1 DEF Length, Pieces
<1>3. Found(s, n) \in SUBSET (1 .. Len(s))
  BY <1>1, <1>2 DEF Found
<1> QED
  BY <1>2, <1>3, ExtractIs, UsageOfTypes

(* Every variable keeps its type: what is metered is nothing, or token     *)
(* counts.                                                                 *)
THEOREM MeterTypeCorrect == MeterSpec => []MeterTypeOK
<1>1. MeterInit => MeterTypeOK
  <2> SUFFICES ASSUME MeterInit PROVE MeterTypeOK
    OBVIOUS
  <2>1. stream \in Streams /\ Len(stream) \in Nat
    BY StreamTypes DEF MeterInit
  <2>2. 0 \in 0 .. Length(stream)
    BY <2>1 DEF Length, Pieces
  <2> QED
    BY <2>1, <2>2 DEF MeterInit, MeterTypeOK
<1>2. MeterTypeOK /\ [MeterNext]_meterVars => MeterTypeOK'
  <2> SUFFICES ASSUME MeterTypeOK, [MeterNext]_meterVars PROVE MeterTypeOK'
    OBVIOUS
  <2>0. stream \in Streams /\ Length(stream) \in Nat
    BY StreamTypes DEF MeterTypeOK, Length, Pieces
  <2>1. ASSUME NEW n \in 0 .. Length(stream), AddChunk(n) PROVE MeterTypeOK'
    <3>1. got' \in 0 .. Length(stream)
      BY <2>0, <2>1 DEF AddChunk, MeterTypeOK
    <3>2. Extract(stream, Text(stream, got')) \in {None} \cup Usages
      BY <2>0, <3>1, ExtractTypes
    <3>3. latest' \in {None} \cup Usages
      BY <2>1, <3>2 DEF AddChunk, MeterTypeOK, Usages
    <3> QED
      BY <2>1, <3>1, <3>3 DEF AddChunk, MeterTypeOK, Usages, Length
  <2>2. ASSUME NEW how \in {"end", "error", "timeout", "cut"}, Complete(how)
        PROVE  MeterTypeOK'
    <3>1. Extract(stream, Text(stream, got)) \in {None} \cup Usages
      BY <2>0, ExtractTypes DEF MeterTypeOK
    <3>2. usage' \in {None} \cup Usages
      BY <2>2, <3>1 DEF Complete, MeterTypeOK, Usages
    <3> QED
      BY <2>2, <3>2 DEF Complete, MeterTypeOK, Usages, Length
  <2>3. CASE Drop \/ UNCHANGED meterVars
    BY <2>3 DEF Drop, meterVars, MeterTypeOK, Length
  <2> QED
    BY <2>1, <2>2, <2>3 DEF MeterNext, Over
<1> QED
  BY <1>1, <1>2, PTL DEF MeterSpec

(* Of a plain stream the router holds the report of the events received. *)
LEMMA ReceivedTypes ==
  ASSUME MeterTypeOK, Plain
  PROVE  /\ Received \in 0 .. Len(stream)
         /\ Reported(stream, Received) = UsageOf(stream, 1 .. Received)
         /\ Extract(stream, Text(stream, got)) = Reported(stream, Received)
<1>1. stream \in Streams /\ got \in 0 .. Length(stream) /\ Received = (got + 1) \div 5
  BY DEF MeterTypeOK, Received, Pieces
<1>2. /\ Received \in 0 .. Len(stream)
      /\ Extract(stream, Text(stream, got)) = UsageOf(stream, 1 .. Received)
  BY <1>1, ScanIsReference DEF Plain
<1> QED
  BY <1>1, <1>2, ReportedIs

(* However the answer is cut into chunks, the router holds what its        *)
(* complete events report.                                                 *)
THEOREM ChunkingIsIrrelevant == MeterSpec => []ChunkingDoesNotMatter
<1>1. MeterInit /\ MeterTypeOK => ChunkingDoesNotMatter
  <2> SUFFICES ASSUME MeterInit, MeterTypeOK, Plain PROVE latest = Reported(stream, Received)
    BY DEF ChunkingDoesNotMatter
  <2>1. Received = 0 /\ latest = None
    BY DEF MeterInit, Received, Pieces
  <2>2. stream \in Streams /\ Reported(stream, Received) = UsageOf(stream, {})
    <3>1. 1 .. 0 = {}
      OBVIOUS
    <3> QED
      BY <2>1, <3>1, ReceivedTypes DEF MeterTypeOK
  <2>3. Counts(stream, {}) = {} /\ Largest(stream, {}) = 0
    <3>1. ({stream[i].receipt : i \in {}} \ {None}) \cup {0} = {0}
      OBVIOUS
    <3>2. Max({0}) = 0
      BY MaxIs
    <3> QED
      BY <3>1, <3>2 DEF Counts, Largest
  <2>4. UsageOf(stream, {}) = None
    BY <2>2, <2>3, UsageOfTypes
  <2> QED
    BY <2>1, <2>2, <2>4
<1>2. MeterTypeOK /\ MeterTypeOK' /\ ChunkingDoesNotMatter /\ [MeterNext]_meterVars
        => ChunkingDoesNotMatter'
  <2> SUFFICES ASSUME MeterTypeOK, MeterTypeOK', ChunkingDoesNotMatter,
                      [MeterNext]_meterVars, Plain'
               PROVE  latest' = Reported(stream', Received')
    BY DEF ChunkingDoesNotMatter
  <2>0. stream' = stream
    BY DEF MeterNext, AddChunk, Complete, Drop, Over, meterVars
  <2>1. Plain /\ latest = Reported(stream, Received)
    BY <2>0 DEF Plain, ChunkingDoesNotMatter
  <2>2. ASSUME NEW n \in 0 .. Length(stream), AddChunk(n)
        PROVE  latest' = Reported(stream', Received')
    <3> DEFINE u == Extract(stream, Text(stream, got'))
               m == (got' + 1) \div 5
    <3>1. stream \in Streams /\ got' \in 0 .. Length(stream)
      BY <2>0 DEF MeterTypeOK
    <3>2. m \in 0 .. Len(stream) /\ u = UsageOf(stream, 1 .. m)
      BY <2>1, <3>1, ScanIsReference DEF Plain
    <3>3. Received' = m /\ Reported(stream, m) = u
      BY <3>1, <3>2, ReportedIs DEF Received, Pieces
    <3>4. latest' = IF u = None THEN latest ELSE u
      BY <2>2 DEF AddChunk
    <3>5. Received \in 0 .. m
      <4>1. got \in Nat /\ got' = got + n /\ n \in Nat
        BY <2>2 DEF AddChunk, MeterTypeOK
      <4> QED
        BY <4>1 DEF Received, Pieces
    <3>6. latest = UsageOf(stream, 1 .. Received)
      BY <2>1, ReceivedTypes
    <3> HIDE DEF u, m
    <3>7. u = None => latest = None
      BY <3>1, <3>2, <3>5, <3>6, NothingEarlier
    <3> QED
      BY <2>0, <3>3, <3>4, <3>7
  <2>3. CASE \/ \E how \in {"end", "error", "timeout", "cut"} : Complete(how)
             \/ Drop \/ UNCHANGED meterVars
    <3>1. UNCHANGED <<got, latest>>
      BY <2>3 DEF Complete, Drop, meterVars
    <3> QED
      BY <2>0, <2>1, <3>1 DEF Received
  <2> QED
    BY <2>2, <2>3 DEF MeterNext, Over
<1> QED
  BY <1>1, <1>2, MeterTypeCorrect, PTL DEF MeterSpec

(* A completion is called with the latest usage. *)
LEMMA CompletionInvariance == MeterSpec => []CompletionInv
<1>1. MeterInit => CompletionInv
  BY DEF MeterInit, CompletionInv
<1>2. MeterTypeOK /\ ChunkingDoesNotMatter /\ CompletionInv /\ [MeterNext]_meterVars
        => CompletionInv'
  <2> SUFFICES ASSUME MeterTypeOK, ChunkingDoesNotMatter, CompletionInv,
                      [MeterNext]_meterVars
               PROVE  CompletionInv'
    OBVIOUS
  <2>1. ASSUME NEW n \in 0 .. Length(stream), AddChunk(n) PROVE CompletionInv'
    BY <2>1 DEF AddChunk, CompletionInv, Plain, Length, ReportsUsage
  <2>2. ASSUME NEW how \in {"end", "error", "timeout", "cut"}, Complete(how)
        PROVE  CompletionInv'
    <3>1. Plain => latest = Extract(stream, Text(stream, got))
      BY ReceivedTypes DEF ChunkingDoesNotMatter
    <3>2. Plain => usage' = latest
      BY <2>2, <3>1 DEF Complete
    <3> QED
      BY <2>2, <3>2 DEF Complete, CompletionInv, Plain, Length, ReportsUsage
  <2>3. CASE Drop \/ UNCHANGED meterVars
    BY <2>3 DEF Drop, meterVars, CompletionInv, Plain, Length, ReportsUsage
  <2> QED
    BY <2>1, <2>2, <2>3 DEF MeterNext, Over
<1> QED
  BY <1>1, <1>2, MeterTypeCorrect, ChunkingIsIrrelevant, PTL DEF MeterSpec

(* A stream that reaches its end is metered whenever its client left       *)
(* stream_options to the router, and by at least its largest receipt.      *)
THEOREM FinishedIsMetered == MeterSpec => []FinishedStreamIsMetered
<1>1. MeterTypeOK /\ ChunkingDoesNotMatter /\ CompletionInv => FinishedStreamIsMetered
  <2> SUFFICES ASSUME MeterTypeOK, ChunkingDoesNotMatter, CompletionInv,
                      options = "absent", ended = "end", Plain
               PROVE  /\ usage # None
                      /\ \A i \in DOMAIN stream :
                           stream[i].receipt # None => usage.output >= stream[i].receipt
    BY DEF FinishedStreamIsMetered
  <2> DEFINE L == Len(stream)
  <2>1. stream \in Streams /\ L \in Nat \ {0} /\ DOMAIN stream = 1 .. L
    BY StreamTypes DEF MeterTypeOK
  <2>2. usage = latest /\ got = Length(stream)
    BY DEF CompletionInv
  <2>3. Received = L
    <3>1. \A l \in Nat : (5 * l + 1) \div 5 = l
      OBVIOUS
    <3> QED
      BY <2>1, <2>2, <3>1 DEF Received, Length, Pieces
  <2>4. usage = UsageOf(stream, 1 .. L)
    BY <2>2, <2>3, ReceivedTypes DEF ChunkingDoesNotMatter
  <2>5. stream[L].usage # None
    BY DEF CompletionInv, ReportsUsage, InjectStreamUsageOption
  <2>6. L \in Counts(stream, 1 .. L)
    BY <2>1, <2>5 DEF Counts
  <2>7. 1 .. L \in SUBSET (1 .. Len(stream))
    OBVIOUS
  <2> HIDE DEF L
  <2>8. usage # None
    BY <2>1, <2>4, <2>6, <2>7, UsageOfTypes
  <2> QED
    BY <2>1, <2>4, <2>7, <2>8, UsageOfTypes
<1> QED
  BY <1>1, MeterTypeCorrect, ChunkingIsIrrelevant, CompletionInvariance, PTL
=============================================================================
