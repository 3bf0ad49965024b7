--------------------------- MODULE CapacityProofs ---------------------------
(***************************************************************************)
(* Theorems about Capacity, for every set of requests, every limit and     *)
(* every counter width.                                                    *)
(***************************************************************************)
EXTENDS Capacity, FiniteSetTheorems, TLAPS

-----------------------------------------------------------------------------
(* Facts about the helpers *)

(* max_queue_depth fits a u32, so its comparison with the counter is exact. *)
LEMMA MaxQueueDepthType ==
  ASSUME NEW c \in Concurrencies \cup {0}
  PROVE  MaxQueueDepth(c) \in 0 .. (U32 - 1)
<1> DEFINE floor == (c * RatioNum) \div RatioDen
<1>1. c \in Nat /\ c * RatioNum \in Nat
  BY ConstantsAssumption
<1>2. floor \in Int
  BY <1>1, ConstantsAssumption
<1> HIDE DEF floor
<1>3. QED
  BY <1>1, <1>2, ConstantsAssumption DEF MaxQueueDepth, floor

(* fetch_sub stays within the width, and is a true decrement unless the    *)
(* counter is zero.                                                        *)
LEMMA FetchSubType ==
  ASSUME NEW n \in 0 .. (U32 - 1)
  PROVE  /\ FetchSub(n) \in 0 .. (U32 - 1)
         /\ n # 0 => FetchSub(n) = n - 1
BY ConstantsAssumption DEF FetchSub

(* Unlinking a future leaves a sequence of requests. *)
LEMMA WithoutType ==
  ASSUME NEW q \in Seq(Requests), NEW r \in Requests
  PROVE  Without(q, r) \in Seq(Requests)
<1> DEFINE at == CHOOSE i \in 1 .. Len(q) : q[i] = r
<1> HIDE DEF at
<1>1. CASE Len(q) = 0
  BY <1>1 DEF Without
<1>2. CASE Len(q) # 0
  <2>1. Len(q) - 1 \in Nat
    BY <1>2
  <2>2. \A i \in 1 .. (Len(q) - 1) :
          (IF i < at THEN q[i] ELSE q[i + 1]) \in Requests
    BY <2>1
  <2>3. [i \in 1 .. (Len(q) - 1) |-> IF i < at THEN q[i] ELSE q[i + 1]]
          \in Seq(Requests)
    BY <2>1, <2>2
  <2>4. QED
    BY <2>3 DEF Without, at
<1>3. QED
  BY <1>1, <1>2

-----------------------------------------------------------------------------
(* Type correctness: the counters never leave their width *)

IInv == TypeOK /\ SlotInv /\ SeenInv /\ WaitInv

LEMMA IInvInit == Init => IInv
BY ConstantsAssumption
   DEF Init, IInv, TypeOK, SlotInv, SeenInv, WaitInv, Slots, PC

(* Unlinking a registered future removes that one and keeps the order of   *)
(* the others.                                                             *)
LEMMA WithoutMembers ==
  ASSUME NEW q \in Seq(Requests), NEW r \in Requests, NEW at \in 1 .. Len(q),
         q[at] = r, \A i, j \in 1 .. Len(q) : q[i] = q[j] => i = j
  PROVE  /\ Len(Without(q, r)) = Len(q) - 1
         /\ \A i \in 1 .. (Len(q) - 1) :
              Without(q, r)[i] = IF i < at THEN q[i] ELSE q[i + 1]
<1> DEFINE k == CHOOSE i \in 1 .. Len(q) : q[i] = r
<1>1. k = at
  <2>1. k \in 1 .. Len(q) /\ q[k] = r
    OBVIOUS
  <2>2. QED
    BY <2>1
<1> HIDE DEF k
<1>2. Without(q, r) = [i \in 1 .. (Len(q) - 1) |-> IF i < at THEN q[i] ELSE q[i + 1]]
  BY <1>1 DEF Without, k
<1>3. Len(q) - 1 \in Nat
  OBVIOUS
<1>4. QED
  BY <1>2, <1>3

(* A step that leaves the sleepers alone keeps WaitInv. *)
LEMMA WaitInvFrame ==
  ASSUME TypeOK, WaitInv, waiters' = waiters,
         \A x \in Requests : pc'[x] = "wait" <=> pc[x] = "wait",
         \A x \in Requests : pc[x] = "wait" => slot'[x] = slot[x]
  PROVE  WaitInv'
<1>1. ASSUME NEW s \in Slots, NEW i \in 1 .. Len(waiters[s])
      PROVE  /\ pc'[waiters[s][i]] = "wait"
             /\ slot'[waiters[s][i]] = s
             /\ \A j \in 1 .. Len(waiters[s]) :
                  waiters[s][i] = waiters[s][j] => i = j
  <2>1. waiters[s] \in Seq(Requests) /\ waiters[s][i] \in Requests
    BY <1>1 DEF TypeOK
  <2>2. QED
    BY <2>1, <1>1 DEF WaitInv
<1>2. ASSUME NEW x \in Requests, pc'[x] = "wait"
      PROVE  \E i \in 1 .. Len(waiters[slot'[x]]) : waiters[slot'[x]][i] = x
  BY <1>2 DEF WaitInv
<1>3. QED
  BY <1>1, <1>2 DEF WaitInv

(* notify_one by a request that does not itself sleep: one sleeper becomes *)
(* woken, or the permit is stored.                                         *)
LEMMA NotifyOneInv ==
  ASSUME TypeOK, WaitInv, NEW s \in Slots, NEW r \in Requests,
         pc[r] # "wait", NEW v \in PC \ {"wait"},
         NotifyOne(s, waiters[s], [pc EXCEPT ![r] = v]), slot' = slot
  PROVE  /\ permit' \in [Slots -> BOOLEAN]
         /\ waiters' \in [Slots -> Seq(Requests)]
         /\ pc' \in [Requests -> PC]
         /\ pc'[r] = v
         /\ \A x \in Requests \ {r} :
              pc'[x] = pc[x] \/ (pc[x] = "wait" /\ pc'[x] = "woken")
         /\ WaitInv'
<1> DEFINE q == waiters[s]
<1>1. q \in Seq(Requests)
  BY DEF TypeOK
<1>2. CASE q = <<>>
  <2>1. pc' = [pc EXCEPT ![r] = v] /\ waiters' = waiters
    BY <1>2 DEF NotifyOne, TypeOK
  <2>2. WaitInv'
    BY <2>1, WaitInvFrame DEF TypeOK
  <2>3. QED
    BY <1>2, <2>1, <2>2 DEF NotifyOne, TypeOK
<1>3. CASE q # <<>>
  <2> DEFINE h == q[1]
  <2>1. /\ h \in Requests /\ Head(q) = h /\ Tail(q) \in Seq(Requests)
        /\ 1 \in 1 .. Len(q) /\ Len(q) \in Nat
        /\ Len(Tail(q)) = Len(q) - 1
        /\ \A i \in 1 .. (Len(q) - 1) : Tail(q)[i] = q[i + 1]
    BY <1>1, <1>3
  <2>2. pc[h] = "wait" /\ slot[h] = s /\ h # r
    BY <2>1 DEF WaitInv
  <2>3. /\ waiters' = [waiters EXCEPT ![s] = Tail(q)]
        /\ pc' = [pc EXCEPT ![r] = v, ![h] = "woken"]
        /\ permit' = permit
    BY <1>3, <2>1 DEF NotifyOne
  <2>4. /\ permit' \in [Slots -> BOOLEAN]
        /\ waiters' \in [Slots -> Seq(Requests)]
        /\ pc' \in [Requests -> PC]
        /\ pc'[r] = v
        /\ \A x \in Requests \ {r} :
              pc'[x] = pc[x] \/ (pc[x] = "wait" /\ pc'[x] = "woken")
        /\ \A x \in Requests : pc'[x] = "wait" <=> (pc[x] = "wait" /\ x # h)
    BY <2>1, <2>2, <2>3 DEF TypeOK, PC
  <2>5. ASSUME NEW z \in Slots, NEW i \in 1 .. Len(waiters'[z])
        PROVE  /\ pc'[waiters'[z][i]] = "wait"
               /\ slot'[waiters'[z][i]] = z
               /\ \A j \in 1 .. Len(waiters'[z]) :
                    waiters'[z][i] = waiters'[z][j] => i = j
    <3>1. CASE z # s
      <4>1. waiters'[z] = waiters[z] /\ waiters[z] \in Seq(Requests)
        BY <2>3, <3>1 DEF TypeOK
      <4>2. waiters[z][i] \in Requests /\ waiters[z][i] # h
        BY <2>2, <3>1, <4>1, <2>5 DEF WaitInv
      <4>3. /\ pc[waiters[z][i]] = "wait" /\ slot[waiters[z][i]] = z
            /\ \A j \in 1 .. Len(waiters[z]) :
                 waiters[z][i] = waiters[z][j] => i = j
        BY <2>5, <4>1 DEF WaitInv
      <4>4. QED
        BY <2>4, <4>1, <4>2, <4>3
    <3>2. CASE z = s
      <4>1. waiters'[z] = Tail(q)
        BY <2>3, <3>2 DEF TypeOK
      <4>2. i \in 1 .. (Len(q) - 1) /\ waiters'[z][i] = q[i + 1]
        BY <4>1, <2>1, <2>5
      <4>3. i + 1 \in 1 .. Len(q) /\ i + 1 # 1 /\ q[i + 1] \in Requests
        BY <1>1, <2>1, <4>2
      <4>4. pc[q[i + 1]] = "wait" /\ slot[q[i + 1]] = s /\ q[i + 1] # h
        BY <4>3, <2>1 DEF WaitInv
      <4>5. ASSUME NEW j \in 1 .. Len(waiters'[z]), waiters'[z][i] = waiters'[z][j]
            PROVE  i = j
        <5>1. j \in 1 .. (Len(q) - 1) /\ waiters'[z][j] = q[j + 1]
          BY <4>1, <2>1, <4>5
        <5>2. j + 1 \in 1 .. Len(q) /\ q[i + 1] = q[j + 1]
          BY <5>1, <4>2, <4>5, <2>1
        <5>3. i + 1 = j + 1
          BY <5>2, <4>3 DEF WaitInv
        <5>4. QED
          BY <5>1, <5>3, <4>2
      <4>6. QED
        BY <2>4, <3>2, <4>2, <4>3, <4>4, <4>5
    <3>3. QED
      BY <3>1, <3>2
  <2>6. ASSUME NEW x \in Requests, pc'[x] = "wait"
        PROVE  \E i \in 1 .. Len(waiters'[slot'[x]]) : waiters'[slot'[x]][i] = x
    <3>1. pc[x] = "wait" /\ x # h
      BY <2>4, <2>6
    <3>2. PICK i \in 1 .. Len(waiters[slot[x]]) : waiters[slot[x]][i] = x
      BY <3>1 DEF WaitInv
    <3>3. CASE slot[x] # s
      BY <2>3, <3>2, <3>3 DEF TypeOK
    <3>4. CASE slot[x] = s
      <4>1. i \in 2 .. Len(q) /\ q[i] = x
        BY <3>1, <3>2, <3>4, <2>1
      <4>2. i - 1 \in 1 .. Len(Tail(q)) /\ Tail(q)[i - 1] = x
        BY <4>1, <2>1
      <4>3. waiters'[slot'[x]] = Tail(q)
        BY <2>3, <3>4 DEF TypeOK
      <4>4. QED
        BY <4>2, <4>3
    <3>5. QED
      BY <3>3, <3>4
  <2>7. WaitInv'
    BY <2>5, <2>6 DEF WaitInv
  <2>8. QED
    BY <2>4, <2>7
<1>4. QED
  BY <1>2, <1>3

(* Dropping the Notified future of a sleeping or woken request: the        *)
(* request leaves the sleepers, and a notification it had received goes to *)
(* another one.                                                            *)
LEMMA DropNotifiedInv ==
  ASSUME TypeOK, WaitInv, NEW r \in Requests, slot[r] \in Slots,
         pc[r] \in {"wait", "woken"}, NEW v \in PC \ {"wait"},
         DropNotified(r, [pc EXCEPT ![r] = v]), slot' = slot
  PROVE  /\ permit' \in [Slots -> BOOLEAN]
         /\ waiters' \in [Slots -> Seq(Requests)]
         /\ pc' \in [Requests -> PC]
         /\ pc'[r] = v
         /\ \A x \in Requests \ {r} :
              pc'[x] = pc[x] \/ (pc[x] = "wait" /\ pc'[x] = "woken")
         /\ WaitInv'
<1> DEFINE s == slot[r]
           q == waiters[s]
           w == Without(q, r)
<1>1. q \in Seq(Requests)
  BY DEF TypeOK
<1>2. CASE pc[r] = "woken"
  <2>1. NotifyOne(s, waiters[s], [pc EXCEPT ![r] = v]) /\ pc[r] # "wait"
    BY <1>2 DEF DropNotified
  <2>2. QED
    BY <2>1, NotifyOneInv
<1>3. CASE pc[r] = "wait"
  <2>1. /\ waiters' = [waiters EXCEPT ![s] = w]
        /\ pc' = [pc EXCEPT ![r] = v] /\ permit' = permit
    BY <1>3 DEF DropNotified
  <2>2. w \in Seq(Requests)
    BY <1>1, WithoutType
  <2>3. /\ permit' \in [Slots -> BOOLEAN]
        /\ waiters' \in [Slots -> Seq(Requests)]
        /\ pc' \in [Requests -> PC]
        /\ pc'[r] = v
        /\ \A x \in Requests \ {r} : pc'[x] = pc[x]
    BY <2>1, <2>2 DEF TypeOK
  <2>4. PICK at \in 1 .. Len(q) : q[at] = r
    BY <1>3 DEF WaitInv
  <2>5. \A i, j \in 1 .. Len(q) : q[i] = q[j] => i = j
    BY DEF WaitInv
  <2>6. /\ Len(w) = Len(q) - 1
        /\ \A i \in 1 .. (Len(q) - 1) : w[i] = IF i < at THEN q[i] ELSE q[i + 1]
    BY <1>1, <2>4, <2>5, WithoutMembers
  <2>7. Len(q) \in Nat /\ at \in Nat
    BY <1>1, <2>4
  <2> HIDE DEF w
  <2>8. ASSUME NEW z \in Slots, NEW i \in 1 .. Len(waiters'[z])
        PROVE  /\ pc'[waiters'[z][i]] = "wait"
               /\ slot'[waiters'[z][i]] = z
               /\ \A j \in 1 .. Len(waiters'[z]) :
                    waiters'[z][i] = waiters'[z][j] => i = j
    <3>1. CASE z # s
      <4>1. waiters'[z] = waiters[z] /\ waiters[z] \in Seq(Requests)
        BY <2>1, <3>1 DEF TypeOK
      <4>2. /\ waiters[z][i] \in Requests
            /\ pc[waiters[z][i]] = "wait" /\ slot[waiters[z][i]] = z
            /\ \A j \in 1 .. Len(waiters[z]) :
                 waiters[z][i] = waiters[z][j] => i = j
        BY <2>8, <4>1 DEF WaitInv
      <4>3. waiters[z][i] # r
        BY <4>2, <3>1
      <4>4. QED
        BY <2>3, <4>1, <4>2, <4>3
    <3>2. CASE z = s
      <4> DEFINE from(n) == IF n < at THEN n ELSE n + 1
      <4>1. waiters'[z] = w
        BY <2>1, <3>2 DEF TypeOK
      <4>2. \A n \in 1 .. (Len(q) - 1) :
              from(n) \in 1 .. Len(q) /\ from(n) # at /\ w[n] = q[from(n)]
        BY <2>6, <2>7
      <4>3. \A m, n \in 1 .. (Len(q) - 1) : from(m) = from(n) => m = n
        BY <2>7
      <4> HIDE DEF from
      <4>4. i \in 1 .. (Len(q) - 1)
        BY <4>1, <2>6, <2>8
      <4>5. q[from(i)] \in Requests /\ q[from(i)] # r
        BY <1>1, <2>4, <2>5, <4>2, <4>4
      <4>6. pc[q[from(i)]] = "wait" /\ slot[q[from(i)]] = s
        BY <4>2, <4>4 DEF WaitInv
      <4>7. ASSUME NEW j \in 1 .. (Len(q) - 1), w[i] = w[j]
            PROVE  i = j
        BY <4>2, <4>3, <4>4, <4>7, <2>5
      <4>8. w[i] = q[from(i)]
        BY <4>2, <4>4
      <4>9. QED
        BY <2>3, <2>6, <3>2, <4>1, <4>5, <4>6, <4>7, <4>8
    <3>3. QED
      BY <3>1, <3>2
  <2>9. ASSUME NEW x \in Requests, pc'[x] = "wait"
        PROVE  \E i \in 1 .. Len(waiters'[slot'[x]]) : waiters'[slot'[x]][i] = x
    <3>1. pc[x] = "wait" /\ x # r
      BY <2>3, <2>9
    <3>2. PICK i \in 1 .. Len(waiters[slot[x]]) : waiters[slot[x]][i] = x
      BY <3>1 DEF WaitInv
    <3>3. CASE slot[x] # s
      BY <2>1, <3>2, <3>3 DEF TypeOK
    <3>4. CASE slot[x] = s
      <4>1. waiters'[slot'[x]] = w
        BY <2>1, <3>4 DEF TypeOK
      <4>2. i \in 1 .. Len(q) /\ q[i] = x /\ i # at
        BY <3>1, <3>2, <3>4, <2>4
      <4>3. CASE i < at
        BY <4>1, <4>2, <4>3, <2>6, <2>7
      <4>4. CASE i > at
        <5>1. i - 1 \in 1 .. (Len(q) - 1) /\ ~(i - 1 < at)
          BY <4>2, <4>4, <2>7
        <5>2. w[i - 1] = x
          BY <5>1, <4>2, <2>6
        <5>3. QED
          BY <5>1, <5>2, <4>1, <2>6
      <4>5. QED
        BY <4>2, <4>3, <4>4, <2>7
    <3>5. QED
      BY <3>3, <3>4
  <2>10. WaitInv'
    BY <2>8, <2>9 DEF WaitInv
  <2>11. QED
    BY <2>3, <2>10
<1>4. QED
  BY <1>2, <1>3

(* The first poll of a Notified future registers it behind the others. *)
LEMMA RegisterInv ==
  ASSUME TypeOK, WaitInv, NEW r \in Requests, slot[r] \in Slots,
         pc[r] # "wait", pc' = [pc EXCEPT ![r] = "wait"], slot' = slot,
         waiters' = [waiters EXCEPT ![slot[r]] = Append(@, r)]
  PROVE  WaitInv'
<1> DEFINE s == slot[r]
           q == waiters[s]
<1>1. q \in Seq(Requests) /\ Len(q) \in Nat
  BY DEF TypeOK
<1>2. /\ Len(Append(q, r)) = Len(q) + 1
      /\ \A i \in 1 .. Len(q) : Append(q, r)[i] = q[i]
      /\ Append(q, r)[Len(q) + 1] = r
  BY <1>1
<1>3. ASSUME NEW z \in Slots, NEW i \in 1 .. Len(waiters'[z])
      PROVE  /\ pc'[waiters'[z][i]] = "wait"
             /\ slot'[waiters'[z][i]] = z
             /\ \A j \in 1 .. Len(waiters'[z]) :
                  waiters'[z][i] = waiters'[z][j] => i = j
  <2>1. \A n \in 1 .. Len(waiters[z]) :
          /\ waiters[z][n] \in Requests /\ waiters[z][n] # r
          /\ pc[waiters[z][n]] = "wait" /\ slot[waiters[z][n]] = z
          /\ \A j \in 1 .. Len(waiters[z]) :
               waiters[z][n] = waiters[z][j] => n = j
    <3>1. waiters[z] \in Seq(Requests)
      BY DEF TypeOK
    <3>2. QED
      BY <3>1 DEF WaitInv
  <2>2. CASE z # s
    BY <2>1, <2>2, <1>3 DEF TypeOK
  <2>3. CASE z = s
    <3>1. waiters'[z] = Append(q, r)
      BY <2>3 DEF TypeOK
    <3>2. CASE i \in 1 .. Len(q)
      <4>1. /\ waiters'[z][i] = q[i] /\ q[i] \in Requests /\ q[i] # r
            /\ pc[q[i]] = "wait" /\ slot[q[i]] = z
        BY <1>2, <2>1, <2>3, <3>1, <3>2
      <4>2. ASSUME NEW j \in 1 .. (Len(q) + 1), Append(q, r)[j] = q[i]
            PROVE  i = j
        <5>1. j \in 1 .. Len(q)
          BY <1>1, <1>2, <4>1, <4>2
        <5>2. QED
          BY <1>2, <2>1, <2>3, <3>2, <4>2, <5>1
      <4>3. QED
        BY <1>2, <3>1, <4>1, <4>2 DEF TypeOK
    <3>3. CASE i = Len(q) + 1
      BY <1>1, <1>2, <2>1, <2>3, <3>1, <3>3 DEF TypeOK
    <3>4. QED
      BY <1>1, <1>2, <1>3, <3>1, <3>2, <3>3
  <2>4. QED
    BY <2>2, <2>3
<1>4. ASSUME NEW x \in Requests, pc'[x] = "wait"
      PROVE  \E i \in 1 .. Len(waiters'[slot'[x]]) : waiters'[slot'[x]][i] = x
  <2>1. CASE x = r
    <3>1. waiters'[slot'[x]] = Append(q, r) /\ Len(q) + 1 \in 1 .. (Len(q) + 1)
      BY <1>1, <2>1 DEF TypeOK
    <3>2. QED
      BY <1>2, <2>1, <3>1
  <2>2. CASE x # r
    <3>1. PICK i \in 1 .. Len(waiters[slot[x]]) : waiters[slot[x]][i] = x
      BY <1>4, <2>2 DEF WaitInv, TypeOK
    <3>2. CASE slot[x] = s
      <4>1. waiters'[slot'[x]] = Append(q, r)
        BY <3>2 DEF TypeOK
      <4>2. i \in 1 .. (Len(q) + 1) /\ Append(q, r)[i] = x
        BY <1>1, <1>2, <3>1, <3>2
      <4>3. QED
        BY <1>2, <4>1, <4>2
    <3>3. CASE slot[x] # s
      BY <3>1, <3>3 DEF TypeOK
    <3>4. QED
      BY <3>2, <3>3
  <2>3. QED
    BY <2>1, <2>2
<1>5. QED
  BY <1>3, <1>4 DEF WaitInv

LEMMA IInvNext == IInv /\ [Next]_vars => IInv'
<1> SUFFICES ASSUME IInv, [Next]_vars
             PROVE  IInv'
  OBVIOUS
<1>a. /\ U32 \in Nat /\ U32 > 1 /\ MaxClears \in Nat
      /\ Concurrencies \subseteq 0 .. (U32 - 1)
  BY ConstantsAssumption
<1>b. TypeOK /\ SlotInv /\ SeenInv /\ WaitInv
  BY DEF IInv
<1>c. \A r \in Requests :
        pc[r] \notin {"idle", "held", "done"} =>
          slot[r] \in Slots /\ conc[r] \in Concurrencies /\ conc[r] # 0
  <2> SUFFICES ASSUME NEW r \in Requests, pc[r] \notin {"idle", "held", "done"}
               PROVE  slot[r] \in Slots /\ conc[r] \in Concurrencies /\ conc[r] # 0
    OBVIOUS
  <2>1. conc[r] # 0 /\ slot[r] \in 1 .. born
    BY <1>b DEF SlotInv
  <2>2. QED
    BY <1>a, <1>b, <2>1 DEF TypeOK, Slots
<1>1. CASE UNCHANGED vars
  BY <1>b, <1>1 DEF IInv, TypeOK, SlotInv, SeenInv, WaitInv, vars
<1>2. ASSUME NEW r \in Requests, NEW c \in Concurrencies, Acquire(r, c)
      PROVE  IInv'
  <2>1. WaitInv'
    BY <1>b, <1>2, WaitInvFrame DEF Acquire, TypeOK
  <2>2. CASE c = 0
    BY <1>b, <1>2, <2>1, <2>2 DEF Acquire, IInv, TypeOK, SlotInv, SeenInv, PC
  <2>3. CASE c # 0
    <3>1. /\ slots' \in 1 .. (MaxClears + 1) /\ slots' = born' /\ born <= born'
          /\ born' <= clears + 1
      BY <1>a, <1>b, <1>2, <2>3 DEF Acquire, SlotFor, TypeOK, SlotInv
    <3>2. TypeOK'
      <4>1. born' \in 0 .. (MaxClears + 1) /\ slots' \in 0 .. (MaxClears + 1)
        BY <1>a, <3>1
      <4>2. QED
        BY <1>b, <1>2, <2>3, <4>1 DEF Acquire, TypeOK, PC
    <3>3. SlotInv'
      BY <1>b, <1>2, <2>3, <3>1, <1>a DEF Acquire, TypeOK, SlotInv
    <3>4. SeenInv'
      BY <1>b, <1>2, <2>3 DEF Acquire, TypeOK, SeenInv
    <3>5. QED
      BY <2>1, <3>2, <3>3, <3>4 DEF IInv
  <2>4. QED
    BY <2>2, <2>3
<1>3. ASSUME NEW r \in Requests, LoadActive(r)
      PROVE  IInv'
  <2>1. WaitInv'
    BY <1>b, <1>3, WaitInvFrame DEF LoadActive, TypeOK
  <2>2. QED
    BY <1>b, <1>c, <1>3, <2>1 DEF LoadActive, IInv, TypeOK, SlotInv, SeenInv, PC
<1>4. ASSUME NEW r \in Requests, CasActive(r)
      PROVE  IInv'
  <2>1. seen[r] < conc[r] /\ conc[r] \in Concurrencies
    BY <1>b, <1>c, <1>4 DEF CasActive, SeenInv
  <2>2. seen[r] \in Nat /\ seen[r] + 1 \in 0 .. (U32 - 1)
    <3>1. seen[r] \in 0 .. (U32 - 1) /\ conc[r] \in 0 .. (U32 - 1)
      BY <1>a, <1>b, <2>1 DEF TypeOK
    <3>2. QED
      BY <1>a, <2>1, <3>1
  <2>3. WaitInv'
    BY <1>b, <1>4, WaitInvFrame DEF CasActive, TypeOK
  <2>4. QED
    BY <1>b, <1>4, <2>2, <2>3 DEF CasActive, IInv, TypeOK, SlotInv, SeenInv, PC
<1>5. ASSUME NEW r \in Requests, LoadQueued(r)
      PROVE  IInv'
  <2>1. slot[r] \in Slots /\ conc[r] \in Concurrencies \cup {0} /\ conc[r] # 0
    BY <1>c, <1>5 DEF LoadQueued
  <2>2. /\ MaxQueueDepth(conc[r]) \in 0 .. (U32 - 1)
        /\ queued[slot[r]] \in 0 .. (U32 - 1)
    BY <1>b, <2>1, MaxQueueDepthType DEF TypeOK
  <2>3. TypeOK' /\ SlotInv'
    BY <1>b, <1>5, <2>1, <2>2 DEF LoadQueued, TypeOK, SlotInv, PC
  <2>4. SeenInv'
    BY <1>a, <1>b, <1>5, <2>2 DEF LoadQueued, TypeOK, SeenInv
  <2>5. WaitInv'
    BY <1>b, <1>5, WaitInvFrame DEF LoadQueued, TypeOK
  <2>6. QED
    BY <2>3, <2>4, <2>5 DEF IInv
<1>6. ASSUME NEW r \in Requests, CasQueued(r)
      PROVE  IInv'
  <2>1. seen[r] < MaxQueueDepth(conc[r]) /\ conc[r] \in Concurrencies \cup {0}
    BY <1>b, <1>c, <1>6 DEF CasQueued, SeenInv
  <2>2. MaxQueueDepth(conc[r]) \in 0 .. (U32 - 1)
    BY <2>1, MaxQueueDepthType
  <2>3. seen[r] \in Nat /\ seen[r] + 1 \in 0 .. (U32 - 1)
    BY <1>a, <1>b, <2>1, <2>2 DEF TypeOK
  <2>4. WaitInv'
    BY <1>b, <1>6, WaitInvFrame DEF CasQueued, TypeOK
  <2>5. QED
    BY <1>b, <1>c, <1>6, <2>3, <2>4
       DEF CasQueued, IInv, TypeOK, SlotInv, SeenInv, PC
<1>7. ASSUME NEW r \in Requests, CasFails(r)
      PROVE  IInv'
  <2>1. WaitInv'
    BY <1>b, <1>7, WaitInvFrame DEF CasFails, TypeOK
  <2>2. QED
    BY <1>b, <1>c, <1>7, <2>1 DEF CasFails, IInv, TypeOK, SlotInv, SeenInv, PC
<1>8. ASSUME NEW r \in Requests, PollNotified(r)
      PROVE  IInv'
  <2>1. slot[r] \in Slots /\ waiters[slot[r]] \in Seq(Requests) /\ conc[r] # 0
    BY <1>b, <1>c, <1>8 DEF PollNotified, TypeOK
  <2>2. /\ permit' \in [Slots -> BOOLEAN]
        /\ waiters' \in [Slots -> Seq(Requests)]
        /\ pc' \in [Requests -> PC]
        /\ pc' = [pc EXCEPT ![r] = "dequeue"] \/ pc' = [pc EXCEPT ![r] = "wait"]
    <3>1. Append(waiters[slot[r]], r) \in Seq(Requests)
      BY <2>1
    <3>2. QED
      BY <1>b, <1>8, <2>1, <3>1 DEF PollNotified, TypeOK, PC
  <2>3. TypeOK' /\ SlotInv' /\ SeenInv'
    BY <1>b, <1>8, <2>1, <2>2 DEF PollNotified, TypeOK, SlotInv, SeenInv
  <2>4. WaitInv'
    <3>1. CASE permit[slot[r]]
      BY <1>b, <1>8, <3>1, WaitInvFrame DEF PollNotified, TypeOK
    <3>2. CASE ~permit[slot[r]]
      <4>1. /\ pc[r] # "wait" /\ pc' = [pc EXCEPT ![r] = "wait"] /\ slot' = slot
            /\ waiters' = [waiters EXCEPT ![slot[r]] = Append(@, r)]
        BY <1>8, <3>2 DEF PollNotified
      <4>2. QED
        BY <1>b, <2>1, <4>1, RegisterInv
    <3>3. QED
      BY <3>1, <3>2
  <2>5. QED
    BY <2>3, <2>4 DEF IInv
<1>9. ASSUME NEW r \in Requests, Resume(r)
      PROVE  IInv'
  <2>1. WaitInv'
    BY <1>b, <1>9, WaitInvFrame DEF Resume, TypeOK
  <2>2. QED
    BY <1>b, <1>c, <1>9, <2>1 DEF Resume, IInv, TypeOK, SlotInv, SeenInv, PC
<1>10. ASSUME NEW r \in Requests, WaitTimeout(r)
       PROVE  IInv'
  <2>1. slot[r] \in Slots /\ conc[r] # 0 /\ "expired" \in PC \ {"wait"}
    BY <1>c, <1>10 DEF WaitTimeout, PC
  <2>2. /\ permit' \in [Slots -> BOOLEAN]
        /\ waiters' \in [Slots -> Seq(Requests)]
        /\ pc' \in [Requests -> PC]
        /\ pc'[r] = "expired"
        /\ \A x \in Requests \ {r} :
             pc'[x] = pc[x] \/ (pc[x] = "wait" /\ pc'[x] = "woken")
        /\ WaitInv'
    BY <1>b, <1>10, <2>1, DropNotifiedInv DEF WaitTimeout
  <2>3. QED
    BY <1>b, <1>10, <2>1, <2>2 DEF WaitTimeout, IInv, TypeOK, SlotInv, SeenInv
<1>11. ASSUME NEW r \in Requests, Dequeue(r)
       PROVE  IInv'
  <2>1. slot[r] \in Slots /\ conc[r] # 0
    BY <1>c, <1>11 DEF Dequeue
  <2>2. FetchSub(queued[slot[r]]) \in 0 .. (U32 - 1)
    BY <1>b, <2>1, FetchSubType DEF TypeOK
  <2>3. WaitInv'
    BY <1>b, <1>11, WaitInvFrame DEF Dequeue, TypeOK
  <2>4. QED
    BY <1>b, <1>11, <2>1, <2>2, <2>3
       DEF Dequeue, IInv, TypeOK, SlotInv, SeenInv, PC
<1>12. ASSUME NEW r \in Requests, Cancel(r)
       PROVE  IInv'
  <2>1. slot[r] \in Slots /\ conc[r] # 0 /\ "cancelled" \in PC \ {"wait"}
    BY <1>c, <1>12 DEF Cancel, PC
  <2>2. /\ permit' \in [Slots -> BOOLEAN]
        /\ waiters' \in [Slots -> Seq(Requests)]
        /\ pc' \in [Requests -> PC]
        /\ pc'[r] = "cancelled"
        /\ \A x \in Requests \ {r} :
             pc'[x] = pc[x] \/ (pc[x] = "wait" /\ pc'[x] = "woken")
        /\ WaitInv'
    BY <1>b, <1>12, <2>1, DropNotifiedInv DEF Cancel
  <2>3. cancels' \in 0 .. MaxCancels
    BY <1>b, <1>12, ConstantsAssumption DEF Cancel, TypeOK
  <2>4. QED
    BY <1>b, <1>12, <2>1, <2>2, <2>3 DEF Cancel, IInv, TypeOK, SlotInv, SeenInv
<1>13. ASSUME NEW r \in Requests, Release(r)
       PROVE  IInv'
  <2>1. WaitInv'
    BY <1>b, <1>13, WaitInvFrame DEF Release, TypeOK
  <2>2. CASE conc[r] = 0 \/ slots = 0
    BY <1>b, <1>13, <2>1, <2>2 DEF Release, IInv, TypeOK, SlotInv, SeenInv, PC
  <2>3. CASE ~(conc[r] = 0 \/ slots = 0)
    <3>1. slots \in Slots /\ slots \in 1 .. born
      BY <1>a, <1>b, <2>3 DEF TypeOK, SlotInv, Slots
    <3>2. FetchSub(active[slots]) \in 0 .. (U32 - 1)
      BY <1>b, <3>1, FetchSubType DEF TypeOK
    <3>3. TypeOK' /\ SeenInv'
      BY <1>b, <1>13, <2>3, <3>1, <3>2 DEF Release, TypeOK, SeenInv, PC
    <3>4. SlotInv'
      BY <1>b, <1>13, <2>3, <3>1 DEF Release, TypeOK, SlotInv
    <3>5. QED
      BY <2>1, <3>3, <3>4 DEF IInv
  <2>4. QED
    BY <2>2, <2>3
<1>14. ASSUME NEW r \in Requests, ReleaseNotify(r)
       PROVE  IInv'
  <2>1. slot[r] \in Slots /\ conc[r] # 0 /\ "done" \in PC \ {"wait"}
    BY <1>c, <1>14 DEF ReleaseNotify, PC
  <2>2. /\ permit' \in [Slots -> BOOLEAN]
        /\ waiters' \in [Slots -> Seq(Requests)]
        /\ pc' \in [Requests -> PC]
        /\ pc'[r] = "done"
        /\ \A x \in Requests \ {r} :
             pc'[x] = pc[x] \/ (pc[x] = "wait" /\ pc'[x] = "woken")
        /\ WaitInv'
    BY <1>b, <1>14, <2>1, NotifyOneInv DEF ReleaseNotify
  <2>3. QED
    BY <1>b, <1>14, <2>1, <2>2
       DEF ReleaseNotify, IInv, TypeOK, SlotInv, SeenInv
<1>15. CASE Snapshot
  <2>1. WaitInv'
    BY <1>b, <1>15, WaitInvFrame DEF Snapshot, TypeOK
  <2>2. QED
    BY <1>a, <1>b, <1>15, <2>1
       DEF Snapshot, SlotFor, IInv, TypeOK, SlotInv, SeenInv
<1>16. CASE ClearNode
  <2>1. WaitInv'
    BY <1>b, <1>16, WaitInvFrame DEF ClearNode, TypeOK
  <2>2. QED
    BY <1>a, <1>b, <1>16, <2>1
       DEF ClearNode, IInv, TypeOK, SlotInv, SeenInv
<1>17. CASE Quiescent
  BY <1>1, <1>17 DEF Quiescent
<1>18. QED
  BY <1>1, <1>2, <1>3, <1>4, <1>5, <1>6, <1>7, <1>8, <1>9, <1>10, <1>11,
     <1>12, <1>13, <1>14, <1>15, <1>16, <1>17 DEF Next, Step

LEMMA IInvariance == Spec => []IInv
BY IInvInit, IInvNext, PTL DEF Spec

(* Type correctness for every counter width: no exchange ever stores a     *)
(* value the AtomicU32 cannot hold, so `active + 1` and `queued + 1` do    *)
(* not overflow.                                                           *)
THEOREM TypeCorrect == Spec => []TypeOK
BY IInvariance, PTL DEF IInv

-----------------------------------------------------------------------------
(* The queue counter *)

(* What the steps of the model do to the variables the counters depend on:  *)
(* a wake-up moves a sleeper, every other move is the actor's own.          *)
LEMMA WakeEffect ==
  ASSUME IInv, NEW r \in Requests,
         WaitTimeout(r) \/ Cancel(r) \/ ReleaseNotify(r)
  PROVE  /\ \/ pc[r] \in {"wait", "woken"} /\ pc'[r] \in {"expired", "cancelled"}
            \/ pc[r] = "notify" /\ pc'[r] = "done"
         /\ \A x \in Requests \ {r} :
              pc'[x] = pc[x] \/ (pc[x] = "wait" /\ pc'[x] = "woken")
<1>1. TypeOK /\ WaitInv /\ SlotInv
  BY DEF IInv
<1>2. pc[r] \notin {"idle", "held", "done"}
  BY DEF WaitTimeout, Cancel, ReleaseNotify
<1>3. slot[r] \in Slots
  <2>1. slot[r] \in 1 .. born
    BY <1>1, <1>2 DEF SlotInv
  <2>2. QED
    BY <1>1, <2>1, ConstantsAssumption DEF TypeOK, Slots
<1>4. {"expired", "cancelled", "done"} \subseteq PC \ {"wait"}
  BY DEF PC
<1>5. CASE WaitTimeout(r)
  BY <1>1, <1>3, <1>4, <1>5, DropNotifiedInv DEF WaitTimeout
<1>6. CASE Cancel(r)
  BY <1>1, <1>3, <1>4, <1>6, DropNotifiedInv DEF Cancel
<1>7. CASE ReleaseNotify(r)
  BY <1>1, <1>3, <1>4, <1>7, NotifyOneInv DEF ReleaseNotify
<1>8. QED
  BY <1>5, <1>6, <1>7

LEMMA QueuersFinite ==
  ASSUME NEW s \in Slots
  PROVE  IsFiniteSet(Queuers(s)) /\ Cardinality(Queuers(s)) \in Nat
<1>1. Queuers(s) \subseteq Requests
  BY DEF Queuers
<1>2. IsFiniteSet(Queuers(s))
  BY <1>1, ConstantsAssumption, FS_Subset
<1>3. QED
  BY <1>2, FS_CardinalityType

(* A step that moves nobody into or out of the queue. *)
LEMMA QueuedFrame ==
  ASSUME QueuedCountsQueuers, queued' = queued,
         \A s \in Slots : Queuers(s)' = Queuers(s)
  PROVE  QueuedCountsQueuers'
BY DEF QueuedCountsQueuers

LEMMA QueuedNext ==
  IInv /\ QueuedCountsQueuers /\ [Next]_vars => QueuedCountsQueuers'
<1> SUFFICES ASSUME IInv, QueuedCountsQueuers, [Next]_vars
             PROVE  QueuedCountsQueuers'
  OBVIOUS
<1>a. TypeOK /\ SlotInv /\ SeenInv
  BY DEF IInv
<1>b. ASSUME NEW r \in Requests, pc[r] \notin {"idle", "held", "done"}
      PROVE  slot[r] \in Slots /\ conc[r] \in Concurrencies /\ conc[r] # 0
  <2>1. conc[r] # 0 /\ slot[r] \in 1 .. born
    BY <1>a, <1>b DEF SlotInv
  <2>2. QED
    BY <1>a, <2>1, ConstantsAssumption DEF TypeOK, Slots
<1>1. CASE UNCHANGED vars
  BY <1>1, QueuedFrame DEF vars, Queuers
<1>2. ASSUME NEW r \in Requests, NEW c \in Concurrencies, Acquire(r, c)
      PROVE  QueuedCountsQueuers'
  <2>1. \A s \in Slots : Queuers(s)' = Queuers(s)
    BY <1>a, <1>2 DEF Acquire, Queuers, TypeOK
  <2>2. QED
    BY <1>2, <2>1, QueuedFrame DEF Acquire
<1>3. ASSUME NEW r \in Requests,
             \/ LoadActive(r) \/ CasActive(r) \/ LoadQueued(r) \/ CasFails(r)
             \/ PollNotified(r) \/ Resume(r) \/ Release(r)
      PROVE  QueuedCountsQueuers'
  <2>1. \A s \in Slots : Queuers(s)' = Queuers(s)
    BY <1>a, <1>3 DEF Queuers, TypeOK, LoadActive, CasActive, LoadQueued,
                      CasFails, PollNotified, Resume, Release
  <2>2. queued' = queued
    BY <1>3 DEF LoadActive, CasActive, LoadQueued, CasFails, PollNotified,
                Resume, Release
  <2>3. QED
    BY <2>1, <2>2, QueuedFrame
<1>4. ASSUME NEW r \in Requests,
             WaitTimeout(r) \/ Cancel(r) \/ ReleaseNotify(r)
      PROVE  QueuedCountsQueuers'
  <2>1. queued' = queued /\ slot' = slot
    BY <1>4 DEF WaitTimeout, Cancel, ReleaseNotify
  <2>2. \A s \in Slots : Queuers(s)' = Queuers(s)
    BY <1>4, <2>1, WakeEffect DEF Queuers
  <2>3. QED
    BY <2>1, <2>2, QueuedFrame
<1>5. ASSUME NEW r \in Requests, CasQueued(r)
      PROVE  QueuedCountsQueuers'
  <2>1. PICK z \in Slots : z = slot[r] /\ conc[r] \in Concurrencies
    BY <1>b, <1>5 DEF CasQueued
  <2>2. /\ \A s \in Slots \ {z} : Queuers(s)' = Queuers(s) /\ queued'[s] = queued[s]
        /\ Queuers(z)' = Queuers(z) \cup {r} /\ r \notin Queuers(z)
    BY <1>a, <1>5, <2>1 DEF CasQueued, Queuers, TypeOK
  <2>3. queued'[z] = queued[z] + 1 /\ queued[z] < MaxQueueDepth(conc[r])
    BY <1>a, <1>5, <2>1 DEF CasQueued, SeenInv, TypeOK
  <2>4. Cardinality(Queuers(z)') = Cardinality(Queuers(z)) + 1
    BY <2>1, <2>2, QueuersFinite, FS_AddElement
  <2>5. MaxQueueDepth(conc[r]) \in Int /\ queued[z] \in Int
    BY <1>a, <2>1, MaxQueueDepthType DEF TypeOK
  <2>6. queued'[z] <= MaxQueueDepth(conc[r])
    BY <2>3, <2>5
  <2>7. queued'[z] = Cardinality(Queuers(z)')
    BY <2>1, <2>3, <2>4 DEF QueuedCountsQueuers
  <2>8. QED
    BY <2>1, <2>2, <2>6, <2>7 DEF QueuedCountsQueuers
<1>6. ASSUME NEW r \in Requests, Dequeue(r)
      PROVE  QueuedCountsQueuers'
  <2>1. PICK z \in Slots : z = slot[r] /\ queued[z] \in 0 .. (U32 - 1)
    BY <1>a, <1>b, <1>6 DEF Dequeue, TypeOK
  <2>2. /\ \A s \in Slots \ {z} : Queuers(s)' = Queuers(s) /\ queued'[s] = queued[s]
        /\ Queuers(z)' = Queuers(z) \ {r} /\ r \in Queuers(z)
    BY <1>a, <1>6, <2>1 DEF Dequeue, Queuers, TypeOK
  <2>3. Cardinality(Queuers(z)') = Cardinality(Queuers(z)) - 1
    BY <2>1, <2>2, QueuersFinite, FS_RemoveElement
  <2>4. queued[z] = Cardinality(Queuers(z)) /\ queued[z] # 0
    BY <2>1, <2>2, QueuersFinite, FS_EmptySet DEF QueuedCountsQueuers
  <2>5. queued'[z] = queued[z] - 1
    BY <1>a, <1>6, <2>1, <2>4, FetchSubType DEF Dequeue, TypeOK
  <2>6. \E c \in Concurrencies : queued'[z] <= MaxQueueDepth(c)
    <3>1. PICK c \in Concurrencies : queued[z] <= MaxQueueDepth(c)
      BY <2>1, <2>4 DEF QueuedCountsQueuers
    <3>2. MaxQueueDepth(c) \in Int
      BY MaxQueueDepthType
    <3>3. QED
      BY <2>1, <2>5, <3>1, <3>2
  <2>7. queued'[z] = Cardinality(Queuers(z)')
    BY <2>3, <2>4, <2>5
  <2>8. QED
    BY <2>1, <2>2, <2>6, <2>7 DEF QueuedCountsQueuers
<1>7. CASE Snapshot \/ ClearNode
  BY <1>7, QueuedFrame DEF Snapshot, ClearNode, Queuers
<1>8. QED
  BY <1>1, <1>2, <1>3, <1>4, <1>5, <1>6, <1>7 DEF Next, Step, Quiescent

(* The queue is bounded and counted exactly, for every number of requests, *)
(* disconnects and cancelled callers.                                      *)
THEOREM QueueCounted == Spec => []QueuedCountsQueuers
<1>1. Init => QueuedCountsQueuers
  <2> SUFFICES ASSUME Init PROVE QueuedCountsQueuers
    OBVIOUS
  <2>1. \A s \in Slots : Queuers(s) = {} /\ queued[s] = 0
    BY DEF Init, Queuers
  <2>2. QED
    BY <2>1, FS_EmptySet DEF QueuedCountsQueuers
<1>2. QED
  BY <1>1, IInvariance, QueuedNext, PTL DEF Spec

-----------------------------------------------------------------------------
(* The active counter *)

LEMMA GuardsFinite == IsFiniteSet(Guards) /\ Cardinality(Guards) \in Nat
<1>1. Guards \subseteq Requests
  BY DEF Guards
<1>2. IsFiniteSet(Guards)
  BY <1>1, ConstantsAssumption, FS_Subset
<1>3. QED
  BY <1>2, FS_CardinalityType

(* A step that neither admits nor releases. *)
LEMMA OneSlotFrame ==
  ASSUME OneSlotInv, active' = active, slots' = slots, born' = born,
         clears' = clears, Guards' = Guards,
         \A x \in Requests : pc'[x] # "idle" /\ conc'[x] # 0 =>
           pc[x] # "idle" /\ conc[x] # 0 /\ slot'[x] = slot[x]
  PROVE  OneSlotInv'
BY DEF OneSlotInv, ActiveCountsGuards

LEMMA OneSlotNext == IInv /\ OneSlotInv /\ [Next]_vars => OneSlotInv'
<1> SUFFICES ASSUME IInv, OneSlotInv, [Next]_vars
             PROVE  OneSlotInv'
  OBVIOUS
<1>a. TypeOK /\ SlotInv /\ SeenInv
  BY DEF IInv
<1>b. ASSUME NEW r \in Requests, pc[r] # "idle", conc[r] # 0
      PROVE  slot[r] \in Slots /\ slot[r] \in 1 .. born
  <2>1. slot[r] \in 1 .. born
    BY <1>a, <1>b DEF SlotInv
  <2>2. QED
    BY <1>a, <2>1, ConstantsAssumption DEF TypeOK, Slots
<1>c. (* the first slot_for of the key *)
      ASSUME slots = 0, clears = 0
      PROVE  /\ born = 0 /\ Guards = {}
             /\ \A x \in Requests : pc[x] = "idle" \/ conc[x] = 0
             /\ 1 \in Slots /\ active[1] = 0
  <2>1. born = 0
    BY <1>a, <1>c DEF SlotInv, TypeOK
  <2>2. \A x \in Requests : pc[x] = "idle" \/ conc[x] = 0
    BY <1>a, <2>1 DEF SlotInv
  <2>3. Guards = {}
    BY <2>2 DEF Guards
  <2>4. 1 \in Slots /\ active[1] = 0
    BY <2>1, ConstantsAssumption DEF OneSlotInv, Slots
  <2>5. QED
    BY <2>1, <2>2, <2>3, <2>4
<1>1. CASE UNCHANGED vars
  BY <1>1, OneSlotFrame DEF vars, Guards
<1>2. ASSUME NEW r \in Requests, NEW c \in Concurrencies, Acquire(r, c)
      PROVE  OneSlotInv'
  <2>1. Guards' = Guards /\ active' = active /\ clears' = clears
    BY <1>a, <1>2 DEF Acquire, Guards, TypeOK
  <2>2. CASE c = 0
    BY <1>a, <1>2, <2>1, <2>2, OneSlotFrame DEF Acquire, TypeOK
  <2>3. CASE c # 0 /\ slots # 0
    <3>1. /\ slots' = slots /\ born' = born
          /\ \A x \in Requests : pc'[x] # "idle" /\ conc'[x] # 0 =>
               (pc[x] # "idle" /\ conc[x] # 0 /\ slot'[x] = slot[x]) \/ slot'[x] = slots
      BY <1>a, <1>2, <2>3 DEF Acquire, SlotFor, TypeOK
    <3>2. QED
      BY <2>1, <3>1 DEF OneSlotInv, ActiveCountsGuards
  <2>4. CASE c # 0 /\ slots = 0
    <3>1. /\ slots' = born + 1 /\ born' = born + 1 /\ born \in Nat
          /\ slot' = [slot EXCEPT ![r] = slots']
          /\ \A x \in Requests : pc'[x] # "idle" /\ conc'[x] # 0 =>
               (pc[x] # "idle" /\ conc[x] # 0) \/ x = r
      BY <1>a, <1>2, <2>4 DEF Acquire, SlotFor, TypeOK
    <3>2. \A s \in Slots : s > born' => active'[s] = 0
      BY <2>1, <3>1, ConstantsAssumption DEF OneSlotInv, Slots
    <3>3. ASSUME clears' = 0
          PROVE  /\ \A x \in Requests :
                      pc'[x] # "idle" /\ conc'[x] # 0 => slot'[x] = slots'
                 /\ slots' # 0 /\ active'[slots'] = Cardinality(Guards')
      <4>1. clears = 0
        BY <2>1, <3>3
      <4>2. \A x \in Requests : pc'[x] # "idle" /\ conc'[x] # 0 => x = r
        BY <1>c, <2>4, <3>1, <4>1
      <4>3. slots' = 1 /\ active'[slots'] = 0 /\ Cardinality(Guards') = 0
        BY <1>c, <2>1, <2>4, <3>1, <4>1, FS_EmptySet
      <4>4. QED
        BY <1>a, <3>1, <4>2, <4>3 DEF TypeOK
    <3>4. QED
      BY <3>2, <3>3 DEF OneSlotInv, ActiveCountsGuards
  <2>5. QED
    BY <2>2, <2>3, <2>4
<1>3. ASSUME NEW r \in Requests,
             \/ LoadActive(r) \/ LoadQueued(r) \/ CasQueued(r) \/ CasFails(r)
             \/ PollNotified(r) \/ Resume(r) \/ Dequeue(r)
      PROVE  OneSlotInv'
  <2>1. /\ active' = active /\ slots' = slots /\ born' = born
        /\ clears' = clears /\ conc' = conc /\ slot' = slot
    BY <1>3 DEF LoadActive, LoadQueued, CasQueued, CasFails, PollNotified,
                Resume, Dequeue
  <2>2. /\ \A x \in Requests : pc'[x] = "held" <=> pc[x] = "held"
        /\ \A x \in Requests : pc'[x] = "idle" <=> pc[x] = "idle"
    BY <1>a, <1>3 DEF LoadActive, LoadQueued, CasQueued, CasFails,
                      PollNotified, Resume, Dequeue, TypeOK
  <2>3. Guards' = Guards
    BY <2>1, <2>2 DEF Guards
  <2>4. QED
    BY <2>1, <2>2, <2>3, OneSlotFrame
<1>4. ASSUME NEW r \in Requests,
             WaitTimeout(r) \/ Cancel(r) \/ ReleaseNotify(r)
      PROVE  OneSlotInv'
  <2>1. /\ active' = active /\ slots' = slots /\ born' = born
        /\ clears' = clears /\ conc' = conc /\ slot' = slot
    BY <1>4 DEF WaitTimeout, Cancel, ReleaseNotify
  <2>2. /\ \A x \in Requests : pc'[x] = "held" <=> pc[x] = "held"
        /\ \A x \in Requests : pc'[x] = "idle" <=> pc[x] = "idle"
    BY <1>4, WakeEffect
  <2>3. Guards' = Guards
    BY <2>1, <2>2 DEF Guards
  <2>4. QED
    BY <2>1, <2>2, <2>3, OneSlotFrame
<1>5. ASSUME NEW r \in Requests, CasActive(r)
      PROVE  OneSlotInv'
  <2>1. conc[r] # 0 /\ pc[r] = "cas"
    BY <1>a, <1>5 DEF CasActive, SlotInv
  <2>2. slot[r] \in Slots /\ slot[r] \in 1 .. born
    BY <1>b, <2>1
  <2>3. /\ slots' = slots /\ born' = born /\ clears' = clears
        /\ slot' = slot /\ conc' = conc
        /\ \A x \in Requests : pc'[x] = "idle" <=> pc[x] = "idle"
        /\ active' = [active EXCEPT ![slot[r]] = active[slot[r]] + 1]
    BY <1>a, <1>5 DEF CasActive, TypeOK
  <2>4. Guards' = Guards \cup {r} /\ r \notin Guards
    BY <1>a, <1>5, <2>1 DEF CasActive, Guards, TypeOK
  <2>5. Cardinality(Guards') = Cardinality(Guards) + 1
    BY <2>4, GuardsFinite, FS_AddElement
  <2>6. \A s \in Slots : s > born' => active'[s] = 0
    BY <1>a, <2>2, <2>3 DEF OneSlotInv, TypeOK, Slots
  <2>7. ASSUME clears' = 0
        PROVE  /\ \A x \in Requests :
                    pc'[x] # "idle" /\ conc'[x] # 0 => slot'[x] = slots'
               /\ slots' # 0 /\ active'[slots'] = Cardinality(Guards')
    <3>1. slot[r] = slots /\ slots # 0
      BY <2>1, <2>2, <2>3, <2>7 DEF OneSlotInv
    <3>2. active[slots] = Cardinality(Guards)
      BY <2>3, <2>7, <3>1 DEF OneSlotInv, ActiveCountsGuards
    <3>3. active'[slots'] = Cardinality(Guards) + 1
      BY <1>a, <2>2, <2>3, <3>1, <3>2 DEF TypeOK
    <3>4. QED
      BY <2>3, <2>5, <2>7, <3>1, <3>3 DEF OneSlotInv
  <2>8. QED
    BY <2>6, <2>7 DEF OneSlotInv, ActiveCountsGuards
<1>6. ASSUME NEW r \in Requests, Release(r)
      PROVE  OneSlotInv'
  <2>1. /\ slots' = slots /\ born' = born /\ clears' = clears /\ conc' = conc
        /\ pc[r] = "held"
        /\ \A x \in Requests : pc'[x] = "idle" <=> pc[x] = "idle"
    BY <1>a, <1>6 DEF Release, TypeOK
  <2>2. CASE conc[r] = 0
    <3>1. Guards' = Guards /\ active' = active /\ slot' = slot
      BY <1>a, <1>6, <2>2 DEF Release, Guards, TypeOK
    <3>2. QED
      BY <2>1, <3>1, OneSlotFrame
  <2>3. CASE conc[r] # 0 /\ slots = 0
    <3>1. active' = active /\ slot' = slot
      BY <1>6, <2>3 DEF Release
    <3>2. clears # 0
      BY <1>c, <2>1, <2>3
    <3>3. QED
      BY <2>1, <3>1, <3>2 DEF OneSlotInv, ActiveCountsGuards
  <2>4. CASE conc[r] # 0 /\ slots # 0
    <3>1. slots \in Slots /\ slots = born
      BY <1>a, <2>4, ConstantsAssumption DEF TypeOK, SlotInv, Slots
    <3>2. /\ active' = [active EXCEPT ![slots] = FetchSub(active[slots])]
          /\ slot' = [slot EXCEPT ![r] = slots]
      BY <1>6, <2>4 DEF Release
    <3>3. Guards' = Guards \ {r} /\ r \in Guards
      BY <1>a, <1>6, <2>4 DEF Release, Guards, TypeOK
    <3>4. Cardinality(Guards') = Cardinality(Guards) - 1 /\ Cardinality(Guards) # 0
      BY <3>3, GuardsFinite, FS_RemoveElement, FS_EmptySet
    <3>5. \A s \in Slots : s > born' => active'[s] = 0
      BY <1>a, <2>1, <3>1, <3>2 DEF OneSlotInv, TypeOK, Slots
    <3>6. ASSUME clears' = 0
          PROVE  /\ \A x \in Requests :
                      pc'[x] # "idle" /\ conc'[x] # 0 => slot'[x] = slots'
                 /\ active'[slots'] = Cardinality(Guards')
      <4>1. active[slots] = Cardinality(Guards) /\ active[slots] \in 0 .. (U32 - 1)
        BY <1>a, <2>1, <2>4, <3>1, <3>6
           DEF OneSlotInv, ActiveCountsGuards, TypeOK
      <4>2. FetchSub(active[slots]) = active[slots] - 1
        BY <3>4, <4>1, FetchSubType
      <4>3. active'[slots'] = Cardinality(Guards')
        BY <1>a, <2>1, <3>1, <3>2, <3>4, <4>1, <4>2 DEF TypeOK
      <4>4. QED
        BY <1>a, <2>1, <3>2, <3>6, <4>3 DEF OneSlotInv, TypeOK
    <3>7. QED
      BY <2>1, <2>4, <3>5, <3>6 DEF OneSlotInv, ActiveCountsGuards
  <2>5. QED
    BY <2>2, <2>3, <2>4
<1>7. CASE Snapshot
  <2>1. /\ slots' = born + 1 /\ born' = born + 1 /\ born \in Nat /\ slots = 0
        /\ active' = active /\ clears' = clears /\ Guards' = Guards
        /\ pc' = pc /\ conc' = conc /\ slot' = slot
    BY <1>a, <1>7 DEF Snapshot, SlotFor, TypeOK, Guards
  <2>2. \A s \in Slots : s > born' => active'[s] = 0
    BY <2>1, ConstantsAssumption DEF OneSlotInv, Slots
  <2>3. ASSUME clears' = 0
        PROVE  /\ \A x \in Requests :
                    pc'[x] # "idle" /\ conc'[x] # 0 => slot'[x] = slots'
               /\ slots' # 0 /\ active'[slots'] = Cardinality(Guards')
    BY <1>c, <2>1, <2>3, FS_EmptySet
  <2>4. QED
    BY <2>2, <2>3 DEF OneSlotInv, ActiveCountsGuards
<1>8. CASE ClearNode
  <2>1. clears' # 0 /\ active' = active /\ born' = born
    BY <1>a, <1>8 DEF ClearNode, TypeOK
  <2>2. QED
    BY <2>1 DEF OneSlotInv, ActiveCountsGuards
<1>9. QED
  BY <1>1, <1>2, <1>3, <1>4, <1>5, <1>6, <1>7, <1>8 DEF Next, Step, Quiescent

LEMMA OneSlotInvariance == Spec => []OneSlotInv
<1>1. Init => OneSlotInv
  BY FS_EmptySet DEF Init, OneSlotInv, ActiveCountsGuards, Guards
<1>2. QED
  BY <1>1, IInvariance, OneSlotNext, PTL DEF Spec

(* Until the node's tunnel first goes down, the active counter is the      *)
(* number of guards alive, for every number of requests and every limit.   *)
THEOREM ActiveCounted == Spec => []ActiveCountsGuards
BY OneSlotInvariance, PTL DEF OneSlotInv

(* Only acquire's exchange on the active counter takes a request from the  *)
(* exchange to holding a guard.                                            *)
LEMMA OnlyCasAdmits ==
  ASSUME IInv, [Next]_vars, NEW r \in Requests,
         pc[r] = "cas", pc'[r] = "held"
  PROVE  CasActive(r)
<1>a. TypeOK
  BY DEF IInv
<1>1. ASSUME NEW x \in Requests,
             WaitTimeout(x) \/ Cancel(x) \/ ReleaseNotify(x)
      PROVE  FALSE
  BY <1>1, WakeEffect
<1>2. ASSUME NEW x \in Requests,
             \/ LoadActive(x) \/ LoadQueued(x) \/ CasQueued(x) \/ CasFails(x)
             \/ PollNotified(x) \/ Resume(x) \/ Dequeue(x) \/ Release(x)
      PROVE  FALSE
  BY <1>a, <1>2 DEF LoadActive, LoadQueued, CasQueued, CasFails, PollNotified,
                    Resume, Dequeue, Release, TypeOK
<1>3. ASSUME NEW x \in Requests, NEW c \in Concurrencies, Acquire(x, c)
      PROVE  FALSE
  BY <1>a, <1>3 DEF Acquire, TypeOK
<1>4. ASSUME NEW x \in Requests, CasActive(x)
      PROVE  x = r
  BY <1>a, <1>4 DEF CasActive, TypeOK
<1>5. CASE Snapshot \/ ClearNode \/ UNCHANGED vars
  BY <1>5 DEF Snapshot, ClearNode, vars
<1>6. QED
  BY <1>1, <1>2, <1>3, <1>4, <1>5 DEF Next, Step, Quiescent

(* Admission control: until the node's tunnel first goes down, no          *)
(* interleaving of loads and exchanges admits a request beyond the limit   *)
(* it was checked against.                                                 *)
THEOREM Admission == Spec => AdmitWithinLimit
<1> DEFINE P == \A r \in Requests :
                  (clears' = 0 /\ pc[r] = "cas" /\ pc'[r] = "held")
                    => Cardinality(Guards') <= conc[r]
<1>1. IInv /\ OneSlotInv /\ OneSlotInv' /\ [Next]_vars => P
  <2> SUFFICES ASSUME IInv, OneSlotInv, OneSlotInv', [Next]_vars,
                      NEW r \in Requests,
                      clears' = 0, pc[r] = "cas", pc'[r] = "held"
               PROVE  Cardinality(Guards') <= conc[r]
    OBVIOUS
  <2>1. CasActive(r)
    BY OnlyCasAdmits
  <2>2. TypeOK /\ SlotInv /\ SeenInv
    BY DEF IInv
  <2>3. conc[r] # 0 /\ seen[r] < conc[r] /\ slot[r] \in 1 .. born
    BY <2>2 DEF SlotInv, SeenInv
  <2>4. slot[r] \in Slots
    BY <2>2, <2>3, ConstantsAssumption DEF TypeOK, Slots
  <2>5. /\ slots' = slots /\ clears' = clears
        /\ active'[slot[r]] = seen[r] + 1
    BY <2>1, <2>2, <2>4 DEF CasActive, TypeOK
  <2>6. slot[r] = slots /\ slots # 0
    BY <2>3, <2>5 DEF OneSlotInv
  <2>7. active'[slots'] = Cardinality(Guards')
    BY <2>5, <2>6 DEF OneSlotInv, ActiveCountsGuards
  <2>8. seen[r] \in Int /\ conc[r] \in Int
    <3>1. seen[r] \in 0 .. (U32 - 1) /\ conc[r] \in Concurrencies \cup {0}
      BY <2>2 DEF TypeOK
    <3>2. U32 \in Nat /\ Concurrencies \subseteq 0 .. (U32 - 1)
      BY ConstantsAssumption
    <3>3. conc[r] \in 0 .. (U32 - 1)
      BY <2>3, <3>1, <3>2
    <3>4. QED
      BY <3>1, <3>2, <3>3
  <2>9. QED
    BY <2>3, <2>5, <2>6, <2>7, <2>8
<1>2. QED
  BY <1>1, IInvariance, OneSlotInvariance, PTL DEF Spec, AdmitWithinLimit

-----------------------------------------------------------------------------
(* Wake-ups *)

(* Where a request is counted by InFlight, and where by Sleepy. *)
Waking == {"load", "cas", "notify", "woken", "dequeue"}
Dozing == {"queueLoad", "queueCas", "poll", "wait"}

(* Whenever a step of r leaves a slot object idle, r is about to notify    *)
(* it, or r neither falls asleep on it nor stops looking after it.         *)
OnlyWakes(r) ==
  \A s \in Slots : active'[s] = 0 =>
    \/ slot'[r] = s /\ pc'[r] \in Waking
    \/ /\ active[s] = 0
       /\ slot'[r] = s /\ pc'[r] \in Dozing => slot[r] = s /\ pc[r] \in Dozing
       /\ ~(slot[r] = s /\ pc[r] \in Waking)

(* A step of one request that leaves the Notify alone: it puts nobody to   *)
(* sleep beside an idle slot object, and nobody who was going to notify    *)
(* stops unless the slot object is in use.                                 *)
LEMMA WakeFrame ==
  ASSUME TypeOK, WakeInv, NEW r \in Requests,
         permit' = permit, waiters' = waiters,
         \A x \in Requests \ {r} : pc'[x] = pc[x] /\ slot'[x] = slot[x],
         OnlyWakes(r)
  PROVE  WakeInv'
<1> SUFFICES ASSUME NEW s \in Slots
             PROVE  /\ permit'[s] => waiters'[s] = <<>>
                    /\ \A y \in Requests :
                         active'[s] = 0 /\ slot'[y] = s /\ pc'[y] \in Dozing =>
                           \/ permit'[s]
                           \/ \E x \in Requests : slot'[x] = s /\ pc'[x] \in Waking
  BY DEF WakeInv, Sleepy, InFlight, Waking, Dozing
<1>1. permit'[s] => waiters'[s] = <<>>
  BY DEF WakeInv
<1>2. ASSUME active'[s] = 0, NEW y \in Requests, slot'[y] = s, pc'[y] \in Dozing,
             ~(slot'[r] = s /\ pc'[r] \in Waking)
      PROVE  \/ permit'[s]
             \/ \E x \in Requests : slot'[x] = s /\ pc'[x] \in Waking
  <2>1. active[s] = 0 /\ slot[y] = s /\ pc[y] \in Dozing /\ ~(slot[r] = s /\ pc[r] \in Waking)
    BY <1>2 DEF OnlyWakes
  <2>2. permit[s] \/ \E x \in Requests : slot[x] = s /\ pc[x] \in Waking
    BY <2>1 DEF WakeInv, Sleepy, InFlight, Waking, Dozing
  <2>3. QED
    BY <2>1, <2>2
<1>3. QED
  BY <1>1, <1>2

(* notify_one by a request of the slot object that does not itself sleep:  *)
(* the permit is stored, or somebody is woken.                             *)
LEMMA NotifyOneWakes ==
  ASSUME TypeOK, WaitInv, WakeInv, NEW r \in Requests, slot[r] \in Slots,
         pc[r] # "wait", NEW v \in {"expired", "cancelled", "done"},
         NotifyOne(slot[r], waiters[slot[r]], [pc EXCEPT ![r] = v]),
         slot' = slot, active' = active
  PROVE  WakeInv'
<1> DEFINE t == slot[r]
           q == waiters[t]
<1>1. q \in Seq(Requests)
  BY DEF TypeOK
<1>2. \A s \in Slots \ {t} : permit'[s] = permit[s] /\ waiters'[s] = waiters[s]
  BY DEF NotifyOne, TypeOK
<1>3. \A x \in Requests : slot[x] # t => pc'[x] = pc[x]
  <2>1. CASE q = <<>>
    BY <2>1 DEF NotifyOne, TypeOK
  <2>2. CASE q # <<>>
    <3>1. 1 \in 1 .. Len(q) /\ Head(q) = q[1]
      BY <1>1, <2>2
    <3>2. slot[Head(q)] = t
      BY <3>1 DEF WaitInv
    <3>3. QED
      BY <2>2, <3>2 DEF NotifyOne, TypeOK
  <2>3. QED
    BY <2>1, <2>2
<1>4. permit'[t] => waiters'[t] = <<>>
  <2>1. CASE q = <<>>
    BY <2>1 DEF NotifyOne, TypeOK
  <2>2. CASE q # <<>>
    BY <2>2 DEF NotifyOne, WakeInv
  <2>3. QED
    BY <2>1, <2>2
<1>5. permit'[t] \/ \E x \in Requests : slot[x] = t /\ pc'[x] = "woken"
  <2>1. CASE q = <<>>
    BY <2>1 DEF NotifyOne, TypeOK
  <2>2. CASE q # <<>>
    <3>1. 1 \in 1 .. Len(q) /\ Head(q) = q[1] /\ q[1] \in Requests
      BY <1>1, <2>2
    <3>2. slot[Head(q)] = t
      BY <3>1 DEF WaitInv
    <3>3. pc'[Head(q)] = "woken"
      BY <2>2, <3>1 DEF NotifyOne, TypeOK
    <3>4. QED
      BY <3>1, <3>2, <3>3
  <2>3. QED
    BY <2>1, <2>2
<1>6. ASSUME NEW s \in Slots
      PROVE  /\ permit'[s] => waiters'[s] = <<>>
             /\ \A y \in Requests :
                  active'[s] = 0 /\ slot'[y] = s /\ pc'[y] \in Dozing =>
                    \/ permit'[s]
                    \/ \E x \in Requests : slot'[x] = s /\ pc'[x] \in Waking
  <2>1. CASE s = t
    BY <1>4, <1>5, <2>1 DEF Waking
  <2>2. CASE s # t
    <3>1. permit'[s] => waiters'[s] = <<>>
      BY <1>2, <2>2 DEF WakeInv
    <3>2. ASSUME active'[s] = 0, NEW y \in Requests, slot'[y] = s, pc'[y] \in Dozing
          PROVE  \/ permit'[s]
                 \/ \E x \in Requests : slot'[x] = s /\ pc'[x] \in Waking
      <4>1. active[s] = 0 /\ slot[y] = s /\ pc[y] \in Dozing
        BY <1>3, <2>2, <3>2
      <4>2. permit[s] \/ \E x \in Requests : slot[x] = s /\ pc[x] \in Waking
        BY <4>1 DEF WakeInv, Sleepy, InFlight, Waking, Dozing
      <4>3. QED
        BY <1>2, <1>3, <2>2, <4>2
    <3>3. QED
      BY <3>1, <3>2
  <2>3. QED
    BY <2>1, <2>2
<1>7. QED
  BY <1>6 DEF WakeInv, Sleepy, InFlight, Waking, Dozing

(* Dropping a future that was notified passes the notification on; one     *)
(* that only slept leaves the others as they were.                         *)
LEMMA DropNotifiedWakes ==
  ASSUME TypeOK, WaitInv, WakeInv, NEW r \in Requests, slot[r] \in Slots,
         pc[r] \in {"wait", "woken"}, NEW v \in {"expired", "cancelled"},
         DropNotified(r, [pc EXCEPT ![r] = v]), slot' = slot, active' = active
  PROVE  WakeInv'
<1>1. CASE pc[r] = "woken"
  BY <1>1, NotifyOneWakes DEF DropNotified
<1>2. CASE pc[r] = "wait"
  <2>1. /\ waiters' = [waiters EXCEPT ![slot[r]] = Without(@, r)]
        /\ pc' = [pc EXCEPT ![r] = v] /\ permit' = permit
    BY <1>2 DEF DropNotified
  <2>2. waiters[slot[r]] # <<>>
    <3>1. PICK i \in 1 .. Len(waiters[slot[r]]) : waiters[slot[r]][i] = r
      BY <1>2 DEF WaitInv
    <3>2. QED
      BY <3>1
  <2>3. \A s \in Slots : permit'[s] => waiters'[s] = <<>>
    BY <2>1, <2>2 DEF WakeInv, TypeOK
  <2>4. \A s \in Slots : Sleepy(s)' \subseteq Sleepy(s) /\ InFlight(s)' = InFlight(s)
    BY <1>2, <2>1 DEF Sleepy, InFlight, TypeOK
  <2>5. QED
    BY <2>1, <2>3, <2>4 DEF WakeInv
<1>3. QED
  BY <1>1, <1>2

(* Every step keeps the promise of a wake-up. *)
LEMMA WakeStep == IInv /\ WakeInv /\ [Next]_vars => WakeInv'
<1> SUFFICES ASSUME IInv, WakeInv, [Next]_vars PROVE WakeInv'
  OBVIOUS
<1>a. TypeOK /\ SlotInv /\ SeenInv /\ WaitInv
  BY DEF IInv
<1>b. ASSUME NEW r \in Requests, pc[r] \notin {"idle", "held", "done"}
      PROVE  slot[r] \in Slots /\ conc[r] # 0
  BY <1>a, <1>b, ConstantsAssumption DEF SlotInv, TypeOK, Slots
<1>c. \A r \in Requests : conc[r] \in Nat
  <2>1. U32 \in Nat /\ Concurrencies \subseteq 0 .. (U32 - 1)
    BY ConstantsAssumption
  <2>2. \A r \in Requests : conc[r] \in Concurrencies \cup {0}
    BY <1>a DEF TypeOK
  <2>3. Concurrencies \cup {0} \subseteq Nat
    BY <2>1
  <2>4. QED
    BY <2>2, <2>3, Zenon
<1>1. ASSUME NEW r \in Requests, NEW c \in Concurrencies, Acquire(r, c)
      PROVE  WakeInv'
  <2>1. /\ pc[r] = "idle" /\ permit' = permit /\ waiters' = waiters
        /\ active' = active /\ pc'[r] \in {"held", "load"}
        /\ \A x \in Requests \ {r} : pc'[x] = pc[x] /\ slot'[x] = slot[x]
    BY <1>a, <1>1 DEF Acquire, TypeOK
  <2>2. OnlyWakes(r)
    BY <2>1 DEF OnlyWakes, Waking, Dozing
  <2>3. QED
    BY <1>a, <2>1, <2>2, WakeFrame
<1>2. ASSUME NEW r \in Requests, LoadActive(r)
      PROVE  WakeInv'
  <2>1. /\ pc[r] = "load" /\ permit' = permit /\ waiters' = waiters
        /\ active' = active /\ slot' = slot
        /\ pc'[r] = IF active[slot[r]] < conc[r] THEN "cas" ELSE "queueLoad"
        /\ \A x \in Requests \ {r} : pc'[x] = pc[x] /\ slot'[x] = slot[x]
    BY <1>a, <1>2 DEF LoadActive, TypeOK
  <2>2. active'[slot[r]] = 0 => pc'[r] = "cas"
    BY <1>b, <1>c, <2>1
  <2>3. OnlyWakes(r)
    BY <2>1, <2>2 DEF OnlyWakes, Waking, Dozing
  <2>4. QED
    BY <1>a, <2>1, <2>3, WakeFrame
<1>3. ASSUME NEW r \in Requests, CasActive(r)
      PROVE  WakeInv'
  <2>1. /\ pc[r] = "cas" /\ permit' = permit /\ waiters' = waiters
        /\ slot' = slot /\ pc'[r] = "held"
        /\ active' = [active EXCEPT ![slot[r]] = seen[r] + 1]
        /\ \A x \in Requests \ {r} : pc'[x] = pc[x] /\ slot'[x] = slot[x]
    BY <1>a, <1>3 DEF CasActive, TypeOK
  <2>2. seen[r] \in Nat
    BY <1>a, ConstantsAssumption DEF TypeOK
  <2>3. active'[slot[r]] = seen[r] + 1 /\ seen[r] + 1 # 0
    <3>1. slot[r] \in Slots
      BY <1>b, <2>1
    <3>2. DOMAIN active = Slots
      BY <1>a DEF TypeOK
    <3>3. QED
      BY <2>1, <2>2, <3>1, <3>2
  <2>4. \A s \in Slots \ {slot[r]} : active'[s] = active[s]
    BY <1>a, <2>1 DEF TypeOK
  <2>5. OnlyWakes(r)
    BY <2>1, <2>3, <2>4 DEF OnlyWakes, Waking, Dozing
  <2>6. QED
    BY <1>a, <2>1, <2>5, WakeFrame
<1>4. ASSUME NEW r \in Requests,
             LoadQueued(r) \/ CasQueued(r) \/ CasFails(r) \/ Resume(r) \/ Dequeue(r)
      PROVE  WakeInv'
  <2>1. /\ permit' = permit /\ waiters' = waiters
        /\ active' = active /\ slot' = slot
        /\ \/ pc[r] \in {"queueLoad", "queueCas"} /\ pc'[r] \in {"refused", "queueCas", "poll", "load"}
           \/ pc[r] = "cas" /\ pc'[r] = "load"
           \/ pc[r] = "woken" /\ pc'[r] = "dequeue"
           \/ pc[r] = "dequeue" /\ pc'[r] = "load"
           \/ pc[r] = "expired" /\ pc'[r] = "timedOut"
        /\ \A x \in Requests \ {r} : pc'[x] = pc[x] /\ slot'[x] = slot[x]
    <3>1. CASE LoadQueued(r)
      BY <1>a, <3>1 DEF LoadQueued, TypeOK
    <3>2. CASE CasQueued(r)
      BY <1>a, <3>2 DEF CasQueued, TypeOK
    <3>3. CASE CasFails(r)
      BY <1>a, <3>3 DEF CasFails, TypeOK
    <3>4. CASE Resume(r)
      BY <1>a, <3>4 DEF Resume, TypeOK
    <3>5. CASE Dequeue(r)
      BY <1>a, <3>5 DEF Dequeue, TypeOK
    <3>6. QED
      BY <1>4, <3>1, <3>2, <3>3, <3>4, <3>5
  <2>2. OnlyWakes(r)
    BY <2>1 DEF OnlyWakes, Waking, Dozing
  <2>3. QED
    BY <1>a, <2>1, <2>2, WakeFrame
<1>5. ASSUME NEW r \in Requests, PollNotified(r)
      PROVE  WakeInv'
  <2>1. slot[r] \in Slots /\ pc[r] = "poll" /\ active' = active /\ slot' = slot
    BY <1>b, <1>5 DEF PollNotified
  <2>2. CASE permit[slot[r]]
    <3>1. /\ permit' = [permit EXCEPT ![slot[r]] = FALSE]
          /\ pc' = [pc EXCEPT ![r] = "dequeue"] /\ waiters' = waiters
      BY <1>5, <2>2 DEF PollNotified
    <3>2. \A s \in Slots : permit'[s] => waiters'[s] = <<>>
      BY <1>a, <3>1 DEF WakeInv, TypeOK
    <3>3. r \in InFlight(slot[r])'
      BY <1>a, <2>1, <3>1 DEF InFlight, TypeOK
    <3>4. \A s \in Slots \ {slot[r]} : /\ Sleepy(s)' = Sleepy(s)
                                      /\ InFlight(s)' = InFlight(s)
                                      /\ permit'[s] = permit[s]
      BY <1>a, <2>1, <3>1 DEF Sleepy, InFlight, TypeOK
    <3>5. QED
      BY <2>1, <3>2, <3>3, <3>4 DEF WakeInv
  <2>3. CASE ~permit[slot[r]]
    <3>1. /\ waiters' = [waiters EXCEPT ![slot[r]] = Append(@, r)]
          /\ pc' = [pc EXCEPT ![r] = "wait"] /\ permit' = permit
      BY <1>5, <2>3 DEF PollNotified
    <3>2. \A s \in Slots : permit'[s] => waiters'[s] = <<>>
      BY <1>a, <2>3, <3>1 DEF WakeInv, TypeOK
    <3>3. \A s \in Slots : Sleepy(s)' = Sleepy(s) /\ InFlight(s)' = InFlight(s)
      BY <1>a, <2>1, <3>1 DEF Sleepy, InFlight, TypeOK
    <3>4. QED
      BY <2>1, <3>1, <3>2, <3>3 DEF WakeInv
  <2>4. QED
    BY <2>2, <2>3
<1>6. ASSUME NEW r \in Requests, WaitTimeout(r) \/ Cancel(r)
      PROVE  WakeInv'
  <2>1. /\ pc[r] \in {"wait", "woken"} /\ active' = active /\ slot' = slot
        /\ \E v \in {"expired", "cancelled"} : DropNotified(r, [pc EXCEPT ![r] = v])
    BY <1>6 DEF WaitTimeout, Cancel
  <2>2. QED
    BY <1>a, <1>b, <2>1, DropNotifiedWakes
<1>7. ASSUME NEW r \in Requests, ReleaseNotify(r)
      PROVE  WakeInv'
  BY <1>a, <1>b, <1>7, NotifyOneWakes DEF ReleaseNotify
<1>8. ASSUME NEW r \in Requests, Release(r)
      PROVE  WakeInv'
  <2>1. /\ pc[r] = "held" /\ permit' = permit /\ waiters' = waiters
        /\ \A x \in Requests \ {r} : pc'[x] = pc[x] /\ slot'[x] = slot[x]
        /\ \/ active' = active /\ pc'[r] = "done"
           \/ /\ active' = [active EXCEPT ![slots] = FetchSub(@)]
              /\ slot'[r] = slots /\ pc'[r] = "notify"
    BY <1>a, <1>8 DEF Release, TypeOK
  <2>2. \A s \in Slots \ {slots} : active'[s] = active[s]
    BY <1>a, <2>1 DEF TypeOK
  <2>3. OnlyWakes(r)
    BY <2>1, <2>2 DEF OnlyWakes, Waking, Dozing
  <2>4. QED
    BY <1>a, <2>1, <2>3, WakeFrame
<1>9. CASE Snapshot \/ ClearNode \/ UNCHANGED vars
  BY <1>9 DEF Snapshot, ClearNode, vars, WakeInv, Sleepy, InFlight
<1>10. QED
  BY <1>1, <1>2, <1>3, <1>4, <1>5, <1>6, <1>7, <1>8, <1>9 DEF Next, Step, Quiescent

(* No wake-up is lost, for any number of requests, limits, time-outs,      *)
(* callers that give up and disconnects: nobody sleeps on an idle slot     *)
(* object unless somebody is on the way to take its place or to notify.    *)
THEOREM NoLostWakeup == Spec => []IdleSlotHasNoSleeper
<1>1. Init => WakeInv
  BY DEF Init, WakeInv, Sleepy
<1>2. IInv /\ WakeInv => IdleSlotHasNoSleeper
  <2> SUFFICES ASSUME IInv, WakeInv, NEW s \in Slots,
                      active[s] = 0, waiters[s] # <<>>
               PROVE  InFlight(s) # {}
    BY DEF IdleSlotHasNoSleeper
  <2>1. waiters[s] \in Seq(Requests)
    BY DEF IInv, TypeOK
  <2>2. 1 \in 1 .. Len(waiters[s]) /\ waiters[s][1] \in Requests
    BY <2>1
  <2>3. waiters[s][1] \in Sleepy(s)
    BY <2>2 DEF IInv, WaitInv, Sleepy
  <2>4. QED
    BY <2>3 DEF WakeInv
<1>3. QED
  BY <1>1, <1>2, IInvariance, WakeStep, PTL DEF Spec

-----------------------------------------------------------------------------
(* The refinement of Admission *)

(* Where a request moves by itself, its stage of Admission moves alone. *)
LEMMA StageMoves ==
  ASSUME TypeOK, NEW r \in Requests, NEW v \in PC, pc' = [pc EXCEPT ![r] = v],
         NEW t, t = CASE v = "idle" -> "new"
                      [] v = "held" -> "running"
                      [] v \in Answered \cup {"notify"} -> "over"
                      [] OTHER -> "asking"
  PROVE  Stage' = [Stage EXCEPT ![r] = t]
<1>1. pc \in [Requests -> PC] /\ pc' \in [Requests -> PC]
  BY DEF TypeOK
<1>2. Stage' = [x \in Requests |->
                  CASE pc'[x] = "idle" -> "new"
                    [] pc'[x] = "held" -> "running"
                    [] pc'[x] \in Answered \cup {"notify"} -> "over"
                    [] OTHER -> "asking"]
  BY DEF Stage
<1>3. DOMAIN Stage = Requests
  BY DEF Stage
<1>4. ASSUME NEW x \in Requests, x # r
      PROVE  Stage'[x] = Stage[x]
  BY <1>1, <1>2, <1>4 DEF Stage
<1>5. Stage'[r] = t
  BY <1>1, <1>2
<1>6. QED
  BY <1>2, <1>3, <1>4, <1>5 DEF Stage

(* A wake-up moves a sleeper within the stage "asking". *)
LEMMA WakeMoves ==
  ASSUME IInv, NEW r \in Requests,
         WaitTimeout(r) \/ Cancel(r) \/ ReleaseNotify(r)
  PROVE  /\ conc' = conc /\ clears' = clears
         /\ \/ Stage' = Stage
            \/ Stage[r] = "asking" /\ Stage' = [Stage EXCEPT ![r] = "over"]
<1>a. TypeOK /\ conc' = conc /\ clears' = clears
  BY DEF IInv, WaitTimeout, Cancel, ReleaseNotify
<1>1. /\ \/ pc[r] \in {"wait", "woken"} /\ pc'[r] \in {"expired", "cancelled"}
         \/ pc[r] = "notify" /\ pc'[r] = "done"
      /\ \A x \in Requests \ {r} :
           \/ pc'[x] = pc[x]
           \/ pc[x] = "wait" /\ pc'[x] = "woken"
  BY WakeEffect
<1>2. Stage' = [x \in Requests |->
                  CASE pc'[x] = "idle" -> "new"
                    [] pc'[x] = "held" -> "running"
                    [] pc'[x] \in Answered \cup {"notify"} -> "over"
                    [] OTHER -> "asking"]
  BY DEF Stage
<1>3. \A x \in Requests \ {r} : Stage'[x] = Stage[x]
  BY <1>1, <1>2 DEF Stage, Answered
<1>b. /\ Stage = [x \in Requests |-> Stage[x]]
      /\ Stage' = [x \in Requests |-> Stage'[x]]
  BY DEF Stage
<1>c. ASSUME Stage'[r] = Stage[r]
      PROVE  Stage' = Stage
  <2>1. \A x \in Requests : Stage'[x] = Stage[x]
    BY <1>3, <1>c
  <2>2. QED
    BY <1>b, <2>1
<1>d. ASSUME Stage'[r] = "over"
      PROVE  Stage' = [Stage EXCEPT ![r] = "over"]
  BY <1>3, <1>b, <1>d
<1>4. CASE pc[r] = "notify" /\ pc'[r] = "done"
  <2>1. Stage'[r] = Stage[r]
    BY <1>2, <1>4 DEF Stage, Answered
  <2>2. QED
    BY <1>a, <1>c, <2>1
<1>5. CASE pc[r] \in {"wait", "woken"} /\ pc'[r] = "expired"
  <2>1. Stage'[r] = Stage[r]
    BY <1>2, <1>5 DEF Stage, Answered
  <2>2. QED
    BY <1>a, <1>c, <2>1
<1>6. CASE pc[r] \in {"wait", "woken"} /\ pc'[r] = "cancelled"
  <2>1. Stage'[r] = "over" /\ Stage[r] = "asking"
    BY <1>2, <1>6 DEF Stage, Answered
  <2>2. QED
    BY <1>a, <1>d, <2>1
<1>7. QED
  BY <1>1, <1>4, <1>5, <1>6

(* Every step of the tracker is a step of the semaphore or none at all. *)
LEMMA SemaphoreStep ==
  IInv /\ OneSlotInv /\ [Next]_vars => [Semaphore!Next]_(Semaphore!vars)
<1> SUFFICES ASSUME IInv, OneSlotInv, [Next]_vars
             PROVE  Semaphore!Next \/ UNCHANGED Semaphore!vars
  OBVIOUS
<1>a. TypeOK /\ SlotInv /\ SeenInv
  BY DEF IInv
<1>b. ASSUME NEW r \in Requests, pc[r] \notin Answered \cup {"idle", "held", "notify"}
      PROVE  Stage[r] = "asking"
  BY <1>b DEF Stage
<1>1. ASSUME NEW r \in Requests, NEW c \in Concurrencies, Acquire(r, c)
      PROVE  Semaphore!Next
  <2>1. Stage[r] = "new" /\ conc' = [conc EXCEPT ![r] = c] /\ clears' = clears
    BY <1>1 DEF Acquire, Stage, Answered
  <2>2. CASE c = 0
    <3>1. pc' = [pc EXCEPT ![r] = "held"]
      BY <1>1, <2>2 DEF Acquire
    <3>2. Stage' = [Stage EXCEPT ![r] = "running"]
      BY <1>a, <3>1, StageMoves DEF PC, Answered
    <3>3. Semaphore!Ask(r, c)
      BY <2>1, <2>2, <3>2 DEF Semaphore!Ask
    <3>4. QED
      BY <3>3 DEF Semaphore!Next
  <2>3. CASE c # 0
    <3>1. pc' = [pc EXCEPT ![r] = "load"]
      BY <1>1, <2>3 DEF Acquire
    <3>2. Stage' = [Stage EXCEPT ![r] = "asking"]
      BY <1>a, <3>1, StageMoves DEF PC, Answered
    <3>3. Semaphore!Ask(r, c)
      BY <2>1, <2>3, <3>2 DEF Semaphore!Ask
    <3>4. QED
      BY <3>3 DEF Semaphore!Next
  <2>4. QED
    BY <2>2, <2>3
<1>2. ASSUME NEW r \in Requests, CasActive(r)
      PROVE  Semaphore!Next
  <2>1. /\ pc[r] = "cas" /\ pc' = [pc EXCEPT ![r] = "held"]
        /\ active[slot[r]] = seen[r] /\ conc' = conc /\ clears' = clears
    BY <1>2 DEF CasActive
  <2>2. Stage[r] = "asking" /\ Stage' = [Stage EXCEPT ![r] = "running"]
    BY <1>a, <1>b, <2>1, StageMoves DEF PC, Answered
  <2>3. conc[r] # 0 /\ seen[r] < conc[r] /\ slot[r] \in 1 .. born
    BY <1>a, <2>1 DEF SlotInv, SeenInv
  <2>4. Semaphore!Placed = Guards
    BY DEF Semaphore!Placed, Guards, Stage, Answered
  <2>5. clears > 0 \/ Cardinality(Guards) < conc[r]
    <3>1. CASE clears = 0
      <4>1. slot[r] = slots /\ slots # 0
        BY <2>1, <2>3, <3>1 DEF OneSlotInv
      <4>2. active[slots] = Cardinality(Guards)
        BY <3>1, <4>1 DEF OneSlotInv, ActiveCountsGuards
      <4>3. QED
        BY <2>1, <2>3, <4>1, <4>2
    <3>2. CASE clears # 0
      BY <1>a, <3>2, ConstantsAssumption DEF TypeOK
    <3>3. QED
      BY <3>1, <3>2
  <2>6. Semaphore!Admit(r)
    <3>1. Semaphore!Cardinality(Semaphore!Placed) = Cardinality(Guards)
      BY <2>4, Zenon DEF Semaphore!Cardinality, Cardinality
    <3>2. QED
      BY <2>1, <2>2, <2>5, <3>1 DEF Semaphore!Admit
  <2>7. QED
    BY <2>6 DEF Semaphore!Next
<1>3. ASSUME NEW r \in Requests, Release(r)
      PROVE  Semaphore!Next
  <2>1. /\ pc[r] = "held" /\ conc' = conc /\ clears' = clears
        /\ \/ pc' = [pc EXCEPT ![r] = "done"]
           \/ pc' = [pc EXCEPT ![r] = "notify"]
    BY <1>3 DEF Release
  <2>2. Stage[r] = "running" /\ Stage' = [Stage EXCEPT ![r] = "over"]
    <3>1. Stage[r] = "running"
      BY <2>1 DEF Stage, Answered
    <3>2. CASE pc' = [pc EXCEPT ![r] = "done"]
      BY <1>a, <3>1, <3>2, StageMoves DEF PC, Answered
    <3>3. CASE pc' = [pc EXCEPT ![r] = "notify"]
      BY <1>a, <3>1, <3>3, StageMoves DEF PC, Answered
    <3>4. QED
      BY <2>1, <3>2, <3>3
  <2>3. Semaphore!Leave(r)
    BY <2>1, <2>2 DEF Semaphore!Leave
  <2>4. QED
    BY <2>3 DEF Semaphore!Next
<1>4. ASSUME NEW r \in Requests, LoadQueued(r) \/ Dequeue(r)
      PROVE  Semaphore!Next \/ UNCHANGED Semaphore!vars
  <2>1. /\ pc[r] \in {"queueLoad", "dequeue", "expired"}
        /\ conc' = conc /\ clears' = clears
        /\ \/ pc' = [pc EXCEPT ![r] = "refused"]
           \/ pc' = [pc EXCEPT ![r] = "queueCas"]
           \/ pc' = [pc EXCEPT ![r] = "load"]
           \/ pc' = [pc EXCEPT ![r] = "timedOut"]
    BY <1>4 DEF LoadQueued, Dequeue
  <2>2. Stage[r] = "asking"
    BY <1>b, <2>1 DEF Answered
  <2>3. CASE pc' = [pc EXCEPT ![r] = "refused"]
    <3>1. Stage' = [Stage EXCEPT ![r] = "over"]
      BY <1>a, <2>3, StageMoves DEF PC, Answered
    <3>2. QED
      BY <2>1, <2>2, <3>1 DEF Semaphore!TurnAway, Semaphore!Next
  <2>4. CASE pc' = [pc EXCEPT ![r] = "timedOut"]
    <3>1. Stage' = [Stage EXCEPT ![r] = "over"]
      BY <1>a, <2>4, StageMoves DEF PC, Answered
    <3>2. QED
      BY <2>1, <2>2, <3>1 DEF Semaphore!TurnAway, Semaphore!Next
  <2>5. CASE \/ pc' = [pc EXCEPT ![r] = "queueCas"]
             \/ pc' = [pc EXCEPT ![r] = "load"]
    <3>1. Stage' = [Stage EXCEPT ![r] = "asking"]
      BY <1>a, <2>5, StageMoves DEF PC, Answered
    <3>2. Stage' = Stage
      BY <2>2, <3>1 DEF Stage
    <3>3. QED
      BY <2>1, <3>2 DEF Semaphore!vars
  <2>6. QED
    BY <2>1, <2>3, <2>4, <2>5
<1>5. ASSUME NEW r \in Requests,
             \/ LoadActive(r) \/ CasQueued(r) \/ CasFails(r)
             \/ PollNotified(r) \/ Resume(r)
      PROVE  UNCHANGED Semaphore!vars
  <2>1. /\ pc[r] \in {"load", "cas", "queueCas", "poll", "woken"}
        /\ conc' = conc /\ clears' = clears
        /\ \E v \in {"cas", "queueLoad", "poll", "load", "dequeue", "wait"} :
             pc' = [pc EXCEPT ![r] = v]
    <3>1. CASE LoadActive(r)
      BY <3>1 DEF LoadActive
    <3>2. CASE CasQueued(r)
      BY <3>2 DEF CasQueued
    <3>3. CASE CasFails(r)
      BY <3>3 DEF CasFails
    <3>4. CASE PollNotified(r)
      BY <3>4 DEF PollNotified
    <3>5. CASE Resume(r)
      BY <3>5 DEF Resume
    <3>6. QED
      BY <1>5, <3>1, <3>2, <3>3, <3>4, <3>5
  <2>2. PICK v \in {"cas", "queueLoad", "poll", "load", "dequeue", "wait"} :
          pc' = [pc EXCEPT ![r] = v]
    BY <2>1
  <2>3. Stage[r] = "asking"
    BY <1>b, <2>1 DEF Answered
  <2>4. Stage' = [Stage EXCEPT ![r] = "asking"]
    BY <1>a, <2>2, StageMoves DEF PC, Answered
  <2>5. Stage' = Stage
    BY <2>3, <2>4 DEF Stage
  <2>6. QED
    BY <2>1, <2>5 DEF Semaphore!vars
<1>6. ASSUME NEW r \in Requests,
             WaitTimeout(r) \/ Cancel(r) \/ ReleaseNotify(r)
      PROVE  Semaphore!Next \/ UNCHANGED Semaphore!vars
  <2>1. /\ conc' = conc /\ clears' = clears
        /\ \/ Stage' = Stage
           \/ Stage[r] = "asking" /\ Stage' = [Stage EXCEPT ![r] = "over"]
    BY <1>6, WakeMoves
  <2>2. QED
    BY <2>1 DEF Semaphore!TurnAway, Semaphore!Next, Semaphore!vars
<1>7. CASE ClearNode
  <2>1. pc' = pc /\ conc' = conc /\ clears' = clears + 1 /\ clears \in Nat
    BY <1>a, <1>7, ConstantsAssumption DEF ClearNode, TypeOK
  <2>2. Stage' = Stage /\ (clears > 0)' = TRUE
    BY <2>1 DEF Stage
  <2>3. Semaphore!Forget
    BY <2>1, <2>2 DEF Semaphore!Forget
  <2>4. QED
    BY <2>3 DEF Semaphore!Next
<1>8. CASE Snapshot \/ UNCHANGED vars
  <2>1. pc' = pc /\ conc' = conc /\ clears' = clears
    BY <1>8 DEF Snapshot, vars
  <2>2. QED
    BY <2>1 DEF Stage, Semaphore!vars
<1>9. QED
  BY <1>1, <1>2, <1>3, <1>4, <1>5, <1>6, <1>7, <1>8 DEF Next, Step, Quiescent

(* CapacityTracker implements a semaphore, for any number of requests, any *)
(* limits and any counter width: the loads, exchanges, notifications and   *)
(* time-outs of acquire and release_inner admit no behaviour that Admission *)
(* does not have.                                                          *)
THEOREM SemaphoreImplemented == Spec => ImplementsSemaphore
<1>1. Init => Semaphore!Init
  BY DEF Init, Semaphore!Init, Stage, Answered
<1>2. QED
  BY <1>1, SemaphoreStep, IInvariance, OneSlotInvariance, PTL
     DEF Spec, ImplementsSemaphore, Semaphore!Spec

=============================================================================
