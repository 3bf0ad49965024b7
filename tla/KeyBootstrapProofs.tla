------------------------- MODULE KeyBootstrapProofs -------------------------
(* Proofs about the start of the router and its recordUsage key: any keys, *)
(* any number of faults, changes of the configuration and transactions.    *)
EXTENDS KeyBootstrap, TLAPS

Tx == [kind : {"set", "fund"}, to : Keys]

(* The pool after a transaction was sent, or the oldest one mined. *)
LEMMA PoolType ==
  ASSUME TypeOK
  PROVE  /\ \A tx \in Tx : /\ Append(pool, tx) \in Seq(Tx)
                           /\ Len(Append(pool, tx)) = Len(pool) + 1
         /\ pool # <<>> => /\ Head(pool) \in Tx
                           /\ Tail(pool) \in Seq(Tx)
                           /\ Len(Tail(pool)) = Len(pool) - 1
<1>1. pool \in Seq(Tx)
  BY DEF TypeOK, Tx
<1>2. QED
  BY <1>1

(* A process that ends, or fails, keeps the types. *)
LEMMA ExitType ==
  ASSUME TypeOK, Exit,
         UNCHANGED <<conf, file, durable, pool, role, balance, named, edits>>,
         faults' \in 0 .. MaxFaults
  PROVE  TypeOK'
<1>1. awaited' \in 0 .. Len(pool')
  <2>1. pool \in Seq(Tx)
    BY DEF TypeOK, Tx
  <2>2. QED
    BY <2>1 DEF Exit
<1>2. batcher' \in BOOLEAN
  BY Zenon DEF Exit
<1>3. QED
  BY <1>1, <1>2 DEF TypeOK, Exit

LEMMA FailType == ASSUME TypeOK, Fail PROVE TypeOK'
<1>1. faults' \in 0 .. MaxFaults
  BY KeyAssumption DEF TypeOK, Fail, Fault
<1>2. QED
  BY <1>1, ExitType DEF Fail, disk

LEMMA StopType == ASSUME TypeOK, Stop PROVE TypeOK'
<1>1. faults' \in 0 .. MaxFaults
  BY DEF TypeOK, Stop, bounds
<1>2. QED
  BY <1>1, ExitType DEF Stop, disk, bounds

(* Every variable keeps its type at every step. *)
LEMMA TypeStep == TypeOK /\ [Next]_vars => TypeOK'
<1> SUFFICES ASSUME TypeOK, [Next]_vars PROVE TypeOK'
  OBVIOUS
<1>a. Fault => faults' \in 0 .. MaxFaults
  BY KeyAssumption DEF TypeOK, Fault
<1> USE DEF Continue, chain, disk, bounds, process
<1>1. CASE Start
  <2>1. CASE LoadKey
    BY <1>1, <2>1, KeyAssumption DEF TypeOK, Start, LoadKey, Configurations, FreshKeys
  <2>2. QED
    BY <1>1, <2>1, FailType DEF Start
<1>2. CASE OpenFile
  BY <1>2, FailType DEF TypeOK, OpenFile
<1>3. CASE WriteFile
  BY <1>3, FailType DEF TypeOK, WriteFile
<1>4. CASE ReadRole
  <2>1. CASE ~Stop
    BY <1>4, <1>a, <2>1 DEF TypeOK, ReadRole
  <2>2. QED
    BY <2>1, StopType
<1>5. CASE SendSetRole
  <2>1. CASE Submit([kind |-> "set", to |-> key]) /\ pc' = "roleMined"
    <3>1. [kind |-> "set", to |-> key] \in Tx
      BY <1>5 DEF TypeOK, SendSetRole, Tx
    <3>2. pool' \in Seq(Tx) /\ awaited' \in 0 .. Len(pool')
      BY <2>1, <3>1, PoolType DEF TypeOK, Submit
    <3>3. QED
      BY <1>5, <2>1, <3>2, FailType, StopType DEF TypeOK, SendSetRole, Tx
  <2>2. QED
    BY <1>5, <2>1, FailType, StopType DEF SendSetRole
<1>6. CASE RoleConfirmed
  BY <1>6, FailType DEF TypeOK, RoleConfirmed
<1>7. CASE ReadBalance
  BY <1>7, FailType, StopType DEF TypeOK, ReadBalance
<1>8. CASE SendTopUp
  <2>1. CASE Submit([kind |-> "fund", to |-> key]) /\ pc' = "fundMined"
    <3>1. [kind |-> "fund", to |-> key] \in Tx
      BY <1>8 DEF TypeOK, SendTopUp, Tx
    <3>2. pool' \in Seq(Tx) /\ awaited' \in 0 .. Len(pool')
      BY <2>1, <3>1, PoolType DEF TypeOK, Submit
    <3>3. QED
      BY <1>8, <2>1, <3>2, FailType, StopType DEF TypeOK, SendTopUp, Tx
  <2>2. QED
    BY <1>8, <2>1, FailType, StopType DEF SendTopUp
<1>9. CASE TopUpConfirmed
  BY <1>9, FailType DEF TypeOK, TopUpConfirmed
<1>10. CASE BuildBatcher
  <2>1. batcher' \in BOOLEAN
    BY <1>10, Zenon DEF BuildBatcher, TypeOK, Configurations
  <2>2. QED
    BY <1>10, <1>a, <2>1 DEF TypeOK, BuildBatcher
<1>11. CASE Bind
  BY <1>11, FailType, StopType DEF TypeOK, Bind
<1>12. CASE Shutdown
  BY <1>12, StopType DEF Shutdown
<1>13. CASE SpendGas
  BY <1>13 DEF TypeOK, SpendGas
<1>14. CASE Crash
  BY <1>14, FailType DEF Crash
<1>15. CASE Edit
  BY <1>15, KeyAssumption DEF TypeOK, Edit
<1>16. ASSUME NEW kind \in {"set", "fund"}, NEW k \in Keys, ScriptSend(kind, k)
       PROVE  TypeOK'
  <2>1. [kind |-> kind, to |-> k] \in Tx
    BY <1>16 DEF Tx
  <2>2. pool' \in Seq(Tx) /\ awaited' \in 0 .. Len(pool')
    BY <1>16, <2>1, PoolType DEF TypeOK, ScriptSend
  <2>3. named' \subseteq Override
    BY <1>16 DEF TypeOK, ScriptSend
  <2>4. QED
    BY <1>16, <2>2, <2>3 DEF TypeOK, ScriptSend, Tx
<1>17. CASE ScriptSetRole \/ ScriptFund
  BY <1>16, <1>17 DEF ScriptSetRole, ScriptFund
<1>18. CASE Mine
  <2>1. /\ pool' \in Seq(Tx) /\ awaited' \in 0 .. Len(pool')
        /\ Head(pool) \in Tx
    BY <1>18, PoolType DEF TypeOK, Mine
  <2>2. role' \in Keys \cup {NoKey} /\ faults' \in 0 .. MaxFaults
    BY <1>18, <1>a, <2>1 DEF TypeOK, Mine, Tx
  <2>3. balance' \in [Keys -> Nat]
    <3>1. Head(pool).to \in Keys
      BY <2>1 DEF Tx
    <3>2. \/ balance' = balance
          \/ balance' = [balance EXCEPT ![Head(pool).to] = @ + TopUp]
      BY <1>18 DEF Mine
    <3>3. balance \in [Keys -> Nat] /\ TopUp \in Nat
      BY KeyAssumption DEF TypeOK
    <3>4. QED
      BY <3>1, <3>2, <3>3
  <2>4. QED
    BY <1>18, <2>1, <2>2, <2>3 DEF TypeOK, Mine, Tx
<1>19. CASE UNCHANGED vars
  BY <1>19 DEF TypeOK, vars
<1>20. QED
  BY <1>1, <1>2, <1>3, <1>4, <1>5, <1>6, <1>7, <1>8, <1>9, <1>10, <1>11,
     <1>12, <1>13, <1>14, <1>15, <1>17, <1>18, <1>19 DEF Next, Proceed

(* The initial state has the right types. *)
LEMMA TypeInit == Init => TypeOK
<1> SUFFICES ASSUME Init PROVE TypeOK
  OBVIOUS
<1>1. pool \in Seq(Tx) /\ awaited \in 0 .. Len(pool)
  BY DEF Init
<1>2. batcher \in BOOLEAN
  BY Zenon DEF Init
<1>3. balance \in [Keys -> Nat]
  BY DEF Init
<1>4. faults \in 0 .. MaxFaults /\ edits \in 0 .. MaxEdits
  BY KeyAssumption DEF Init
<1>5. QED
  BY <1>1, <1>2, <1>3, <1>4, KeyAssumption DEF Init, TypeOK, Tx

(* Type correctness of the start of the router; a transaction that the     *)
(* process awaits is in the pool, however many others send.                *)
THEOREM TypeCorrect == Spec => []TypeOK
BY TypeInit, TypeStep, PTL DEF Spec

-----------------------------------------------------------------------------
(* The process and the disk *)

(* What a step keeps of the relation between process and disk. *)
LEMMA KeyInvStep == TypeOK /\ KeyInv /\ [Next]_vars => KeyInv'
<1> SUFFICES ASSUME TypeOK, KeyInv, [Next]_vars PROVE KeyInv'
  OBVIOUS
<1> USE KeyAssumption DEF TypeOK, KeyInv, Continue, chain, disk, bounds, process
<1>a. CASE Fail
  BY <1>a DEF Fail, Exit
<1>b. CASE Stop
  BY <1>b DEF Stop, Exit
<1>1. CASE Start
  BY <1>1, <1>a DEF Start, LoadKey, Configurations, FreshKeys
<1>2. CASE OpenFile
  BY <1>2, <1>a DEF OpenFile
<1>3. CASE WriteFile
  BY <1>3, <1>a DEF WriteFile
<1>4. CASE ReadRole
  BY <1>4, <1>b DEF ReadRole
<1>5. CASE SendSetRole \/ RoleConfirmed
  BY <1>5, <1>a, <1>b DEF SendSetRole, RoleConfirmed
<1>6. CASE ReadBalance \/ SendTopUp \/ TopUpConfirmed
  BY <1>6, <1>a, <1>b DEF ReadBalance, SendTopUp, TopUpConfirmed
<1>7. CASE BuildBatcher
  BY <1>7 DEF BuildBatcher
<1>8. CASE Bind
  BY <1>8, <1>a, <1>b DEF Bind
<1>9. CASE Shutdown
  BY <1>9, <1>b DEF Shutdown
<1>10. CASE Crash
  BY <1>10, <1>a DEF Crash
<1>11. CASE Edit
  BY <1>11 DEF Edit
<1>12. CASE SpendGas \/ ScriptSetRole \/ ScriptFund \/ Mine
  <2>1. UNCHANGED <<conf, file, durable, pc, key, batcher, edits>>
    BY <1>12 DEF SpendGas, ScriptSetRole, ScriptFund, ScriptSend, Mine
  <2>2. QED
    BY <2>1
<1>13. CASE UNCHANGED vars
  BY <1>13 DEF vars
<1>14. QED
  BY <1>1, <1>2, <1>3, <1>4, <1>5, <1>6, <1>7, <1>8, <1>9, <1>10, <1>11,
     <1>12, <1>13 DEF Next, Proceed

(* In every state, process and disk agree as KeyInv says. *)
LEMMA KeyInvariance == Spec => [](TypeOK /\ KeyInv)
<1>1. Init => KeyInv
  BY KeyAssumption DEF Init, KeyInv
<1>2. QED
  BY <1>1, TypeInit, TypeStep, KeyInvStep, PTL DEF Spec
-----------------------------------------------------------------------------
(* Who is appointed *)

(* A step that leaves role and pool alone appoints nobody. *)
LEMMA AppointedSame ==
  ASSUME UNCHANGED <<role, pool>>
  PROVE  Appointed' = Appointed
BY DEF Appointed

(* A transaction that is sent appoints its addressee. *)
LEMMA AppointedSent ==
  ASSUME TypeOK, NEW tx \in Tx, pool' = Append(pool, tx), role' = role
  PROVE  Appointed' \subseteq Appointed \cup {tx.to}
<1>1. pool \in Seq(Tx)
  BY DEF TypeOK, Tx
<1>2. \A i \in DOMAIN pool' :
        pool'[i] = tx \/ (i \in DOMAIN pool /\ pool'[i] = pool[i])
  BY <1>1
<1>3. QED
  BY <1>2 DEF Appointed

(* A transaction that is mined was in the pool. *)
LEMMA AppointedMined ==
  ASSUME TypeOK, Mine
  PROVE  Appointed' \subseteq Appointed
<1>1. pool \in Seq(Tx) /\ pool # <<>> /\ pool' = Tail(pool)
  BY DEF TypeOK, Tx, Mine
<1>2. \A i \in DOMAIN pool' : i + 1 \in DOMAIN pool /\ pool'[i] = pool[i + 1]
  BY <1>1
<1>3. 1 \in DOMAIN pool /\ Head(pool) = pool[1]
  BY <1>1
<1>4. role' \in {role, pool[1].to}
  BY <1>3 DEF Mine
<1>5. QED
  BY <1>2, <1>3, <1>4 DEF Appointed

(* Only two parties appoint a key: a process its own, once that is in the  *)
(* file, and the script the one it finds in the file or is given.          *)
LEMMA Appointing ==
  ASSUME TypeOK, KeyInv, [Next]_vars
  PROVE  \/ Appointed' \subseteq Appointed
         \/ /\ file \in Keys /\ Appointed' \subseteq Appointed \cup {file}
            /\ UNCHANGED <<conf, file, durable, edits>>
         \/ /\ Appointed' \subseteq Appointed \cup named'
            /\ UNCHANGED <<conf, file, durable, edits>>
<1> USE DEF Continue, chain, disk, bounds, process
<1>1. CASE Start \/ OpenFile \/ WriteFile \/ Fail \/ Stop
  BY <1>1, AppointedSame DEF Start, LoadKey, OpenFile, WriteFile, Fail, Stop
<1>2. CASE ReadRole \/ RoleConfirmed \/ ReadBalance \/ TopUpConfirmed
  BY <1>1, <1>2, AppointedSame DEF ReadRole, RoleConfirmed, ReadBalance, TopUpConfirmed
<1>3. CASE SendSetRole
  <2>1. key \in Keys /\ file = key
    BY <1>3 DEF SendSetRole, TypeOK, KeyInv
  <2>2. CASE /\ Submit([kind |-> "set", to |-> key])
             /\ UNCHANGED <<conf, disk, role, balance, named, bounds>>
    <3>1. [kind |-> "set", to |-> key] \in Tx
      BY <2>1 DEF Tx
    <3>2. Appointed' \subseteq Appointed \cup {[kind |-> "set", to |-> key].to}
      BY <2>2, <3>1, AppointedSent DEF Submit
    <3>3. QED
      BY <2>1, <2>2, <3>2
  <2>3. QED
    BY <1>1, <1>3, <2>2 DEF SendSetRole
<1>4. CASE SendTopUp
  <2>1. key \in Keys /\ file = key
    BY <1>4 DEF SendTopUp, TypeOK, KeyInv
  <2>2. CASE /\ Submit([kind |-> "fund", to |-> key])
             /\ UNCHANGED <<conf, disk, role, balance, named, bounds>>
    <3>1. [kind |-> "fund", to |-> key] \in Tx
      BY <2>1 DEF Tx
    <3>2. Appointed' \subseteq Appointed \cup {[kind |-> "fund", to |-> key].to}
      BY <2>2, <3>1, AppointedSent DEF Submit
    <3>3. QED
      BY <2>1, <2>2, <3>2
  <2>3. QED
    BY <1>1, <1>4, <2>2 DEF SendTopUp
<1>5. CASE BuildBatcher \/ Bind \/ Shutdown \/ SpendGas \/ Crash \/ Edit
  BY <1>1, <1>5, AppointedSame DEF BuildBatcher, Bind, Shutdown, SpendGas, Crash, Edit
<1>6. ASSUME NEW kind \in {"set", "fund"}, NEW k \in Keys, ScriptSend(kind, k)
      PROVE  /\ Appointed' \subseteq Appointed \cup {k}
             /\ UNCHANGED <<conf, file, durable, edits>>
             /\ k = file \/ k \in named'
  <2>1. [kind |-> kind, to |-> k] \in Tx
    BY <1>6 DEF Tx
  <2>2. Appointed' \subseteq Appointed \cup {[kind |-> kind, to |-> k].to}
    BY <1>6, <2>1, AppointedSent DEF ScriptSend
  <2>3. QED
    BY <1>6, <2>2 DEF ScriptSend
<1>7. CASE ScriptSetRole \/ ScriptFund
  <2>1. PICK kind \in {"set", "fund"}, k \in Keys : ScriptSend(kind, k)
    BY <1>7 DEF ScriptSetRole, ScriptFund
  <2>2. QED
    BY <1>6, <2>1
<1>8. CASE Mine
  BY <1>8, AppointedMined
<1>9. CASE UNCHANGED vars
  BY <1>9, AppointedSame DEF vars
<1>10. QED
  BY <1>1, <1>2, <1>3, <1>4, <1>5, <1>7, <1>8, <1>9 DEF Next, Proceed

(* Nothing that was written or named is ever unwritten or forgotten. *)
LEMMA DurableGrows ==
  ASSUME [Next]_vars
  PROVE  durable \subseteq durable' /\ named \subseteq named'
<1> USE DEF Continue, chain, disk, bounds, process
<1>1. CASE WriteFile
  BY <1>1 DEF WriteFile, Fail
<1>2. CASE ScriptSetRole \/ ScriptFund
  BY <1>2 DEF ScriptSetRole, ScriptFund, ScriptSend
<1>3. CASE Next /\ ~WriteFile /\ ~ScriptSetRole /\ ~ScriptFund
  BY <1>3 DEF Next, Proceed, Start, LoadKey, OpenFile, ReadRole, SendSetRole,
     RoleConfirmed, ReadBalance, SendTopUp, TopUpConfirmed, BuildBatcher, Bind,
     Shutdown, SpendGas, Crash, Edit, Mine, Fail, Stop
<1>4. QED
  BY <1>1, <1>2, <1>3 DEF vars

(* A step appoints only keys that are in the file, hence durable, and      *)
(* those that are named.                                                   *)
LEMMA DurableStep ==
  TypeOK /\ KeyInv /\ AppointedWasDurable /\ [Next]_vars => AppointedWasDurable'
<1> SUFFICES ASSUME TypeOK, KeyInv, AppointedWasDurable, [Next]_vars
             PROVE  AppointedWasDurable'
  OBVIOUS
<1>1. durable \subseteq durable' /\ named \subseteq named'
  BY DurableGrows
<1>2. QED
  BY <1>1, Appointing DEF AppointedWasDurable, KeyInv

(* No key is appointed, with the role or with gas, that was only ever in   *)
(* the memory of a process that may die: the order of persist_key_file,    *)
(* setRecordUsage and top-up in bootstrap.  The addresses of --role-address*)
(* are the operator's.                                                     *)
THEOREM AppointedDurable == Spec => []AppointedWasDurable
<1>1. Init => AppointedWasDurable
  BY DEF Init, AppointedWasDurable, Appointed
<1>2. QED
  BY <1>1, KeyInvariance, DurableStep, PTL DEF Spec
-----------------------------------------------------------------------------
(* The identity of the router *)

(* While nobody edits it, the configuration is what it was; and the file   *)
(* changes only under a process that has sent nothing yet.                 *)
LEMMA WhatStays ==
  ASSUME TypeOK, [Next]_vars
  PROVE  /\ edits' = 0 => edits = 0 /\ conf' = conf
         /\ file' = file \/ (pc \in {"open", "write"} /\ UNCHANGED <<role, pool>>)
<1> USE DEF Continue, chain, disk, bounds, process
<1>1. CASE Edit
  BY <1>1 DEF Edit, TypeOK
<1>2. CASE Next /\ ~Edit
  <2>1. UNCHANGED <<conf, edits>>
    BY <1>2 DEF Next, Proceed, Start, OpenFile, WriteFile, ReadRole, SendSetRole,
       RoleConfirmed, ReadBalance, SendTopUp, TopUpConfirmed, BuildBatcher, Bind,
       Shutdown, SpendGas, Crash, ScriptSetRole, ScriptFund, ScriptSend, Mine, Fail,
       Stop, LoadKey
  <2>2. file' = file \/ (pc \in {"open", "write"} /\ UNCHANGED <<role, pool>>)
    BY <1>2 DEF Next, Proceed, Start, OpenFile, WriteFile, ReadRole, SendSetRole,
       RoleConfirmed, ReadBalance, SendTopUp, TopUpConfirmed, BuildBatcher, Bind,
       Shutdown, SpendGas, Crash, ScriptSetRole, ScriptFund, ScriptSend, Mine, Fail,
       Stop, LoadKey
  <2>3. QED
    BY <2>1, <2>2
<1>3. QED
  BY <1>1, <1>2 DEF vars

(* A generated key is written under the eyes of nobody: as long as no file *)
(* holds a key, none is appointed but those named; from then on the file's *)
(* is the one.                                                             *)
LEMMA IdentityStep ==
  /\ TypeOK /\ KeyInv /\ AppointedWasDurable /\ IdentityIsStable
  /\ [Next]_vars
  => IdentityIsStable'
<1> SUFFICES ASSUME TypeOK, KeyInv, AppointedWasDurable, IdentityIsStable,
                    [Next]_vars, edits' = 0
             PROVE  Appointed' \subseteq {Identity'} \cup named'
  BY DEF IdentityIsStable
<1>1. edits = 0 /\ conf' = conf /\ Appointed \subseteq {Identity} \cup named
  BY WhatStays DEF IdentityIsStable
<1>2. named \subseteq named'
  BY DurableGrows
<1>3. CASE file' = file
  <2>1. Identity' = Identity
    BY <1>1, <1>3 DEF Identity
  <2>2. file \in Keys => file = Identity
    BY <1>1 DEF Identity, KeyInv
  <2>3. QED
    BY <1>1, <1>2, <2>1, <2>2, Appointing
<1>4. CASE file' # file
  <2>1. pc \in {"open", "write"} /\ Appointed' = Appointed
    BY <1>4, WhatStays, AppointedSame
  <2>2. CASE conf.inline # NoKey
    BY <1>1, <1>2, <2>1, <2>2 DEF Identity
  <2>3. CASE conf.inline = NoKey
    <3>1. Identity \notin Keys
      BY <2>1, <2>3, KeyAssumption DEF Identity, KeyInv
    <3>2. durable \cup named \subseteq Keys
      BY KeyAssumption DEF TypeOK
    <3>3. Appointed \subseteq named
      BY <1>1, <3>1, <3>2 DEF AppointedWasDurable
    <3>4. QED
      BY <1>2, <2>1, <3>3
  <2>4. QED
    BY <2>2, <2>3
<1>5. QED
  BY <1>3, <1>4

(* The router keeps its identity: with an unchanged configuration the only *)
(* key that is ever given the role or gas, but for those named with        *)
(* --role-address, is the configured one or else the one in the file,      *)
(* through any crashes, failures, late transactions and runs of the script.*)
THEOREM IdentityStable == Spec => []IdentityIsStable
<1>1. Init => IdentityIsStable
  BY DEF Init, IdentityIsStable, Appointed
<1>2. QED
  BY <1>1, KeyInvariance, AppointedDurable, IdentityStep, PTL DEF Spec

(* The role is never taken back: once somebody has it, somebody has it. *)
LEMMA RoleKept ==
  ASSUME TypeOK, [Next]_vars
  PROVE  role' = role \/ role' \in Keys
<1> USE DEF Continue, chain, disk, bounds, process
<1>1. CASE Mine
  <2>1. Head(pool) \in Tx
    BY <1>1, PoolType DEF Mine
  <2>2. QED
    BY <1>1, <2>1 DEF Mine, Tx
<1>2. CASE Next /\ ~Mine
  BY <1>2 DEF Next, Proceed, Start, OpenFile, WriteFile, ReadRole, SendSetRole,
     RoleConfirmed, ReadBalance, SendTopUp, TopUpConfirmed, BuildBatcher, Bind,
     Shutdown, SpendGas, Crash, Edit, ScriptSetRole, ScriptFund, ScriptSend, Fail,
     Stop, LoadKey
<1>3. QED
  BY <1>1, <1>2 DEF vars

(* Nothing but the check of the role makes a batcher. *)
LEMMA BatcherMade ==
  ASSUME TypeOK, KeyInv, [Next]_vars, batcher'
  PROVE  \/ batcher /\ key' = key
         \/ role' = key' /\ key' \in Keys
<1> USE DEF Continue, chain, disk, bounds, process
<1>1. CASE BuildBatcher
  <2>1. role = key /\ role' = role /\ key' = key /\ pc = "client"
    BY <1>1, Zenon DEF BuildBatcher, SignerHasRole
  <2>2. QED
    BY <2>1 DEF TypeOK
<1>2. CASE Start
  BY <1>2 DEF Start, LoadKey, Fail, Exit, KeyInv
<1>3. CASE Next /\ ~BuildBatcher /\ ~Start
  <2>1. \/ UNCHANGED <<batcher, key>>
        \/ batcher' = FALSE
    BY <1>3 DEF Next, Proceed, OpenFile, WriteFile, ReadRole, SendSetRole,
       RoleConfirmed, ReadBalance, SendTopUp, TopUpConfirmed, Bind, Shutdown, SpendGas,
       Crash, Edit, ScriptSetRole, ScriptFund, ScriptSend, Mine, Fail, Stop, Exit
  <2>2. QED
    BY <2>1
<1>4. QED
  BY <1>1, <1>2, <1>3 DEF vars

(* A batcher is built by a process whose key has the role, and mining      *)
(* appoints nobody else.                                                   *)
LEMMA BatcherStep ==
  /\ TypeOK /\ KeyInv /\ IdentityIsStable /\ BatcherHoldsRole
  /\ TypeOK' /\ KeyInv' /\ IdentityIsStable'
  /\ [Next]_vars
  => BatcherHoldsRole'
<1> SUFFICES ASSUME TypeOK, KeyInv, IdentityIsStable, BatcherHoldsRole,
                    TypeOK', KeyInv', IdentityIsStable', [Next]_vars,
                    edits' = 0, named' \subseteq {key'}, batcher'
             PROVE  role' = key'
  BY DEF BatcherHoldsRole
<1>1. edits = 0 /\ conf' = conf
  BY WhatStays
<1>2. Identity' = key'
  BY KeyAssumption DEF KeyInv, TypeOK, Identity
<1>3. role' # NoKey => role' = key'
  BY <1>2 DEF IdentityIsStable, Appointed
<1>4. role' # NoKey
  <2>1. CASE batcher /\ key' = key
    <3>a. named \subseteq {key}
      BY <2>1, DurableGrows
    <3>1. role = key /\ key # NoKey
      BY <1>1, <2>1, <3>a DEF BatcherHoldsRole, KeyInv, TypeOK
    <3>2. QED
      BY <3>1, RoleKept, KeyAssumption
  <2>2. QED
    BY <2>1, BatcherMade, KeyAssumption
<1>5. QED
  BY <1>3, <1>4

(* With an unchanged configuration, and no other address named with        *)
(* --role-address, a batcher that passed the check of its role in          *)
(* RecordUsageClient::new holds the role for as long as it runs: no late   *)
(* transaction of an earlier start or of the script takes it away.         *)
THEOREM BatcherRole == Spec => []BatcherHoldsRole
<1>1. Init => BatcherHoldsRole
  BY DEF Init, BatcherHoldsRole
<1>2. QED
  BY <1>1, KeyInvariance, IdentityStable, BatcherStep, PTL DEF Spec
=============================================================================
