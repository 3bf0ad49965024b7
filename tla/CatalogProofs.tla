--------------------------- MODULE CatalogProofs ----------------------------
(* Proof that concurrent updates leave a current catalog, for any sets of  *)
(* nodes, models, entries and updates.  What Merge and Flatten compute     *)
(* does not matter: the argument is about locks.                           *)
EXTENDS Catalog, TLAPS

(* The types the argument needs. *)
Shape ==
  /\ byNode \in ByNode
  /\ node \in [Updates -> Nodes]
  /\ list \in [Updates -> ModelLists \cup {None}]
  /\ seen \in [Updates -> ByNode]
  /\ pc \in [Updates -> {"write", "lock", "union", "offerings", "done", "panicked"}]

IInv == Shape /\ RebuildInv

(* Before any update the catalog is empty and current. *)
LEMMA InitCurrent == Init => IInv
<1> SUFFICES ASSUME Init PROVE IInv
  OBVIOUS
<1>1. byNode \in ByNode
  BY DEF Init, ByNode
<1>2. Shape
  BY <1>1 DEF Init, Shape
<1>3. offerings = Flatten(byNode)
  BY DEF Init, Flatten, Offers
<1>4. readers = {u \in Updates : pc[u] \in {"union", "offerings"}}
  BY DEF Init
<1>5. union = Merge(byNode)
  BY DEF Init
<1> QED
  BY <1>2, <1>3, <1>4, <1>5 DEF IInv, RebuildInv, Init

(* Every step keeps the types. *)
LEMMA ShapeStep == Shape /\ [Next]_vars => Shape'
<1> SUFFICES ASSUME Shape, [Next]_vars PROVE Shape'
  OBVIOUS
<1> USE DEF Shape
<1>1. ASSUME NEW u \in Updates, Write(u) PROVE Shape'
  BY <1>1 DEF Write, ByNode
<1>2. ASSUME NEW u \in Updates, ReadLock(u) PROVE Shape'
  BY <1>2 DEF ReadLock
<1>8. ASSUME NEW u \in Updates, Panic(u) PROVE Shape'
  BY <1>8 DEF Panic
<1>3. ASSUME NEW u \in Updates, WriteUnion(u) PROVE Shape'
  BY <1>3 DEF WriteUnion
<1>4. ASSUME NEW u \in Updates, WriteOfferings(u) PROVE Shape'
  BY <1>4 DEF WriteOfferings
<1>5. ASSUME NEW c \in Chats, NEW m \in Models, Contains(c, m) PROVE Shape'
  BY <1>5 DEF Contains
<1>6. ASSUME NEW c \in Chats, NEW n \in Nodes, ConcurrencyFor(c, n) PROVE Shape'
  BY <1>6 DEF ConcurrencyFor
<1>7. CASE UNCHANGED vars
  BY <1>7 DEF vars
<1> QED
  BY <1>1, <1>2, <1>3, <1>4, <1>5, <1>6, <1>7, <1>8 DEF Next, UpdateStep, Finished

(* Every step keeps the lock discipline and the promise of a rebuild. *)
LEMMA RebuildStep == IInv /\ [Next]_vars => RebuildInv'
<1> SUFFICES ASSUME IInv, [Next]_vars PROVE RebuildInv'
  OBVIOUS
<1> USE DEF IInv, Shape
<1>1. ASSUME NEW u \in Updates, Write(u) PROVE RebuildInv'
  <2>1. readers' = {v \in Updates : pc'[v] \in {"union", "offerings"}}
    BY <1>1 DEF Write, RebuildInv
  <2>2. \A v \in readers' : seen'[v] = byNode'
    BY <1>1 DEF Write
  <2>3. CASE pc'[u] = "lock"
    BY <1>1, <2>1, <2>2, <2>3 DEF RebuildInv, Rebuilding
  <2>4. CASE pc'[u] # "lock"
    <3>1. list[u] = None /\ byNode[node[u]] = None
      BY <1>1, <2>4 DEF Write
    <3>2. byNode' = byNode
      BY <1>1, <3>1 DEF Write, ByNode
    <3>3. \A v \in Updates : pc[v] # "write" => pc'[v] = pc[v]
      BY <1>1 DEF Write
    <3>4. union' = union /\ offerings' = offerings
      BY <1>1 DEF Write
    <3>5. \/ union' = Merge(byNode') \/ MayPanic(byNode')
          \/ \E v \in Updates : pc'[v] \in {"lock", "union"}
      BY <3>2, <3>3, <3>4 DEF RebuildInv
    <3>6. offerings' = Flatten(byNode') \/ MayPanic(byNode') \/ Rebuilding' # {}
      BY <3>2, <3>3, <3>4 DEF RebuildInv, Rebuilding
    <3> QED
      BY <2>1, <2>2, <3>5, <3>6 DEF RebuildInv
  <2> QED
    BY <2>3, <2>4
<1>2. ASSUME NEW u \in Updates, ReadLock(u) PROVE RebuildInv'
  <2>1. pc'[u] = "union" /\ byNode' = byNode
    BY <1>2 DEF ReadLock
  <2>2. readers' = {v \in Updates : pc'[v] \in {"union", "offerings"}}
    BY <1>2 DEF ReadLock, RebuildInv
  <2>3. \A v \in readers' : seen'[v] = byNode'
    BY <1>2 DEF ReadLock, RebuildInv
  <2> QED
    BY <2>1, <2>2, <2>3 DEF RebuildInv, Rebuilding
<1>3. ASSUME NEW u \in Updates, WriteUnion(u) PROVE RebuildInv'
  <2>1. u \in readers
    BY <1>3 DEF WriteUnion, RebuildInv
  <2>2. union' = Merge(byNode') /\ pc'[u] = "offerings"
    BY <1>3, <2>1 DEF WriteUnion, RebuildInv
  <2>3. readers' = {v \in Updates : pc'[v] \in {"union", "offerings"}}
    BY <1>3 DEF WriteUnion, RebuildInv
  <2>4. \A v \in readers' : seen'[v] = byNode'
    BY <1>3 DEF WriteUnion, RebuildInv
  <2> QED
    BY <2>2, <2>3, <2>4 DEF RebuildInv, Rebuilding
<1>4. ASSUME NEW u \in Updates, WriteOfferings(u) PROVE RebuildInv'
  <2>1. u \in readers
    BY <1>4 DEF WriteOfferings, RebuildInv
  <2>2. offerings' = Flatten(byNode')
    BY <1>4, <2>1 DEF WriteOfferings, RebuildInv
  <2>3. readers' = {v \in Updates : pc'[v] \in {"union", "offerings"}}
    BY <1>4 DEF WriteOfferings, RebuildInv
  <2>4. \A v \in readers' : seen'[v] = byNode'
    BY <1>4 DEF WriteOfferings, RebuildInv
  <2>5. \A v \in Updates : pc[v] \in {"lock", "union"} => pc'[v] = pc[v]
    BY <1>4 DEF WriteOfferings
  <2>6. \/ union' = Merge(byNode') \/ MayPanic(byNode')
        \/ \E v \in Updates : pc'[v] \in {"lock", "union"}
    BY <1>4, <2>5 DEF WriteOfferings, RebuildInv
  <2> QED
    BY <2>2, <2>3, <2>4, <2>6 DEF RebuildInv
<1>9. ASSUME NEW u \in Updates, Panic(u) PROVE RebuildInv'
  <2>1. u \in readers
    BY <1>9 DEF Panic, RebuildInv
  <2>2. MayPanic(byNode')
    BY <1>9, <2>1 DEF Panic, RebuildInv
  <2>3. readers' = {v \in Updates : pc'[v] \in {"union", "offerings"}}
    BY <1>9 DEF Panic, RebuildInv
  <2>4. \A v \in readers' : seen'[v] = byNode'
    BY <1>9 DEF Panic, RebuildInv
  <2> QED
    BY <2>2, <2>3, <2>4 DEF RebuildInv
<1>5. ASSUME UNCHANGED <<byNode, union, offerings, readers, seen, pc>>
      PROVE  RebuildInv'
  BY <1>5 DEF RebuildInv, Rebuilding
<1>6. ASSUME NEW c \in Chats, NEW m \in Models, Contains(c, m) PROVE RebuildInv'
  BY <1>5, <1>6 DEF Contains
<1>7. ASSUME NEW c \in Chats, NEW n \in Nodes, ConcurrencyFor(c, n) PROVE RebuildInv'
  BY <1>5, <1>7 DEF ConcurrencyFor
<1>8. CASE UNCHANGED vars
  BY <1>5, <1>8 DEF vars
<1> QED
  BY <1>1, <1>2, <1>3, <1>4, <1>6, <1>7, <1>8, <1>9 DEF Next, UpdateStep, Finished

(* Concurrent upserts and removals never leave a stale union or stale      *)
(* offerings behind: what ModelsCatalog serves between rebuilds is what    *)
(* by_node says, as long as by_node holds no malformed object.             *)
THEOREM CatalogCurrent == Spec => []CatalogIsCurrent
<1>1. Init => IInv
  BY InitCurrent
<1>2. IInv /\ [Next]_vars => IInv'
  BY ShapeStep, RebuildStep DEF IInv
<1>3. IInv => CatalogIsCurrent
  BY DEF IInv, RebuildInv, CatalogIsCurrent, Rebuilding
<1> QED
  BY <1>1, <1>2, <1>3, PTL DEF Spec
=============================================================================
