------------------------------ MODULE Catalog -------------------------------
(***************************************************************************)
(* The model catalog: ModelsCatalog of src/consumer/models.rs.             *)
(*                                                                         *)
(* by_node is the truth; union and offerings are derived from it by        *)
(* rebuild_union.  Each is behind its own async RwLock.  Updates of        *)
(* different nodes run concurrently: an upsert after a fetch, a remove at  *)
(* the end of a tunnel.  A request looks the model up in the union and its *)
(* limit in by_node, at two different moments.                             *)
(*                                                                         *)
(* The models are what the nodes sent.  A model object whose "sparkl" is   *)
(* there but is no object makes merge_model_entry panic, unless the model  *)
(* of another node was merged before it: the update ends, its locks are    *)
(* released, and by_node keeps the entry.                                  *)
(***************************************************************************)
EXTENDS Integers, FiniteSets, FiniteSetsExt

CONSTANTS
  Nodes, Models,
  Entries,   \* model objects: declared concurrency, reported load, sparkl well-formed
  Updates,   \* upsert_node and remove_node calls
  Chats,     \* chat_completions calls
  None       \* a node or a model without an entry

ASSUME CatalogAssumption ==
  /\ IsFiniteSet(Nodes) /\ IsFiniteSet(Models)
  /\ Entries \subseteq [conc : Nat, active : Nat, sparkl : BOOLEAN]
  /\ None \notin Entries

VARIABLES
  byNode,     \* by_node: per node, None or its model objects
  union,      \* per model: None or the merged object
  offerings,  \* the flat list of (node, model) with its object
  readers,    \* updates that hold the read lock of by_node
  node,       \* per update: the node it is about
  list,       \* per update: the models to insert, or None to remove
  seen,       \* per update: by_node as its rebuild reads it
  pc,         \* per update: where it is
  chat,       \* per chat: where it is
  limit       \* per chat: the concurrency it will be admitted under

vars == <<byNode, union, offerings, readers, node, list, seen, pc, chat, limit>>

ModelLists == [Models -> Entries \cup {None}]
ByNode == [Nodes -> ModelLists \cup {None}]

-----------------------------------------------------------------------------
(* rebuild_union as a function of by_node *)

Offers(b, n, m) == b[n] # None /\ b[n][m] # None

(* apply_aggregated_load: free places of a limited provider. *)
Free(e) == IF e.conc > e.active THEN e.conc - e.active ELSE 0

Providers(b, m) == {n \in Nodes : Offers(b, n, m)}

(* merge_model_entry over all nodes, in any order. *)
Merge(b) ==
  [m \in Models |->
     IF Providers(b, m) = {} THEN None
     ELSE [providers |-> Providers(b, m),
           active |-> MapThenSumSet(LAMBDA n : b[n][m].active, Providers(b, m)),
           available |-> MapThenSumSet(LAMBDA n : Free(b[n][m]), Providers(b, m))]]

(* The first entry merged for a model becomes the merged object, and       *)
(* expect("sparkl object") is about it.  The order is that of a HashMap.   *)
Malformed(b, m) == {n \in Providers(b, m) : ~b[n][m].sparkl}
MayPanic(b) == \E m \in Models : Malformed(b, m) # {}
MustPanic(b) ==
  \E m \in Models : Providers(b, m) # {} /\ Malformed(b, m) = Providers(b, m)

Flatten(b) ==
  {x \in Nodes \X Models \X Entries : Offers(b, x[1], x[2]) /\ x[3] = b[x[1]][x[2]]}

Init ==
  /\ byNode = [n \in Nodes |-> None]
  /\ union = Merge(byNode)
  /\ offerings = {}
  /\ readers = {}
  /\ node \in [Updates -> Nodes]
  /\ list \in [Updates -> ModelLists \cup {None}]
  /\ seen = [u \in Updates |-> byNode]
  /\ pc = [u \in Updates |-> "write"]
  /\ chat = [c \in Chats |-> "contains"]
  /\ limit = [c \in Chats |-> -1]

-----------------------------------------------------------------------------
(* Updates *)

(* Sensitivity: by_node is written while a rebuild still reads it. *)
WriteAnyTime(u) ==
  /\ pc[u] = "write"
  /\ byNode' = [byNode EXCEPT ![node[u]] = list[u]]
  /\ pc' = [pc EXCEPT ![u] = IF list[u] = None /\ byNode[node[u]] = None
                               THEN "done" ELSE "lock"]
  /\ UNCHANGED <<union, offerings, readers, node, list, seen, chat, limit>>

(* upsert_node or remove_node: the write lock of by_node is held for the   *)
(* one insertion or removal; removing nothing rebuilds nothing.            *)
Write(u) ==
  /\ pc[u] = "write" /\ readers = {}
  /\ byNode' = [byNode EXCEPT ![node[u]] = list[u]]
  /\ pc' = [pc EXCEPT ![u] = IF list[u] = None /\ byNode[node[u]] = None
                               THEN "done" ELSE "lock"]
  /\ UNCHANGED <<union, offerings, readers, node, list, seen, chat, limit>>

(* rebuild_union takes the read lock and merges what it reads. *)
ReadLock(u) ==
  /\ pc[u] = "lock"
  /\ readers' = readers \cup {u}
  /\ seen' = [seen EXCEPT ![u] = byNode]
  /\ pc' = [pc EXCEPT ![u] = "union"]
  /\ UNCHANGED <<byNode, union, offerings, node, list, chat, limit>>

(* The merge panics: nothing is written, the read lock is released. *)
Panic(u) ==
  /\ pc[u] = "union" /\ MayPanic(seen[u])
  /\ readers' = readers \ {u}
  /\ pc' = [pc EXCEPT ![u] = "panicked"]
  /\ UNCHANGED <<byNode, union, offerings, node, list, seen, chat, limit>>

WriteUnion(u) ==
  /\ pc[u] = "union" /\ ~MustPanic(seen[u])
  /\ union' = Merge(seen[u])
  /\ pc' = [pc EXCEPT ![u] = "offerings"]
  /\ UNCHANGED <<byNode, offerings, readers, node, list, seen, chat, limit>>

(* The read lock is released at the end of the function. *)
WriteOfferings(u) ==
  /\ pc[u] = "offerings"
  /\ offerings' = Flatten(seen[u])
  /\ readers' = readers \ {u}
  /\ pc' = [pc EXCEPT ![u] = "done"]
  /\ UNCHANGED <<byNode, union, node, list, seen, chat, limit>>

-----------------------------------------------------------------------------
(* chat_completions for model m on the session's node n *)

Contains(c, m) ==
  /\ chat[c] = "contains"
  /\ chat' = [chat EXCEPT ![c] = IF union[m] = None THEN "unknown" ELSE m]
  /\ UNCHANGED <<byNode, union, offerings, readers, node, list, seen, pc, limit>>

(* concurrency_for: 0, which means unlimited, unless the node's own entry  *)
(* declares a limit.                                                       *)
ConcurrencyFor(c, n) ==
  /\ chat[c] \in Models
  /\ limit' = [limit EXCEPT ![c] = IF Offers(byNode, n, chat[c])
                                     THEN byNode[n][chat[c]].conc ELSE 0]
  /\ chat' = [chat EXCEPT ![c] = "admitted"]
  /\ UNCHANGED <<byNode, union, offerings, readers, node, list, seen, pc>>

Finished ==
  /\ \A u \in Updates : pc[u] \in {"done", "panicked"}
  /\ \A c \in Chats : chat[c] \in {"unknown", "admitted"}
  /\ UNCHANGED vars

UpdateStep(u) ==
  Write(u) \/ ReadLock(u) \/ Panic(u) \/ WriteUnion(u) \/ WriteOfferings(u)

Next ==
  \/ \E u \in Updates : UpdateStep(u)
  \/ \E c \in Chats, m \in Models : Contains(c, m)
  \/ \E c \in Chats, n \in Nodes : ConcurrencyFor(c, n)
  \/ Finished

Spec == Init /\ [][Next]_vars

-----------------------------------------------------------------------------
(* Every variable has its type. *)
TypeOK ==
  /\ byNode \in ByNode
  /\ union \in [Models -> {None} \cup [providers : SUBSET Nodes, active : Nat,
                                        available : Nat]]
  /\ offerings \subseteq Nodes \X Models \X Entries
  /\ readers \subseteq Updates
  /\ node \in [Updates -> Nodes] /\ list \in [Updates -> ModelLists \cup {None}]
  /\ seen \in [Updates -> ByNode]
  /\ pc \in [Updates -> {"write", "lock", "union", "offerings", "done", "panicked"}]
  /\ chat \in [Chats -> {"contains", "unknown", "admitted"} \cup Models]
  /\ limit \in [Chats -> Nat \cup {-1}]

Rebuilding == {u \in Updates : pc[u] \in {"lock", "union", "offerings"}}

(* No update is lost: when no rebuild is under way and no node offers a    *)
(* malformed model object, the union and the offerings are those of        *)
(* by_node, whatever order concurrent updates of several nodes wrote them  *)
(* in and whichever of them a malformed object ended that is gone by now.  *)
CatalogIsCurrent ==
  Rebuilding = {} /\ ~MayPanic(byNode) =>
    union = Merge(byNode) /\ offerings = Flatten(byNode)

-----------------------------------------------------------------------------
(* Strengthening that makes CatalogIsCurrent inductive (CatalogProofs): the *)
(* read lock is held from the merge to the end, so what a rebuild publishes *)
(* is current; and whatever is out of date has a rebuild still to come, or *)
(* an object in by_node that ended one.                                    *)
RebuildInv ==
  /\ readers = {u \in Updates : pc[u] \in {"union", "offerings"}}
  /\ \A u \in readers : seen[u] = byNode
  /\ \/ union = Merge(byNode) \/ MayPanic(byNode)
     \/ \E u \in Updates : pc[u] \in {"lock", "union"}
  /\ offerings = Flatten(byNode) \/ MayPanic(byNode) \/ Rebuilding # {}

-----------------------------------------------------------------------------
(* Statements about the program that it does not keep. *)

(* models.rs:25, "Merged union across nodes (served to clients)": without  *)
(* the proviso about malformed objects.                                    *)
UnionIsMerged == Rebuilding = {} => union = Merge(byNode)

(* README.md:20, "admission control enforces operator-declared             *)
(* concurrency": where every operator declares a limit, no request is      *)
(* admitted as unlimited.                                                  *)
AdmittedUnderDeclaredLimit ==
  (\A e \in Entries : e.sparkl => e.conc > 0) =>
    \A c \in Chats : chat[c] = "admitted" => limit[c] > 0
=============================================================================
