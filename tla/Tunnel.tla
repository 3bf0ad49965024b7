------------------------------- MODULE Tunnel -------------------------------
(***************************************************************************)
(* The WSS tunnels of ONE node: handshake (src/tunnel/connect.rs), reader  *)
(* loop and cleanup (src/tunnel/lifecycle.rs), the registry entry of the   *)
(* node (src/tunnel/registry.rs), its entry in the model catalog and the   *)
(* last node_status event.  Entries of different nodes are independent.    *)
(*                                                                         *)
(* A connection is one run of handle_node_connect; its NodeTunnel object   *)
(* is named by the connection.                                             *)
(*   new -> verified -> replaced -> inserted -> ready -> running           *)
(*       -> exiting -> unregistered -> forgotten -> closed                 *)
(* Model objects are well-formed: at a malformed one remove_node and       *)
(* upsert_node may panic (module Catalog), and the cleanup with them.      *)
(***************************************************************************)
EXTENDS Naturals

CONSTANTS
  Conns,         \* WebSocket connections the node opens
  None,          \* no connection
  MaxRefreshes   \* bound: refreshes of a connection under way at once

ASSUME NoneAssumption == None \notin Conns

(* The refresh of the announcement and that of the first pong overlap. *)
ASSUME RefreshAssumption == MaxRefreshes \in Nat \ {0, 1}

VARIABLES
  registry,  \* TunnelRegistry entry of the node
  catalog,   \* connection whose model list by_node holds for the node
  status,    \* last node_status event of the node
  pc,        \* per connection: where its task is
  up,        \* per connection: the socket still works
  shutdown,  \* per connection: a unit waits in the shutdown channel
  fetching,  \* per connection: refresh_tunnel tasks that wait for the node
  fetched,   \* per connection: refresh_tunnel tasks about to upsert_node
  refreshed  \* per connection: last_models_refresh_at > 0

tasks == <<fetching, fetched, refreshed>>
vars == <<registry, catalog, status, pc, up, shutdown, fetching, fetched, refreshed>>

PC == {"new", "rejected", "verified", "replaced", "inserted", "ready",
       "running", "exiting", "unregistered", "forgotten", "closed"}

Init ==
  /\ registry = None /\ catalog = None /\ status = "unknown"
  /\ pc = [c \in Conns |-> "new"]
  /\ up = [c \in Conns |-> TRUE]
  /\ shutdown = [c \in Conns |-> FALSE]
  /\ fetching = [c \in Conns |-> 0] /\ fetched = [c \in Conns |-> 0]
  /\ refreshed = [c \in Conns |-> FALSE]

-----------------------------------------------------------------------------
(* handle_node_connect *)

(* Block number, challenge, auth frame, signature, moniker and on-chain    *)
(* registration: each of them may close the socket, none touches shared    *)
(* state.                                                                  *)
Handshake(c) ==
  /\ pc[c] = "new"
  /\ \E verdict \in IF up[c] THEN {"verified", "rejected"} ELSE {"rejected"} :
       pc' = [pc EXCEPT ![c] = verdict]
  /\ UNCHANGED <<registry, catalog, status, up, shutdown, tasks>>

(* tunnels.remove, then signal_shutdown (try_send on a channel of one) and *)
(* fail_all_pending of the old tunnel.                                     *)
ReplaceOld(c) ==
  /\ pc[c] = "verified"
  /\ registry' = None
  /\ shutdown' = [d \in Conns |-> shutdown[d] \/ d = registry]
  /\ pc' = [pc EXCEPT ![c] = "replaced"]
  /\ UNCHANGED <<catalog, status, up, tasks>>

Insert(c) ==
  /\ pc[c] = "replaced"
  /\ registry' = c
  /\ pc' = [pc EXCEPT ![c] = "inserted"]
  /\ UNCHANGED <<catalog, status, up, shutdown, tasks>>

(* Sensitivity: a failed Ready frame leaves the tunnel registered. *)
SendReadyKeepsEntry(c) ==
  /\ pc[c] = "inserted"
  /\ pc' = [pc EXCEPT ![c] = IF up[c] THEN "ready" ELSE "closed"]
  /\ UNCHANGED <<registry, catalog, status, up, shutdown, tasks>>

(* A Ready frame that cannot be sent takes the entry of the node out again. *)
SendReady(c) ==
  /\ pc[c] = "inserted"
  /\ IF up[c]
       THEN pc' = [pc EXCEPT ![c] = "ready"] /\ UNCHANGED registry
       ELSE pc' = [pc EXCEPT ![c] = "closed"] /\ registry' = None
  /\ UNCHANGED <<catalog, status, up, shutdown, tasks>>

(* The online event and the spawned refresh of the model catalog, which    *)
(* leaves last_models_refresh_at alone.                                    *)
Announce(c) ==
  /\ pc[c] = "ready"
  /\ status' = "online"
  /\ fetching' = [fetching EXCEPT ![c] = @ + 1]
  /\ pc' = [pc EXCEPT ![c] = "running"]
  /\ UNCHANGED <<registry, catalog, up, shutdown, fetched, refreshed>>

-----------------------------------------------------------------------------
(* run_tunnel_lifecycle *)

(* A pong: status event, and a refresh of the catalog.  It is throttled by *)
(* last_models_refresh_at, which starts at 0: the first pong always starts *)
(* one, while that of the announcement may be under way.                   *)
Pong(c) ==
  /\ pc[c] = "running" /\ up[c]
  /\ status' = "online"
  /\ refreshed' = [refreshed EXCEPT ![c] = TRUE]
  /\ \E new \in IF refreshed[c] THEN {0, 1} ELSE {1} :
       /\ fetching[c] + fetched[c] + new <= MaxRefreshes
       /\ fetching' = [fetching EXCEPT ![c] = @ + new]
  /\ UNCHANGED <<registry, catalog, pc, up, shutdown, fetched>>

(* The pinger finds the node silent: signal_shutdown (module Keepalive     *)
(* says when).                                                             *)
SignalShutdown(c) ==
  /\ pc[c] = "running"
  /\ shutdown' = [shutdown EXCEPT ![c] = TRUE]
  /\ UNCHANGED <<registry, catalog, status, pc, up, tasks>>

(* Sensitivity: the reader loop does not select on the shutdown channel. *)
ExitLoopOnErrorOnly(c) ==
  /\ pc[c] = "running"
  /\ ~up[c]
  /\ pc' = [pc EXCEPT ![c] = "exiting"]
  /\ UNCHANGED <<registry, catalog, status, up, shutdown, tasks>>

(* The reader loop breaks on the shutdown channel, a close or an error;    *)
(* writer and pinger are aborted and this tunnel's pending requests fail.  *)
ExitLoop(c) ==
  /\ pc[c] = "running"
  /\ shutdown[c] \/ ~up[c]
  /\ shutdown' = [shutdown EXCEPT ![c] = FALSE]
  /\ pc' = [pc EXCEPT ![c] = "exiting"]
  /\ UNCHANGED <<registry, catalog, status, up, tasks>>

(* capacity.clear_node (Capacity!ClearNode) and tunnels.remove: both by    *)
(* node id, whoever's tunnel the entry is.                                 *)
Unregister(c) ==
  /\ pc[c] = "exiting"
  /\ registry' = None
  /\ pc' = [pc EXCEPT ![c] = "unregistered"]
  /\ UNCHANGED <<catalog, status, up, shutdown, tasks>>

RemoveModels(c) ==
  /\ pc[c] = "unregistered"
  /\ catalog' = None
  /\ pc' = [pc EXCEPT ![c] = "forgotten"]
  /\ UNCHANGED <<registry, status, up, shutdown, tasks>>

(* Sensitivity: only the cleanup that found an entry reports the node      *)
(* offline.                                                                *)
EmitOfflineIfRegistered(c) ==
  /\ pc[c] = "forgotten"
  /\ status' = IF registry = None THEN status ELSE "offline"
  /\ pc' = [pc EXCEPT ![c] = "closed"]
  /\ UNCHANGED <<registry, catalog, up, shutdown, tasks>>

EmitOffline(c) ==
  /\ pc[c] = "forgotten"
  /\ status' = "offline"
  /\ pc' = [pc EXCEPT ![c] = "closed"]
  /\ UNCHANGED <<registry, catalog, up, shutdown, tasks>>

-----------------------------------------------------------------------------
(* refresh_tunnel, a task of its own *)

(* The GET through this tunnel fails, or its answer is ready to be stored. *)
FetchModels(c) ==
  /\ fetching[c] > 0
  /\ fetching' = [fetching EXCEPT ![c] = @ - 1]
  /\ \E got \in IF pc[c] = "running" /\ up[c] THEN {0, 1} ELSE {0} :
       fetched' = [fetched EXCEPT ![c] = @ + got]
  /\ UNCHANGED <<registry, catalog, status, pc, up, shutdown, refreshed>>

UpsertModels(c) ==
  /\ fetched[c] > 0
  /\ catalog' = c
  /\ fetched' = [fetched EXCEPT ![c] = @ - 1]
  /\ UNCHANGED <<registry, status, pc, up, shutdown, fetching, refreshed>>

(* The node, or the network, drops the connection. *)
SocketFails(c) ==
  /\ up[c]
  /\ up' = [up EXCEPT ![c] = FALSE]
  /\ UNCHANGED <<registry, catalog, status, pc, shutdown, tasks>>

ConnTask(c) ==
  \/ Handshake(c) \/ ReplaceOld(c) \/ Insert(c) \/ SendReady(c)
  \/ Announce(c) \/ ExitLoop(c) \/ Unregister(c) \/ RemoveModels(c)
  \/ EmitOffline(c)

RefreshTask(c) == FetchModels(c) \/ UpsertModels(c)

Gone == {"new", "rejected", "closed"}

(* Every connection is over. *)
AllOver ==
  /\ \A c \in Conns : pc[c] \in Gone \ {"new"} /\ ~up[c]
                   /\ fetching[c] = 0 /\ fetched[c] = 0
  /\ UNCHANGED vars

Next ==
  \/ \E c \in Conns : \/ ConnTask(c) \/ RefreshTask(c)
                     \/ Pong(c) \/ SignalShutdown(c) \/ SocketFails(c)
  \/ AllOver

Spec == Init /\ [][Next]_vars

(* Every task is scheduled; nodes and networks owe nothing, not even the   *)
(* rest of a handshake (recv_text has no timeout).  A peer that stops      *)
(* reading fails the socket sooner or later (Keepalive models one that     *)
(* does not).                                                              *)
FairSpec ==
  /\ Spec
  /\ \A c \in Conns : /\ WF_vars(pc[c] # "new" /\ ConnTask(c))
                      /\ WF_vars(RefreshTask(c))

-----------------------------------------------------------------------------
(* Every variable has its type (used by TunnelProofs). *)
TypeOK ==
  /\ registry \in Conns \cup {None}
  /\ catalog \in Conns \cup {None}
  /\ status \in {"unknown", "online", "offline"}
  /\ pc \in [Conns -> PC]
  /\ up \in [Conns -> BOOLEAN]
  /\ shutdown \in [Conns -> BOOLEAN]
  /\ fetching \in [Conns -> Nat] /\ fetched \in [Conns -> Nat]
  /\ refreshed \in [Conns -> BOOLEAN]

(* No zombie entry: a tunnel the registry offers to requests has not been  *)
(* through its own cleanup, however handshakes, takeovers and cleanups of  *)
(* the node's connections interleave.                                      *)
RegisteredIsServed ==
  registry # None => pc[registry] \in {"inserted", "ready", "running", "exiting"}

(* Subscribers are not left with a dead node shown as online: an "online"  *)
(* event is last only while some connection has still to emit "offline".   *)
OfflineComesLast ==
  (\A c \in Conns : pc[c] \in Gone) => status # "online"

(* A unit in the shutdown channel is never lost: the replaced tunnel gets  *)
(* to the end of its cleanup even if it was replaced before it ran.        *)
ReplacedTunnelCloses ==
  \A c \in Conns : shutdown[c] ~> pc[c] = "closed"

(* A connection whose socket failed after the handshake ends in the        *)
(* registry no longer naming it.                                           *)
DeadTunnelIsUnregistered ==
  \A c \in Conns : (registry = c /\ ~up[c]) ~> registry # c

(* Strengthening that makes OfflineComesLast inductive (TunnelProofs): an  *)
(* "online" event is last only while a connection that will emit "offline" *)
(* is between its announcement and the end of its cleanup.                 *)
OnlineHasCleanup ==
  status = "online" =>
    \E c \in Conns : pc[c] \in {"running", "exiting", "unregistered", "forgotten"}

-----------------------------------------------------------------------------
(* Statements of the documentation that the code does not keep. *)

(* docs/spec.md:119, "reconnection is a clean re-auth": once the node's    *)
(* other connections are over, its running connection is the registered    *)
(* one.                                                                    *)
ReconnectIsRegistered ==
  \A c \in Conns :
    (/\ pc[c] = "running" /\ up[c] /\ ~shutdown[c]
     /\ \A d \in Conns \ {c} : pc[d] \in Gone) => registry = c

(* docs/spec.md:61, "a single node holds one WSS connection to the         *)
(* router": of two running connections one has been told to stop.          *)
OneTunnelPerNode ==
  \A c, d \in Conns :
    (c # d /\ pc[c] = "running" /\ pc[d] = "running" /\ up[c] /\ up[d])
      => shutdown[c] \/ shutdown[d]

(* src/consumer/models.rs:74, "Remove a node's models when its tunnel      *)
(* disconnects": with every connection over, the catalog has no entry.     *)
NoModelsOfGoneNode ==
  (\A c \in Conns : pc[c] \in Gone) => catalog = None
=============================================================================
