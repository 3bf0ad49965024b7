---------------------------- MODULE SessionCache ----------------------------
(***************************************************************************)
(* The cached view of ONE on-chain session: ChainVerifier                  *)
(* (src/chain/mod.rs), the chain watcher (src/chain/watcher.rs), the       *)
(* session check of every consumer request (src/consumer/middleware.rs)    *)
(* and the refresh at the end of flush_session                             *)
(* (src/consumer/usage_batch.rs).                                          *)
(*                                                                         *)
(* The contract is external: the session is opened in one block and its    *)
(* funds are released in a later one.  Only open sessions are cached, so   *)
(* the cache holds the session as open or not at all.  An RPC call reads   *)
(* the chain at one moment and its result is used at a later one.          *)
(***************************************************************************)
EXTENDS Integers

CONSTANTS
  Clients,    \* consumer requests with the session's bearer token
  Flushers,   \* flush_session calls that submitted a batch
  StartHead,  \* chain head when the router starts
  MaxHead     \* bound: blocks the chain produces

ASSUME ChainAssumption ==
  /\ Clients \cap Flushers = {}
  /\ "watcher" \notin Clients \cup Flushers
  /\ StartHead \in Nat
  /\ MaxHead \in Nat /\ StartHead <= MaxHead

VARIABLES
  head,       \* current block number
  openAt,     \* block of SessionOpened, -1 if none
  releaseAt,  \* block of SessionFundsReleased, -1 if none
  cached,     \* the cache holds the session (as open)
  pc,         \* per task: where it is
  got,        \* per task: what get_session or fetch returned
  last,       \* the watcher's last_block
  start,      \* ghost: head of the watcher's first successful read, -1 before
  to,         \* upper end of the poll in progress
  handled     \* polls that processed the release of the session

vars == <<head, openAt, releaseAt, cached, pc, got, last, start, to, handled>>

Readers == Clients \cup Flushers
Tasks == Readers \cup {"watcher"}
Verdict == {"open", "closed", "error"}

Init ==
  /\ head = StartHead /\ openAt \in {-1, StartHead} /\ releaseAt = -1
  /\ cached = FALSE
  /\ pc = [t \in Tasks |-> IF t = "watcher" THEN "asleep" ELSE "idle"]
  /\ got = [t \in Tasks |-> "error"]
  /\ last = 0 /\ start = -1 /\ to = 0 /\ handled = 0

(* What the contract says of the session. *)
Open == openAt # -1 /\ releaseAt = -1
Released == releaseAt # -1
View == IF Open THEN "open" ELSE "closed"

(* A new block, which may carry the session's next event. *)
Mine ==
  /\ head < MaxHead
  /\ head' = head + 1
  /\ \/ UNCHANGED <<openAt, releaseAt>>
     \/ openAt = -1 /\ openAt' = head' /\ UNCHANGED releaseAt
     \/ Open /\ releaseAt' = head' /\ UNCHANGED openAt
  /\ UNCHANGED <<cached, pc, got, last, start, to, handled>>

(* time_to_live of the cache. *)
Expire ==
  /\ cached
  /\ cached' = FALSE
  /\ UNCHANGED <<head, openAt, releaseAt, pc, got, last, start, to, handled>>

-----------------------------------------------------------------------------
(* get_session, fetch_session and warm_session *)

(* get_session consults the cache first. *)
Lookup(t) ==
  /\ t \in Readers /\ pc[t] = "idle"
  /\ got' = [got EXCEPT ![t] = IF cached THEN "open" ELSE @]
  /\ pc' = [pc EXCEPT ![t] = IF cached THEN "have" ELSE "fetch"]
  /\ UNCHANGED <<head, openAt, releaseAt, cached, last, start, to, handled>>

(* Sensitivity: get_session caches whatever it read. *)
FetchAndCache(t) ==
  /\ pc[t] = "fetch"
  /\ \E v \in {View, "error"} :
       /\ got' = [got EXCEPT ![t] = v]
       /\ pc' = [pc EXCEPT ![t] = IF v = "error" THEN "have" ELSE "insert"]
  /\ UNCHANGED <<head, openAt, releaseAt, cached, last, start, to, handled>>

(* A miss reads the chain; only an open session goes on to be inserted. *)
Fetch(t) ==
  /\ pc[t] = "fetch"
  /\ \E v \in {View, "error"} :
       /\ got' = [got EXCEPT ![t] = v]
       /\ pc' = [pc EXCEPT ![t] = IF v = "open" THEN "insert" ELSE "have"]
  /\ UNCHANGED <<head, openAt, releaseAt, cached, last, start, to, handled>>

AfterWarm(t) == IF t = "watcher" THEN "logReleased" ELSE "done"

(* warm_session reads the chain whatever the cache holds. *)
WarmFetch(t) ==
  /\ pc[t] = "warm"
  /\ \E v \in {View, "error"} :
       pc' = [pc EXCEPT ![t] = IF v = "open" THEN "warmInsert" ELSE AfterWarm(t)]
  /\ UNCHANGED <<head, openAt, releaseAt, cached, got, last, start, to, handled>>

(* cache.insert of what was read earlier. *)
Insert(t) ==
  /\ pc[t] \in {"insert", "warmInsert"}
  /\ cached' = TRUE
  /\ pc' = [pc EXCEPT ![t] = IF @ = "insert" THEN "have" ELSE AfterWarm(t)]
  /\ UNCHANGED <<head, openAt, releaseAt, got, last, start, to, handled>>

-----------------------------------------------------------------------------
(* require_v1_session: an error or a closed session is refused; an open    *)
(* one may still be refused for its budget or for lack of a tunnel.        *)
Judge(c) ==
  /\ c \in Clients /\ pc[c] = "have"
  /\ \E v \in IF got[c] = "open" THEN {"admitted", "refused"} ELSE {"refused"} :
       pc' = [pc EXCEPT ![c] = v]
  /\ UNCHANGED <<head, openAt, releaseAt, cached, got, last, start, to, handled>>

(* flush_session after its submission: evict, then warm. *)
RefreshAfterFlush(f) ==
  /\ f \in Flushers /\ pc[f] = "have"
  /\ IF got[f] = "error"
       THEN pc' = [pc EXCEPT ![f] = "done"] /\ UNCHANGED cached
       ELSE pc' = [pc EXCEPT ![f] = "warm"] /\ cached' = FALSE
  /\ UNCHANGED <<head, openAt, releaseAt, got, last, start, to, handled>>

-----------------------------------------------------------------------------
(* poll_once of the watcher; an RPC error ends the poll *)

(* Sensitivity: the last block is polled again. *)
FromLast == last

From == last + 1

(* Sensitivity: the poll asks for a block that is not mined yet. *)
PollBeyondHead ==
  /\ pc["watcher"] = "asleep"
  /\ last' = IF last = 0 THEN (IF head = 0 THEN 0 ELSE head - 1) ELSE last
  /\ start' = IF start = -1 THEN head ELSE start
  /\ to' = head + 1
  /\ pc' = [pc EXCEPT !["watcher"] = "logOpened"]
  /\ UNCHANGED <<head, openAt, releaseAt, cached, got, handled>>

(* get_block_number; the first poll starts one block below the head. *)
PollHead ==
  /\ pc["watcher"] = "asleep"
  /\ last' = IF last = 0 THEN (IF head = 0 THEN 0 ELSE head - 1) ELSE last
  /\ start' = IF start = -1 THEN head ELSE start
  /\ to' = head
  /\ pc' = [pc EXCEPT !["watcher"] = IF last' + 1 > head THEN "asleep" ELSE "logOpened"]
  /\ UNCHANGED <<head, openAt, releaseAt, cached, got, handled>>

(* get_logs of SessionOpened. *)
PollOpened ==
  /\ pc["watcher"] = "logOpened"
  /\ pc' = [pc EXCEPT !["watcher"] = IF openAt \in From .. to THEN "warm"
                                                            ELSE "logReleased"]
  /\ UNCHANGED <<head, openAt, releaseAt, cached, got, last, start, to, handled>>

(* get_logs of SessionFundsReleased; last_block advances only at the end.  *)
PollReleased ==
  /\ pc["watcher"] = "logReleased"
  /\ IF releaseAt \in From .. to
       THEN pc' = [pc EXCEPT !["watcher"] = "evict"] /\ UNCHANGED last
       ELSE pc' = [pc EXCEPT !["watcher"] = "asleep"] /\ last' = to
  /\ UNCHANGED <<head, openAt, releaseAt, cached, got, start, to, handled>>

(* The batch of the session is flushed and removed (UsageBatch), then the  *)
(* session is evicted.                                                     *)
Evict ==
  /\ pc["watcher"] = "evict"
  /\ cached' = FALSE
  /\ handled' = handled + 1
  /\ last' = to
  /\ pc' = [pc EXCEPT !["watcher"] = "asleep"]
  /\ UNCHANGED <<head, openAt, releaseAt, got, start, to>>

(* Sensitivity: last_block advances although the poll failed. *)
PollFailsForward ==
  /\ pc["watcher"] \in {"logOpened", "logReleased"}
  /\ pc' = [pc EXCEPT !["watcher"] = "asleep"]
  /\ last' = to
  /\ UNCHANGED <<head, openAt, releaseAt, cached, got, start, to, handled>>

PollFails ==
  /\ pc["watcher"] \in {"logOpened", "logReleased"}
  /\ pc' = [pc EXCEPT !["watcher"] = "asleep"]
  /\ UNCHANGED <<head, openAt, releaseAt, cached, got, last, start, to, handled>>

ReaderStep(t) ==
  \/ Lookup(t) \/ Fetch(t) \/ WarmFetch(t) \/ Insert(t)
  \/ Judge(t) \/ RefreshAfterFlush(t)

WatcherStep ==
  \/ PollHead \/ PollOpened \/ PollReleased \/ Evict
  \/ WarmFetch("watcher") \/ Insert("watcher")

Next ==
  \/ Mine \/ Expire \/ WatcherStep \/ PollFails
  \/ \E t \in Readers : ReaderStep(t)

Spec == Init /\ [][Next]_vars

(* The watcher wakes up every six seconds and its calls do not fail for    *)
(* ever.                                                                   *)
FairSpec ==
  /\ Spec
  /\ WF_vars(PollHead) /\ SF_vars(PollOpened) /\ SF_vars(PollReleased)
  /\ WF_vars(Evict) /\ WF_vars(WarmFetch("watcher")) /\ WF_vars(Insert("watcher"))

-----------------------------------------------------------------------------
(* Every variable has its type. *)
TypeOK ==
  /\ head \in StartHead .. MaxHead
  /\ openAt \in -1 .. head /\ releaseAt \in -1 .. head
  /\ Released => openAt # -1 /\ openAt < releaseAt
  /\ cached \in BOOLEAN
  /\ pc \in [Tasks -> {"idle", "fetch", "insert", "have", "warm", "warmInsert",
                       "admitted", "refused", "done", "asleep", "logOpened",
                       "logReleased", "evict"}]
  /\ got \in [Tasks -> Verdict]
  /\ start \in {-1} \cup (StartHead .. head)
  /\ last \in 0 .. head /\ to \in 0 .. head
  /\ handled \in Nat

(* Tasks that have read the session as open and will insert it. *)
StaleFetches == {t \in Tasks : pc[t] \in {"insert", "warmInsert"}}

(* A released session that is out of the cache, and not on its way back in *)
(* by a read made before the release, is never cached again.               *)
StaysForgotten ==
  [][Released /\ ~cached /\ StaleFetches = {} => ~cached' /\ StaleFetches' = {}]_vars

(* No gap between polls (src/chain/watcher.rs:1, "Poll SessionOpened /     *)
(* SessionFundsReleased logs to warm/evict session cache"): every release  *)
(* from the block of the first poll on up to last_block has been handled,  *)
(* through failed polls and blocks that arrive in the middle of one.       *)
NoBlockSkipped ==
  (start # -1 /\ Released /\ releaseAt >= start /\ releaseAt <= last) => handled >= 1

(* No overlap between polls: a release is handled by one poll only.        *)
HandledOnce == handled <= 1

(* A release after the first poll is eventually handled, however many      *)
(* polls fail before.                                                      *)
ReleaseIsHandled ==
  (start # -1 /\ Released /\ releaseAt >= start) ~> handled >= 1

-----------------------------------------------------------------------------
(* Strengthening that makes NoBlockSkipped and HandledOnce inductive       *)
(* (SessionCacheProofs): where last_block stands relative to the poll in   *)
(* progress and to the release.                                            *)
WatchInv ==
  /\ start = -1 => last = 0 /\ pc["watcher"] = "asleep" /\ handled = 0
  /\ start # -1 => last >= start - 1
  /\ pc["watcher"] # "asleep" => last < to
  /\ pc["watcher"] = "evict" => last < releaseAt /\ releaseAt <= to
  /\ handled >= 1 => Released /\ releaseAt <= last
  /\ HandledOnce

-----------------------------------------------------------------------------
(* docs/spec.md:162, "Settled or closed sessions are evicted immediately   *)
(* on SessionClosed event subscription": once the watcher has handled the  *)
(* release, the session is not cached.                                     *)
EvictedOnRelease == handled >= 1 => ~cached
=============================================================================
