----------------------------- MODULE UsageBatch -----------------------------
(***************************************************************************)
(* Token accounting of ONE session: UsageBatcher of                        *)
(* src/consumer/usage_batch.rs, the submission with retries of             *)
(* src/chain/usage.rs and the shutdown of src/main.rs.  Sessions are       *)
(* independent.  Input and output tokens go through the same additions and *)
(* are one number here; the watermarks of a batch are never read.          *)
(*                                                                         *)
(* Tasks that work on the batch at the same time: one add_usage task per   *)
(* metered answer, the sweeper, the chain watcher once the session's funds *)
(* are released, the main task after the servers stopped, and one task for *)
(* each batch submitted without waiting.                                   *)
(***************************************************************************)
EXTENDS Integers, Sequences, FiniteSets

CONSTANTS
  Reports,         \* metered answers, one add_usage task each
  Sizes,           \* per report: the token counts it may carry
  TokenChunk,      \* [settlement].record_usage_token_chunk
  MaxAttempts,     \* MAX_ATTEMPTS of record_usage_with_retry (3)
  MaxUnconfirmed   \* bound: transactions that land but are not confirmed

ASSUME SettlementAssumption ==
  /\ IsFiniteSet(Reports)
  /\ Reports \cap {"sweeper", "watcher", "main"} = {}
  /\ Sizes \in [Reports -> SUBSET Nat]
  /\ TokenChunk \in Nat
  /\ MaxAttempts \in Nat \ {0}
  /\ MaxUnconfirmed \in Nat

VARIABLES
  entry,       \* the session has a SessionBatch
  pending,     \* its pending tokens (0 without an entry)
  due,         \* last_flush_at is at least one flush interval ago
  size,        \* per report: its tokens
  pc,          \* per task: where it is
  flushed,     \* flush_session calls of the watcher that have returned
  batches,     \* submissions in the order they were taken
  recorded,    \* tokens the escrow contract has recorded
  unconfirmed  \* transactions that landed without a confirmation

vars == <<entry, pending, due, size, pc, flushed, batches, recorded, unconfirmed>>

Tasks == Reports \cup {"sweeper", "watcher", "main"}
Chunk == IF TokenChunk < 1 THEN 1 ELSE TokenChunk

Init ==
  /\ entry = FALSE /\ pending = 0 /\ due = FALSE
  /\ size = [r \in Reports |-> 0]
  /\ pc = [p \in Tasks |-> CASE p = "main" -> "serving"
                             [] p = "sweeper" -> "asleep"
                             [] OTHER -> "idle"]
  /\ flushed = 0 /\ batches = <<>> /\ recorded = 0 /\ unconfirmed = 0

(* main returns and the runtime drops every other task. *)
Stopped == pc["main"] = "stopped"

-----------------------------------------------------------------------------
(* ensure_session, called by add_usage and by flush_session *)

Ensured(p) == IF pc[p] \in {"addEnsure", "addFetch"} THEN "add" ELSE "take"

EnsureSession(p) ==
  /\ ~Stopped
  /\ pc[p] \in {"addEnsure", "flushEnsure"}
  /\ pc' = [pc EXCEPT ![p] = IF entry THEN Ensured(p)
                             ELSE IF @ = "addEnsure" THEN "addFetch"
                             ELSE "flushFetch"]
  /\ UNCHANGED <<entry, pending, due, size, flushed, batches, recorded, unconfirmed>>

(* The chain read may fail; or_insert_with keeps an entry that appeared.   *)
FetchSession(p) ==
  /\ ~Stopped
  /\ pc[p] \in {"addFetch", "flushFetch"}
  /\ \E ok \in BOOLEAN : entry' = (entry \/ ok)
  /\ pc' = [pc EXCEPT ![p] = Ensured(p)]
  /\ UNCHANGED <<pending, due, size, flushed, batches, recorded, unconfirmed>>

-----------------------------------------------------------------------------
(* add_usage *)

(* record_parsed_usage spawns add_usage, which ignores an empty report. *)
Report(r, n) ==
  /\ pc[r] = "idle" /\ pc["main"] = "serving"
  /\ size' = [size EXCEPT ![r] = n]
  /\ pc' = [pc EXCEPT ![r] = IF n = 0 THEN "done" ELSE "addEnsure"]
  /\ UNCHANGED <<entry, pending, due, flushed, batches, recorded, unconfirmed>>

(* Sensitivity: flush only once the chunk is exceeded. *)
AddUsageLate(r) ==
  /\ ~Stopped
  /\ pc[r] = "add"
  /\ IF entry
       THEN /\ pending' = pending + size[r]
            /\ pc' = [pc EXCEPT ![r] = IF pending' > Chunk THEN "flushEnsure" ELSE "done"]
       ELSE pc' = [pc EXCEPT ![r] = "lost"] /\ UNCHANGED pending
  /\ UNCHANGED <<entry, due, size, flushed, batches, recorded, unconfirmed>>

(* The locked section; without an entry the report is dropped. *)
AddUsage(r) ==
  /\ ~Stopped
  /\ pc[r] = "add"
  /\ IF entry
       THEN /\ pending' = pending + size[r]
            /\ pc' = [pc EXCEPT ![r] = IF pending' >= Chunk THEN "flushEnsure" ELSE "done"]
       ELSE pc' = [pc EXCEPT ![r] = "lost"] /\ UNCHANGED pending
  /\ UNCHANGED <<entry, due, size, flushed, batches, recorded, unconfirmed>>

-----------------------------------------------------------------------------
(* flush_session: forced for everybody but add_usage, awaited by main *)

(* Where the caller goes on.  The watcher calls force_flush and then       *)
(* remove_session, which flushes again before it removes.                  *)
Return(p) ==
  /\ pc' = [pc EXCEPT ![p] = CASE p = "sweeper" -> "asleep"
                               [] p = "main" -> "exit"
                               [] p = "watcher" -> IF flushed = 0 THEN "flushEnsure"
                                                                  ELSE "remove"
                               [] OTHER -> "done"]
  /\ flushed' = IF p = "watcher" THEN flushed + 1 ELSE flushed

Batch(p, n) == [tokens |-> n, awaited |-> p = "main", attempt |-> 1, state |-> "sending"]

(* Sensitivity: the batch takes one chunk and forgets the rest. *)
TakeChunk(p) ==
  /\ ~Stopped
  /\ pc[p] = "take"
  /\ IF \/ ~entry \/ pending = 0
        \/ p \in Reports /\ pending < Chunk /\ ~due
       THEN Return(p) /\ UNCHANGED <<pending, due, batches>>
       ELSE /\ batches' = Append(batches, Batch(p, IF pending < Chunk THEN pending ELSE Chunk))
            /\ pending' = 0 /\ due' = FALSE
            /\ IF p = "main" THEN pc' = [pc EXCEPT ![p] = "await"] /\ UNCHANGED flushed
                             ELSE Return(p)
  /\ UNCHANGED <<entry, size, recorded, unconfirmed>>

(* The locked section that takes the pending tokens, and the start of      *)
(* their submission: awaited, or in a task nobody joins.                   *)
TakeBatch(p) ==
  /\ ~Stopped
  /\ pc[p] = "take"
  /\ IF \/ ~entry \/ pending = 0
        \/ p \in Reports /\ pending < Chunk /\ ~due
       THEN Return(p) /\ UNCHANGED <<pending, due, batches>>
       ELSE /\ batches' = Append(batches, Batch(p, pending))
            /\ pending' = 0 /\ due' = FALSE
            /\ IF p = "main" THEN pc' = [pc EXCEPT ![p] = "await"] /\ UNCHANGED flushed
                             ELSE Return(p)
  /\ UNCHANGED <<entry, size, recorded, unconfirmed>>

Settled(b) == b.state # "sending"

AwaitChain ==
  /\ pc["main"] = "await"
  /\ \A i \in DOMAIN batches : batches[i].awaited => Settled(batches[i])
  /\ Return("main")
  /\ UNCHANGED <<entry, pending, due, size, batches, recorded, unconfirmed>>

(* A failed attempt is repeated up to MAX_ATTEMPTS, then given up. *)
Retry(b) ==
  IF b.attempt < MaxAttempts THEN [b EXCEPT !.attempt = @ + 1]
                             ELSE [b EXCEPT !.state = "dropped"]

(* Sensitivity: the retry loop does not return on success. *)
SubmitWithoutReturn(i) ==
  /\ ~Stopped
  /\ ~Settled(batches[i])
  /\ \/ /\ batches' = [batches EXCEPT ![i] = Retry(@)]
        /\ recorded' = recorded + batches[i].tokens
     \/ /\ batches' = [batches EXCEPT ![i] = Retry(@)]
        /\ UNCHANGED recorded
  /\ UNCHANGED <<entry, pending, due, size, pc, flushed, unconfirmed>>

(* One attempt of record_usage: confirmed, not sent, or recorded by the    *)
(* chain while the wait for its confirmation failed.                       *)
Submit(i) ==
  /\ ~Stopped
  /\ ~Settled(batches[i])
  /\ \/ /\ batches' = [batches EXCEPT ![i].state = "recorded"]
        /\ recorded' = recorded + batches[i].tokens
        /\ UNCHANGED unconfirmed
     \/ /\ batches' = [batches EXCEPT ![i] = Retry(@)]
        /\ UNCHANGED <<recorded, unconfirmed>>
     \/ /\ unconfirmed < MaxUnconfirmed
        /\ batches' = [batches EXCEPT ![i] = Retry(@)]
        /\ recorded' = recorded + batches[i].tokens
        /\ unconfirmed' = unconfirmed + 1
  /\ UNCHANGED <<entry, pending, due, size, pc, flushed>>

-----------------------------------------------------------------------------
(* Sweeper, watcher, main *)

(* The flush interval passes. *)
Elapse ==
  /\ ~Stopped
  /\ entry /\ ~due
  /\ due' = TRUE
  /\ UNCHANGED <<entry, pending, size, pc, flushed, batches, recorded, unconfirmed>>

(* Sensitivity: the sweeper leaves incomplete chunks to later reports. *)
SweepFullChunks ==
  /\ ~Stopped
  /\ pc["sweeper"] = "asleep"
  /\ entry /\ pending >= Chunk /\ due
  /\ pc' = [pc EXCEPT !["sweeper"] = "flushEnsure"]
  /\ UNCHANGED <<entry, pending, due, size, flushed, batches, recorded, unconfirmed>>

(* sweep_timeouts decides under the lock and flushes after releasing it. *)
Sweep ==
  /\ ~Stopped
  /\ pc["sweeper"] = "asleep"
  /\ entry /\ pending > 0 /\ due
  /\ pc' = [pc EXCEPT !["sweeper"] = "flushEnsure"]
  /\ UNCHANGED <<entry, pending, due, size, flushed, batches, recorded, unconfirmed>>

(* poll_once sees SessionFundsReleased. *)
FundsReleased ==
  /\ ~Stopped
  /\ pc["watcher"] = "idle"
  /\ pc' = [pc EXCEPT !["watcher"] = "flushEnsure"]
  /\ UNCHANGED <<entry, pending, due, size, flushed, batches, recorded, unconfirmed>>

(* The end of remove_session: whatever was added since its flush goes too. *)
RemoveSession ==
  /\ ~Stopped
  /\ pc["watcher"] = "remove"
  /\ entry' = FALSE /\ pending' = 0 /\ due' = FALSE
  /\ pc' = [pc EXCEPT !["watcher"] = "done"]
  /\ UNCHANGED <<size, flushed, batches, recorded, unconfirmed>>

(* Both servers have stopped: flush_all_on_shutdown lists the sessions. *)
Drain ==
  /\ pc["main"] = "serving"
  /\ pc' = [pc EXCEPT !["main"] = IF entry THEN "flushEnsure" ELSE "exit"]
  /\ UNCHANGED <<entry, pending, due, size, flushed, batches, recorded, unconfirmed>>

(* The end of the process. *)
Exit ==
  /\ pc["main"] = "exit"
  /\ pc' = [pc EXCEPT !["main"] = "stopped"]
  /\ UNCHANGED <<entry, pending, due, size, flushed, batches, recorded, unconfirmed>>

TaskStep(p) == EnsureSession(p) \/ FetchSession(p) \/ TakeBatch(p)

Terminated == Stopped /\ UNCHANGED vars

Next ==
  \/ \E p \in Tasks : TaskStep(p)
  \/ \E r \in Reports : AddUsage(r)
  \/ \E r \in Reports : \E n \in Sizes[r] : Report(r, n)
  \/ \E i \in DOMAIN batches : Submit(i)
  \/ AwaitChain \/ Elapse \/ Sweep \/ FundsReleased \/ RemoveSession
  \/ Drain \/ Exit \/ Terminated

Spec == Init /\ [][Next]_vars

(* Tasks are scheduled, the sweeper wakes up, the interval passes and an   *)
(* RPC call returns.  No report, release or shutdown is owed.              *)
FairSpec ==
  /\ Spec
  /\ \A p \in Tasks : WF_vars(TaskStep(p))
  /\ \A r \in Reports : WF_vars(AddUsage(r))
  /\ \A i \in 1 .. Cardinality(Reports) :
       WF_vars(i \in DOMAIN batches /\ Submit(i))
  /\ WF_vars(Elapse) /\ WF_vars(Sweep)

-----------------------------------------------------------------------------
(* Every variable has its type. *)
TypeOK ==
  /\ entry \in BOOLEAN /\ due \in BOOLEAN
  /\ pending \in Nat /\ recorded \in Nat
  /\ ~entry => pending = 0 /\ ~due
  /\ size \in [Reports -> Nat]
  /\ pc \in [Tasks -> {"idle", "asleep", "serving", "addEnsure", "addFetch",
                       "add", "lost", "flushEnsure", "flushFetch", "take",
                       "await", "remove", "exit", "done", "stopped"}]
  /\ flushed \in 0 .. 2
  /\ unconfirmed \in 0 .. MaxUnconfirmed
  /\ batches \in Seq([tokens : Nat, awaited : BOOLEAN, attempt : 1 .. MaxAttempts,
                      state : {"sending", "recorded", "dropped"}])

(* The sum of f over S, counted out: one pair for each token. *)
Total(f, S) == Cardinality(UNION {{x} \X (1 .. f[x]) : x \in S})

(* On the way to take the pending tokens. *)
Flushing == {"flushEnsure", "flushFetch", "take"}

(* Reports whose tokens were added to the batch. *)
Added == {r \in Reports : pc[r] \in Flushing \cup {"done"}}

Carried == [i \in DOMAIN batches |-> batches[i].tokens]

AddedTokens == Total(size, Added)
BatchedTokens == Total(Carried, DOMAIN batches)

(* Until remove_session has run, every accepted token is either pending or *)
(* in exactly one submission, whichever of the four kinds of flush raced.  *)
EveryTokenAccounted ==
  pc["watcher"] # "done" => pending + BatchedTokens = AddedTokens

(* A session is never charged for more than was reported, as long as no    *)
(* landed transaction went unconfirmed; each one that did charges at most  *)
(* the reported tokens once more.                                          *)
NeverOvercharged ==
  recorded <= AddedTokens * (1 + unconfirmed)

(* A full chunk does not wait for the sweeper: somebody is on the way to   *)
(* take it.                                                                *)
FullChunkIsBeingFlushed ==
  (entry /\ pending >= Chunk) =>
    \E p \in Tasks : pc[p] \in Flushing

(* Nothing is left to do for a session: no tokens pending, no submission   *)
(* under way.                                                              *)
Drained == pending = 0 /\ \A i \in DOMAIN batches : Settled(batches[i])

(* All accepted tokens went into submissions, and those have ended. *)
AllSubmitted == Drained /\ BatchedTokens = AddedTokens

(* While the router runs, pending tokens are submitted and the submission  *)
(* ends, even if no later report fills the chunk.  Once the session has    *)
(* been removed, only what is pending counts: what was added between the   *)
(* last flush of remove_session and the removal itself is discarded        *)
(* (ReleasedUsageIsSubmitted).                                             *)
UsageIsSubmitted ==
  pending > 0 ~> \/ Stopped
                 \/ AllSubmitted
                 \/ pc["watcher"] = "done" /\ Drained

-----------------------------------------------------------------------------
(* Strengthenings that make the invariants inductive (UsageProofs) *)

(* Whatever remove_session took away, no more is pending and batched than  *)
(* was added; and the chain recorded the confirmed batches once, and at    *)
(* most everything once more for each transaction that went unconfirmed.   *)
Confirmed == {i \in DOMAIN batches : batches[i].state = "recorded"}

TokenInv ==
  /\ pending + BatchedTokens <= AddedTokens
  /\ recorded <= Total(Carried, Confirmed) + unconfirmed * AddedTokens

(* The watcher flushes twice before it removes the session. *)
WatcherInv == pc["watcher"] \in Flushing \cup {"idle"} => flushed <= 1

-----------------------------------------------------------------------------
(* Statements of the documentation that the code does not keep. *)

(* src/consumer/usage_batch.rs:171, "Flush every session with pending      *)
(* usage; awaits on-chain submission (shutdown path)", and src/main.rs:167 *)
(* "draining WIP token usage to chain before exit": the process does not   *)
(* exit while accepted tokens are pending or being submitted.              *)
DrainedOnExit == Stopped => Drained

(* src/consumer/usage_batch.rs:1, "Per-session accumulation and batched    *)
(* flush to `recordUsage` on-chain": every accepted token is pending or in *)
(* a submission, after the release of the session's funds too.             *)
ReleasedUsageIsSubmitted == pending + BatchedTokens = AddedTokens
=============================================================================
