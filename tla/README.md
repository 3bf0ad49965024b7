# TLA+ verification of sparkl-router

sparkl-router is a gateway between consumers of language models and the nodes
that serve them. A node keeps one WebSocket *tunnel* open to the router;
consumers call an OpenAI-compatible HTTP API; the router checks the consumer's
session with an escrow contract on chain, admits the request, forwards it
through the tunnel, streams the answer back, counts its tokens and records them
on chain in batches. It is one Rust process on the multi-threaded tokio
runtime: everything below runs concurrently, and any handler can be cancelled
at any `await` because its client went away.

Paths such as `src/capacity/mod.rs` are relative to the root of the repository.

## 1. Inventory

| component | state | operations | interacts with |
|---|---|---|---|
| admission control (`src/capacity/mod.rs`) | a slot per (node, model): `active_requests`, `queued_requests`, a `Notify` | `acquire`, drop of the guard, `snapshot`, `clear_node` | `chat_completions` acquires; the end of a tunnel clears; catalog gives the limit |
| tunnel connections (`src/tunnel/connect.rs`, `registry.rs`, `src/state.rs`) | registry entry per node, `NodeTunnel` | handshake, takeover, insert, Ready, online event | lifecycle, catalog refresh, telemetry |
| tunnel lifecycle (`src/tunnel/lifecycle.rs`) | writer, pinger and reader task, outbound channel of 256, shutdown channel of 1, `last_pong_at` | ping, pong check, dispatch of frames, cleanup | registry, catalog, capacity, pending requests |
| request dispatch (`src/tunnel/dispatch.rs`) | `pending` map, one bounded channel per request | `register_pending`, `route_inbound`, `fail_all_pending`, `PendingCleanup` | reader task on one side, handlers on the other |
| answers to consumers (`src/consumer/forward.rs`, `sse.rs`) | collected body, or bridge task + second channel + response body, `SseStreamCompletion` | collect, stream, time out, cancel, complete | admission, dispatch, usage batcher |
| model catalog (`src/consumer/models.rs`) | `by_node`, `union`, `offerings`, a lock each | `upsert_node`, `remove_node`, `rebuild_union`, lookups | tunnels write it, requests read it |
| usage batcher (`src/consumer/usage_batch.rs`, `src/chain/usage.rs`) | `SessionBatch` per session | `add_usage`, `flush_session`, sweep, remove, shutdown drain, submission with retries | completions, sweeper, watcher, `main` |
| session cache and watcher (`src/chain/mod.rs`, `watcher.rs`, `session.rs`) | cached sessions with a TTL, `last_block` | `get_session`, `warm_session`, `evict_session`, `poll_once` | middleware, batcher, chain RPC |
| session check (`src/consumer/middleware.rs`, `bearer.rs`) | none | `require_v1_session` | session cache |
| process (`src/main.rs`, `routes.rs`, `admin.rs`) | servers, background tasks | start, graceful shutdown, drain | key bootstrap, batcher |
| key bootstrap (`src/chain/record_usage_key.rs`) | the signing key, its file, the role and balance of its address on chain | load or generate, persist, register the role, fund it | `main`, the escrow contract, `scripts/set-record-usage-role.sh` |
| metering parser (`src/consumer/metering.rs`) | text of an answer so far | scan it for usage and receipts, inject `stream_options` | stream body, completions |
| telemetry and subscriptions (`src/telemetry`, `src/status`) | broadcast channel of 256, one receiver per subscriber | emit, subscribe, snapshot, receive, lag | `chat_completions`, tunnels, capacity |
| activation (`src/consumer/activate.rs`) | none | check the session, forward, wait for the key | session cache, dispatch |
| offerings (`src/consumer/offerings.rs`, `catalog.rs`) | none (reads the catalog) | filters, status overlay | catalog, registry, capacity |
| node authentication (`src/node_auth.rs`, `protocol.rs`), configuration and metrics | per-call or read-only data | — | — |

What is hard here, and hardly reached by the repository's tests:

* **Identity reuse.** Capacity slots and registry entries are looked up by key
  again when they are released, by tasks that began with an older object.
* **Cancellation.** A future dropped between an increment and its decrement, a
  response body dropped before its last frame was read.
* **Bounded channels.** Three of them on the way of one frame, with `try_send`
  on one and waiting `send` on the others.
* **Check and use apart.** A tunnel taken from the registry before it fails, a
  model list fetched before a disconnect, a session read before its release, a
  model found in the union and its limit looked up elsewhere.
* **Several flushers** of one batch, and a transaction that lands although its
  confirmation failed.
* **Snapshot and stream.** A subscriber gets a snapshot and then events; changes,
  reports of changes and both halves of the snapshot interleave.
* **Crashes during start.** A key is generated, written, registered on chain and
  funded in steps, and a later start has to make sense of what it finds.

`PROJECT.json` lists each of these, at its line, under `hazards`.

What makes each component correct:

* admission: the counters are exact, nobody is admitted over the limit, no
  wake-up is lost, every call returns;
* tunnels: the registry names only live tunnels, a signalled or dead tunnel
  leaves it, no gone node is shown online, a silent node is found out and one
  that answers is kept;
* forwarding: bodies without gaps, every pending entry held by a request that
  has not ended, one completion, no metering of undelivered text, nobody whose
  entry a disconnect took hangs;
* catalog: the derived tables follow `by_node`;
* batcher: every token in exactly one place, nothing charged beyond the reports
  but by transactions that landed unconfirmed, everything submitted in the end
  that its session did not take along;
* watcher: no block skipped, none handled twice, evicted sessions stay out;
* telemetry: no reported change is lost between snapshot and stream, a gone node
  is not left online, a laggard catches up;
* bootstrap: no key is appointed that was never on disk, the router keeps its
  identity through crashes, a batcher signs with the key that holds the role, a
  start succeeds again unless the key file or a setting is wrong for good;
* metering: what is charged does not depend on how the answer was cut.

## 2. Modules

Each component module models **one** instance of the thing that is keyed in the
program (one (node, model), one node, one tunnel, one session): the program
treats keys independently. Operators introduced by a comment `Sensitivity:` are
not part of any specification; each is a plausible mistake in the operator that
follows it, and shows that the properties notice it.

### Capacity (`src/capacity/mod.rs`)

One action per atomic operation: `LoadActive`, `CasActive`, `LoadQueued`,
`CasQueued`, `CasFails` (contention, or the spurious failure of the weak form),
`PollNotified`, `Resume`, `WaitTimeout`, `Dequeue`, `Release`, `ReleaseNotify`.
`Cancel` drops the future at its only await. The `Slot` objects a key had over
time are numbered, because `acquire` keeps its `Arc` while `release_inner`
looks the key up again and `ClearNode` unmaps it in between. `Notify` is
external: a FIFO of registered futures and one stored permit; a dropped
notified future passes its notification on. Counters wrap at `U32`. The
decrement and the notification of a release are two steps under the shard lock
of the map, which is why `ClearNode` cannot come in between.

`Admission` is the abstract specification: a semaphore whose limit is the
argument of each call, void once the counters were forgotten. The refinement
mapping (`Stage`, `conc`, `clears > 0`) sends every program counter to the stage
of the request; loads, failed exchanges, the queue and the wake-ups are stutter.

### Tunnel (`connect.rs`, `lifecycle.rs`, `registry.rs`)

All connections of one node, from handshake to cleanup, with the steps of
`handle_node_connect` (`Handshake`, `ReplaceOld`, `Insert`, `SendReady`,
`Announce`), of the reader loop (`Pong`, `SignalShutdown`, `ExitLoop`) and of the
cleanup (`Unregister`, `RemoveModels`, `EmitOffline`) as separate actions:
other connections interleave between any two. All checks of the handshake are
one verdict, since none of them changes shared state. `refresh_tunnel` is a
task of its own that fetches and later inserts, and a connection may have
several: one starts when it is announced, the first pong always starts another
(`last_models_refresh_at` is still 0), a later pong may. `MaxRefreshes` bounds
how many are outstanding at a time. Model objects are taken to be well-formed:
Catalog says what a malformed one does to `remove_node`.

### Keepalive (`lifecycle.rs`, `state.rs`)

The pinger, writer and reader of one tunnel in whole seconds, as the code
compares them. The outbound channel is shared with forwarded requests and
bounded; the frame in the writer's hand counts as still in the channel. The
writer may fail, the pinger then ends without telling anybody, and the reader
may be busy answering a WebSocket ping. Nothing is assumed about the peer: it
may stop reading, stop answering, or both.

### Forward (`dispatch.rs`, `sse.rs`, `forward.rs`, `activate.rs`, `models.rs`)

One tunnel and the requests through it, of the four kinds that share its
pending map: chat completions collected and streamed, activations, and fetches
of the node's model list. Frames are numbers in the order the node sends them.
Usage is what the code finds of it: in a stream, the chunks of `Receipts` report
usage, and what was found by the last of them is billed at the end frame, but
also after an error, a time-out or a cut; a collected body parses, and so has
usage, only when it is whole. All but streams read their channel directly, a
stream goes through a bridge task and a second channel, and its body advances
when the client reads. `FailAllPending` may come
from the end of the tunnel or from the connection that takes over;
`DropWriter` is the moment the aborted writer really is gone. `Cancel` is the
client leaving, at every await or yield.

`Answers` is the abstract specification: chunks in order, one verdict that
nothing follows, and at most one bill, for chunks that were given, and for none
if the answer was abandoned. The refinement mapping keeps body and verdict and
reads the bill off `calls` and `metered`; frames, channels, the pending map and the bridge stutter.

### UsageBatch (`usage_batch.rs`, `chain/usage.rs`, `main.rs`)

One session and everybody who works on its batch: an `add_usage` task per
metered answer, the sweeper, the watcher, `main` at shutdown, and a submission
per batch taken. A locked section is one action. `Submit` is one attempt:
confirmed, failed, or landed without confirmation. `Exit` ends the process and
with it every task that nobody joined. Input and output tokens go through the
same additions and are one number.

### SessionCache (`chain/mod.rs`, `chain/session.rs`, `watcher.rs`, `middleware.rs`, `usage_batch.rs`)

One session, the blocks of the chain in which it is opened and released, and
the tasks that read it: requests, refreshes after a flush, and the watcher
with its polls that may fail at each RPC call. A read and the insertion of what
was read are two steps.

### Catalog (`models.rs`, `forward.rs`)

`by_node`, `union` and `offerings` with their locks, concurrent updates of
several nodes, and requests that look a model up in the union and its limit in
`by_node`. `Merge` and `Flatten` are `rebuild_union` as functions. A model
object whose `sparkl` is no object makes `merge_model_entry` panic if it is the
first of its model in the order of the `HashMap` (`Panic`): `by_node` has it,
union and offerings stay as they were, and so does every later rebuild that
meets it first.

### Telemetry (`telemetry/mod.rs`, `status/subscribe.rs`, `forward.rs`, `connect.rs`, `lifecycle.rs`)

The handler of a chat completion from lookup to last event over the semaphore of
`Admission` (an INSTANCE), the node's connection as far as it sends events, the
broadcast channel and a subscriber's task. The channel keeps the last `Cap`
events for each receiver and tells one that fell behind. Changes of the counters
are numbered, and a reading is the number of the last change it contains, so
that "older than" can be said: `emit_model_capacity` reads in one step and sends
in another. A snapshot reads the registry, then the counters, then is sent.
Connections of the node follow one another here; Tunnel has the ones that
overlap.

### KeyBootstrap (`record_usage_key.rs`, `main.rs`, `chain/usage.rs`, `scripts/set-record-usage-role.sh`)

A start of the router step by step: configuration, key file or new key; write
(`fs::write` truncates, then fills: `OpenFile`, `WriteFile`); read the role, set
it, await one confirmation; read the balance, top up, await; build the usage
batcher if the role is the key's; bind. Every step may fail as the code lets it
(an error ends the process, a warning goes on), the process may die between any
two, and what it sent stays in the pool and is mined in the order it was sent,
whenever the chain likes. A setting may also be wrong for good, and then fails
every start at the step that uses it: a configured key that does not parse, an
owner key that does not parse, is not the registry owner's or has no ETH,
`escrow_contract`, `rpc_url` or a bind address of no use; or the escrow contract
is zero or has no `recordUsageRole`, and the router runs without a batcher. The
operator may edit the configuration between starts and run the script at any
time, for the address in the file or for one he names with `--role-address`
(`named` remembers those). Nobody else calls `setRecordUsage`: an owner who does
it by hand is a run of the script with that option. The disk keeps what a dead
*process* wrote; a crash of the machine is not modelled.

### Metering (`metering.rs`, `sse.rs`)

The text of a streamed answer as a sequence of pieces, five for an event, and
`iter_sse_event_values` as what `split("data:")` and the first line of each
segment do to it. The chunks that cut the text are arbitrary. `Extract` is
checked against `Reported`, which reads the events themselves.

The modules meet at named points: `Tunnel!Unregister` includes
`Capacity!ClearNode`; `Tunnel!ExitLoop` and `ReplaceOld` include
`Forward!FailAllPending`; `Tunnel!UpsertModels` and `RemoveModels` are the
updates of `Catalog`; `Keepalive` says when `Tunnel!SignalShutdown` happens;
`Forward!Fire` leads to `UsageBatch!Report`; `SessionCache!Evict` follows
`UsageBatch!RemoveSession`; `Catalog!ConcurrencyFor` is the argument of
`Capacity!Acquire`; Telemetry runs on the semaphore that Capacity implements;
`Metering!Complete` is what `Forward!Fire` hands on as usage; a batcher of
UsageBatch exists when `KeyBootstrap!BuildBatcher` made one.

## 3. Runs

| run | instance | shows |
|---|---|---|
| `capacity` | 3 requests, limits 0, 1 and 2, counters modulo 4, 1 disconnect, 1 cancellation | exact counters, admission within the limit, no sleeper beside an idle slot, `acquire` returns without its timer, the semaphore is implemented |
| `tunnel` | 2 connections, 2 refreshes at a time | the registry never names a finished tunnel, the last event of a gone node is not online, signalled tunnels close, dead ones are unregistered |
| `keepalive` | interval 3 s, timeout 1 s, channel of 2, 14 s | silence of a node is bounded by two intervals and a timeout; a node is given up only with a ping unanswered or the writer gone |
| `forward` | a collected beside a streamed completion, or an activation beside a fetch, 2 chunks that both report usage, channels of 1 | prefix bodies, owned entries, one completion, metering of what was delivered and no more or less, a disconnect is noticed, the promise of Answers is kept |
| `usage` | 2 reports (1; 0 or 2 tokens), chunk 2, 2 attempts, 1 unconfirmed transaction | token conservation, no charge beyond the reports but by unconfirmed transactions, full chunks flushed, everything submitted that is not removed with its session |
| `session` | 1 request, 1 flush, blocks 2 to 5 | no skipped block, no double handling, evicted sessions stay out, releases get handled |
| `catalog` | 2 nodes, 1 model, 2 well-formed and 1 malformed object, 3 updates, 1 request | derived tables are current when no rebuild runs and no malformed object is left |
| `telemetry` | 2 requests (one streams), limit 1, 1 subscriber, channel of 2, 1 connection, 1 pong | every reported change is told, no gone node online, a laggard catches up |
| `bootstrap` | 2 generated and 2 configurable keys, one of which may be named to the script, all 72 configurations, 2 faults, 1 change of the configuration, the script when no transaction is pending | appointed keys were durable, one identity, the batcher holds the role, the router gets up again unless the file is torn or a setting is wrong |
| `metering` | all answers of 1 or 2 events, 2 usages, 2 receipts, all chunkings | the usage held is that of the complete events; a finished stream is metered |
| `capacity_wrap`, `tunnel_takeover` | the smallest that shows it | a statement of the documentation that the code does not keep (section 5) |

The bounds are chosen for the interesting cases. Three requests under limits 1
and 2 give one running, one queued and one refused, and two running beside a
sleeper; modulus 4 is reached by a decrement below zero. Two connections are
enough for a takeover and for two handshakes that race. Fourteen seconds hold
four ticks of the pinger, so a missed check and its consequences fit. Channels
of one overflow after one frame. Reports of 1, 0 and 2 tokens with a chunk of 2
give a partial chunk, an empty report, an exact chunk and more than one. Four
blocks hold a failed poll, a block that arrives in the middle of it, an opening
and a release. Three updates of two nodes overlap in every order, and one is
queued behind the other two. Two requests under limit 1, their four reports, a
pong and the events of a connection are more than a channel of two holds, so the
subscriber lags, and its snapshot falls between any two of them. Two faults are
a crash and a failed confirmation in one history; one edit changes the key while
a transaction for the old one is still in the pool, and a named address competes
with the router's own. Two refreshes are the one of the connection and that of
its first pong. With usage in both chunks, a stream that breaks after the first
is billed for part of its answer. Two
events give a usage and a later one, a smaller and a larger receipt. Every bound is a CONSTANT. No run uses symmetry:
the ones with liveness could not, and the others do not need it. Deadlock is
checked in every run: each module has one action for "nothing is left to do"
(`Quiescent`, `AllOver`, `Over`, `AllDone`, `Terminated`, `Finished`, `Idle`), so a
state in which somebody waits for nobody is an error. SessionCache needs none,
its watcher polls for ever, and neither does KeyBootstrap, which starts again.

Fairness:

* `Capacity!FairSpec`: tasks are scheduled, a weak exchange that is possible
  again and again succeeds (strong fairness; the hardware fails it only
  spuriously), an admitted request ends (its upstream timeout bounds it). None
  on `WaitTimeout`, `Cancel`, new requests or disconnects.
* `Tunnel!FairSpec`: tasks are scheduled once their handshake has been received;
  nothing about nodes and networks. It takes for granted that a reader comes
  back to its `select!`, that is, that the socket of a peer that stopped
  reading fails at some time; Keepalive does not.
* Keepalive's run assumes none. `PingerFairSpec` is for a statement of section
  5: `select!` polls its branches in random order, so a reader that keeps
  returning to it sees the signal, and one that waits for the write half gets it
  once the writer is gone; that a peer reads its socket is not assumed.
* `Forward!FairSpec`: tasks run and the client reads; no timer.
* `UsageBatch!FairSpec`: tasks are scheduled, the interval passes, the sweeper
  wakes up, an RPC call returns. No report, release or shutdown is owed.
* `Telemetry!FairSpec`: the subscriber's task is scheduled and its peer reads;
  nothing about requests and nodes.
* `KeyBootstrap!FairSpec`: the process takes its steps, a router that ended is
  started again (by its operator or supervisor), the chain mines. `MaxFaults`
  bounds the failures that depend on no setting (crashes, lost connections, a
  full disk), so a start that is repeated meets its last one; those that a
  setting causes are not bounded and are named in `Obstructed`.
* `SessionCache!FairSpec`: the watcher wakes up, and calls that are made again
  and again do not fail for ever.

## 4. Proofs

Proved by TLAPS for every value of the constants that satisfies the named
assumptions of the modules.

**CapacityProofs** (`ConstantsAssumption`: finitely many requests, limits below
the modulus). `TypeOK` is not inductive: a decrement stays in range by
wrapping, but an increment needs to know that the loaded value is below the
limit (`SeenInv`), waking up needs to know that registered futures are exactly
those of sleeping requests, each once (`WaitInv`), and everything needs slot
pointers to point to objects that exist (`SlotInv`). `IInv` is their
conjunction, and `IInvNext` its preservation, one step per action. On top:

* `QueueCounted`: the queue counter of each slot object is the number of callers
  between their increment and decrement, and keeps to the largest depth. The
  invariant is itself inductive given `IInv`; cardinality facts come from
  `FiniteSetTheorems`.
* `ActiveCounted`, `Admission`: while no slot was cleared, the active counter is
  the number of guards, so the exchange admits within the limit. The
  strengthening `OneSlotInv` says that before the first `clear_node` every
  request uses the mapped object. The condition `clears = 0` is needed:
  section 5 shows what happens after.
* `NoLostWakeup`: nobody sleeps on an idle slot object unless somebody is on the
  way to take its place or to notify. A request that found the model full sleeps
  only several steps later, so the invariant is not inductive; `WakeInv` says it
  of everybody on the way to sleep (`Sleepy`), for whom the stored permit also
  counts, and that a permit is stored only while nobody is registered.
  `NotifyOneWakes` and `DropNotifiedWakes` are the two lemmas about tokio's
  `Notify`: a notification, and the drop of a notified future, each leave either
  a woken request or a permit.
* `SemaphoreImplemented`: Capacity implements Admission, step by step: an
  exchange that succeeds is `Admit` because `ActiveCountsGuards` makes the
  counter the number of requests with a place, a release is `Leave`, refusal,
  time-out and cancellation are `TurnAway`, everything else stutters.

**TunnelProofs** (`NoneAssumption`), for any number of connections:
`NoZombieEntry` (inductive with `TypeOK`) and `NoPhantomOnline`, through
`OnlineHasCleanup`: while the last event is "online" there is a connection that
has still to report "offline". For Keepalive (`TimingAssumption`), for every
interval, timeout and capacity: `SilentNodeFound`, through `NextCheckInTime`: the
pinger's next check is at most two intervals and one timeout after the last
pong, because a tick either finds the silence within one interval and one
timeout or ends the tunnel. `AnsweringNodeKept` is the action property
`SilentMeansUnanswered`, through `AnsweredIsFresh`: if every ping of the pinger is
answered, its next check is at most one interval after the last pong, and the
check allows one timeout more.

**SessionCacheProofs** (`ChainAssumption`): `NeverHandledTwice` and `NoGap`
through `WatchInv`, which places `last_block` below the poll in progress and
relative to the release; `NoGap` assumes `StartHead >= 2`, that is a router
started on a chain with at least two blocks after genesis (section 5 says what
happens otherwise). `ForgottenForGood` is the action property `StaysForgotten`.

**CatalogProofs** (`CatalogAssumption`), for any nodes, models and updates:
`CatalogCurrent`, through `RebuildInv`: a rebuild holds the read lock from its
merge to its last write, so what it publishes is current, and whatever is out
of date has a rebuild still to come or a malformed object in `by_node`.

**ForwardProofs** (`SizesAssumption`), for any requests and mixes of kinds, any
number of chunks and any capacity of the channels. `ForwardInv` holds of each
request alone, and its parts are needed for different theorems:

* `Control` says where a request has nothing yet and who still looks after it;
  `PendingOwned` is read off it and off `Unasked`: what is in the pending map of
  a tunnel that failed came too late to be sent. (Owned does not mean that the
  owner will get to remove it: section 5, `EntryEndsWithUpstream`.)
* `Completion` ties the number of completions to the `fired` flag, and says that
  a stream which ended without it was never sent; this is `CompletedOnce`.
* `Order` is behind `PrefixDelivered`: the frames between bridge and body, the
  one the bridge task holds, those in the channel and the node's next one are
  numbered without a gap from the end of the body (`InOrder`), as long as the
  entry is in the pending map; a full channel removes the entry, which is why
  what was dropped is never followed by anything.
* `Metered` closes `MeteredIsDue`: a metered body does not grow any more, and
  the last usage found in a stream is that of all its chunks (`UsageIsDue`).

`TypeCorrect` includes that no channel exceeds its capacity.

`AnswersImplemented`: Forward implements Answers. Each step of a request does one
of four things to its answer (`OwnAnswer`): nothing, one more chunk, the verdict,
or the bill. That a chunk is the next one follows from `Order` after the step;
that a bill is for chunks that were given, from `UsageIsDue`; that a verdict is not revised needs `EndedInv`: a request has its
verdict exactly when its loop has ended, and an abandoned one is over.

**UsageProofs**, for UsageBatch (`SettlementAssumption`), for any finite set of reports of
any sizes, any chunk size and number of attempts. `Total` counts tokens out as
pairs, so that sums are cardinalities of disjoint sets: adding a report, taking
a batch and confirming it each need one lemma and no induction.

* `TokensAccounted`: each locked section moves tokens between `pending`, one
  batch and the reports already added; inductive given `TypeOK`.
* `ChargedWithinReports` needs `TokenInv`: after `remove_session` the balance
  holds as an inequality only, and `recorded` is bounded by the confirmed
  batches plus once everything for each unconfirmed transaction.
* `FullChunksFlushed`: the task that fills the chunk goes on to flush, and nobody
  else's flush leaves a full chunk behind; inductive given `TypeOK`, which itself
  needs `WatcherInv`: the watcher flushes twice before it removes the session.

and for Metering (`MeteringAssumption`), for answers of any length and any way to
cut them:

* `ChunkingIsIrrelevant`: after each chunk the router holds the usage of the
  events that are complete. This needs no induction over the text: it is a
  function of positions, so lemmas say after which `data:` the scan finds an
  object (`FirstData`, `QuotedData`) and hence that it finds the complete events
  (`ObjectsAre`), whose usage is the reference (`ScanIsReference`). The latest
  usage and the largest receipt are maxima of finite sets, which exist because
  the strict subset order on a finite set is well-founded (`MaxOf`). A chunk
  without news must not hide an earlier usage: `NothingEarlier`.
* `FinishedIsMetered` needs `CompletionInv`: a completion is called with the usage
  held last, whether or not it scans the text once more.

**TelemetryProofs** (`TelemetryAssumption`), for any requests, connections,
pongs, subscribers and capacity of the broadcast channel.

* `GoneIsLearned`: the property speaks of a subscriber with an empty queue.
  `GoneInv` says it of every subscriber that lost nothing: while the node is
  away, the last word on it among the view and the queue is not "online".
  `Unopened` gives a new subscription its blank start.
* `NoChangeIsLost`: `CountInv` says that a subscriber that lost nothing was told
  counters as new as the latest change that is to be reported, has them in its
  queue, or somebody is about to read the counters or to send a reading as new
  (`Due`). The property mentions neither the readings under way nor the queue,
  and is not inductive without them.

**KeyBootstrapProofs** (`KeyAssumption`), for any keys, number of faults, edits
and pending transactions. `KeyInv` relates the key in memory, the file and the
configuration at each step of a start: past the write the file holds the key
(what `persist_key_file` before `setRecordUsage` is for), a start without a
configured key generates one only when there is no file, and with an unchanged
configuration the file is the configured key. `AppointedDurable`,
`IdentityStable` and `BatcherRole` each add what they say to it: everything in
the pool was durable or named with `--role-address`, is the identity or named,
and therefore cannot take the role from a batcher unless it is named. The last
two hold while the configuration is not edited, the last one while no other
address is named; section 5 shows what happens otherwise.

Every strengthening (`WakeInv`, `ForwardInv`, `EndedInv`, `TokenInv`, `WatcherInv`,
`CompletionInv`, `GoneInv`, `CountInv`, `KeyInv` and the ones above) was checked by TLC, with the constants of the component's
run, before it was proved.

Only model-checked: the liveness properties `AcquireReturns`,
`ReplacedTunnelCloses`, `DeadTunnelIsUnregistered`,
`DisconnectIsNoticed`, `UsageIsSubmitted`, `SubscriberCatchesUp`,
`ReleaseIsHandled` and `StartsUnlessObstructed`: they depend on fairness, which the
prover does not handle. Every other property that a passing run checks is a
theorem. Type invariants are proved for all components (as lemmas where they say
nothing else) but Catalog, whose merged loads are sums by a fold, and so a matter of induction over data; a run that has
stronger properties need not check the type invariant as well. That the disagreements of section 5 are real is shown by TLC's
counterexamples.

## 5. Where code and documentation differ

Two differences have a run of their own, with the quotation under `findings`:

| run | statement | what happens |
|---|---|---|
| `capacity_wrap` | `ActiveReturnsToZero` | a guard released after `clear_node` decrements the slot created since, which wraps to its maximum and refuses everything |
| `tunnel_takeover` | `ReconnectIsRegistered` | the cleanup of the replaced tunnel removes its successor from the registry |

The modules state further ones, in their last section. TLC refutes each of them
in a moment, with the module and constants given here and the definition as the
only property:

| statement | instance | what happens |
|---|---|---|
| `Capacity!ConcurrencyEnforced` (`README.md:20`) | as `capacity_wrap`, limit 1 | after `clear_node` a fresh slot admits beside the requests still running |
| `Capacity!QueuedReturnsToZero` (`README.md:20`) | 2 requests, limit 1, no disconnect, 1 cancellation | a caller that leaves while queued keeps its place for good |
| `Capacity!WaitingMeansFull` (`README.md:20`) | 4 requests, limit 2, no disconnect | two notifications merge into one permit and a request waits beside a free place until the next release or its timer |
| `Tunnel!OneTunnelPerNode` (`docs/spec.md:61`) | as `tunnel_takeover` | two handshakes find no old tunnel, both stay connected |
| `Tunnel!NoModelsOfGoneNode` (`src/consumer/models.rs:74`) | 1 connection | a list fetched before the disconnect is inserted after the cleanup |
| `Keepalive!PongWithinTimeout` (`docs/spec.md:123`) | as `keepalive`, `PingerSpec` | silence is compared with interval plus timeout, once per interval |
| `Keepalive!SilentNodeIsClosed` (`docs/spec.md:123`) | as `keepalive`, `PingerSpec` | the pinger waits for room in the channel, or ended with the writer, and no longer looks |
| `Keepalive!TimedOutTunnelCloses` (`docs/spec.md:123`) | as `keepalive`, `PingerFairSpec` | a reader that waits to answer a WebSocket ping on a stalled socket does not see the signal |
| `Forward!SuccessIsWhole` (`docs/spec.md:281`) | as `forward`, `Spec` | an overflowed channel ends the answer early, as a success |
| `Forward!NobodyWaitsOnDeadTunnel` (`docs/spec.md:119`) | as `forward`, `Spec` | a request registered after `fail_all_pending` waits for its timeout instead of a 502 |
| `Forward!EntryEndsWithUpstream` (`src/consumer/sse.rs:133`) | as `forward` | the bridge of a stream registered after `fail_all_pending` waits on a channel whose sender is its own entry: once the client has left, entry and task stay for good |
| `SessionCache!EvictedOnRelease` (`docs/spec.md:162`) | 1 request, no flush, blocks 2 to 5 | a read made before the release is cached after the eviction |
| `Forward!UpstreamEndIsMetered` (`src/consumer/sse.rs:145`) | as `forward`, `Spec`, 1 chunk, channels of 2 | usage the node delivered completely is lost if the client leaves before reading the last frame |
| `UsageBatch!DrainedOnExit` (`src/main.rs:167`) | as `usage`, `Spec` | the process exits while accepted tokens are pending or in a submission nobody awaits |
| `UsageBatch!ReleasedUsageIsSubmitted` (`src/consumer/usage_batch.rs:1`) | as `usage`, `Spec` | tokens added between the watcher's last flush and `remove_session` are dropped with the session |
| `Catalog!UnionIsMerged` (`src/consumer/models.rs:25`) | as `catalog`, 1 update | a malformed model object makes the rebuild panic after `by_node` was written; union and offerings stay old, also for later updates of other nodes, and `remove_node` panics inside the cleanup of another tunnel, whose offline event is then not sent |
| `Catalog!AdmittedUnderDeclaredLimit` (`README.md:20`) | as `catalog`, 1 update | a model known through another node, or removed between the two lookups, is admitted without a limit |
| `Telemetry!ShownCountIsLive` (`README.md:20`) | as `telemetry`, `Spec` | counters read before a change are sent after a newer reading; or an event that is older than the snapshot follows it |
| `Telemetry!AbandonedIsReported` (`README.md:20`) | as `telemetry`, `Spec` | the client of a collected answer leaves, its place is given back and no event says so |
| `Telemetry!ShownStatusIsLive` (`src/tunnel/connect.rs:154`) | as `telemetry`, `Ages = {0}` | a snapshot finds a tunnel whose Ready frame then fails; no offline event follows |
| `Telemetry!LaggardCatchesUp` (`README.md:20`) | as `telemetry`, `Cap = 1`, `MaxPongs = 2` | the offline event is among those a laggard lost, and no new snapshot is sent |
| `KeyBootstrap!OverrideLeavesFile` (`config.example.toml:36`) | as `bootstrap`, `Spec` | a key in the configuration is written over the file |
| `KeyBootstrap!RoleKeyIsKept` | as `bootstrap`, `Spec` | the file that is written over held the only copy of the key that has the role |
| `KeyBootstrap!FileIsWhole` (test `generates_and_reload`) | as `bootstrap`, `Spec` | a process that dies inside `fs::write` leaves a file no later start can parse |
| `KeyBootstrap!BatcherAlwaysHoldsRole` | as `bootstrap`, `Spec` | with the configuration changed between starts, a transaction of an earlier start takes the role away from a running batcher; so does the script with `--role-address` |
| `KeyBootstrap!OneTopUp` | as `bootstrap`, `Spec` | a confirmation fails, the next start finds the old balance and tops up again |
| `Metering!TextDoesNotMatter` (`src/consumer/metering.rs:59`) | as `metering` | `data:` inside the model's words splits its event, whose receipt is then not found |
| `Metering!EveryStreamIsMetered` (`src/consumer/metering.rs:92`) | as `metering` | a client that sent `stream_options` of its own without usage is not metered |
| `SessionCache!NoBlockSkipped` (`src/chain/watcher.rs:1`) | no request, blocks 0 to 4 | `last_block = 0` also means uninitialised; a router started at genesis skips blocks |

## 6. Not modelled

* Text and bytes: JSON, receipts, headers, ABI encoding, signatures, hex. They
  are verdicts or numbers here; Metering models only where the text is split,
  Catalog only whether a model object can be merged.
* What a panic of `rebuild_union` does to its caller: Tunnel and Telemetry take
  model objects to be well-formed, so that their cleanups always reach the
  offline event (section 5, `UnionIsMerged`).
* `query_providers` and its filters, `GET /status` of nodes and models: they read
  the tables once and change nothing; a filter is a conjunction of comparisons.
  Configuration and metrics: constants, and counters no decision reads.
* The shard locks of `DashMap` across awaits: `add_usage` and `flush_session`
  keep a map reference while they wait for a session's mutex, and a writer of
  the same shard then blocks its worker thread. Whether a worker is left that
  can poll the waiting task depends on the run queues of tokio's scheduler.
* A crash of the machine (writes that never reached the disk): the code does not
  call `fsync` and promises nothing there.
* Time, except in Keepalive: timers may fire at any moment, or never. A stalled
  client keeps its guard for as long as it likes; the code has no bound either.

## 7. Plan

Done: ten component modules, two abstract specifications with their refinements
and eight proof modules; every safety property of a passing run is proved.

1. Threads and shard locks of the batcher, given a description of the scheduler.
2. Abstract specifications of the batcher (tokens owed and recorded) and of the
   subscription (the state as its subscriber may see it).
