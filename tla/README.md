# Verification of the AI gateway's backend

TLA+ modules, TLC configurations and TLAPS proofs for `backend/app`, the Quart
server of the AI gateway. The sections below say what the system is made of,
which module models which part, what the runs and the proofs show, and what is
left out and why. Paths are relative to `src/backend/app/` unless they start with
`src/`.

## 1. The system

The gateway gives its clients one API (OpenAI chat and responses, Anthropic
messages, images, videos, audio, embeddings, rerank) over some thirty providers.
It runs as several identical processes that share a SQL database (`ml_` tables),
Redis and a storage backend; one of them is elected leader and runs periodic
services. Inside a process everything is asyncio coroutines on one event loop,
plus a few daemon threads (election, sync, compress).

| component | code | state | operations | talks to |
|---|---|---|---|---|
| background responses | `routes/gateway_responses.py`, `background_response_dao.py` | row in `ml_background_responses`, output file, one coroutine per response | create, worker (resolve, submit, poll, bill, store, mark), GET | gateway service, dao, storage, usage recording |
| background resync | `usagerecord/background_resync_service.py`, `model_classifier.py` | none between cycles; a snapshot during one | scan, examine, check, save, settle | dao, status checker, storage |
| status checker | `usagerecord/task_status_checker.py` | none | ask a provider for a task | providers |
| usage recording, pricing | `usagerecord/usage_service.py` | row in `ml_usage_records` | price, insert, deduct budgets, bump cached counters | cache, budgets |
| usage sync | `usagerecord/sync_service.py`, `stat.py` | counters and `last_stat_id` of `ml_api_keys` | scan, count, commit, reconcile budgets | key lock, cache |
| compression | `usagerecord/compress_service.py` | `last_compress_id`, merged rows | two passes of batches per key | key lock, storage |
| cache, key lock | `cache.py` | Redis or process memory | get, set, increment, lock | all |
| rate limiter | `rate_limiter.py` | one counter per tier and minute | check_and_reserve, reconcile | cache |
| budgets | `budget_manager.py`, `routes/apikeys.py` | budget rows, cached remaining | load, deduct, refill, invalidate | cache, sync |
| election, leader services | `election_service.py`, `__init__.py` | distributed lock, `_is_leader`, three services | heartbeat, acquire, callbacks | sync, compress, resync |
| usage jobs | `arq_client.py`, `arq_worker.py` | job queue in Redis | debounced `request_count + 1` | database |
| QPS limiter, assets | `qps_rate_limiter.py`, `providers/volcengine/asset.py` | time of the next slot | acquire, delete assets | provider |
| gateway service | `middleware/gateway_service.py` | provider instances by id | resolve model, priority, file ids, chat | providers |
| adapters, streaming | `adapters/`, `abstraction/streaming.py` | open items of a stream | chunk to events | routes |
| providers | `providers/` | none, or a task upstream | chat, create task, poll | HTTP client |
| files, storage, users, groups, permissions, monitoring, frontend | | rows, files | CRUD, I/O | |

`PROJECT.json` lists every component with its status and the reason when it is
not modelled, and every hazard found so far at its line.

**What makes it hard.** A response is settled by whoever comes first of a worker
and any number of resync cycles, each of which decided on a read made before
several awaits. A database write of the dao that fails three times returns as if
it had succeeded. Metadata is written by fire-and-forget tasks. Usage records get
their ids before they commit. Cycles of the leader run next to cycles started by
an HTTP request, under a lock that is released before the transaction commits,
that expires after 30 seconds and whose release does not check who holds it.
Counters of a rate limit are read, set and incremented in separate calls, by
requests of several processes that are never serialised; a budget is kept three
times, and every actor writes absolute values computed from what it read before.
The services of the leader are started and stopped by two threads and end by
themselves. A stream ends in four ways, at any chunk, and each family of
providers has its own order of finish, usage and calls.

**What should hold**, by component:

* background responses: settled once; completed only with success and an output;
  billed when delivered; a row a task stands behind is never given up while the
  task runs; nothing stays `in_progress` for ever.
* usage ledger: every request counted once in its key's counters; merging rows
  conserves requests; a dead holder never blocks a key.
* rate limiter: a counter shows what was taken and not given back; no window
  grants more than its limit; a refused request leaves the tiers before the one
  that refused it as it found them.
* budgets: no spending is deducted twice; the three copies agree whenever nobody
  is in the middle of something.
* election: who believes to lead holds the lock; a leader serves, with one loop
  per service; a node that ceases to lead ends its loops; somebody leads.
* streams: items and blocks open, grow and close in order; every piece reaches
  the client once; the usage is billed once, and told once, however a stream ends.

## 2. Modules

### `BackgroundResponse` (detailed) and `ResponseLifecycle` (abstract)

`ResponseLifecycle` is what `GET /v1/responses/<id>` promises: accepted, settled
once, completed only when readable or excused by a known gap. `BackgroundResponse`
models the code. Its state and where it lives:

| variable | code |
|---|---|
| `status`, `hasTask`, `hasProv`, `age`, `born` | the row: `status`, `task_id`, `provider_id`, age classes of `created_at`, insertion order |
| `stored` | the file under `output_key`, by who wrote it last |
| `upstream` | the provider's task. `failed` is the one status the gateway looks for, `stopped` any other end without success |
| `wpc`, `failing`, `hook` | the worker's place between two awaits, whether `final_error` is a text, a scheduled `_on_task_created` write |
| `billed` | `record_stream_usage` was called |
| `rpc`, `todo`, `snap`, `cur` | a resync cycle: place, rows left, its snapshot, the row it is at |
| `blankError`, `noOutput`, `unchecked` | history: responses that hit one of the three gaps |

One action is one stretch of code between two awaits that matter: `Create`
(`openai_responses`), then of the worker `Resolve`, `PersistProvider`, `Submit`,
`Chat`, `PersistMeta`, `PersistUpstreamId`, `Poll`, `FormatAndBill`, `Store`,
`Mark`; `TaskCreated` is the scheduled callback; `Scan`, `Examine`,
`CheckUpstream`, `SaveOutput`, `ResyncSettle`, `EndCycle` are `_do_resync`;
`Crash` and `Cancel` end a worker or a cycle anywhere. Every dao write may be
`Lost`. Crashes, cancels and lost writes share the bound `MaxFaults`.

Abstractions: the row's age has four classes (younger than the scan's cutoff,
than its category's minimum, than 48 hours, older); the clock may move to any of
them at any time. Provider results do not expire once a task has succeeded (the
one mapping that differs, a task the provider no longer knows, counts as
`stopped` when the task ended). Request parsing, formatting, tracing are left out
but for their exceptions. The streaming and foreground paths have no row.

### `UsageLedger`

One API key, its records, sync cycles and compress cycles. Rows and counters are
kept as the requests they add up: `rows[i]` is the set of requests merged into
row `i` (`compressed_count` is its size), `total[q]` says how often request `q`
is part of the counters, which stands for every summed column at once.

| variable | code |
|---|---|
| `next`, `open`, `rows`, `horizon` | `ml_usage_records`: next id, ids in open transactions, committed rows, the last id older than the scan's lookback |
| `total`, `lastStat`, `lastCompress` | the row of `ml_api_keys` |
| `lock` | Redis key `lock:key_sync:<hash>` |
| `spc`, `window`, `ak` | a sync cycle: place, scanned maximum, its ORM copy of the key |
| `cpc`, `range`, `plan` | a compress cycle: place, the range it read, the rows it rewrites |
| `recorded`, `skipped`, `overlapped` | history: committed requests, those still open when a sync counted past them, kinds of cycle that overlapped their own kind |

`Insert`, `CommitRecord`, `AbortRecord` are `_persist_record`; `Scan`, `Load`,
`SyncLock`, `Compute`, `SyncCommit` are `_do_sync`; `CompressLoad`,
`CompressLock`, `CompressRead`, `CompressFlush`, `CompressCommit` are
`_compress_single_key` with its callers, and `Plan` and `Pass` what
`_compress_by_granularity` does to the table; `Expire` and `Overrun` are the time
to live of the lock, `SyncCrash` and `CompressCrash` an exception or a dead
process.

Abstractions: READ COMMITTED (PostgreSQL; the snapshot reads of MySQL's default
level are not modelled). One policy with positive limits. A cycle over several
keys is a cycle of each of them. The overwrite of the cached counters and the
regeneration of a key are left out; the reconciliation of budgets is in `Budget`.

### `RateLimiter`

Requests as coroutines of any processes over the six tiers of
`check_and_reserve`, on counters that live in Redis. What was taken is kept as a
set of units, `<<r, i>>` for the `i`-th token (or the slot) of request `r`, so that
an amount is the size of a set and it is known whose it is.

| variable | code |
|---|---|
| `now`, `live`, `left` | the minute in a key, the keys that exist, their values |
| `stage`, `at`, `owed` | where in `check_and_reserve`, a rollback or `reconcile` a request is |
| `step`, `cur` | within one counter: read the key, set it, add to it; the minute of the key in use |
| `window`, `held`, `actual` | the keys remembered in `rate_limit_info`, the tiers passed, the real usage |
| `debits`, `credits`, `lost` | history: units taken, units given, units taken that the counter no longer shows |

`Read`, `SetKey` and `Reserve` are the three awaits of `_decr_rpm` / `_decr_tpm`,
`GiveBack` is one tier of a rollback, `Answer` the provider, `Reconcile` one token
counter of `reconcile`, `Fail` an exception of the cache (swallowed at
`routes/gateway.py:279`), `Tick` and `Expire` time. The tiers of the code are the
order of `Tiers`; which tiers a refusal gives back (`Undone`) and in which order
(`NextOwed`) is the code's.

### `Budget`

One key whose budget is kept as rows (`rows`, `gone`), as their sum (`total`) and as
a cached remaining (`cached`, with `info` for the cached key). Requests go through
admission (`Admit`, `Remaining`, `Load`, `Fill`, `Lookup`, `Populate`), the answer
(`Answer`) and `_persist_record` (`Info`, `ReadKey`, `ReadRows`, `Take`, `Commit`), with
one step per await; `Fail` is an exception anywhere in between and does what the
nearest handler does. Operators add, delete and refill (`Begin`, `Add`, `Delete`,
`Refresh`, `Cache`, `Refill`, `Reload`, `Push`, `TopUp`, `Abort`). The leader's
reconciliation is `SyncStart`, `SyncRead`, `SyncCommit`: what it knows of usage is
the records behind its mark. `Expire` is the time to live of both cache entries.
`Spend` (oldest row first) and `Carried` (what exceeds one row goes to the next) are
the loops of `_deduct_budget_records` and `_reconcile_budget_for_key`. Money is
whole numbers; a transaction reads committed rows and writes the columns it
changed, as SQLAlchemy does.

### `LeaderServices`

| variable | code |
|---|---|
| `lock` | the distributed lock of whatever backend `COORDINATOR_URL` names |
| `leaders`, `epc`, `todo` | `_is_leader`, where the election thread is, the callbacks still to be called |
| `standalone`, `lapsed` | nodes without a coordinator, nodes whose lock was dropped and that do not know |
| `serving` | the main event loop has been handed to `background_resync_service` |
| `stop`, `current`, `loop` | per service: the stop event, `_sync_thread` (or `_compress_thread`, `_resync_future`), and every thread or coroutine alive |
| `checked` | starts between their check under the module's lock and the thread they create after it |
| `missed`, `doubled` | history: starts and stops that leave a leader without a service, services of which two starts overlapped |

`Boot`, `Serve`, `Exit` are a process; `Connect`, `Acquire`, `Beat`, `BeatFails`, `Fired`
its election thread; `StartThread`, `Spawn`, `StopThread`, `StartResync`, `StopResync`
the callbacks of `__init__.py`; `Call` an operator's start or stop; `Wake`, `Cycle`,
`End` the loop of a service; `Expire` the coordinator. The services of the nodes in
`Hosts` are followed, other nodes only compete. The order of callbacks is left open
(services share nothing); `Wake` looks at the event and at `is_leader()` at once,
which the code does one after the other without anything in between that another
thread could tell apart. That `USAGE_SYNC_ENABLED` is off by default is not a state:
the model is of a deployment that has the services.

### `StreamChunks`, `ResponsesAdapter`, `MessagesAdapter`, `ChatAdapter`, `GatewayStream`

`StreamChunks` says what a chunk is and what the parsers of seven families of
providers can yield next, given what they have yielded: OpenAI compatible,
Gemini, Azure (Responses API), Anthropic, Volcengine (Responses API), the
Responses compatible provider, and Tencent VOD. The adapters are pure: an adapter
is a record of the local variables of its `generate()` (and of the `_stream_`
attributes), and `...Feed`, `...End`, `...Error` take it one chunk further or to its
end, appending the events the client gets. `GatewayStream` runs one request: `Feed`
is a turn of the wrapper's loop, `Exhaust` its end with the chunk that carries the
price, `Fail` an exception of the upstream, `Leave` a client that goes, `Unwind`,
`Record` and `LeaveReconciling` the finally block with its await, `Close` the end of
the adapter.

| variable | code |
|---|---|
| `api`, `family`, `fed` | the adapter, the provider, the chunks so far |
| `adapter` | `generate()` of the adapter and all it has sent |
| `usage`, `billed` | `last_usage`, the calls of `record_stream_usage` |
| `phase`, `outcome` | where the wrapper is and how its loop ended |

Abstractions: a text, a piece of reasoning or of arguments is counted, not spelt;
usage is the set of what it reports (input, output). The events that open or close an
item of the Responses API always come together and are one event. Left out are
signatures of reasoning, which follow it into its block, and the ready-made events
(`raw_sse_passthrough`) of media generation.

## 3. Runs

| run | question | result |
|---|---|---|
| `background_safety` | one video, a worker, a leader's and a manual cycle, two faults: `TypeOK`, `CompletedIsEarned`, `BilledIsEarned`, `GivesUpForCause`, `Implements` | holds, 1.5 million states |
| `background_settles` | a video and a chat, fair scheduling: `Settles` | holds, 90,000 states |
| `background_starved` | the same with a scan limit of one: `MediaSettles` | violated: text rows at the head of the batch starve a video row |
| `background_stored` | no faults at all: `CompletedIsStored` | violated: an exception without text completes a row without output |
| `usage_overlap` | three records, two syncs, two compress cycles: `TypeOK`, `CountedOnce`, `Conserved`, `CountedExactly` | holds, 800,000 states up to symmetry |
| `usage_faults` | three records, one of each cycle, one fault: `CountedExactly`, `LockIsFreed` | holds, 23,000 states |
| `usage_stale` | two syncs: `CountsFromCurrent` | violated: `last_stat` is not read again under the lock |
| `usage_late` | one sync: `NothingLeftBehind` | violated: a late commit stays behind `last_stat_id` |
| `rate_limiter` | two requests of one and two tokens, limits on three tiers, two minutes, one fault: `TypeOK`, `Balanced`, `WithinLimit`, `RefusedGivesBack` | holds, 413,000 states |
| `budget` | two requests, an operator, two cycles of the leader, one expiry, one fault: `TypeOK`, `ChargedOnce`, `SerialBooks` | holds, 1.8 million states |
| `leader_services` | two nodes, the services of one, two faults, one call of an operator: `TypeOK`, `LeaderHolds`, `OneLoop`, `LeaderServes`, `Retires`, `Led` | holds, 126,000 states |
| `streams` | streams from seven families to three APIs: `TypeOK`, `BilledOnce`, `Delivered`, `Told`, `ItemsInOrder`, `CompletedInFull`, `Envelope`, `BlocksPaired`, `DeltasInBlock`, `Unwound` | holds, 707,000 states |

The four violations are findings of `PROJECT.json`, each with the sentence of the
repository it contradicts.

**Bounds.** One response suffices for safety, since rows share nothing but the
scan's limit; two cycles suffice since a third meets a row the same way; two
faults allow a lost write followed by a crash or two lost writes in a row. The
runs about settling have the two rows that starvation needs and start from two
states the old row's own history leads to. Three records are the fewest of which
a pass merges two (an excess of two over a limit of one, in batches of two); they
fall into two minutes and one hour, so the minute pass meets an excess of one and
the hour pass an excess of two. Symmetry is used for the interchangeable cycles
of `usage_overlap` only, which has no temporal property.

`rate_limiter` limits a request tier, a workspace token tier and a key request tier,
which gives a refusal at the first, in the middle and at the last tier of a walk,
one that gives tokens back and one that gives slots back; two requests meet at every
await, a second minute lets a reservation, its rollback and its reconciliation fall
into different windows, and an actual usage of one to three tokens is below, at and
above both estimates. `budget` starts with three and has costs of one and three, so
that either request may overdraw what the other leaves; the operator may be any of
the three; a second cycle of the leader is the first that may go on from a synced
value; an expiry of either entry makes a request load the sum. In `leader_services`
the second node is there to take the lock; one thread and the coroutine stand for
the two threads and the coroutine of the code, since both threads have the same
code; two slots are enough to see two loops of one service; two faults allow a lock
to be lost and won back, or a lock that lapses before a heartbeat fails. In
`streams` two functions (and a custom call where the family has them) and four chunks
of content are the fewest in which two calls interleave, or a call comes in
pieces behind text; Gemini, whose calls are whole and whose chunks mix kinds, needs
two.

`CHECK_DEADLOCK FALSE` everywhere: bounded numbers of responses and records end,
and a system in which all of them are settled stops.

**Fairness.** `BackgroundResponse`: weak fairness of each worker (every provider
call and the polling loop time out, and a worker's coroutine is kept alive by
`_track_background_task`), of the clock, and of the leader's cycle
(`_resync_loop` sleeps `BG_RESYNC_INTERVAL` and goes on after any exception).
Nothing is assumed of the provider, of crashes, or of manual cycles.
`UsageLedger`: weak fairness of cycles that have begun and of the lock's expiry in
Redis. Nothing obliges a cycle to begin. The waiting cycle is not promised the
lock, since the code polls for it every 100 ms and may lose each time; only that
it becomes free is claimed. `LeaderServices`: weak fairness of the election thread
(a loop with a timeout in every iteration), of each loop of a service (its cycles
catch their exceptions and end), of the thread an operator's start creates, and of
the expiry of a dead process's lock. Nothing is assumed of processes, heartbeats or
operators. `GatewayStream`: weak fairness of the steps behind the last chunk
(closing a generator runs its finally block, whose awaits are local); the upstream
may be silent for ever, and the client need never leave. `RateLimiter` and `Budget`
have safety properties only and no fairness.

## 4. Properties that hold only with an exception

* `CompletedIsEarned` excepts `blankError` (an exception whose text is empty is
  no error, `routes/gateway_responses.py:389`) and `unchecked` (a final answer
  with the status `failed` or `cancelled` that `chat()` returns at once is
  formatted and completed; `failed` is only looked for while polling).
* `Implements` excuses `blankError` and `noOutput` (the resync cycle completes a
  row although it has no output or could not save it).
* `Conserved` excepts overlapping compress cycles: with four records and two
  cycles of different ranges the later commit writes a sum computed from a stale
  read, and requests are lost.
* `CountedOnce` excepts them as well, which only a larger instance shows: five
  records, two syncs, three compress cycles of different ranges, batches of three and
  one that outlives its lock. The cycle that outlived it puts request 4 into row 2,
  where it had been when it read, although another has put it into row 1 meanwhile,
  and a sync that had loaded the key before the first count adds both rows. Syncs
  may overlap as they like: see `NoRequestCountedTwice` in section 5.
* `CountedExactly` excepts overlapping syncs and `skipped` requests;
  `usage_stale` and `usage_late` show both.
* `WithinLimit` adds to the limit what a counter never showed (`lost`: two requests
  that both find the key absent both set it, and the second wipes out what the
  first took) and what requests of another minute gave it (`Stray`: `reconcile`
  builds the key from the present minute). Without either the limit is exceeded
  within two requests.
* `ChargedOnce` bounds what is consumed by what was spent, and once there was a
  second row or a cycle read rows that showed a record behind its mark (`behind`)
  by that and what the leader took (`taken`): `_reconcile_budget_for_key` charges
  every row with all usage since the row was created, and a record committed
  between the mark and the read is charged by the next cycle again.
* `SerialBooks` speaks of runs in which no actor changed what another one was
  holding (`loose`), the leader took nothing and nothing failed. Deductions
  overwrite `ml_api_keys.budget` with the sum of the rows they read, a loaded value
  fills the cache after another deduction, a refill sets the cache before it commits.
* `LeaderHolds` excepts nodes without a coordinator and nodes whose lock was
  dropped (`lapsed`): the code never looks at the lock while heartbeats succeed.
* `OneLoop` excepts services two starts of which overlapped (`doubled`): the check
  is made under the module's lock, the thread is created after it.
* `LeaderServes` excepts `missed` services: a start that found a thread about to
  end, an election won before the main event loop was known, an operator's stop.
  None of them is repaired while the node leads.
* `Led` excepts a live node that keeps the lock of a leadership it gave up after a
  failed heartbeat; whether a backend grants the lock to its holder is its affair.
* `Delivered`: in the Responses API a last text that comes with the finish has no
  delta; when usage comes with it, too, it is lost, since `full_text` takes its place.
* `Told`, `CompletedInFull`: a Responses stream without a finish chunk is told no
  usage and its items are not done. That is every stream that breaks off, and every
  stream of Tencent VOD, whose parser never sets `finish_reason`. Behind a finish a
  function call without arguments is never done, and the reasoning is missing from
  the completed response when no usage arrived.
* `ItemsInOrder`: content in the usual order (reasoning, text, calls, one kind in a
  chunk) and no calls in the finish chunk. A custom call is done as soon as its free
  text happens to be JSON, and goes on after that.
* `BlocksPaired`: no chunks that mix calls with text or reasoning, and no calls in
  the finish chunk: those start a block under index 0 that is never stopped, against
  `src/backend/app/adapters/MESSAGES_STREAMING_PROTOCOL.md:262`. An empty answer has a
  stop without a start.
* `DeltasInBlock`: content in the usual order, calls that do not interleave.
* `Unwound`: a client that leaves during the await of the reconciliation
  (`routes/gateway.py:398`) is never billed, since its cancellation ends the finally
  block.
* `BilledOnce` says the last report is billed. Anthropic's `message_delta` may report
  the output only; the input of `message_start` is then not billed.

## 5. Proofs

`BackgroundResponse_proofs` holds, for any finite set of responses, any set of
cycles that contains the leader's, any `Limit` and any number of faults:

* `TypeCorrect`: `Spec => []TypeOK`, one step per action.
* `Induction`: `Spec => []IInv`. `CompletedIsEarned` and `BilledIsEarned` are not
  inductive: whether a row may be completed is decided by where its worker is
  (`WorkerInv`: from `meta` on the task has succeeded or its answer went
  unchecked, at `mark` the output is written unless an error is set) and by what
  a cycle learnt before it acts (`CycleInv`: at `save` and `complete` the task
  has succeeded, at `fail` it ended or the row could not be asked about). What
  makes both stable is that a task that ended does not run again and that files
  and history only grow.
* `CompletedEarned`, `BilledEarned`, `GivenUpForCause` follow.
* `Implementation`: every step of `BackgroundResponse` is a step or a stutter of
  `ResponseLifecycle`, under `IInv` and `IInv'`.

The assumptions used are `ResponsesAssumption` (for the rank of a new row) and
`LeaderAssumption` and the like only through the types.

`UsageLedger_proofs` holds for any number of records, any sets of sync and compress
cycles, any policy, batch size and buckets, and any number of faults:

* `TypeCorrect`: `Spec => []TypeOK`, one step per action.
* `PassBounds`, `PlanBounds`: a compress pass changes rows of its range only and
  puts together in them only what rows of its range hold.
* `Induction`: `Spec => []IInv`. `CountedExactly` speaks of committed counters and
  is not inductive: what a commit makes of them was fixed at the load and at the
  count. `LedgerInv` says that rows up to `last_stat_id` hold requests up to it and
  rows after it only their own; `SyncInv` that a sync in flight is alone, that its
  copy is current until it has counted, and that what it counted is what
  `LedgerInv` will say of its window; `CompressInv` that a compress cycle writes
  behind the mark only, which `PlanBounds` gives. Together they explain why a sync
  and a compress cycle may interleave, and even outlive the lock: they never touch
  the same rows. Only two syncs need the exclusion that the lock does not give.
* `CountedExact`: `Spec => []CountedExactly` follows.

The assumption used is `BoundsAssumption`.

It goes on with what merging keeps:

* `RankInjective`, `RankSurjective`, `BatchStart`: the rank of a row in its bucket is
  a bijection to `1 .. n`, so every row of an excess is in one batch and every batch
  has one first row. This is where an off-by-one in the batches would show.
* `PassConserves`, `PlanExchanges`: a pass, and so a plan of two passes, keeps the
  requests of its range and leaves no request in two rows.
* `MergingInduction`: `Spec => []CInv`; what makes a plan still good when it is
  written is that no other cycle writes to the range in between, which `Conserved`
  assumes and `Induction` shows of the sync.
* `RequestsConserved`: `Spec => []Conserved`.

And of the syncs that overlap: `CountedOnce` says nothing of
`last_stat_id`, which such syncs may set back, so it is not inductive. `CountingInv`
says what stays true of the key's row and of every copy of it a sync works on: each is
`Consistent` with the mark it carries, which means that what it counted once is in no row past
that mark. A sync that counts on from there cannot meet it again. The other half
is that merging never breaks this: `PassMovesDown`, `PlanMovesDown` show that a plan
moves a request to a row with a lower id or leaves it (`_merge_into_record` writes
to the first row of a batch), by `RankInjective` and the arithmetic of the batches.
`CountingInduction` is `Spec => []CountingInv`, `NoRequestCountedTwice` is
`Spec => []CountedOnce`.

`RateLimiter_proofs` holds for any finite set of requests, estimates, limits,
minutes and faults:

* `Induction`: `Spec => []IInv`. `Balanced` needs that a unit is never taken twice
  from a key nor given twice (`Fresh`), which follows from where a request stands
  (`Position`: a reservation has passed the tiers before the one it is at, a rollback
  owes what it passed). `WithinLimit` needs that what requests hold is either shown
  by the counter or lost (`Covered`), and that what it shows of them fits (`Bounded`);
  `RefusedGivesBack` that a request's units are under the keys of its reservation
  (`Owned`).
* `TypeCorrect`, `CountersBalance`, `LimitKept`, `RefusalGivesBack` follow.

The assumptions used are the three of `RateLimiter`.

`Budget_proofs` holds for any finite set of requests with positive costs, any operators
(none of them a request), amounts and bounds; `None` is no integer:

* `TypeInduction`: `Spec => []TInv`, the types with `WorkInv`: what a request, a cycle
  or an operator read of a row is at most its amount, whatever was written since.
  `SpendTotal` (spending takes its amount or all there is, and from no row more than
  it has) and `CarriedType` are the loops over the rows, shown by induction over them.
* `ChargeInduction`: `ChargedOnce` is not inductive, since transactions write
  absolute values over each other. `ChargeInv` keeps an account next to the rows: a
  function of charges to which every write adds what its writer took. The rows, and
  everything that somebody has read of them, never show more to be taken than their charge,
  and the charges add up to what records cost and cycles took. So a lost
  update loses a charge but cannot double one. `SingleInv` adds for a key with one row
  that a cycle takes nothing a request had paid: its row, all that was read of it
  and the last synced value are explained by the records the cycle knows of.
* `SerialInduction`: `Spec => []SerialInv`. The three copies agree only between two
  actors, so the invariant says what each one at work holds: the sum and the
  rows as they are (`RequestCurrent`, `AdminCurrent`), at most one actor between its first
  and its last write (`Writers`), and the cached value what that one will commit.
* `TypeCorrect`, `NoCostChargedTwice`, `BooksAgree` follow.

The assumptions used are `NoneAssumption` and `BudgetAssumption`.

`InductionLemmas` holds what these proofs need of the prover's library: induction over
a finite set and over an interval, with a set in place of a predicate (an induction
hypothesis is membership in a set, since the library's theorems take an operator that
no prover here instantiates), from the well-founded order of finite sets; that a
function defined step by step exists; and sums over a finite set, which is what the
folds of the community modules compute.

`LeaderServices_proofs` holds for any nodes, services, slots and bounds:

* `Induction`: `Spec => []IInv`, of `LeaderHolds`, `Phases` (a leader is past its
  election, callbacks are pending only while they are called), `Single` (the live
  loop is the one the module remembers, and there is none while a start is between
  its check and its thread) and `ServedAll` (a service of a leader is still to be
  started, is being started, runs, or was missed). `LeaderServes` is not inductive
  alone, since it speaks of the time after the callbacks.
* `TypeCorrect`, `LeadershipIsHeld`, `LoopsAreSingle`, `LeadersServe` follow.

`GatewayStream_proofs` holds for any calls, any bounds of content per family, and so
for streams of any length:

* `Induction` (`usage` is the last report among the chunks; `billed` is empty before
  the finally block has passed and holds `usage` behind it) and `UsageBilledOnce`
  (`Spec => []BilledOnce`).
* `FedInduction`: `Spec => []FedInv`, what an adapter may rely on in the chunks of any
  family: only Gemini has several calls in a chunk and has them whole, a call goes on
  only once it has started and starts once, a call in a finish chunk comes with usage, what has
  neither content nor finish nor usage is the one chunk for the role.
* `MessagesInduction`: `Spec => []MessagesInv`. None of the three properties of the
  Messages API is inductive, since none speaks of the local variables of
  `generate()`. `MessagesLive` does: every event behind `message_start` is of a block
  (`Framed`); the blocks that were started and stopped are those below
  `content_block_index`, and its own is open just when `block_open` says so (`Blocks`);
  a delta is between the start and the stop of a block of its kind, and what may still come
  goes to the open one or opens its own (`Placed`); what waits is what a
  finish chunk brought (`Waiting`). Once the stream has ended the invariant says of
  which live adapter this is the end, so the last events are computed once.
* `MessagesEnvelope`, `MessagesBlocks`, `MessagesDeltas`: `Envelope`, `BlocksPaired` and
  `DeltasInBlock` follow, each with the exceptions it names.

The assumptions used are `CallsAssumption` (no call is named like a kind of content or like
the response, finitely many) and `MaxContentAssumption`.

It continues with all three APIs:

* `WrapperInduction`: how the loop of the wrapper ended, and that OpenAI and Gemini
  report all tokens whenever they report any. The Responses adapter ignores a second
  report, so what it tells is what is billed only because the second equals the first.
* `ChatInduction`: each chunk with content is one event, and the usage that was taken
  out of the chunks is in the one with the price.
* `ResponsesInduction`: `Spec => []ResponsesInv`. `ResponsesLive` says of the adapter that
  `next` is the number of items added (`Numbered`), which holds because a call starts once
  (`FedInv`) though the adapter would add it again; that each piece has its delta
  (`Tallied`); and where the usage is (`Completing`): before the finish nowhere,
  then in the chunk that waits (`Pending`), then told or put off (`Answered`). What one
  chunk does to that is shown per function of the source: `ToolEntriesEffect`,
  `CloseCallsEffect`, `FormatFinishEffect`, `ReasoningPartEffect`, `DeltaEffect`,
  `ArrivalEffect`, and together in `ResponsesStep`; what the end makes up for in
  `ResponsesEndEffect`. Since most events count for nothing, these lemmas say that two
  sequences of events count the `Same`, or one has one event `More`.
* `TypeCorrect`, `PiecesDelivered`, `UsageTold`: `TypeOK`, `Delivered` and `Told` follow.

`ResponsesItems_proofs` takes the items of the Responses API further, from the same
assumptions:

* `BalancedInduction`: `Spec => []BalancedInv`, the books the Responses adapter keeps of its
  items. Before its end marker (`Kept`): an item is added once, before its other events
  and under their index, has as many pieces as deltas, and is done when it is closed
  (`Tells`); what is added takes the next index (`Indexed`); the calls added are listed
  (`Listed`). With the chunks (`Balanced`): the text is as long as its deltas and the text
  of a finish that had to wait (`LateChunks`), every call that was started is there until
  the finish, and behind it each item is `Shut` and the completed response `Lists` it. The
  end may close and complete once more, and leaves what the stream left (`Final`). The
  lemmas follow the adapter: an item is added, grows and is closed (`AddItemBooked`,
  `GrowBooked`, `CloseItemBooked`), the calls of a chunk one by one (`CallSteps`,
  `ToolEntriesLead`, `CloseCallsLead`), the finish (`FinishKept`), a chunk (`BalancedStep`)
  and the end (`EndBalanced`).
* The same induction carries their order (`Arranged`), for content in order without calls
  in the finish (`Tidy`). `Ordered`: an item that is done is done last and with its whole
  size (`Sealed`), the events of the reasoning and of the message are in a row. Neither is
  inductive. An item goes on only while it is open and has no done event (`Rows`), the
  text goes on only while it is the last (`TextLast`), and which items are open and closed
  follows from the kinds of content there were (`Phased`). A call that goes on behind
  the piece that made its arguments parse was closed and opens no more: these are the
  `Overruns`, which the property names. The lemmas go the way of a chunk:
  `ReasoningPoised`, then its text, its calls and its finish, and `OpenArranged`,
  `ArrivalArranged`, `StartArranged` for the rest of the loop.
* `CompletedWhole`, `ItemsOrdered`: `CompletedInFull` and `ItemsInOrder` follow.

**Only model-checked.** `Settles`, `LockIsFreed`, `Retires`, `Led` and `Unwound` are
liveness, out of the prover's reach. Every other property of a passing run is proved.

## 6. Not modelled

* Stateless conversions, which are most of the code's lines: the request and
  response formats of some thirty services, of messages and of media (image, video,
  audio and 3D generation). Their common course, create a task and poll it, is in
  `BackgroundResponse`. The stream parsers of Vertex AI repeat those of Anthropic,
  Gemini and OpenAI, those of Moonshot, DeepSeek, GLM, MiniMax, Bailian and vLLM are
  the OpenAI parser with reasoning added. This is why the modelled lines are a small
  share of all.
* CRUD routes, users, groups, roles, storage and the HTTP client: one statement or
  one call each, without an order of their own.
* Of the rate limiter, the usage per key preview (`_update_apikey_usage`) and the
  status readers, which feed a page. Of budgets, the PUT of a key: its unlimited
  toggle, and a budget it adds to the sum without a row, which the next deduction
  forgets.
* The price of a record (`_resolve_price_tier`): arithmetic on decimals.
* Model resolution and the provider cache of `middleware/gateway_service.py`, whose
  key (979-1033) leaves out `extra_config`; the `tracer` shared by the requests of one
  provider instance (885) affects tracing only.
* The QPS limiter, a sleep in real time after which acquirers that woke together
  pass together; the jobs of `arq_worker.py`, which add one to a `request_count` the
  sync adds the same request to; the asynchronous caches of keys, groups and files.
* Templates, migrations, monitoring, the moderation server, the frontend.

Known and not covered by a property: an output file that cannot be written after the
usage was billed (`routes/gateway_responses.py:378`); the lost insert of a row, whose
response then does not exist (484); a row the resync cycle completes, which nobody
bills (`usagerecord/background_resync_service.py:264`); a compression policy with a
limit of 0, which makes a pass return a number where a pair is unpacked
(`usagerecord/compress_service.py:257`); a scan that looks back exactly one interval
while cycles are further apart (`usagerecord/sync_service.py:153`).
