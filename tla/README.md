# fast-auth-indexer-api in TLA+

A verification development for the FastAuth indexer: a NestJS worker that walks
the NEAR chain block by block, keeps the FastAuth transactions in PostgreSQL,
derives further tables from them in four sibling tasks, and serves a dashboard
from snapshots. The modules here are translated from the code under
`src/modules/`. TLC checks them on small instances, TLAPS proves the most
important facts for every instance.

Paths are relative to `src/modules/`.

## 1. Inventory

### Components

| component | code | state it keeps | operations |
|---|---|---|---|
| Block ingestion (`near-ingest`) | `near-ingest/near-ingest.service.ts`, `near-block.service.ts` | in memory: backfill-origin flag, wedge frontier and count, mart-dirty flag, time of the last mart rebuild; in the database: checkpoints, `missing_block_ranges`, `near_transactions`, `sign_events`, `user_transactions` | `runOnce`: fetch the final block, choose a window, force-reset, walk with a pool of workers, retry holes, wedge-skip, persist checkpoints, rebuild the mart |
| Relayer mart | `near-ingest/relayer-marts.service.ts` | `relayers` and its daily aggregates | `rebuild`: aggregate, then replace in one transaction |
| Skip-forward, boot guard | `ops/skip-forward.service.ts`, `boot-skip-guard.service.ts` | none of its own | `run`, `autoSkipIfStranded`, `onModuleInit` |
| Wipe and seed commands | `ops/wipe-db.service.ts`, `seed-missing-ranges.service.ts` | none of its own | delete the indexed tables; seed the missing-ranges ledger |
| NEAR RPC pool | `common/near-rpc/near-rpc.service.ts` | per endpoint: failure count, blacklist, round-robin score, request slot | `request`: pick, ask, blacklist, retry |
| Scheduler, HTTP trigger | `indexer-scheduler/`, `indexer-trigger/` | a lock per task, the number in flight | five cron ticks, catch-up gate, `runWithLock`; `runAll` |
| Checkpoint store | `common/checkpoints/` | `indexer_checkpoints` | `get`, `set`, `setMany`, `delete` |
| Public-key linker (`pka`) | `public-key-accounts/` | an event cursor; keys, links, accounts | derive keys of new sign events, link accounts, retry orphans, stamp events |
| Health classifiers | `health/` | health rows, one table per collector | discover the newest transactions without a row, retry the pending ones, classify |
| Contract-state snapshots | `fastauth-contract-state/` | snapshot rows, a throttle checkpoint | throttled read and insert |
| Dashboard snapshot and data | `dashboard/` | snapshot rows; in memory: the re-entrancy flag, the time of the last heavy refresh, the last good value of each section | recompute under the flag, read |
| TtlMemo, fan-out helpers | `common/ttl-memo.ts`, `common/concurrency.ts` | a memo entry, an in-flight promise | single flight, bounded fan-out |
| HTTP endpoint pool | `common/http-pool/` | a current index; per endpoint: failures, blacklist | `get`: ask the current endpoint, blacklist, move on |
| Decoders, derivators, pricing | `common/decoders/`, `common/pricing/`, `near-ingest/*derivator.ts`, ... | none | parse, convert |
| Migrations, entities, configuration, read API | | schema | |

### How they interact

Everything durable goes through the database, and no two operations share a
transaction: ingestion, the boot guard and the operator's commands know of each
other only through the checkpoint rows and the missing-ranges ledger. Inside
the worker, cron ticks start the tasks' `runOnce` through the scheduler's lock;
the HTTP trigger calls the same `runOnce` without it. Ingestion asks the RPC
pool for blocks and chunks, and the pool's final failure is what ingestion
judges a height by. Sibling tasks are held back by the scheduler while the
two height checkpoints are far apart. The linker asks the HTTP pool which
accounts hold a key, and ingestion's membership probes read the linker's table.
The health collectors read what ingestion recorded and ask the RPC pool for the
status of each transaction. The snapshot job aggregates all tables into one row;
a request reads that row through `TtlMemo` and nothing else.

### What is hard about it

* `runOnce` has many awaits and no transaction around them; a crash, a failed
  statement or another run can come between any two. What it carries over an
  await (the window it read, the heights it has completed, the frontier it is
  going to write) may be stale when it is used.
* The checkpoint is the only memory of what was looked at. A height at or below
  it is never looked at again, so one checkpoint write too high loses blocks
  silently, and no table shows it.
* Three mechanisms move the checkpoint past heights that were not fetched
  (force-reset, wedge skip, skip-forward), in two processes and with different
  write patterns. Each must have written the ledger first.
* Whether a height exists is inferred from failures of a pool of endpoints that
  prune at different depths.
* The trigger bypasses every lock.
* A cursor moved at the end of a batch (pka) must not pass rows that were not
  there when the batch was read.
* The health collectors have no cursor: discovery takes the newest rows of a
  window that moves on, retries write back a count read before a request, and
  two passes can hold the same row.
* A dashboard section is put together from answers of separate statements, and a
  refresh from sections that fail one by one.

### What makes each part correct

* Ingestion: no height is lost; the checkpoint does not move back; only
  unfetchable heights are given up, and in the ledger; it gets past any one bad
  block; a dirty mart is rebuilt.
* Skip-forward: the same promise about lost heights, even if it dies or fails
  half-way, and beside a running worker.
* RPC pool: no endpoint starves; one endpoint's opinion is not enough to call a
  height missing.
* Scheduler: at most one scheduled run per task, the cap never leaks, paused
  tasks resume.
* pka: a stamp always comes from a link of the event's own key and, once its
  batch is settled, stands; a key that has an account leads to a stamp in the
  end; no key is counted twice.
* Classification: what a block held of known accounts' activity is recorded, and
  each transaction counts in one table.
* Health: a transaction that discovery reaches gets the chain's verdict or uses
  up its retries; no more retries than the budget, and none unused.
* HTTP pool: while one endpoint answers, no look-up gives up.
* Dashboard: one recomputation at a time; a failed section serves its last good
  value and no publication goes back; what is published together agrees.
* TtlMemo: no request is answered with an older snapshot than an earlier one.
* Decoding and pricing: the key taken from a payload is the one it was encoded
  with; a value is the sum of the movements of known price.

The hazards, with the line where each bites and the property that covers it,
are listed in `PROJECT.json`.

## 2. Modules

| module | models | how it corresponds to the code |
|---|---|---|
| `CoverageLedger` | what ingestion promises | abstract: a frontier and the set of resolved heights |
| `IndexerDb` | checkpoints, ledger, rows, chain | the state shared by all writers; `NoSilentGap` is stated here |
| `NearIngest` | `NearIngestService.runOnce`, mart rebuild | one action per stretch between two awaits; `run[r]` holds the local variables of one call, `mem` the service's fields |
| `SkipForward` | `SkipForwardService`, boot guard's decision | one action per stretch between two awaits; one write per checkpoint key |
| `IngestOps` | worker boot, ingestion, skip-forward and `SeedMissingRangesService.seed` together | composes `NearIngest` and `SkipForward` over `IndexerDb`; `seed` holds the entries the command has yet to look up, and the one it is going to insert |
| `IngestProofs` | | the theorems about `NearIngest` and `IngestOps` |
| `NearRpc` | `NearRpcService.request`, `isReportedMissingEverywhere` | the pool's records and the concurrent requests |
| `NearRpcRotation` | what `pickNextEndpoint` promises about starvation | `NearRpc` with a history: how often an endpoint in rotation has been passed over |
| `NearRpcProofs` | | the theorems about `NearRpc` and `NearRpcRotation` |
| `IndexerScheduler` | `IndexerSchedulerService`, `IndexerTriggerController` | locks, cap, catch-up gate, trigger |
| `IndexerSchedulerProofs` | | the theorem about `IndexerScheduler` |
| `PublicKeyAccounts` | `PublicKeyAccountsService.runOnce` | one action per stretch between two awaits; the tables' columns that matter, and `run[r]` for the local variables of one call |
| `PublicKeyAccountsProofs` | | the theorems about `PublicKeyAccounts` and about the pool its look-ups go through, `HttpPool` |
| `BlockClassifier` | `processBlockHeight`, `classifyTransaction`, `probeAccounts`, `persistBlock` | `work[b]` is one height in flight, `cache` the run's probe cache; the path tests are operators on a transaction |
| `TxOutcome` | `classifyTx`, `classifyTxGeneric` | operators from a transaction's status to a verdict |
| `TxHealth` | `FastauthHealthService.runOnce`, `FastauthUserHealthService.runOnce` | one action per statement; `pass[p]` holds what a pass has read, `row` is the health table |
| `TransactionProofs` | | the theorems about `BlockClassifier`, `TxHealth` and, through `Algorithms`, `TxOutcome` and `Pricing` |
| `HttpPool` | `HttpEndpointPool.get` | one action per stretch between two awaits |
| `SignPayload` | `decode-sign-action.ts` | operators over a payload as a sequence of bytes; after the code, the format a client encodes by |
| `SignPayloadProofs` | | the theorem about `SignPayload`, through `Algorithms` |
| `Pricing` | `buildRegistry`, `computeActionsValue` | operators over integers; a price is a multiple of a unit |
| `TtlMemo` | `TtlMemo.get` | the memo's two fields and the factory calls |
| `DashboardSnapshot` | `refreshSnapshot`, the fan-out and `unwrapSection` of `computeDashboardData` | a section's value is the version of the tables it was computed from |
| `DashboardSections` | the loaders of `DashboardDataService`, the rates of `MetricsService` | a query is an operator of the tables; its answer is taken in a step of its own |
| `MissingRanges` | `loadMissingBlockRanges`, `pctProcessed` of `getStatus` | operators of a range and its two cursors |
| `Algorithms` | | the parts that keep no state (`TxOutcome`, `SignPayload`, `Pricing`, `MissingRanges`) as properties of one evaluation: which algorithm, on which input |
| `DashboardProofs` | | the theorems about `TtlMemo`, `DashboardSnapshot`, `DashboardSections` and, through `Algorithms`, `MissingRanges` |
| `CountingLemmas` | | sums of functions over finite sets, sizes of grouped sets, inductions, folds and recursions, for the proofs |
| `MCNearIngest`, `MCIngestLiveness`, `MCIngestOps`, `MCNearRpc`, `MCIndexerScheduler`, `MCPublicKeyAccounts`, `MCServices` | | instances for TLC: crash and command bounds, histories, fairness |

Definitions whose comment begins with "Slip" are not part of the model. Each is
a definition with a plausible bug put into it (a dropped guard, a missing reset,
a swapped order); substituting it must break the property it is listed with, which
shows that the property is sensitive to that line of the code.

### Ingestion, action by action

`FetchFinal` is the call of `fetchFinalBlock`; `ReadRangeReset` and
`ReadRangeWalk` are `computeRange` and the force-reset test; `ResetFind`,
`ResetInsert`, `ResetCheckpoints` are the force-reset (`recordSkippedRange` is a
look-up and an insert, then one upsert of the checkpoints); `ReadOrigin` and
`WriteHead` follow. In the walk each height in flight ends by `PersistBlock`,
`JudgeAbsent`, `ChunkGone`, `FetchFails` or `InsertFails`; when none is left,
one of `RetryHoles`, `Progress`, `NothingToDo`, `Stuck`, `StuckLongEnough`
happens. `WedgeFind` and `WedgeInsert` are the wedge skip, `PersistCheckpoints`
the final upsert, `ReadMart` and `WriteMart` the rebuild. `RunFails` is a failed
statement or request at any other await, `Crash` the death of the process.

### The linker, action by action

`ReadCursor` and `FetchBatch` are `fetchEventBatch`; `DeriveMissing` and
`PersistDerivedKeys` fill in keys from the MPC contract, `PersistFails` is the
fail-fast pool giving up after some of the updates. `FetchAccounts` is the
look-up of the batch's keys. `ReadExisting` (twice, in either order),
`InsertLinks`, `InsertAccounts`, `StampBatch` and `UpdateAccounts` are the
statements of `persistLinksAndAccounts`. `SweepIfDue` tests the throttle of the
orphan sweep; `FindOrphans`, `RetryLookups`, `RetryInsertLinks`,
`RetryReadAccounts`, `RetryInsertAccounts`, `SweepDone` are the sweep.
`BackStamp` and `AdvanceCursor` end the run. `RunFails` is a failed statement or
a crash: the service keeps no state between runs. `EventCommits` is ingestion's
insert becoming visible. Its blocks are persisted concurrently, so ids can
become visible in any order.

### Health, action by action

`Begin` starts a pass: the scheduler has one at a time, the trigger starts
others beside it. `Discover` is the anti-join, `InsertDiscovered` the one insert
after all candidates were classified, `SelectPending` the `find` of the retry
pass, `UpdatePending` one runner's classification and update. `StatementFails`
is a rejected statement, which ends the pass; `UpdateFails` a rejected update,
which ends one runner and the call of `runOnce`, while the other runners go on
through the list (`runWithConcurrency` has no way to stop them). `tried` is a
history variable.

### The dashboard, action by action

`Start`, `Loads` or `LoadFails` once for each section, `Assemble`,
`ComputeMetrics` and `Upsert` are a refresh; `RefreshFails` is its `catch`, and
`WorkerRestarts` clears what the service keeps in memory. Four sections stand
for the forty, one for each way a failure is treated. In `DashboardSections` one
section is loaded, batch after batch as the code awaits them; a `Query` is
answered from the tables of that moment, and the writers (`EventArrives`,
`UserTxArrives`, `Classified`, `UserTxFails`) act between two answers. The tiles
are operators over the answers. The accounts, the relayers and the real activity are
loads of their own, since the code reuses them over several refreshes.

### Abstractions, and why they are sound

* A height's rows are the set of tables they went to. Which transactions a
  block holds does not matter to the properties; that a height's inserts can
  fail after some of them does (`InsertFails` leaves any part).
* A block is judged absent nondeterministically, in `NearIngest` for produced
  blocks too: ingestion must be right whatever the pool answers. Whether the
  pool answers rightly is `NearRpc`'s question. `absent` is a history variable:
  the code writes nothing for such a height.
* `near_chain_head_hash` is written wherever `near_chain_head_height` is and is
  left out. A node's final block may trail the chain's by `NodeLag`; the runs
  have it 0, the proofs have it arbitrary.
* All heights of a round are in flight at once; the code's worker pool starts
  them in order. Every order the code can finish them in is a behaviour.
* Counters that are only compared with a limit stop there (wedge count, failure
  count). Timestamps are Booleans: the interval has passed, or not.
* A look-up of keys answers with any part of what the endpoints know of them:
  `PubkeyLookupService` swallows failures and returns an empty list.
* Which of several accounts owns a key depends on the order of the answer and on
  `last_seen_at`, neither of which is modelled: any linked account may be chosen.
  The first run, which starts from a time for want of a cursor, starts from the
  first event instead.
* The scheduler's tasks are opaque: in flight, then over.
* Request pacing (`acquireRequestSlot`) is left out: it delays a request and
  touches nothing a property mentions.
* A transaction has one height to itself in `TxHealth`, which names it; several at
  one height are a tie in the order of discovery, which the limit cuts anyhow.
  The chain's verdict on a transaction never changes, only whether the pool
  answers. An attempt's age is counted in backoff intervals.
* An HTTP endpoint is healthy for good or not at all. A look-up's attempts last
  less than the blacklist, which `outlasts` expresses: an entry outlives the
  look-ups that were in flight when it was made.
* In `TtlMemo` a value is the number of the snapshot its SELECT saw; expiry may
  come at any time.
* The JOINs and GROUP BYs of a section are set comprehensions over small tables.
  `MAX_TOP_ACCOUNTS`, the LIMITs of the lists and of the cross-classifications and
  the `take` of the recent failures are constants. A tie at such a cut, or for an
  account's latest event, may go either way, as it may in SQL. Lower-casing is left
  out, and NULL stands for every label that replaces it in a list (`(none)`, the
  action types of a transaction without a method).
* `topAccounts`, `relayerBreakdownByActivity` and `realActivity` are heavy: between
  two loads of theirs the last good value is served, for up to half an hour, with
  the window starts of its load. What is served when is `DashboardSnapshot`; in
  `DashboardSections` each heavy section is a load of its own, and nothing compares
  its numbers with those of another section.
* Amounts are in units with few decimals (`NativeDecimals` is 8 for 24), so that
  both sides of the six-decimal cut occur with small numbers.

## 3. Runs

| run | question | instance and bounds |
|---|---|---|
| `IngestSingle` | with one run at a time, can a height be lost, the checkpoint fall, a fetchable height be wedge-skipped, the origin be replaced? | 4 heights of which 3 are blocks, one with a chunk nobody serves; 2 tables; a window of 2; 1 hole-retry round; wedge after 2 runs; 1 crash |
| `IngestOverlap` | the same with a triggered run beside the scheduled one | 3 heights, 2 run slots, no hole-retry round, no crash (a crash only ends runs, which `RunFails` does too) |
| `IngestLiveness` | does it catch up once the outside world calms down? is a dirty mart rebuilt? | one run slot, one block with a missing chunk |
| `ForceResetRace` | violated: a force-reset stands | the instance of `IngestOverlap` |
| `OpsSkip` | boot guard, operator's commands and ingestion together | 1 run slot, 1 command (a skip-forward, or a seed of one range that the skip records too), 1 crash while the worker boots, each statement may fail; from an empty database and from one an earlier life left |
| `BootGuardRace` | violated: with the guard alone the checkpoint never moves back | no crash, no command |
| `RpcPool` | starvation, credit lost or piled up, missing verdict by one endpoint | 3 endpoints weighted 2, 1, 1, two requests, 2 failures to blacklist, 2 attempts |
| `RpcOverSkip` | violated: a block an endpoint holds is not judged missing | deployed weights 8, 1, 1, 6 attempts, 3 failures |
| `SchedulerLocks` | locks, cap, resumption | 3 tasks, a cap of 2, two ticks of one sibling at once, one trigger call |
| `PkaLinks` | do stamps come from links and stand, is a key counted twice, does every user resolve? | 3 events, the last without its key; 2 keys, one with two accounts and one sharing an account with it; a batch of 2, a sweep of 1; any failures, then none |
| `OrphanStarvation` | violated: every user resolves | the same with a first key that has no account |
| `Services` | the services that share no state: see below | one instance each; 2 transactions, 2 passes, 2 retries; 2 blocks, 5 transactions, 2 ingest runs; 3 endpoints, 2 look-ups; 2 factory calls, 3 snapshots; each of 4 sections, a heavy period of 2; 4 sign events of 3 transactions, 3 user transactions, 1 late row, LIMITs of 1 or 2 |

`Services` is a disjoint sum: the variable `focus` is chosen in the initial state
and says which component runs; the others keep their initial state, of which
there is then one only. The reachable graph is the union of the components'
graphs, so a property of one component means what it would in a run of its
own. With `focus` at `outcome`, `payload`, `prices` or `ranges` nothing runs and
`input` is one input of an algorithm without state: every one of the instance is
an initial state, and the invariant compares the code's operators with a
reference definition on it. What it checks:

* `HealthInv`: types, the retry budget and what makes it inductive;
  `EveryTxSettles`: a transaction that has a row, or that discovery can still
  see, gets its verdict or uses its retries up, also when passes overlap and put
  a verdict back to pending. Discovery takes one row at a time, so that one
  transaction has to wait for the other, and the window moves away from them.
* `VerdictsAsDocumented`: on every status of up to three receipts both classifiers
  say what the comments above them say.
* `KnownUsersAreRecorded`: a completed block has a row for all activity of the
  accounts linked when the run began, but for those whose own probe failed;
  `FiledOnce`: no transaction is in two tables or twice in one. The five
  transactions go through each path and each combination of known and unknown
  signers; each insert of each block may fail.
* `HealthyIsReached`: any subset of the endpoints answers, look-ups share the index.
* `ReadsNeverGoBack`, `SectionsNeverGoBack`, `SnapshotConverges`: see the modules.
* `RatesAreRates`: rows arriving between two answers never show a negative count
  or a rate above 100 %; `QuietLoadsAgree`: without such rows the numbers of a
  section agree with one another and with the rows they count. Lists are compared
  up to their LIMIT: one that is left whole adds up to its window, one that is cut
  to no more, and the recent failures are as many as the counts say or as the
  `take` allows. With four events over three transactions and three user
  transactions, the limits (one account, one group, two pairs, one failure) cut
  some loads and leave others whole. The oldest transaction is classified for the
  health sections only (`SectionsRun`), and the breakdown and the activity are
  loaded by guard, the column in which a row has NULL.
* `PayloadsDecode`, `ValuesAgree`, `ProcessedIsExact`: payloads with up to two
  actions of every kind, with and without the discriminant, with empty names and
  lists, whole and cut short after each byte; price lists with duplicate, case-differing and priceless
  entries and decimals on both sides of the cut; all positions of two cursors in
  and around a range.

Why the bounds are enough to be interesting. The window is smaller than the
chain, so that several runs are needed and their windows overlap; the chain has
a hole, so that a height completes without a row; one block is unfetchable, so
that the frontier wedges; the force-reset lag is within reach of the tip, so
that a run may reset while another walks; the wedge limit is reached. Heights
behave alike but for the role they play in a window, and each role (first, in
the middle, last, above) occurs. Two run slots are what the code has: one
scheduled run and the trigger's; a third adds no new kind of interference, and
the proof covers any number.

In `PkaLinks` the two keys exceed the sweep's limit of one, so that the sweep
needs two rounds; the events exceed the batch; one account has two keys and one
key two accounts, so that counts and choices of owner matter.

`NEAR_WEDGE_SKIP_AFTER_RUNS` has its real value, 2, where wedging is in
question: one stuck run is not enough, and progress resets the count.
(`OpsSkip` and `BootGuardRace`, which ask about skip-forward, have it at 1.)

Deadlock. `CHECK_DEADLOCK FALSE` is set where a behaviour can come to an end by
a bound: the chain stops at `MaxTip` and crashes and commands are used up.
`SchedulerLocks` has no such end and is checked for deadlock.

### Fairness

* `MCIngestLiveness!LiveSpec`: until `calm` anything may fail, afterwards
  requests and statements succeed. Weak fairness of a run slot's steps: the cron
  starts a run every 30 s, and each await ends because each request has a
  timeout and a bounded number of attempts. Weak fairness of the throttle: time
  passes. Weak fairness of `CalmDown` is the premise "the endpoints and the
  database answer in the end", not a promise of the code. Nothing is assumed of
  the chain, which may stop at any block.
* `IndexerScheduler!FairSpec`: weak fairness of each tick slot, for the same
  reasons. `TasksResume` has as premises that from some time on the lag stays
  within the threshold and the gate's reads do not fail, and the code
  guarantees no more: a gate read that fails rejects the tick.

* `MCServices!Spec`: weak fairness of `Begin` (the cron starts a pass every 30 s),
  of each pass's and each refresh's next step (every request and statement has a
  timeout), of time (`BackoffElapses`, `TimePasses`) and of the start of a refresh
  (every five minutes). `GoesCalm` is the premise that statements succeed from
  some time on; the RPC pool need never answer, which is why `EveryTxSettles`
  allows retries to run out. Nothing is assumed of the writers.
* `MCPublicKeyAccounts!MCSpec`: as for ingestion, with `calm` the premise that
  lookups, derivations and statements succeed from some time on. Weak fairness of
  a run slot's steps (the cron starts a run every minute) and of the throttle
  (time passes). Nothing is assumed of `EventCommits`.

### Where code and comments part

1. **`ForceResetRace`.** `near-ingest.service.ts:180-182` says the force-reset
   runs under the task's own re-entrancy lock, so that nothing races with its
   checkpoint writes. The lock is the scheduler's; the trigger calls `runOnce`
   without it. A triggered run that read its range before the reset writes the
   checkpoint back below the range the reset gave up. No height is lost
   (`IngestOverlap`); heights already given up are walked again.
2. **`BootGuardRace`.** `boot-skip-guard.service.ts:11-14` says the guard's
   advance completes before the crons are mounted. It is five statements awaited
   by `Promise.all`: when one fails the others go on, the error is swallowed, the
   worker boots, and a late write moves the checkpoint back. Again no height is
   lost (`OpsSkip`).
3. **`RpcOverSkip`.** `near-block.service.ts:54-57` and `:94-96` say that the
   missing rule prevents one endpoint's shorter retention from advancing the
   checkpoint past real blocks. If two endpoints pruned a block and the one that
   holds it fails until blacklisted, the block is judged missing: completed
   without row or ledger entry. `OnePrunerIsSafe` is the part that does hold: a
   single pruning endpoint is never enough.
4. **`OrphanStarvation`.** `pubkey-lookup.service.ts:21-23` says the orphan sweep
   retries unresolved keys, so that a transient outage does not lose a user
   permanently. The sweep takes the first 500 unresolved keys in key order every
   time; 500 keys that never resolve keep the later ones out of it for good.
   `PkaLinks` shows the promise kept when no such keys exist.

## 4. Proofs

`IngestProofs` proves, for every chain, window, limit and number of overlapping
runs:

* `CoverageInvariant`: `Spec => []CoverageInv`;
* `NothingIsLost`: `Spec => []NoSilentGap`;
* `ImplementsCoverage`: `Spec => CoverageRefinement`, that is, every step of
  ingestion resolves heights, moves the frontier onto covered ground, or
  stutters.

* `WedgesAreUnfetchable`: `Spec => WedgeSkipsOnlyUnfetchable`.

With one run slot (`OneRunSlot`, the scheduler's lock without the trigger):

* `ImplementsMonotoneCoverage`: `Spec => MonotoneRefinement`, the same refinement
  with a frontier that only rises;
* `OriginStands`: `Spec => OriginIsStable`.

`NoSilentGap` is not inductive: nothing in it says that a run about to write the
checkpoint writes a covered height. `CoverageInv` adds what each run carries
across its awaits (`RunOK`): everything below the start of its window is
resolved, everything it counts as completed is, and the prefix it is going to
advance over is contained in what it completed. The point of the argument is
that resolved heights stay resolved, so knowledge that was true at a read is
still true at a late write; this is why overlapping runs, which do move the
checkpoint back, still lose nothing. There is one lemma per action, and each
says which of three kinds of step it is: it changes only a run's variables and
resolves more (`LocalStep`), it writes checkpoints to a covered height
(`CheckpointStep`), or it changes neither (`QuietStep`).

With one slot more is true: the checkpoints are still as the run read them
(`SoloInv`), so the height it writes is not below the one it replaces, and the
origin it writes replaces none. The proof needs only two kinds of step, one that
ends the run and one that goes on with the range it has. `WedgeInv` says of a run
on its way to a wedge skip that it found every height of the range failed and
without a chunk; the counter, which other runs share, only decides when.

`IngestProofs` goes on, for any number of runs, of skip-forward commands beside
the boot guard, and any file the ledger is seeded from:

* `OpsInvariant`: `OpsSpec => []OpsInv`;
* `NothingIsLostBesideSkips`: `OpsSpec => []NoSilentGap`;
* `CommandsImplementCoverage`: `OpsSpec => CoverageRefinement`, and
  `CommandsKeepCoverage`: `OpsSpec => CoverageSteps`, its step half.

`OpsInv` is inductive as it stands. It says of a skip what `CoverageInv` says of a
run (`SkipOK`): what it has seen resolved is resolved, and the height it is going
to write is covered. More resolved heights never falsify that (`SkipOKMonotone`),
so ingestion's steps, for which the lemmas about `NearIngest` are used again,
and the seed's inserts disturb nothing. For the refinement every step is one that
adds to the tables (`TablesGrow`) or a write of the scanned checkpoint to a goal its
writer knows to be covered. The theorems start from an empty
database; the run starts from an earlier life's tables too.

`IndexerSchedulerProofs` proves, for any tasks, cap and number of invocations
waiting in the gate:

* `LocksStayExact`: `Spec => []SchedulerInv`.

The inductive form (`LocksInv`) says who holds a lock (`OneHolder`) and that the
counter is the number of locked tasks, where `LockIsExact` counts invocations.

`PublicKeyAccountsProofs` proves, for any events, keys, owners and number of
overlapping runs:

* `LinkerInvariant`: `Spec => []PkaInv`;
* `StampsComeFromLinks`: `Spec => []StampsAreLinked`.

With one run slot:

* `CountsAreBacked`: `Spec => []NoKeyCountedTwice`;
* `SettledStampsStand`: `Spec => StampsStand`.

`StampsAreLinked` alone is not inductive either: a run stamps from its own list of
pairs, read or looked up several statements before. `PkaInv` adds that what a run
saw in the tables is still there and what it set out to insert is there once it
gets to stamping. It holds because links and keys are never deleted, whoever else
runs. One lemma per action again, each reduced to one of `GrowStep` (links or
keys grow), `StampStep` (stamps change) and `QuietStep` (neither).

With one slot the links a run read are still the links when it inserts, so its new
links are really new and add up with the old ones; `CountInv` keeps that sum until
the counts are raised, across the two statements in between, and a run that is cut
off there leaves counts that are too low, never too high. For the stamps it is
enough that the batch lies ahead of the cursor (`BatchIsAhead`): of the two
statements that stamp, one takes the batch and one what has no stamp.

`TransactionProofs` proves of `TxHealth`, for any transactions, limits and number
of overlapping passes:

* `RetriesStayInBudget`: `HealthSpec => []HealthInv`.

`RetryBudget` says of each row that its count is at most `MAX_RETRY_COUNT` and at
most the number of times the transaction was tried. The code keeps the count by
writing back a value it selected earlier, so two facts about what a pass carries
are needed: a selected count was below the limit (in `PassType`) and had been
reached by tries already (`SelectedIsTried`). Tries only grow (`TriedAgain`), so
the second stays true while the pass waits, whatever others write, and the
update, which tries once more, keeps both. The proof has one lemma per action;
`PassMoves` does the steps that change only one pass's variables and
`PassReads` what a pass takes from the rows.

Of `BlockClassifier` it proves, for any blocks, transactions, accounts and
failures:

* `KnownUsersStayRecorded`: `BlockSpec => []KnownUsersAreRecorded`;
* `FiledOnceAlways`: `BlockSpec => []FiledOnce`.

`BlockInv` adds what the probe cache says: an account answered with no is not
known, or its own probe failed, and a block classifies only when the cache has an
answer for every account it names, although another block may have asked
(`CacheIsRight`). It also says what each table's rows are of (`RowsAreFiled`):
whatever the members were at the time, the paths exclude one another.

Of `TxOutcome` it proves, for any number of receipts:

* `VerdictsAlwaysAsDocumented`: `[]VerdictsAsDocumented` of the evaluation of any
  status (`Evaluates`, in `Algorithms`).

The walk is a fold, a recursive equation over the prefixes of the receipts. The
proof says what it has noted after a prefix (`Noted`: who failed first, whether
the MPC contract was reached), shows that something can be noted of every prefix and
nothing else, and so that the equation has a solution and the walk is it. That each
receipt has an executor is a premise: the type in the code lets it be absent, and a
failing receipt without one is then not seen. The RPC always names it.

Of `Pricing` it proves, for any token records, any actions and amounts of any size:

* `ValuesAlwaysAgree`: `[]ValuesAgree` of the evaluation of any registry and
  transaction.

That cutting an amount to six decimals and scaling it back loses less than a
millionth of a token, and gains nothing, is a fact about one division
(`MillionthsExact`, from `TenToAdds`: a power of ten is a product of two). So an
action adds a movement of a token exactly when it moves a millionth or more of
it and the last record of the token has a price above zero. The list of movements
is a fold, as the walk of `TxOutcome` is: `MovesUnfold` shows that its equation
has a solution and `MovesCounted` counts what it holds. That decimals are natural
numbers is a premise; the API gives them as any JSON number.

`SignPayloadProofs` proves of the decoder, for any names, code, arguments and
method names, any actions in any number, with the discriminant or without:

* `PayloadsAlwaysDecode`: `[]PayloadsDecode` of the evaluation of any payload of
  fewer than 2^30 bytes. The key that was encoded behind the actions is found,
  the first action is named, and a payload cut short anywhere gives no key and no
  wrong name.

One invariant carries the walk: a buffer that holds a field where it stands
(`Reads`) is walked past that field, or it ends before the field does and the
walk fails or stays where it would have ended (`GetsPast`). It holds of a number,
a text, a key and a field of known length, which the code skips unchecked in three
places; it holds of two fields one behind the other (`PastBoth`) and so of every
action (`ActionIsSkipped`), and of a list of items whatever their number
(`PastAll`). Nothing is proved of a cut payload apart: it is a buffer that holds
the payload as far as it goes, and only the key's own check, which is not skipped,
tells that it is short (`KeyIsSkipped`). What is left is the choice between the
two readings. A payload without the discriminant is not taken for one with it,
because its first four bytes are the length of a name (`OnlyTaggedIsNep366`); one
with it, cut short and read again without, gives nothing, because the discriminant
is more than any length (`TaggedIsNotUntagged`). That is why the size is a premise.
The loop over a list runs as often as a number in the payload says and the code's
recursion is not the format's; both are functions a `CHOOSE` names, and that they
exist is shown first (`LoopExists`, `JoinsExist`).

`NearRpcProofs` proves, for any pool, weights and limits and any number of
requests that share it:

* `ScoresStayBalanced`: `Spec => []RpcInv`;
* `PrunerNeverDecides`: `Spec => []OnePrunerIsSafe`;
* `CreditStaysBounded`: `Spec => []CreditIsBounded`;
* `NobodyStarves`: `RotationSpec => []NoStarvation`.

A pick raises the score of every endpoint in rotation by its weight and takes
the sum of these weights from the winner; blacklisting, expiry and reset leave
the scores alone or set all of them to zero. That there is a winner at all, a
best score with ties to the first endpoint, is a fact about finite sets of
integers (`SomeIsBest`). For the verdict, a request carries which
endpoints have answered "unknown block" (`RequestOK`): none of them holds the
block, and the rule wants two.

`NoStarvation` is not about one endpoint's weight: endpoints that leave the rotation
keep their scores, so those that stay divide among themselves what the others
left, and no bound on a single score is inductive. One on the sums over all groups of
endpoints is. With `n` endpoints of total weight `T`, the scores of any `k`
of them add up to at most `k * (n - k) * (T - 1)`. A pick can raise the sum of a
group only if the winner is outside it, and the winner has the highest of the raised
scores: had a group at its limit gained, the group with the winner added, or with its
poorest member taken out, would have been beyond its own limit already, because
the limit is a concave function of `k`. From groups of one and of all but one each
score lies within `(n - 1) * (T - 1)` of zero (`ScoreIsBounded`), and an endpoint
that is passed over gains its weight each time: that it has gained no more than the
distance from the lower to the upper bound is the inductive form of `NoStarvation`
(`RotationInv`). The bound holds for any order of blacklistings, returns and
resets; it is not claimed to be the smallest.

`PublicKeyAccountsProofs` also proves of `HttpPool`, for any list of endpoints
and any number of gets in flight:

* `HealthyAnswers`: `BlacklistsInTime => (PoolSpec => []HealthyIsReached)`.

Each failed attempt of a get is charged to a count that no other attempt of
the same get is charged to: the n-th failure of an endpoint, for n up to
`MaxFailures` (`FailuresAreCharged`). Only endpoints that do not answer have such
counts, and the model keeps their blacklist while a get that saw it is in
flight. So with one endpoint that answers a get has at most
`(Len(Endpoints) - 1) * MaxFailures` failures, and `BlacklistsInTime` says that it
has more attempts than that. With the three failures and `max(2N, 3)` attempts
of `http-endpoint-pool.ts` this holds of one template, which is the default, and of
two. With three templates the argument does not reach, and an instance with two
gets still shows no violation; from four on, with two gets at once, the attempts of
one can be used up by failures that leave every dead endpoint just short of the blacklist. No document
promises otherwise.

`DashboardProofs` proves:

* `ServedNeverGoesBack`: `MemoSpec => ReadsNeverGoBack`. One call is in flight at
  most, and none while the value is fresh, so what a call selected is not older
  than anything served before it resolves.
* `SectionsStand`: `SnapshotSpec => SectionsNeverGoBack`. What a failed section
  would show now (`InStock`) never goes back and is never older than what is
  published; a refresh settles a section on that or on something newer
  (`SettledIsNewer`), and the guard keeps other refreshes from publishing in between.
* `RatesStayRates`: `SectionSpec => []RatesAreRates`. An answer is a number, or a
  row of counts taken by one statement, whose parts do not exceed its total
  (`AnswerOK`); across statements there is nothing but the clamps of the builders,
  and they are enough.
* `QuietLoadsAlwaysAgree`: `SectionSpec => []QuietLoadsAgree`. As long as nothing
  is written the tables answer now what they answered before (`AnswersStand`), so
  every agreement is one between sets of rows: a `GROUP BY` partitions what it
  groups, a `DISTINCT` counts no more than its rows, the class table has one row
  for each account, and every instant lies in one bin of the history. A LIMIT shows the
  whole of what is not longer than it and a part of anything else (`TopIs`,
  `LargestIs`), whose counts add up to no more. The
  sizes come from `CountingLemmas`.
* `ProcessedIsExactAlways`: `[]ProcessedIsExact` of the evaluation of any range and
  any position of its two cursors, also outside it and crossed.

Several of these proofs need what is usually proved by induction over a
finite set: that the sum over a set is the sum over a part and the rest, that
a set is as large as its groups together. The induction theorems of the library take
an operator and cannot be used, so `CountingLemmas` argues from a smallest
counterexample: among the subsets of a finite set for which a statement fails there is
one of which no proper part fails (`SmallestSubset`), and taking one element out
of it contradicts that. From the same argument come two inductions on the elements
of a set that is passed as a constant (`LastInduction`, `StepInduction`), and that
a fold over a sequence and a function defined by recursion have a solution at all
(`FoldExists`, `RecursionExists`), without which a `CHOOSE` says nothing.

The assumptions are `ChainAssumption`, `IngestAssumption`, `SkipAssumption`,
`SeedAssumption`, `SchedulerAssumption`, `PkaAssumption`, `BlockAssumption`,
`HealthAssumption`, `MemoAssumption`, `SnapshotAssumption`, the `PoolAssumption` of
each pool and `SectionAssumption`: the limits are natural numbers, positive where
zero makes no sense, and the data sets are finite. `SectionAssumption` also says
that no row is dated later than now, and that an outcome blamed on the MPC
contract comes from a transaction that reached it, which is proved of the classifier
(`MpcFailureReachedMpc` in `TransactionProofs`); `OutcomeAssumption`, that the name
for no executor names no contract; `PricingAssumption`, that no contract's name is
in capitals like the native token's symbol, and that what is unknown is no number;
`PayloadAssumption`, that names and arguments are bytes, fewer than 2^30, and that a
field of n bytes has n of them. They are evaluated by TLC in every run of the
modules that state them. `BlacklistsInTime` is a hypothesis of its theorem, not an
assumption of the module, because the code does not guarantee it for long lists.

Every invariant and every action property of a passing run is stated by a theorem.
Out of the prover's reach, and only model-checked, are the liveness properties
(`CatchesUp`, `DirtyMartIsRebuilt`, `TasksResume`, `UsersResolve`, `EveryTxSettles`,
`SnapshotConverges`) and with them everything about `ENABLED`.

## 5. Not modelled

* Contract-state snapshots. Each view call turns its failure into a null, so
  `snapshotContract` never throws: the branch "All contract snapshots failed" is
  never taken, and during an outage rows of nulls are inserted and the throttle
  checkpoint is set. A triggered run beside the scheduled one reads the
  throttle before the other has written it.
* The mart's aggregates, `ops:rebuild-marts` and `ops:wipe-db`. The wipe deletes
  five tables in one transaction; the missing-ranges ledger, the accounts, the
  user transactions and the health rows stay. It takes back what was resolved, on
  which every property of ingestion rests, and no document says what is expected
  of it under a running worker. Of the seed command, entries that are not ranges
  and the columns other than heights and reason.
* Of the dashboard: the account counts, the contracts' latest rows, the lists of
  recent rows, the day buckets of the uptime and the text of the status page; the
  cold start of the read API, which computes metrics when there is no snapshot.
* Parsing of JWTs and arguments, the refresh of the price list (an empty list
  answered with 200 empties the registry), `parse-mpc-logs.ts`, which nothing calls.
* The trigger's HMAC check, controllers, migrations and configuration.

Losses the code accepts, with no property about them: `martDirty` is lost in a
restart (a later run with sign events repairs the mart); sign events committed by
a block whose other inserts failed and which is then given up leave the mart
stale; a failed MPC call leaves its event without a key once the cursor has
passed; `near-ingest` counts against the cap of its siblings and its tick is
skipped when all four are in flight; `last_seen_at` of a link may go back when an
older event is looked up.

Two things the models show and no document decides. A breakdown's row counts a
pending sign call as signed, the overview counts it neither as signed nor as
failed. The keys found inline in payloads are collected, joined to the effective
key set and then read by nothing.

## 6. Plan

Done: `CoverageLedger`, `IndexerDb`, `NearIngest`, `SkipForward`, `IngestOps`,
`NearRpc`, `IndexerScheduler`, `PublicKeyAccounts`, `BlockClassifier`, `TxOutcome`,
`TxHealth`, `HttpPool`, `TtlMemo`, `DashboardSnapshot`, `DashboardSections`,
`SignPayload`, `Pricing`, `MissingRanges`; the proofs about `NearIngest`, `IngestOps`, `NearRpc`,
`IndexerScheduler`, `PublicKeyAccounts`, `HttpPool`, `BlockClassifier`, `TxHealth`,
`TxOutcome`, `Pricing`, `SignPayload`, `TtlMemo`, `DashboardSnapshot`,
`DashboardSections` and `MissingRanges`.

Next, in this order:

1. `BlockClassifier` under `NearIngest`: the classifier as a refinement of the
   ingestion's abstract rows.
2. The wipe as a further action beside `IngestOps`, once it is decided what a run
   in flight may assume after it.
3. Contract-state snapshots, once something relates their steps.
