# TLA+ models of rpc-state-indexer

rpc-state-indexer takes daily snapshots of token holders and pool state from
archive RPC endpoints and publishes them through ClickHouse views. Its promise
is that a published snapshot is complete, pinned to one day-end block and
verified, whatever fails on the way. This directory models the parts of the
program that keep that promise, checks them with TLC on small instances and
proves the safety properties with TLAPS for every instance.

## The system

| part | state it keeps | operations | talks to |
|---|---|---|---|
| census runner (`core/census.py`) | attempt rows, observation rows, errors, publications (append-only) | `run_token`, `run_pool`, persist, read back, publish | store, collectors, universes |
| publication views (`migrations/007_views.sql`) | none, derived | eligible, status, current, conflicts, canonical anchor | read by the skip gate and by consumers |
| writer guard (`service.py`) | heartbeat rows, heartbeat task | acquire, beat, release | store |
| holder discovery (`core/discovery*.py`) | completed ranges, holder rows | `advance`, `_scan_gap`, `scan_filter` | RPC, store |
| day anchors (`core/anchors.py`, `AnchorStoreService`) | one resolution per date | `resolve`, `persist` | RPC, store |
| orchestration (`service.py`) | plan of a pass, cached targets | `census`, `sweep`, `discover`, daemon, backfill | all of the above |
| compute gate (`service.py`) | last poll | `_await_census_sources`, `run_compute` | store only, takes no guard |
| collectors, executors, RPC pool | batches, endpoint cooldowns | `collect`, `execute`, `call` | RPC |
| sweep and discovered targets | per-wallet coverage, candidates, quarantine | `sweep`, `_discovered_targets` | RPC, store |
| migrations, configuration, CLI | applied versions | apply, load | store |

Parts interact through the store alone. Every insert is a row of its own,
there are no transactions, a read on another replica may lag, and a call may
raise after it was committed. Within a process, coroutines of the targets run
on one event loop, each handing its blocking work to a worker thread that
cancellation does not stop. Between processes, only the heartbeat guard stands,
and `discover` and `compute` run outside the census lock class.

What makes each part correct:

* census: nothing incomplete is ever served; a retry does not hide a
  published result; a good result is published in the end;
* guard: one holder per lock class; a lock left behind comes free;
* discovery and sweep: coverage is claimed only for blocks whose holders or
  logs are stored, has no gaps, and is completed after failures;
* anchors: what is stored is the last block of the day, and only one is;
* executors: a result is the state at the anchor, or there is none;
* treasury: every token a wallet met is measured, and a token that only fails
  is given up;
* compute: a day is derived when it is whole, and then it is not refused;
* migrations: a completed run leaves the schema of the release.

## Modules

| module | models | state |
|---|---|---|
| `CensusPublication` | attempt, worker thread, process, views and skip gate for one target | `co`/`wk` are the control states of the coroutine and its thread; `rows`, `urows`, `status`, `errorIds`, `pubs` are tables |
| `WriterGuard` | `WriterGuard`, `open`, `close` | `pc`, `task`, and ages: `row` of a heartbeat, `sinceBeat` of `last_success`, `ghost` of rows left behind |
| `BlockRanges` | pure range functions of `core/discovery.py` | none |
| `DiscoveryCoverage` | `advance`, `_scan_gap`, `scan_filter`; extends `BlockRanges` | `holders`, `covered` are tables; `gaps`, `pending`, `done`, `logs` the locals of a scan |
| `DayAnchors` | `AnchorResolver.resolve`, `AnchorStoreService.persist`, canonical view | `stored` is `day_anchors`; `tip`, `low`, `high` the locals of the bisection |
| `EndpointPool` | selection, cooldown, archive gating, hash probe and failure classes of `rpc/` | `cursor`, `health`, `archived` |
| `HistoricalExecution` | router, Multicall3 and legacy executors; extends `EndpointPool` | `task` holds the locals of each batch; `status`, `results` of the execution |
| `PinnedRead` | what an executor promises, in two actions | `status`, `results` |
| `TreasurySweep` | `SweepService`, candidates, target cache, quarantine and the daemon's cycle; extends `BlockRanges` | `swept`, `rows`, `fails`, `measured` are tables; the rest is the process |
| `ComputeGate` | `_await_census_sources` and `run_compute` beside the daemon's passes | what the gate's query can tell of a target, and the gate's locals |
| `PoolLiquidity` | `ClLiquidityCollector` and `ClProfileModule` | none |
| `BalanceCollectors` | `ATokenCollector`, `BalancerPoolCollector` | none |
| `UniverseSelectors` | `UniverseResolver` | none |
| `Migrations` | `MigrationRunner` | `schema`, `ledger` are the database; the rest is a run |

The modules compose along the calls of the program: `HistoricalExecution` stands
on the pool, `TreasurySweep` and `DiscoveryCoverage` on the range functions,
`TreasurySweep` takes over from `DiscoveryCoverage` that a range is read whole or
not at all, and the collectors and `CensusPublication` take over from
`PinnedRead` that a call of a snapshot is the state at the anchor or has failed.

`MC*` modules hold model values and bounds, `*Proofs` modules the theorems.
`FoundationsProofs` is about everything the `foundations` run checks (migrations,
ranges, balances, profile, selectors) and about the writer guard, which
`MCWriterGuard` gives the names `G!...`.
Definitions that end in an underscored word and are marked "Mutant" are
plausible mistakes in the definition that follows them; putting one in its
place must break the property `PROJECT.json` names, which shows that the
property depends on the code. No specification uses them.

Actions carry the name of the function or statement they stand for;
`PROJECT.json` gives the lines. The data of an attempt is the set of subjects
(holders, supply calls, pool rows) whose call succeeded, so that a digest is
equality of sets. Call batches, formatting and metrics are left out.

### What the actions assume

* An insert is synchronous (`async_insert = 0`). It returns with its rows,
  raises with or without them, or, for the bulk inserts the read-back exists
  for, returns with some missing. Every such event, a crash, a cancellation
  and a lagging read spend one of `MaxFaults`.
* In `CensusPublication` one process at a time passes the guard; the worker
  thread of a closed process may outlive it, because `close` releases the guard
  before it waits for the thread pool.
* In `DiscoveryCoverage` the chain up to the anchors is finalized, and
  `provider_result_cap` is not above the provider's own cap (`CapAssumption`).
* In `DayAnchors` every read may be answered from another view of the chain, and
  the check of `persist` may see any part of the stored rows.
* In `WriterGuard`, calls last at most `MaxCall`, the event loop is late by at
  most `MaxLate`, and beats fail while the last success is at most `MaxOutage`
  old. Clocks agree.
* In `HistoricalExecution` an endpoint that is asked by number answers from the
  block it has at that moment; the three requests of a number/hash sandwich may
  be answered from different blocks unless the endpoint is `Steady`. The
  sentinels tell the anchor from every other block (`SentinelsIdentify`), and of
  a quorum of groups one is steady (`QuorumHonest`). Between any two steps the
  other calls of the process may move the cursor and report on any endpoint that
  passed its probes. Requests of one attempt read nothing that batches share,
  so an attempt is one step.
* In `TreasurySweep` the guard admits one process at a time. A crash may leave
  attempts behind as "started", the row of a failed attempt may be lost, and an
  insert that raises may have landed in part. The candidate read may miss rows,
  which spends a fault; the reads of coverage and of the quarantine are taken as
  consistent (one that lags scans a window again, or attempts a target once more).
* In `Migrations` a command may raise before or after it took effect, and runs do
  not overlap: `migrate` takes no guard.
* In `ComputeGate` polls fall anywhere, and a query may use up any part of the
  wait (`MaxSlow` bounds how often). The history variable `timely` records
  whether those of the running command fell as the code intends: no gap between
  two attempts spanned two polls, and no poll fell between an attempt's verified
  row and its publication.

## Runs

Passing runs:

| run | shows | bounds |
|---|---|---|
| `census_full_supply` | the inductive invariant, soundness of what is served, conflicts of dust at most, withdrawal only by own failure, read-backs do not block, skips of stored snapshots only, eventual publication | 3 attempts, holders of 1 and 3 units, a tolerance of 1, 2 faults |
| `writer_guard` | a second holder only after the first let its row lapse, how far a healthy guard's row may lapse, the lock comes free | 2 processes, window 4, outages longer than the window, 1 fault |
| `discovery` | coverage is backed, universe exact at the anchor, coverage completes | 2 processes, anchors 2 to 4, caps 3, one crowded block, 1 fault |
| `anchors_two_classes` | bracket, day ends, an anchor that settles, termination | 2 processes, 2 forks of 6 blocks, lagging reads |
| `pinned_reads` | `HistoricalExecution` implements `PinnedRead`, an execution asks only endpoints it may trust | 2 endpoints in 2 groups, one strict and one lenient behind a load balancer; 3 calls in batches of 2, of which 2 may fail; 2 retries; anchors before the archive, before Multicall3 and after it |
| `treasury_daemon` | coverage is backed and gap-free, a census with fresh and complete candidates is whole, the sweep catches up, spam is retired | 2 wallets, 2 topic positions, 5 contracts, 2 days, windows of 2 blocks, quarantine after 2, 2 faults |
| `compute_gate` | an undisturbed day is computed whole, a whole day is refused only for want of a second poll, the day is computed in the end | 2 jobs, 3 targets, 5 polls, 2 faults, a slow query |
| `foundations` | range functions, liquidity profile, balances, selectors and migrations against references stated another way | every store of 3 ranges below block 6; every pool of 2 positions on 7 ticks with one call lost; every ledger of 2 holders with a RAY of 4 and any calls lost; every list of 2 vault assets; every catalog of 3 selectors; 3 migrations, 2 faults |

Three attempts are enough for a cancelled attempt, the one that races its thread
and a third that cleans up; two faults let a failure happen while the last one
is handled. Two holders of unequal balance, one of which the tolerance covers
and one it does not, tell dust from a missing holder. That run has one config
hash and the default skip gate; the safety of other hashes, of the
registry-gated gate and of the other integrity modes is covered by the theorems
and, for a concentrated-liquidity pool, by `census_cl_stale_read`. The window of
4 ticks leaves room for a late beat and an outage. Three ranges reach overlap,
nesting and adjacency at once, and a range of four blocks is split twice. Two
endpoints and two retries are the fewest with which a batch is refuted by one,
fails on the other, and finds both cooling; a batch of two calls that both fail
is escalated twice and may still be split. Two wallets, one of which may be
added at a restart, have different gaps; the token that only the second meets,
on the second day, is found by a sweep that has old coverage. A RAY of 4 has
every remainder of a division that rounding tells apart, and two holders of 4
units overflow the UINT256_MAX of 6.

Violations, each against a sentence of the repository (quoted in
`PROJECT.json`):

| run | what happens |
|---|---|
| `census_cl_stale_read` | `readback_cl_digest` raises on a lagging plain read before the consistent re-read can happen |
| `census_any_hash` | with the default `skip_published_any_config_hash`, a target that was published under an older config hash is skipped though `v_publications_current` does not show it |
| `guard_outage` | after an outage only the heartbeat task dies; the work goes on until the daemon's next job, or to the end of a backfill |
| `compute_interrupted_pass` | targets a failed or restarted pass left unpublished are invisible to the readiness counts |

Other places where the models show less than the text around the code says,
each at its hazard in `PROJECT.json`:

* the thread of a cancelled attempt may append its publication after the
  attempt's "failed" row; the views hide it, and the target is retried;
* a universe read that misses a holder without a balance, or with dust within
  `holder_sum_tolerance`, passes the supply check. Beside an attempt that read
  the holder it puts the target into `v_publication_conflicts`, where no retry
  under the same config gets it out again: `ConflictIsDust` says what such attempts may differ in,
  and `EventuallyVisible` allows for the conflict;
* a heartbeat insert slower than the window allows (the defaults are a window of
  120 s and calls of up to 300 s) lands a stale row that its writer believes
  fresh, and both reads of `acquire` are plain reads: then, or with lagging
  reads, `AtMostOneHolder` fails. The runs and theorems about exclusion take
  those reads to see the rows written before them;
* two processes of different lock classes, or one whose check reads a lagging
  replica, may store two different anchors, after which the date has no
  canonical one. `AnchorSettles` says when an anchor is safe: nobody is about to
  insert, and no later check misses a row;
* a compute for a recent date with a positive wait of a second at most, or whose
  queries use up the wait, refuses a day that is whole, because the time left is
  truncated and looked at before a second poll;
* a poll between two targets and the next one between a verified row and its
  publication read equal counts in the middle of a healthy pass;
* the discovered targets are those of the process's first census: a token the
  daemon's own sweep finds later is measured after the next start, while the
  docstring of `_discovered_targets` takes the candidates as fixed for the run.
  The candidates are also read with a plain query, and what it misses stays
  missing for the process. `FreshCensusWhole` is about the cycle that resolved
  them by a read that missed nothing, and `TreasurySweep` with either condition
  dropped violates it.

### Fairness

Weak fairness only, of steps that do not fail. The daemon's loop never ends and
its pod is restarted; the event loop resumes a ready coroutine; ClickHouse and
RPC calls return or time out; time passes; a compute that was refused is run
again. No fault is fair, and `MaxFaults` makes them finitely many. In
`HistoricalExecution` failures are not bounded at all: that an execution ends
follows from the bounded retries alone, under fairness of its own steps and
with none for cooldowns. Where TLC could not evaluate the fairness of a step
with its data, it is stated of the control states the step joins (`ScanIsOver`,
`GapsAreRead`), which no other step joins. Deadlock is checked everywhere except
where an execution ends (`pinned_reads`), the attempt ids run out
(`census_cl_stale_read`, `census_any_hash`) or the drivers of the pure functions stop
(`foundations`).

## Refinement

`PinnedRead` is the contract of `HistoricalCallExecutor.execute`: it raises, or
returns one result per call in the order of the calls, each the value at the
anchor or a failure. `HistoricalExecution` maps to it by the identity on `status`
and `results`, with `Truth` the values of the anchor block. Every step of a batch
is a stutter; `Return` and the exceptions are the two abstract steps. The
refinement covers splitting in the middle of an escalation, parallel batches
that cool each other's endpoints down, forked and garbled answers and a quorum
that disagrees; replacing the sentinel check, or trusting an endpoint that
passed only the first half of its hash probe, breaks it.

## Proofs

The theorems hold for every set of attempts, processes, holders, wallets, logs,
endpoints, batches and views, every size of window, chunk and batch, and every
bound on faults. They rest on the named ASSUMEs of the modules, which TLC
evaluates in every run, and on the assumptions the table names.

| theorem | statement | argument |
|---|---|---|
| `TypeCorrect`, `AttemptLifeCorrect` | `TypeOK` and `AttemptLife` of `CensusPublication` | action by action |
| `EligibleSoundness`, `PublicationOrder` | `EligibleIsSound`, `PublicationFollowsVerified` | from `AttemptLife` |
| `WithdrawalIsOwn` | `OnlyOwnFailureWithdraws` | per action, from `TypeOK` and `AttemptLife` |
| `GoodResultPasses` | `GoodResultNotBlocked`, in every mode but cl_liquidity, where `census_cl_stale_read` refutes it | the consistent re-read follows the plain one |
| `ServedSnapshotIsWhole` | `ServedIsWhole` in the two modes that check the supply: readers find every scalar and every holder of the universe that was frozen, and the holders it lacks own no more than the tolerance (nothing in scaled_full_supply) | `MissedSupply`: sums over finite sets turn the supply check into a bound on what is missing |
| `ConflictsAreDust` | `ConflictIsDust`, without further assumptions | two eligible attempts each miss at most the tolerance, and have all scalars |
| `SkippedIsStored` | `SkipsOnlyStored`: a skipped target has a sound snapshot stored, under either setting of `skip_published_any_config_hash` | from `AttemptLife` |
| `GuardTypeCorrect`, `GuardAgesCorrect`, `HealthyLapse` | types, `GuardAges`, `HealthyLapseBounded` | `GuardAges` bounds the age of a row by the age of the last success, and that by the timer |
| `GuardExcludesUnlessLapsed` | `ExcludesUnlessLapsed`, for every timing, assuming that the reads of `acquire` see the rows written before them | along a behaviour in which no holder's row lapses, a contender's second read, which follows its own write, sees the holder's row or is seen |
| `CoverageIsMerged`, `GapsAreExact`, `FrontierIsExact`, `CoverageIsExact` | `merge_coverage`, `coverage_gaps` and `contiguous_frontier` are exact for every finite store | see "Folds" below |
| `ChunksAreExact`, `HalvesAreExact`, `PartsAreExact` | the chunks of `scan_filter` and the halves of `split` partition their range | arithmetic of the ceiling |
| `CoverageStaysExact`, `PartsStayExact` | the properties of the `foundations` run, `CoverageExact` and `PartsExact`, for every `MaxBlock` | the theorems above for the inputs of the run |
| `SchemaFollowsLedger`, `MigrationsComplete` | `SchemaFollows` of `Migrations`, and `SchemaIsRelease`: a run that completes leaves every object as the release defines it, whatever runs died before it and on whatever statement | the schema is never more than one file ahead of the ledger, and running that file again repairs what a dead run left of it |
| `BalancesAreExact`, `ReservesAreExact`, `BalancesStayExact` | `ExactBalances`, `ExactReserves`, and `BalancesExact`, for every RAY, index, ledger, universe and list of vault assets: a verified reading has the nearest integer for every account, misses no holder under scaled_full_supply and is off the scaled supply by half a unit per account at most, and a complete one is refused only for an overflow | `RayRounds` for one balance, sums over finite sets for the total |
| `ProfileIsExact`, `ProfileStaysExact` | `ExactProfile` and `ProfileExact`, for every pool, word size and set of lost calls: a pool that is read whole is published, and the profile of a published one is the liquidity in range at every tick | the ticks of the bitmap are the initialized ones (`TickOfBit`), and the net over the ticks at or below a tick is the liquidity above it (`NetIsLiquidity`) |
| `SelectorIsExact`, `SelectorsStayExact` | `ExactSelector` and `SelectorsExact`, for every finite catalog: `resolve` raises exactly on the selectors that reach a cycle, an unknown name or a combination of nothing, and otherwise returns what the selector means, with true labels | induction over the stack of `resolve`, from the longest |
| `MeaningIsUnique` | the equations `ExactSelector` compares with have one solution where nothing is broken | two solutions that differ on a selector differ on one below it |
| `DiscoverySoundness`, `CoverageIsBacked` | `DiscoverySound`, `CoverageBacked` | what a scan has read is in `logs`, and is stored before its ranges |
| `AdvanceSoundness`, `UniverseIsExact` | `AdvanceSound`, `UniverseExact` | every required block is covered, or in a gap or chunk still to be read, or in the scan in hand; and stored holders come from real logs |
| `ResolutionCorrect`, `BracketHolds`, `AnchorsAreDayEnds` | `ResolutionSound`, `SearchBracket`, `AnchorIsDayEnd` (the last assuming `HonestViews`) | a linked pair around the boundary lies in one view, where timestamps increase |
| `SettledAnchorStays` | `AnchorSettles`, for any processes and views | a check that misses no row of a date with one anchor leads to no insert of another |
| `ProbesHalve` | `SearchHalves`: a probe leaves at most half of the bracket, rounded up, and never none | the safety half of `SearchEnds` |
| `LoneWriterKeepsDate`, `OneViewKeepsDate` | `DateKept`: a date with a stored anchor has a canonical one, for a single process none of whose checks missed a row, or for any number that read one honest view | the two ways in which the race of the lock classes cannot spoil a date |
| `SweepIsBacked` | `SweepBacked` of `TreasurySweep` | the logs of the window in hand are in `found`, and stored before its range |
| `SweepSoundness`, `SweepIsGapFree` | `SweepSound`, `GapFree` | of a position whose gaps were read, every required block is recorded or in a queued window |
| `CensusSoundness`, `FreshCensusIsWhole` | `CensusSound`, `FreshCensusWhole` | a whole sweep is gap-free and backed, so every token a wallet met is a candidate of a read that misses nothing, and a candidate leaves the queue only measured or failed |
| `GateTypeCorrect` | `TypeOK` of `ComputeGate` | with `PassSound`, since the counts are numbers only while finitely many rows are counted |
| `UndisturbedDayCorrect` | `UndisturbedDayIsWhole`, assuming `Recent` and `Waits` | `GateSound`: unless the day is whole, a complete poll leaves something the next one sees |
| `WholeDayPasses` | `WholeDayNotRefused`, assuming a non-empty list of non-empty jobs | a whole day changes no count, so its first poll is ready and a second one agrees with it; only a wait without a second one refuses |
| `ExecutionCorrect`, `ExecutionTypeCorrect` | `ExecutionSound`, `TypeOK` of `HistoricalExecution` | action by action, per executor |
| `AskedAreTrusted` | `AskedIsTrusted` | from `ExecutionSound` |
| `ExecutionIsPinned` | `HistoricalExecution` implements the initial states and the steps of `PinnedRead` | the steps of a batch stutter; `Return` and the raising steps are the abstract ones |

Inductive invariants, and why the properties alone are not enough:

* `AttemptLife`. A row of the store does not say how far its writer has come. A
  thread at or past its verification step has a sound snapshot stored, nothing
  is stored before the thread starts, and status rows arrive in order even when
  the coroutine has already gone on.
* `GuardAges`. Exclusion is about a race of ages.
* `DiscoverySound` and `AdvanceSound`. The completed ranges of a scan are in
  memory before they are stored, and `UniverseExact` needs that none of the
  required blocks is in none of the lists: gaps, pending chunks, halves, done.
* `SweepSound`, `CensusSound`. The same for windows, and for targets that were
  resolved before they are attempted.
* `UndisturbedSound`. What two equal polls say about a pass depends on how it
  moves between them: `Orderly` is the order of the pass, `CountsBehind` that
  counts only grow, `GateSound` what the gate may conclude.
* `ExecutionSound`. A batch has delivered good values for a prefix of its part,
  its segments cover the rest in order, and the body of a nested request lines
  up with the calls that failed. Return then concatenates parts that adjoin.
* `SchemaFollows`. Completion needs to know what the earlier, dead runs left: the
  ledger names the first n files of the release, and the schema is theirs except
  for objects of file n + 1, which may or may not be there.
* `TypedInput`. The inputs that `foundations` draws are those the theorems about
  the pure functions are for.

Assumptions that say something about the program:

* `Recent` and `Waits` of `UndisturbedDayCorrect`: `_await_census_sources` waits
  only for a recent day and a positive wait; otherwise one poll decides.
* The supply modes of `ServedSnapshotIsWhole`: a scoped or pool job has no supply
  to tell a smaller universe by.
* Jobs without targets, which `WholeDayPasses` leaves out, publish nothing and are
  never ready.
* `SweepConstants` has no anchor before `start_block`: `BlockRange` refuses an
  empty range and `advance` would raise. It orders the anchors of the days.
* `SentinelsIdentify`, `QuorumHonest`, `CapAssumption` and `HonestViews` say what
  the endpoints do; they are the same as in the runs.
* `GuardAssumption`: the window and the beat interval are not zero, and the
  durations are natural numbers.
* `ReleaseAssumption`: a file has a statement, and an object is always created
  (if it does not exist) or always replaced, as the files of `migrations/` do
  with tables and views.
* `PoolShape`: positions start and end on ticks of the pool's spacing, between
  `MIN_TICK` and `MAX_TICK`. The pool contract reverts on any other.
* `ScaledLedger`: finitely many holders, with natural balances and index.
* `Catalog`: finitely many selectors of the kinds `UniverseResolver` tells apart.

Folds. The loops over ranges are folds of the community modules, whose definition
is a recursive function over sets of indices. `FoldIsDefined` shows that a fold
over a list has a value at every prefix, `MergeUnfolds`, `GapsUnfold` and
`FrontierUnfolds` that one more element is one more turn of the loop, and
`LeastBlock` that a set of numbers has a least element. A property of the loop
is then proved from the least prefix on which it could fail, which takes the
place of induction. `FlattenLists` treats `FlattenSeq` the same way, and
`RanksAreTaken` shows that `Sorted`, defined by the number of elements before an
element, has a value at every index when the order is total.

Sums and recursion. The sums are in `BlockRangesProofs`, which the modules that
use them extend. A supply or a liquidity is a sum over a finite set, written
as a fold that takes any element out. `SetInduction` is induction over
finite sets for a property given as the set of the sets that have it, which the
provers can instantiate. `SumsExist` and `SumsAgree` show that the fold has one
value whatever order it takes, `SumOfSet` that adding an element adds its value,
and `SumIsLinear`, `SumSplits`, `SumByKey` and `SumIsBounded` are the laws that
the balances and the profile are computed with. `resolve` recurses along the
references of a catalog with the stack of the names above; the stack only grows
inside a finite catalog, so `ResolverExists` builds the recursive function from
the longest stack down, and `StackInduction` proves properties of it the same way.
`StackIsIrrelevant` then shows that where nothing is broken the stack does not
change the result.

Only model-checked:

* every liveness property (`EventuallyVisible`, `LockRecovers`, `EventuallyCovered`,
  `SearchEnds`, `EventuallyComputed`, `SweepCatchesUp`, `SpamRetired`), and the
  part of `ImplementsPinnedRead` that says an execution ends: they need fairness
  and ENABLED.

Every other property of a passing run is a theorem above, under the assumptions
named there.

## Not modelled

* Configuration loading, CLI, ABI encoding and decoding, metrics and health
  endpoints: no state the properties are about.
* The rate gate and request ids of `AsyncRpcClient`, and the probes other than
  the one for hashes: an endpoint passes them or is barred. Its retry loop
  appears in `HistoricalExecution` as what other calls do to the pool.
* `execution/code.py` and `collectors/pools.py`: single reads through the executor.
* Token metadata, which labels tokens and never decides what is measured.
* The date loop of a backfill, which repeats the census of one date, and `bench`.
* The splitting of a migration file into statements, and the edit of a file that
  a dead run left half applied: what the rerun does depends on both texts.
* The ConfigError of `full_holders` for a holder row without a source, which no
  stored row is.

## Plan

1. Done: every module above, and the theorems of the table.
2. Possible next: a census of several dates with a changing configuration, for
   coverage that is keyed by token and topic alone.
