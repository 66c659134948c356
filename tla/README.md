# TLA+ models of Traidin

Traidin collects futures candles from Binance into one SQLite database, keeps them
complete, and uses them to verify trading strategies and to search for new ones.  Most of
what can go wrong in it is bookkeeping: several long-running workers, three
operating-system processes, timers, watchdogs, leases and one database, in which statuses,
checkpoints and ownership columns must stay true through cancellations, failed writes and
crashes; and a simulation whose balance, stops and clock must be right, because everything
else judges strategies by it.  These modules model both.  TLC checks them on small
instances, and TLAPS proves the most important facts for every value of the constants.

Paths such as `server/index.ts` are relative to `src/`.

## 1. The system

| component | state it keeps | operations | hard because |
|---|---|---|---|
| **SQLite writer** (`server/db/database.ts`) | priority queue, `running`, metrics | `enqueue`, `drain` with BUSY retries and yields, `close` | every state change of every worker waits in it; order by priority, retries, a stop with a full queue |
| **Research runs** (`server/strategy/research-repository.ts`, `research-worker.ts`, `research-worker-process.ts`, `server/index.ts`) | table `research_runs`: status, worker, claim token, lease, counters; `activeOwnership`, `running`, `staleClaim` of a process | launch, pause, resume, cancel, delete; claim, heartbeat, attempt loop, end; exit and restart of the worker process | two processes write the same rows; checks and writes are apart; superseded workers live on |
| **Research candidates** (same files, generator, grammar, templates) | candidate and attempt rows, counters, hashes | generate, deduplicate, evaluate, reconcile | counters against rows over a crash and a second launch |
| **Backfill jobs** (`server/workers/backfill.ts`, `db/repository.ts`) | table `backfill_jobs`: status, `cancel_requested`, checkpoint, `updated_at`; `busy` | create, pause, cancel, retry; claim, page loop, closing scan; watchdog; recovery | unguarded requests race the worker's unguarded writes; the checkpoint has a higher priority than its candles |
| **Gap detection and repair** (`services/gap-service.ts`, `workers/gap-repair.ts`, `db/repository.ts`) | table `gaps`: status, checkpoint, `updated_at`; `busy`, `activeGapId`, `liveFreshSince` | scan, claim, page loop, defer, fail, rebuild; watchdog; recovery | many ways out of a repair; deduplication by range; the watchdog reads state that its write meets later |
| **Live ingestion** (`workers/live-ingestion.ts`, `live-stream-child.ts`, `live-state.ts`) | the child's newest snapshot; `lastSnapshotAt`, `emitted`, freshness in the server | socket, poll, persist a closed minute, continuity check, exits and restarts | a snapshot keeps one closed candle; what was taken is not delivered again |
| **Aggregation** (`workers/aggregation.ts`, `domain/aggregate.ts`, `domain/intervals.ts`) | aggregate candles, `reconciling` | build a bucket, reconcile, rebuild | aggregates are computed before and written after an await |
| **Verification runs** (`strategy/verification-worker.ts`, `strategy/repository.ts`) | `verification_runs`, trades, results; `running` | create, rerun, retry, cancel, recalculate; claim, execute, recover | one slot guarded by a flag set too late; results stored in several writes |
| **Strategy catalogue and promotion** (`strategy/repository.ts`, `api/routes.ts`) | strategies, versions, promotions | create, publish, retire, archive, clone, outcome, promote | promotion is up to four writes and a transaction; outcomes arrive late |
| **Simulation** (`strategy/simulation.ts`, `condition-engine.ts`, `fee-audit.ts`) | position, balance, trades, funnel of a call | exits, conditions, filters, entry, sizing, fees, end of test | order of exits in a bar, rounding, early exits of the loop, the edge of the window |
| **Features, indicators** (`strategy/feature-engine.ts`, `indicators.ts`) | cached series | values as of a time | point-in-time access |
| **Metrics, Monte Carlo, walk-forward, reports, exports** | none | pure | selection rules, formatting |
| **API, event bus, Binance adapter, dashboard** (`api/routes.ts`, `events/bus.ts`, `binance/*`, `app/*`) | clock offset and weights | routes call the repositories; SSE | routes read, await and write |

How they interact.  The server process runs the API, the live stream, aggregation,
backfill, gap repair and verification in one event loop, and forks a process for
research and one that holds the exchange's socket.  The first two have each their own writer queue on the same database file; the third writes nothing.  Workers
never call each other except that backfill and aggregation call `gapService.scan`, gap
repair calls `aggregationEngine.buildBucket`, and gap repair and aggregation stand back
while `jobRepository.hasActive()` or the stream is not fresh.  Everything else goes
through rows: a request writes a status, and a worker reads it at its next checkpoint.

What makes each one correct:

- writer: nothing is forgotten, an effect happens once if and only if its promise
  resolves, order follows urgency, every caller hears the end;
- research runs: one owner at a time, a superseded owner never writes again, an ended run
  stays ended until an operator reopens it, requests and running runs come to an end;
- jobs and gaps: a checkpoint never speaks of candles that are not there, nothing is left
  in a status nobody looks for, what is completed or repaired is accounted for, and every
  recorded piece of work is finished in the end;
- candles: only closed data counts as final; an aggregate whose minutes are there becomes
  complete, whatever was computed from older minutes meanwhile;
- verification: a completed run has the report of its own trades, queued work ends, a
  promotion leads from candidate to strategy, version and run, what was retired stays so;
- candidates: no signal series is accepted twice, over crashes too; a completed run has a
  verdict for each candidate, and the right one;
- simulation: the balance is what the fills add up to, a trade loses no more than stop and
  leverage allow, trades follow each other inside their window.

## 2. Modules

| module | what it is |
|---|---|
| `ResearchRuns` | research runs: rows, API requests, worker processes, supervising server |
| `RunOwnership` | what the ownership columns promise: grants with fresh tokens, writes by the holder alone, revocation without return; and the exception of a stray run |
| `ResearchRunsProofs` | theorems about `ResearchRuns`, among them that it implements `RunOwnership` |
| `SQLiteWriter`, `SQLiteWriterProofs` | the writer queue of a process, and theorems about it |
| `CheckpointedDownload` | what the checkpoints of the two download workers promise: forward only, never over candles that are not committed |
| `GapRepair` | gaps: scans, the repair worker, watchdog, restarts, beside live stream and backfill |
| `BackfillJobs` | backfill jobs: requests, the worker, watchdog, restarts |
| `LiveCandles` | child, socket, polls, persistence of closed minutes, aggregates, reconciliation, scans and rebuilds on request, the end of a job |
| `StrategyCatalog` | strategies and their versions, the operations of `strategyRepository` |
| `VerificationJobs` | verification runs, their requests and worker, and promotion, over `StrategyCatalog` |
| `ResearchGeneration` | what an execution of a research run does with its candidates, write by write |
| `Simulation` | one historical simulation, bar by bar |
| `VerificationJobsProofs`, `ResearchGenerationProofs`, `BackfillJobsProofs`, `GapRepairProofs`, `LiveCandlesProofs`, `SimulationProofs` | theorems about the module each is named after; among those about jobs and gaps, that they implement `CheckpointedDownload` |
| `MC...` | the instances TLC checks |

The modules lean on each other by assumption and guarantee rather than by one product of
all state spaces.  `SQLiteWriter` justifies how the others treat a write: it waits in a
queue, has its effect once or not at all, and its caller hears which (`EventuallySettled`,
`PromiseMatchesEffect`, `AwaitedFirst`).  `BackfillJobs` proves to TLC that every active job
comes to rest (`ActiveEnds`), which is the fairness of `BackfillEnds` in `GapRepair`.  The
missing minutes that a backfill hands over (`reported`) are what `Scan` takes in there.
`ResearchRuns` shows that a run has one owner (`OneWriter`), which is why `ResearchGeneration`
has one execution; it opens the attempt loop that `ResearchRuns` abstracts to a count.
`LiveCandles` opens the rebuild of aggregates that `GapRepair` and `BackfillJobs` abstract to one
step, and takes repair and backfill as actions in turn; its `OpenOnlyIfAsked` says where the gaps come from
that reach into the open minute: from a job, a scan or a rebuild that was asked to, which `GapRepair` has with
`FutureScans = TRUE` and leaves out with `FALSE`.  `BackfillJobs` and
`GapRepair` both implement `CheckpointedDownload`, so what a worker that starts again may rely on is
stated once for the two.  `VerificationJobs` extends
`StrategyCatalog` and composes requests, worker and catalogue in one state.

Definitions that replace a definition in a mutated model (a dropped guard, an
off-by-one) stand just before their original, with a comment that calls them a slip;
no action uses them.

### ResearchRuns

One SQL statement is one step.  `researchRepository.update` is two: the row is read and the
transition asserted (`ReadRequest`, `BeginStatusWrite`), and the UPDATE runs later from the
queue (`CommitRequest`, `WriteStatus`).  Writes that change no status are atomic and look up
their ownership when they are made.  A `proc` is one incarnation of the worker process; a
server that is asked to stop takes its worker along, one that is killed may leave it
(`StopServer`), and the next server forks another.  `exec` holds the calls of `runOnce`:
`Slots` are the ones that can overlap in a process, because `running` is set after the awaited claim; each claim
overwrites the one `activeOwnership` of its process, and the end of any of them clears `running`.  A lease is none, live or expired.  `writer`
is a history variable, the claim that last wrote to a row.  The attempt loop keeps its
guards, the checkpoint and the fence of each write, but of candidates only the attempt
number; when the loop ends is nondeterministic.  A `RUN_FAILED` log that is refused after
the FAILED update throws outside any handler and ends the process (`CrashWorker`).
`reclaimExpired`, which only tests call, is an action of an operator.  Left out: the
heartbeat timer that overlapping slots leak, the status INITIALIZING, which nobody writes,
and the 25 ms between the last message and the exit.

### SQLiteWriter

The sorted array is a set with the order `Before` (priority, then order of asking).
JavaScript runs a stretch without awaits in one go, so `enqueue` on an idle writer makes
its first attempt in the same step, and `drain` has a step per await: a retry delay, a
yield.  An attempt succeeds, is BUSY, which is retried up to three times, or fails in
another way.  `Awaits` says which operations a caller asks for only after another one
resolved, as the page loops do with candles and checkpoint.  `Stop` closes the connection
with whatever is queued.  Operations are atomic effects.

### GapRepair and BackfillJobs

Minutes are numbers, `now` is the open one.  The candle table is a function or a set of
minutes of one symbol.  Writes of one priority wait in one sequence; the writes of live
candles pass them by, and in `BackfillJobs` the candles (priority 5) are written only when
no write of priority 4 waits.  A row is its status, checkpoint and age: `old` is the set of rows
whose `updated_at` lies before the watchdog's limit; rows of gaps are old from the start,
because their `updated_at` is 0 until a first update.  A call of the watchdog is queued with
the gap it spares (`watchExcept`).  `runOnce` is a record with a program counter, one step
from await to await; each page loop has its deferrals, errors and early returns.  Rejected
writes go to the catch block; when even the record of the failure is rejected, nobody
catches that in the server process, which is a `Stop`.  The rebuild of aggregates is one
step with its outcomes.  The exchange has the minutes of `listed`, so pages may be full,
partial or empty.

`MissingRanges` gives the maximal stretches without a candle, as the SQL with `lag` does;
`InsertGaps` skips what overlaps an active gap and, as the UNIQUE constraint and ON CONFLICT
DO NOTHING demand, a range that had a row before.  In `BackfillJobs` a request changes the
row whatever its status is, as the routes do; the filter for closed candles and the answer
of the exchange are one step.

In `CheckpointedDownload` a task is a job or the range of a gap.  It owes nothing until its row is
created (`Accept`), and from then on the minutes which the exchange has of a gap's range, or
of a job's span as far as they were closed at its creation.  Every commit of candles is a `Store`, of whatever worker or of
the live stream, every checkpoint an `Advance`, and all else (claims, deferrals, failures, stalls, requests,
restarts) a stutter.

### LiveCandles

One symbol, minutes as numbers, a bucket as the set of its minutes, the content of an
aggregate as the set of minutes it was computed from.  `link` is the child and its socket;
`child`, `taken` and `emitted` are the closed candle the child holds, the last one a snapshot was
taken of, and the one being persisted.  Persisting a minute is an event, an upsert and then
`onMinuteClosed`, each a step, because each is awaited; a failed write clears `emitted` but not
`taken` (`WriteFails`).  `flow` holds every call that writes: one per minute, and the continuity
check, repair, reconciliation and rebuild.  A call reads a bucket (`ReadBucket`), scans for gaps
when minutes are missing (`GapsCreated`), and stores what it computed from the minutes as they
were (`AggregatesStored`); anything may come in between.  The buckets a call has to look at are
a set, and `Comes` is the order in which it takes them: by timeframe, or by open time in the reconciliation.
Requests to scan or rebuild and the ends of jobs name minutes of `Spans`, open or closed, because no route looks at the
clock; the closing scan of a job reaches to its end, and the rebuilds that follow to the last bucket before it.  The history
variable `asked` holds the minutes not closed yet that any of these has reached for.  A job downloads closed minutes only, but
a repair stores what the exchange has of its gap, the open minute included.  Weeks, latencies and payload
validation are left out.

### StrategyCatalog and VerificationJobs

Strategies and versions are sequences; a configuration is its hash.  A request is a record
with what it has done so far, one step per awaited write, and may fail at each
(`RequestFails`).  A run keeps its status, the cancel flag and which attempt its trades and its
report are from, so that `CompletedHasReport` can tell one execution's trades from another's.
`Slots` are overlapping calls of `runOnce`: the flag `running` is set after the claim and cleared
by whichever call ends first.  The stages of a profile are steps at which the flag is
looked at; what they simulate is left out.  Trades, report, status and outcome are
four writes; `Restart` may come between any two.

### ResearchGeneration

A candidate is given with its hash, the fingerprint of its signals and its metrics, because
generator and simulation are deterministic; `generator` says what each attempt makes.  Rows,
attempts and counters are the tables, `mem` is what an execution remembers and a crash
loses; `Begin` loads it from the rows as `execute` does.  Every write is a step.  Finalization
stores a status that the table's CHECK refuses, so `Reconcile` throws when a candidate is
left without a verdict.  With a score that is not a number (a finalist without a losing
trade) the order of the finalists is any.  Left out, because nothing reads them back: stage
counters, timings, logs.  Two branches of the code cannot be reached with one execution and are not
modelled: the insert conflict, and the mismatch of the accounting.

### Simulation

Exact integers: money in hundredths, prices in fractions of a tick, times in half bars.
A bar is a step per execution candle (`CheckCandle`: trail, stop, target, exit condition,
in the code's order), one for the trigger candle's exit condition, one to decide what
comes after (`Settled`), and one for the entry.  Conditions are trees that `evaluateCondition`
evaluates over an environment: each reference has a value now, one before, and a reason why
it might have none (`NaN`).  `Conditions` is the set of nodes of all trees, which makes the evaluation a
function.  `entryQualityResult` is the four filters in order; `Outcome` is the chain of early exits that a
signal goes through, with the counter each increments.  Candles and references are chosen freely from
small sets; a reference may therefore differ between two evaluations on one bar, which is
more than the code can do.  MAE, MFE and the display fields of a trade are left out, and the
counters of bars and signals, which nothing depends on.

## 3. Runs

Each finishes within four minutes on two cores.  Deadlock is not checked: the supply of
process incarnations, jobs, bars or disturbances runs out, and a stopped process may stay so.

| run | shows | size |
|---|---|---|
| `research_safety` | `TypeOK`, `OneWriter`, `FenceLostToOverlap`, `OperatorReopens`, `NoLateWrites`, `OwnershipSpec` (the implementation of `RunOwnership`): two runs, two incarnations of two overlapping ticks each, a kill, a stop that may leave an orphan, two requests, lapsing leases | 990,506 states |
| `research_liveness` | `RunningEnds`, `HeldRequestEnds` with a server that stays up: one run, five incarnations, a kill, four requests | 95,678 |
| `research_generation` | `TypeOK`, `SignalsUnique`, `CompletedIsSettled`, `BudgetKept`: whatever four attempts make, a budget of two, any two crashes, pauses or cancellations, relaunches | about 2,700,000 |
| `research_finalization` | `FinalizationConverts` does not hold (finding) | |
| `sqlite_writer` | `TypeOK`, `PromiseMatchesEffect`, `ServesMostUrgent`, `EventuallySettled`: five operations, four priorities, one pair equal, one awaited | 32,646 |
| `gap_repair` | `TypeOK`, `RepairedIsStored`, `NoAbandonedRepair`, `MissingTriggersRepair`, `RecordedIsRepaired`, `DownloadSpec` (the implementation of `CheckpointedDownload`) | 221,620 |
| `gap_open_minute` | `CanonicalClosed` does not hold (finding) | |
| `backfill` | `TypeOK`, `CompletedAccounted`, `SoleRunner`, `ActiveEnds`, `DownloadSpec` | 1,117,468 |
| `live_candles` | `TypeOK`, `LackIsRecorded`, `OpenOnlyIfAsked`, `IncompleteIsCompleted`: two buckets of two minutes inside one of four, any disturbance or request | 533,398 |
| `verification_safety` | `TypeOK`, `CompletedHasReport`, `RunsAreExecuted`, `PromotionTraceable`, `RetiredStaysRetired`: two callers, two slots, two runs, two requests, one failure or stop | 2.0 million |
| `simulation` | `TypeOK`, `Accounted`, `LossBounded`, `TradesInOrder`: five configurations over every sequence of four of four bars | 79,718 |
| `simulation_window` | `NoFuturePrice` does not hold (finding) | |

What the properties mean is written above each of them in the modules.  For what jobs and gaps owe, `CheckpointStored` follows from
`DownloadSpec`, `AwaitedFirst` of the writer from `PromiseMatchesEffect` and what callers await, and what
`NothingForgotten` forbids would show in `EventuallySettled`; no run repeats them, and section 5 has them as theorems.

**Bounds.**  Requests, kills, stops, attempts and disturbances are bounded by constants
named `Max...`, which appear only in guards of actions of the environment; the workers'
own loops are not cut.  The safety run of `ResearchRuns` has two runs and two slots per process, which is what
two claims of one process need to take each other's `activeOwnership`, and two incarnations, which is what a survivor
beside its successor needs; the liveness run has one run and one slot.  Three minutes with pages of two and chunks of one give two
pages and a page of two chunks, so a failure can fall between chunks, between a chunk and
its checkpoint, and between pages.  `MaxTrouble = 2` in `GapRepair` gives every pair of
disturbances, such as a stop after a deferral.  In `BackfillJobs` the three requests include
the creation of jobs, so either two jobs and a request or one job and two requests; one
minute is left to close, so that a job may end in the open minute.  `ScanSpans` holds two
overlapping spans, so that gaps are found inside gaps.

In `LiveCandles` there are two buckets of two minutes inside one of four, so that a call looks at several, some of them
open, and a gap may reach over the end of a bucket; one disturbance may lose several minutes, which repair and
reconciliation then deal with, or is a job, a scan or a rebuild beside them.  `Spans` is the second half of the minutes:
a request for it comes while none, some or all of it is closed, and the bucket it makes incomplete has both of its minutes open at first.
(With the whole span as well the state space is a fifth larger and the result the same.)  `Backlog = 0` lets a minute close only when the one before has been
persisted, which a stalled process would break; `ReconcileLimit` is the number of aggregates, because the
code's limits (250, and 10 for the timer) are for the aggregates of all symbols (section 4).  In `VerificationJobs` two runs, two callers and two
slots are what the races need: two promotions of a candidate, two claims, a retry beside its
original; a second disturbance would repeat the first.  In `ResearchGeneration` four attempts from six kinds of candidate and an error give
duplicates of either kind, every verdict and more finalists than the one hold-out
place; two disturbances suffice to crash an execution and the one that follows.  In `Simulation`
four bars are an entry, a trail, an exit and another entry; the bars are a quiet one, a rally, one that reaches
stop and target, and a gap, and the five configurations between them take every branch of stop, trail,
target, sizing, fill, filter, condition and end of test.

**Preconditions.**  `gap_repair` looks at an exchange that has every closed minute and at
scans of closed minutes; section 4 says what happens without.
`RepairedIsStored` and `MissingTriggersRepair` should be read
with that in mind; `gap_open_minute` has the scans that reach further.  `NoLateWrites`, `OperatorReopens` and `OwnershipSpec` except
the runs that an execution without its fence works on, and `FenceLostToOverlap` says how one comes to be without.  `CheckpointStored` of a job speaks of the minutes closed when the job was
created: a job with an end in the future moves its checkpoint over minutes that are not
over yet, and then only the closing scan accounts for them (`CompletedAccounted`).
`simulation` has no candles after its window (`DataBeyond = FALSE`); `simulation_window` has.
`LossBounded` leaves out slippage, a tick of rounding, exit conditions filled at the next open, and entries at
the extreme of the last bar or after it, which the end of the test closes before any candle was checked against
their stop (section 4).  Prices are worth a tick after slippage (`TickAssumption`), because sizes are
quotients by the entry.

**Fairness.**  Only what the runtime does by itself is fair: timers fire and continuations
run while a process is up, the writer serves its queue, committed requests are
answered, the server forks a worker again 1 s after an exit, time passes for leases whose owner is
gone and for the watchdogs' limits.  Users, kills, stops, errors and restarts of the
server after a stop have no fairness, except in `LiveCandles`, where the restart is part of `Stream`
and `IncompleteIsCompleted` needs it.  `RunningEnds` needs a server that stays up (`MaxStops = 0`) and
leases that do not lapse under a live worker.  `RecordedIsRepaired` needs the stream to come back, backfill
jobs to end and finitely many failures: a gap whose repair fails for ever is claimed again each time and blocks the
younger ones.  In `LiveCandles` the groups of actions are weakly fair: processes restart, the socket
reconnects, messages arrive, minutes close, queued writes are committed, jobs end, the
reconciliation's timer fires; repair is strongly fair, because it stands back whenever the
stream is not fresh or a job is active, which does not last.  The conclusions that would not
hold over a stop say "or the process is down".

## 4. Findings and observations

Three places where the program and its documents disagree have a run that ends in the
counterexample; PROJECT.json quotes both sides.

- **A price from after the window** (`simulation_window`).  A `NEXT_OPEN` entry signalled on the last bar of an in-sample,
  training or test window is filled at the open of the first candle after it, and closed at the
  end of the window, before it was opened.
- **The open minute as canonical data** (`gap_open_minute`).  A scan that ends after now (`POST /api/gaps/scan`, the closing
  scan of a job with a future end, a rebuild of a bucket that is open) records the open minute as missing.  The repair stores the
  candle which the exchange has of it so far, without the filter for closed candles that a backfill applies, and nobody
  fetches that minute again unless the live stream delivers it later.
- **A run that cannot be finalized** (`research_finalization`).  A candidate whose evaluation a crash or cancellation
  interrupted stays GENERATED, is never evaluated again, and makes finalization write a status
  that the CHECK of its table refuses; every later launch fails there again.

The models show more that they do not check in a run of its own.  Each follows from the model as it is, with the change named, and a reader can state the
property and let TLC find the trace:

- `ResearchRuns`, a server restarted within the 120 s of a lease (`MaxStops = 1` and a fair restart): the new worker looks for
  stale leases once, at its start, so the run stays RUNNING with an expired lease, although
  `docs/strategy-discovery-audit.md:60` has the watchdog mark it FAILED.
- `ResearchRuns`: a request whose transition was asserted on the row it read is committed after
  the worker changed the row, FAILED to CANCELLING for one, which `runTransitions` does not have.
- `ResearchRuns`: two ticks of one process claim a run each while a claim waits in the queue, the second overwrites
  `activeOwnership`, and the first writes with `WHERE id=?` alone from then on: without its exception for such a run (`Unfenced`)
  `NoLateWrites` is violated, and so are `OperatorReopens` and the refinement.  `docs/strategy-discovery-audit.md:58`
  has every write "conditional on that tuple" and a stale worker stop.
- `GapRepair`: a watchdog call queued while a claim waits in the queue fails the gap that the claim makes
  active, against the comment at `workers/gap-repair.ts:26`.
- `GapRepair` with an exchange that lists only the last minute: the empty first page ends the repair as
  REPAIRED, and the range never becomes a gap again (`MissingTriggersRepair` is violated).
- `VerificationJobs`: a run cancelled before it is claimed, or after it has ended, stays CANCELLING until a
  restart queues it again; `retry` refuses it meanwhile.
- `LiveCandles`: a missing range that overlaps a waiting gap is not recorded; when that gap is repaired before the aggregate is
  stored, a minute outside of it is in no gap while the aggregate is stored as incomplete.  `LackIsRecorded` therefore says that
  each missing stretch meets a gap, and not that each minute lies in one.
- `LiveCandles`: a scan or a rebuild of minutes that are open is done as asked, so there are gaps and aggregates of open
  buckets (`OpenOnlyIfAsked` without its exception for `asked` is violated), and `repairNext` takes such a gap like any other.
- `LiveCandles` with `ReconcileLimit = 1`: the reconciliation takes the oldest incomplete aggregates and passes over those whose minutes are
  not all there, so as many of these as its limit, which nobody completes, keep it from a younger one that could be
  completed (`IncompleteIsCompleted` is violated).
- `Simulation`: a WORST_CASE entry on the last bar is closed by END_OF_TEST at the close of the same bar, and no candle
  was checked against its stop: when the bar closes beyond the stop, the trade loses more than its initial risk
  (`LossBounded` without the conjunct on `entryTime` is violated).
- `ResearchGeneration`: REJECTED finalists are not counted on a relaunch, so that more candidates than the budget are
  accepted, and more see the hold-out than its maximum.  They are the only ones: without them the budget holds
  over any sequence of crashes and relaunches (`BudgetKept`).

## 5. Proofs

Everything below holds for every value of the constants that the modules' assumptions admit: every
set of runs, processes, slots, callers and operations, and every bound.

**ResearchRuns.**  `TypeCorrect`, `OneWriterAlways`, `FenceLostAlways`, `NoLateWritesAlways`, `OperatorReopensAlways` and
`OwnershipImplemented`, for any number of overlapping `runOnce` calls in a process, which is what the code allows: an idle
writer runs a claim in the same stretch as the test of the flag, but while a claim waits in the queue another tick passes the test.
The inductive invariant is small.  `TypeInv` is the types, and that an execution about to commit its end has an end status to
write.  `ClaimInv` says that no row has a token that was not issued yet, that every execution holds an issued one, and that no
two executions hold the same.  What the fence adds is not an invariant but what steps keep: an execution is `Fenced` when its process's
`activeOwnership` is its own claim and its status write carries that token.  `Kept` is what every step but a claim leaves of
an execution that goes on, and `FenceLostAlways` follows: only a claim of another call of the same process takes the record
away.  `OneAtATimeIsFenced` draws the conclusion for a process that runs one tick at a time.  A write of a fenced execution is a write under the
row's own token (`WriteOwned`), or misses; and since its condition also asks for an active status, a run at a terminal status is written to by nobody but an execution
outside its fence.  Those are the exception each of the three properties names (`Unfenced`, and in the refinement `stray`).
`OwnershipImplemented` maps every step to a step of `RunOwnership` or a stutter: to `Write` when the run is not disturbed, to
`WriteAstray` when it is, to `Grant` for the claim, the one step after which a run may be stray.

**SQLiteWriter.**  `TypeCorrect`, `NothingForgottenAlways`, `PromiseMatchesEffectAlways`,
`AwaitedFirstAlways` and the action property `ServesMostUrgentAlways`.  The inductive
invariant is the first three properties with two more parts: an operation that is
asked for was preceded by those it awaits, resolved (`AwaitInv`), and the sequence numbers
follow the order of asking (`OrderInv`): all are below the next number, and what was asked for
earlier has the smaller one, without which the order among equals could not be kept.

**VerificationJobs.**  `TypeCorrect`, `CompletedHasReportAlways`, `RunsAreExecutedAlways`, `PromotionTraceableAlways` and the action
property `RetiredStaysRetiredAlways`, for any number of callers and overlapping slots.  `RunsInv` says that
trades under a report are those the report was computed from, and that a run is executed once more
only after a stop.  `ExecOK` says what an execution relies on when it continues after an await: its run is
not back in the queue, its trades are its own once they are stored, there is a report before COMPLETED is written.
`RequestOK` says the same of a request between two of its writes.  The step lemmas rest on what rows never do
(`CatalogGrows`, `RunsGrow`, `RunsKeep`): with it, what one actor relies on survives the steps of the
others, so that each step is looked at once.  `PromotionInv` adds that two promotions under way never
record the same strategy (`Distinct`), because each created its own, which is why the candidate names
one of the records.  The assumptions are that hashes exist and the bounds are not zero.

**ResearchGeneration.**  `TypeCorrect`, `SignalsUniqueAlways`, `CompletedIsSettledAlways` and `BudgetKeptAlways`, for every generator,
candidate, gate, budget and number of disturbances.  `RowsInv` says that each row has the verdict of its
simulations or a status on the way to it (`Settles`).  `ExecInv` relates the memory of an execution to the rows: every stored
hash and fingerprint is known to it (`KnowsRows`), what it counts is stored (`Counts`), finalists in memory
are finalists by their rows.  `BeginStep` shows that what is loaded from the rows after a crash at any write has these
relations; the other steps keep them.  `RunInv` says that a completed run has no candidate without a verdict,
which follows because `Reconcile` lets an execution with one end as failed.
`BudgetInv` bounds the candidates in use by what the execution has counted, and by one more while a candidate is stored and
its counter is not: `BudgetKept` alone is not inductive, because the guard of the loop looks at the count and
not at the rows.  After a crash between the two writes `Begin` counts the rows again.

**BackfillJobs.**  `TypeCorrect`, `CheckpointStoredAlways`, `CompletedAccountedAlways`, `SoleRunnerAlways` and `DownloadImplemented`, for any number of
jobs, requests and disturbances, any page and chunk size and any minutes the exchange may have.  `WorkerOK` is what the
worker relies on when it continues after an await: what the exchange has before its cursor is stored; the page in
hand, once its last chunk is committed, completes what the next checkpoint will say; after the closing scan
everything up to the target is stored or reported.  It speaks of the minutes that were closed when the job was created (`born`),
and its target covers them (`Covers`).  Nothing in it mentions the status of the row, which is why requests, stalls and
restarts, which write statuses at any time, leave it alone: the step lemmas look at the worker's own steps, and frame lemmas
at those of all others.  For `DownloadImplemented` `ProgressInv` adds that the worker's cursor is ahead of the checkpoint in the row from the
claim on, and the mark it is about to write not behind the cursor; `WorkerOK` has the rest, that what the mark says is
committed.  Each action then is shown to be an `Accept`, a `Store`, an `Advance` or a stutter.

**GapRepair.**  `TypeCorrect`, `CheckpointStoredAlways`, `NoAbandonedRepairAlways` and `DownloadImplemented` hold without any assumption on the
exchange or the scans.  `WorkerOK` says that what the exchange has of the gap before the cursor is stored, that the
batch in hand completes it up to its last candle, and that a rebuild is of a gap which is no longer REPAIRING; candles are never lost
(`Keeps`), so that it survives every other step.  Three properties need what the code takes for granted, and the theorems say so.
`RepairedIsStoredAlways`
assumes that scans end before the open minute (`~FutureScans`) and `EmptyPageIsLast`: the exchange answers with an empty page only where it has nothing later, because the
worker ends a repair there.  `MissingTriggersRepairAlways` assumes `~FutureScans` and that the exchange lists every minute.
It needs no further invariant beyond `Repaired`: a REPAIRED row of the same range has nothing missing left, so what
stops an insert is a row that is still to be repaired or one that overlaps it (`InsertTriggers`, `Closed`).
Section 4 has the runs in which these assumptions fail.  `DownloadImplemented` goes as for the jobs, with scans that may accept
any set of new ranges at once (`InsertAccepts`).

**LiveCandles.**  `TypeCorrect` (which includes that an aggregate is made of stored minutes of its bucket) and
`LackIsRecordedAlways`, for every set of timeframes, length, backlog and number of disturbances and whatever the exchange
lists, and `OpenOnlyIfAskedAlways` whatever is asked for.  `LackIsRecorded` is not inductive, because what a call is about to
store was computed before other calls wrote.  `CallOK` says what each relies on across its awaits: every
computed aggregate is of stored minutes, and each stretch it lacks meets a gap already, or is what the call is about to have
scanned.  Tables only grow (`Grows`), a gap that is repaired keeps its row, so that `CallOK` of a call survives the steps of all
others (`CallKept`, `OneCall`), and a scan leaves no stretch without a gap (`ScanMeets`), also when it skips what overlaps
one.  `ClosedInv` adds that what is on its way to the tables is closed or was asked for: the child's candle, the minutes under
persistence, the buckets a call is to build, the aggregates computed, the minutes missing.  A repair does look at buckets that
are open, and leaves those that have no aggregate; it stores the open minute only out of a gap that may hold it.  `StillMay` says
that what may be stored stays so, because minutes close and requests are remembered until they do.

**Simulation.**  `TypeCorrect`, `AccountedAlways`, `LossBoundedAlways`, and `TradesInOrderAlways` and `NoFuturePriceAlways`
under `Sealed` (no candle after the window, or no NEXT_OPEN entries), for every configuration, set of candles, value of an indicator and
length of the window that the assumptions admit.  An open position is `Held` from an earlier bar, and then none of the
candles checked on this bar came to its initial stop (`Survived`), or it is `Fresh`, an entry of this bar.
A close at a stop, a target or the price of an exit condition is therefore on the better side of the initial
stop, where a fill loses at most a tick more (`LossAtStop`, `RoundBounds`); a fresh entry at the close and a close at the same price
are a tick apart at most (`LossOfFresh`).  A trail only tightens (`TrailTightens`), the target lies beyond the entry
(`TargetFacts`), and rounding a quantity down keeps it within leverage and risk (`QuantityFacts`).
`Accounted` is a ledger: each trade starts at the balance that the one before left, which is what
keeps the proof from summing over trades.  The conditions do not matter to any of these: a signal may come
at any time.  `ConfigAssumption` is the schema's ranges, and `TickAssumption` that no price falls below a tick.

Liveness (`RunningEnds`, `HeldRequestEnds`, `EventuallySettled`, `RecordedIsRepaired`, `ActiveEnds`, `IncompleteIsCompleted`) is
checked by TLC alone: neither fairness nor ENABLED is in the prover's reach.  What `evaluateCondition` computes for a given tree is
a recursion over data and is only evaluated by TLC.

## 6. Not modelled

- Indicators, metrics, Monte Carlo, robustness and walk-forward statistics: pure functions in floating
  point, out of TLC's reach.  Decimals are integers in `Simulation`, whose rounding is the tick's and the step's.
- The candidate generator, its templates, grammar and normalization: a seeded search; `ResearchGeneration` takes any outcome of it.
- Formatting (reports, exports, dashboard), one-shot scripts, migrations, maintenance.
- SQLite: a statement or a transaction is atomic and durable.  Starvation of low
  priorities under endless urgent work.
- Symbols and timeframes: gaps, jobs and streams of different symbols share workers and order of
  claims but no candles; one symbol is modelled.

## 7. State of the project

Every module has its runs and its proofs.  Every invariant, action property and refinement that a passing run checks
is a theorem, and so is `NoFuturePrice` where its run's counterexample cannot occur.  What stays with TLC is the liveness
properties, the recursion of `evaluateCondition`, and the three counterexamples of section 4.  That queued verifications end is
not claimed: a cancellation of a run that nobody executes is answered by a restart alone (section 4).

What could come next: a model of the heartbeat timer and of the order in which jobs of different symbols are claimed,
and the refinement of `VerificationJobs` to a specification of one slot.
