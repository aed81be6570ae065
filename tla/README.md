# A TLA+ model of Shufa

Shufa is a local crypto research and trading workbench: it ingests market data,
backtests strategies, trades them on paper and sends approved orders to exchanges. This
directory models the parts of it in which the order of steps decides what happens,
checks them with TLC on small instances, and proves the most important invariants with
TLAPS for every instance. Paths below are relative to the repository; line numbers of
every definition are in the `map` of `PROJECT.json`.

Contents: [the system](#1-the-system) ·
[inventory](#2-inventory) ·
[modules](#3-modules-and-how-they-correspond-to-the-code) ·
[runs](#4-what-the-runs-check) ·
[fairness](#5-fairness) ·
[proofs](#6-what-is-proved) ·
[limits of the model](#7-what-is-not-modelled) ·
[plan](#8-plan)

## 1. The system

Two processes work on one SQLite database (WAL mode) and one directory of Parquet files:

- the **API process** (`backend/api/app.py`) serves requests. Synchronous handlers run
  in a thread pool, so several of them run at a time;
- the **worker process** (`backend/worker/main.py`) polls the job queue for ever and
  runs the **scheduler** (`backend/scheduler.py`), whose cron jobs run the paper-trading
  tick, drain the queue, refresh marks and so on.

Each process has one connection. A statement and its `commit` are atomic; nothing larger
is. `save_json_record` (`backend/data/storage.py`) writes a whole row, usually one that
was read a while ago. There are no row versions, no `UPDATE ... WHERE status = ...`, and
no lock between the processes. This is what makes the system hard to test: every
operation is a read, some Python and a write, and another process may be anywhere in
between.

Shape of the interactions:

    administrator --> ticket --> job queue --> processor --> adapter --> exchange
                        ^                         |
                        +------- whole row -------+
    feed --> bars --> tick (worker, or API run-once) --> run_bar --> paper tables
                                                           ^
    backtests, people --> strategy_targets ----------------+     kill switch --+

`codebase.md` and `Shufa.txt` contain a review of an earlier version of the program.
Where they differ from the code, the code is what is modelled.

## 2. Inventory

| component | state it keeps | operations | what is hard | what makes it correct |
|---|---|---|---|---|
| Job queue (`worker/jobs.py`, `worker/service.py`, `worker/main.py`) | `job_queue`, `job_dead_letters` | enqueue, claim, finish, requeue, bury, `process_next_job` | three kinds of processors claim with a read and a later whole-row write; the retry decision uses the attempt count seen at the claim; `finish_job` is inside the `try` whose `except` requeues; nothing recovers claimed rows | a row is never left claimed by nobody; attempts are bounded; a dead letter exactly for failed jobs; queued jobs settle |
| Live execution (`execution/service.py`, `execution/adapters.py`, `core/retry.py`) | `execution_tickets`, the exchange's orders | create, approve, reject, the job's handler | the job is committed before the ticket; whole-row writes from stale copies; requests retried without an idempotency key; credentials change between approval and execution | no order outside the gates; at most one order per ticket where answers are not lost, a bounded number otherwise; a rejection holds; a queued ticket is acted on |
| Secrets vault (`secrets/vault.py`) | an encrypted file | set, delete, get | read-modify-write of one file by several requests | a key is not lost or changed by the write of another one, except by requests that overlap |
| Paper trading (`paper/runner.py`, `paper/broker.py`, `api/routes/paper.py`) | `paper_orders`, `paper_positions`, `runner_state` | the tick, `run_bar`, submit, fill, open, close, kill switch | two processes run the same bars; each risk check is a query of its own, made before the order; order, fill and position are three commits; `close_position` ignores `closed_at` | one position per target, limits kept up to a known overshoot, every order followed by its position, every bar processed, none twice |
| Paper portfolio (`paper/portfolio.py`, `paper/activity.py`) | unrealized results | mark to market | marks come from a stream, from a refresh that awaits, and from the bar that is run | mark and valuation end up at the newest price |
| Scheduler (`backend/scheduler.py`) | none of its own | cron jobs | a job that raises is abandoned and runs again at its next time | what a job did not finish, a later one does |
| Strategy targets (`strategy/targets.py`, `registry.py`, `validator.py`, `api/routes/approvals.py`) | `strategies`, `strategy_targets`, `promotion_decisions` | save, update, sync with a backtest, list active targets | backtests, people and the start of the API read a row and write all of it later | a status that came from a backtest is what the run named beside it earned; only people switch paper trading on |
| Signal engine (`strategy/engine.py`) | none | evaluate rules, signal with position | the exit rules depend on the position held, and only the paper runner asks for them | a backtest holds what paper trading would hold |
| Backtest engine (`backtest/*.py`) | results | run, metrics, walk forward, promotion check | positions at the last bar, funding in the bar of the exit, windows cut by integer division | every entry has one exit; the equity is the capital and the sum of the trades; the drawdown is the largest fall; no bar is both trained and tested on |
| Market data (`data/service.py`, `data/adapters`, `data/streams`, `data/quality.py`, `data/storage.py`) | Parquet bars, funding, marks, dataset health | ingest, page through an exchange's history, merge, detect gaps | whole files are read, merged and written without a lock, by two processes; bars are stored while they are forming; verdicts are saved after other writes | a stored close only improves; bars become final; what is reported healthy has no gap |
| Authentication (`auth/service.py`) | `users`, `api_tokens` | bootstrap, token lookup, `require_role` | first start; the order of roles | one administrator after bootstrap; a role never gets more than its rank |
| Rate limiter (`api/rate_limit.py`) | a deque of timestamps per client | check | the edge of the window | never more than the limit within any window |
| Research vault (`research/*`) | Markdown files, a results log, an index page, a search table | ingestion, compiler, hypothesis loop, linter, scout, rebuilds | agents of two processes await a language model between reading and writing; index page and search table are derived from a listing of the files | how far ids are shared; a hypothesis is logged; page and table catch up; a file is ingested once |
| Operations (`ops/*`) | alerts, audit log, backups | readiness, notify, record, back up | — | readiness blocks while a gate is open |
| HTTP shell, frontend, scripts | none | routing, display, setup | — | — |

`PROJECT.json` lists every component with its files and how far it is modelled, and
under `hazards` the places in the code where each of these difficulties bites, with the
properties that would notice.

## 3. Modules and how they correspond to the code

| module | what it is |
|---|---|
| `JobLifecycle` | abstract: the life of a job as its submitter may rely on it |
| `JobQueue` | the job table and the processors that run `process_next_job` |
| `LiveExecution` | extends `JobQueue`: tickets, requests, vault contents, the handler `process_execution_job`, the exchange |
| `PaperBook` | abstract: what each target holds, and the position cap |
| `PaperRunner` | the tick, `run_bar`, the broker's commits, the kill switch |
| `StrategyTargets` | the rows of `strategy_targets`, their writers, approvals |
| `BacktestEngine` | signals, the bar loop of `run_backtest`, the out-of-sample pass, walk-forward windows, the drawdown |
| `RateLimit` | `_check_limit` and the threads that call it |
| `SecretsVault` | requests that rewrite the vault file |
| `BarStore` | fetching, merging and checking the stored bars |
| `MarketMarks` | mark prices and the valuation of an open position |
| `ResearchVault` | the wiki's files, the hypothesis log, and the agents that write them |
| `JobQueueProofs`, `LiveExecutionProofs`, `PaperRunnerProofs`, `BacktestEngineProofs`, `ResearchVaultProofs`, `StrategyTargetsProofs`, `MarketDataProofs`, `ApiProofs` | theorems |
| `MCJobQueue`, `MCLiveExecution`, `MCPaperRunner`, `MCResearchVault` | constants for TLC |
| `MCParts`, `MCMarketData` | constants for TLC, and several parts without common state side by side |

### JobQueue

`jobs` is the table; jobs are numbered in the order of `created_at`. `letters` counts
the dead letters of each job, `runs` is a history variable that counts how often a
handler was started. `prc[p]` is the stack of a processor inside `process_next_job`:
where it is (`pc`), the job, the copy of the row it read, the attempt count it saw when
it claimed, and its verdict.

A claim is `ClaimRead` (the `SELECT`) and `ClaimSave` (the whole-row write). The handler
ends with `HandlerReturns` or `HandlerRaises`. Settling is `SettleRead`, then
`FinishSave`, `RequeueSave` or `BurySave`, and for a dead letter a second commit
`BuryLetter`. `SettleRaises` is a statement of `finish_job`, or of `dead_letter_job` for
an unknown type, that raises: both are called inside the `try` block, so the job goes to
the `except` block. An exception in the `except` block itself ends the processor, as
`Crash` does. `next_attempt_at` is the flag `due`, which `BackoffElapses` sets.

With one processor the table refines `JobLifecycle` under the mapping `stage <- status`,
`failures <- attempts`, `starts <- runs`.

### LiveExecution

`tickets` holds of each ticket its status, venue, whether its preview was within the
notional limit, and `broker_order_id`: nothing, a job id, or one of the ids `OrderRef`
(given by the exchange) and `DryRef` (made up by the adapter that sends nothing).
`payload` is the ticket in each job, `secrets` the venues the vault has credentials for,
`env` the settings each process read from `.env` when it started (`live_trading_enabled`
of the API, `live_network_enabled` of the process of each processor), `orders` a history
of the orders the exchange has executed for each job. `adm[a]` is a request in progress,
`sub[p]` the handler in progress in processor `p`.

An approval is `ApproveRead`, `ApproveBlock` or `ApproveEnqueue` (which commits the
job), and `TicketSave`; a rejection `RejectRead` and `TicketSave`. The handler is
`LoadTicket`, any number of attempts (`PostAccepted`, `PostDeclined`, `PostRaises`,
`AnswerRaises`), and `StoreTicket` or `StoreRaises`; `LoadRaises` is a lookup that
raises before anything is sent. `WorkerRestarts` and `ApiRestarts` start a process again
with whatever `.env` then says; a process that leaves work unfinished dies first
(`ProcessorDies`, `RequestDies`). The steps of the queue are those of `JobQueue`, used
unchanged; that live execution implements `QueueSpec` is a checked property.

### PaperRunner

`orders` and `positions` are the paper tables (position *k* is the one opened by order
*k*), `processed` is `runner_state`, `enabled` the targets that
`list_active_paper_targets` returns, `feed` the latest stored bar of each instrument,
`run[r]` the stack of a process inside the tick. `closes` and `late` are histories.
Prices, sizes, correlations and results are choices: a target may be skipped for its
volume, any signal may come out of its rules, a held position may have hit its stop, a
close may realize any member of `Results`.

A tick is `ReadBar` (the asynchronous part of `latest_feature_bar_async`, after which
another process may act), `AcceptBar` or `DropBar` (`should_process_bar`),
`LoadTargets`, for every target `SkipTarget` or `TakeTarget`, the four risk checks
`CountCheck`, `GrossCheck`, `CorrelationCheck` and `LossCheck`, each a query of its own,
`ClosePosition` or `KeepPosition` for each position read by `TakeTarget`, then `StayOut`
or the three commits `SubmitOrder`, `FillOrder`, `OpenPosition`, and in the end
`MarkProcessed`. `TickDies` ends a tick anywhere. `KillSwitch` is one `UPDATE`.

With one process the positions refine `PaperBook`: every target is flat, long or short,
is entered only from flat and below the cap. `BookOf` maps a target with two open
positions to the value `"several"`, which no step of the book reaches.

### StrategyTargets

`rows` is `strategy_targets`; a row has its status, its paper flag, the backtest it
names and, as history, who set the status (`origin`). `runs` and `decisions` are the
results and verdicts on file. `req[q]` is a request in progress with what it asks for
(`patch`) and the row it has read (`copy`). A result is described by the sides of the
thresholds it falls on, which is all that `infer_target_status` (`Verdict`) looks at.

`create_backtest` is `ExecuteBacktest`, `SaveRun`, `SaveDecision` and `SyncFlag` or
`SkipSync`; the upsert route is `StartUpsert`, which may also name a run, of whichever
target: `namer` is the history of who put the run's id into the row. Both go on to
`CopyRow` and `SaveRow`, or, without a row, to `LookUp` and `InsertRow`, where the
unique key refuses a second row. `Bootstrap` is the start of the API; `ApproveRead` and
`ApproveCommit` are the approval with its gate on `ActiveTargets`. `RequestFails` ends a
request anywhere.

### BacktestEngine

A behaviour chooses a strategy and builds the frame bar by bar (`NextBar`), so every
short frame is checked with every prefix of it. `Process` is the body of the loop in
`run_backtest`: funding first, then the signal, then the exit or the entry, then the
point of the curve. `FinishFull` closes what is open. `StartOutOfSample` runs the same
machine on the last part of the frame. `Signal` and `SignalWithPosition` are the two
signals of the engine; the variable `paper` follows the second one, as the paper runner
does. `StartWalk` and `NextWindow` are the windows of `walk_forward_analysis`, and
`MaxDrawdown` is the fold of `compute_max_drawdown`. Prices, sizes and costs are
integers chosen such that profits are whole; what the code rounds is left out.

### RateLimit

`admitted` keeps all admissions, and the deque is what follows the first `dropped` of
them. A caller reads the clock (`ReadClock`) before it takes the lock (`Check`), so
readings may reach the deque out of order; `late` marks the admissions to which that
happened.

### SecretsVault

`ReadAll` decrypts the file and changes the copy, `Encrypt` reads the file again for its
salt, `Truncate` and `Fill` are the two effects of `write_text`. The file is `absent`,
`sealed` under a passphrase or `broken`; when two requests fill it at once it may stay
broken. `intended`, `exposed` and `died` are histories.

### BarStore

`files` is the close stored for every bar, named by the tick of the clock at which it
was made: the close of a bar that is still forming is an early one. `job[a]` is an
ingestion or a check by a coroutine of the worker (`Crons`), a coroutine of the API
(`Requests`) or a thread of the API (`Threads`, in which the synchronous health route
runs). Coroutines of one event loop wait for the exchange together and do everything
else one at a time (`Turn`); the two processes, and the threads, interleave anywhere.
`StartIngest` takes its range from the clock, `FetchPage` (Binance) or `FetchAll` (the
unpaged answers) talk to the exchange, `ReadMonth`, `OpenMonth` and `FillMonth` merge
and write one month after the other, and `CheckHealth` and `SaveHealth` compute and
store the verdict. `broken` are files that cannot be read. The second dataset,
`context`, stands for funding and the market context, which are written by the same
three steps. Its answers differ from those for bars: the latest points may be missing,
and the first one may be a part, because the first hour of an answer of liquidations is
summed up from those of the hour that fit into the answer (`Answered`). `Dies` ends
every job of a process.

### MarketMarks

One instrument with an open position. A price is named by its time. `RefreshRead` and
`RefreshSave` are the interval job with the `await` between them, `StreamSave` the
stream's callback, `MarkToMarket` the valuation that follows either, `ReadBarToRun` and
`RunBarValues` the valuation in `run_bar`, which the worker's tick calls as well as the
API's run-once (`Runners`) and which saves no mark. `StoreOldBar` stands for the
ingestions of `BarStore` that were overtaken.

### ResearchVault

`wiki` is the set of Markdown files (summaries, concepts, hypotheses by id and status,
disputes), `results` the rows of `results.tsv`, `index` what the index page lists,
`found` what the search table holds. `agent[a]` is the run of an agent. What the
language model answers is a choice. Every agent ends in a rebuild: `GlobFiles` and
`WriteIndex` for the page, `ScanFiles` and `CommitFound` for the table. The hypothesis
loop is `Generate`, which reads the next id, then `WriteHypothesis` and `LogResult`, or
`ValidateCrashes`. An agent may be killed at any step (`AgentDies`), and most steps may
raise: `Raises` ends a run, or one cycle of a hypothesis loop, which goes on with the
next; `LintRaises` ends the linter with disputes written and nothing rebuilt. Both
happen when the model's answer has another shape than was asked for. `faults` counts
deaths and exceptions together.

## 4. What the runs check

All runs but the last finish with no error. `CHECK_DEADLOCK FALSE` is set throughout: a
drained queue, a ticket that was rejected, and a feed that has stopped are states in
which the program may rest for ever, and a bound that is reached looks the same.

| run | instance | what it shows |
|---|---|---|
| `queue_sole` | 1 processor, 2 jobs, 3 retries, 2 priorities, crashes and raising statements | `RunsBounded`, `LettersMatchFailures`, the refinement `ImplementsLifecycle`, and `JobsSettle`: once processors stop dying, every queued job settles, or was left claimed by one that died |
| `queue_race` | 2 processors, 2 jobs, a known and an unknown job type, raising statements | `ClaimedIsOwned`: no claimed row without somebody who will write it |
| `live_sole` | 1 request, 1 worker that may die, 1 ticket, 2 jobs, an exchange that refuses or is not reached | `OneOrderPerTicket`, `OpenTicketHasNoJob`, `RejectionHolds`, `QueuedTicketIsActedOn`, `ImplementsQueue` |
| `live_faulty` | the same with lost answers and saves that raise after the order; both processes start again with other settings | `OrdersBounded`: at most `MaxRetries` times the attempts of `retry_sync`; `OrdersWithinGates`: what is still sent after a setting was changed |
| `live_race` | 2 requests, 2 tickets and the worker; requests and the worker may die | `RefsAreTheirOwn`: whole-row writes from stale copies do not mix tickets |
| `paper_sole` | 1 process, 2 targets on 2 instruments, 2 + 1 bars, 2 trades, ticks that die | `ImplementsBook`, `BarsMoveForward` |
| `paper_race` | 2 processes, 2 targets, sizes 1 and 3, 4 trades | `CapOvershoot`, `GrossOvershoot`, `LateOrdersBounded`, `OrdersAreFollowed`, `LimitsFreezeTheBook` |
| `paper_pair` | scheduler and API request, 1 target, 2 bars, 2 days, ticks that die | `ClosesBounded`, `BarsGetProcessed` |
| `parts` | targets: 2 requests, 1 target, 3 results, 2 backtests, 2 edits; engine: 2 strategies, up to 4 bars of 3 feature values, 2 prices and 2 rates, 2 sizes, frames of 60 to 90 rows; limiter: 2 callers, 2 requests in 3 seconds; vault: 2 writers, 2 names, 2 passphrases, 3 changes | `StatusHasGrounds`, `EnabledByPeople`; `BooksBalance`, `HoldsOnlyWhatPaperHolds`, `DrawdownIsTheLargest`, `TestsAreUnseen`; `WindowBound`; `KeysKept` |
| `market` | bars: 2 jobs of the worker, or 1 and a request, or 1 and a health check in a thread, 3 bars in months of 2, 1 fault; context: 2 jobs of the worker; marks: 3 prices, 1 older answer, 1 bar run, 1 death | `HealthyIsTrue`, `BarsOnlyImprove`, `IngestedBarsBecomeFinal`; `MarksCatchUp` |
| `research` | 2 agents, 1 raw file, 2 concepts, 3 runs asked for, 2 deaths or exceptions | `IdSharing`, `FilesAreLogged`, `IndexCatchesUp` |
| `research_reingest` | 1 agent, 2 raw files | `OnlyNewFiles` is violated |

`parts` and `market` put modules without common state side by side: the first state
chooses one of them (`part`), and the others keep still. This is one run instead of four
(two), and checks the same behaviours. In `market` the bars and the context, whose files
differ, are parts of their own as well, and the first state chooses the two agents that
are at work (`cast`): two jobs of the worker, a job and a request, or a job and a health
check of the API. `IngestedBarsBecomeFinal` is `BarsBecomeFinal` where bars are the part
chosen.

The finding. `_known_sources` (`research/agents/ingestion.py:48`) stops reading the
front matter of a summary at a line `---` once it knows any source. The set is shared by
all summaries, so from the second summary on it stops at the opening `---`, and of all
the summarised files only one is known. The docstring of `ingest_new_files` promises to
take up only files without a summary; `research_reingest` shows a run that takes up a
summarised file. In the program every such file goes to the language model again in
every run. The other properties of `ResearchVault` hold all the same.

What a reader of the code may want to know of these results:

- With more than one processor `RunsBounded`, `LettersMatchFailures` and
  `OneOrderPerTicket` are false: two processors may claim the same row, and two
  approvals may enqueue two jobs for one ticket. The runs that check them say so by
  having one processor and one request; what still holds in a race is checked by
  `queue_race` and `live_race`.
- `OrdersBounded` is a bound greater than one on purpose. The order request has no
  client order id, so an answer that was lost is an order sent twice.
- `OrdersWithinGates` says which gates hold when an order leaves: the notional limit of
  its ticket, and the live network of the process that sends it. It does not say that
  live trading is on at that time, which is false: the approval looks at
  `live_trading_enabled` and the handler does not, so a job that was queued is sent
  after the setting was edited and the processes were started again. What the property
  says of that setting is that after it was switched off the queue runs dry: once no job
  waits and none is at work, nothing is sent until the API is started with it on.
  Credentials are read again when the job runs, and without them nothing is sent.
- `CapOvershoot` and `GrossOvershoot` state the overshoot that the code allows and no
  more. With one process they are the limits themselves (and the size of one order for
  the exposure).
- `LimitsFreezeTheBook` states a consequence of the order of the checks that is easily
  overlooked: at the cap, or after the daily loss limit, a target is left before its
  stops are looked at. Positions then stay as they are until the kill switch (or, for
  the loss limit, a new day).
- `StatusHasGrounds` lets a person name another run beside a status that a backtest
  gave: the upsert route writes the id it is sent. Then the status is still what some
  decided run earned.
- `EnabledByPeople` excepts targets for which two requests overlapped: a backtest reads
  the paper flag and writes it back, and a person's change in between is lost.
  `KeysKept` excepts names for the same reason (`exposed`), and `BarsOnlyImprove`
  excepts an ingestion that was overtaken. So neither it nor `HealthyIsTrue` says that
  racing writers lose nothing, which is false; that the loss is made good is
  `BarsBecomeFinal`.
- `HoldsOnlyWhatPaperHolds` is about strategies without exit rules. With exit rules a
  backtest stays in a position that paper trading has left, because `run_backtest` asks
  `get_signal`.
- `OrdersAreFollowed` and `CapOvershoot` are checked without deaths; with them,
  `paper_sole` and `paper_pair` check the book and that bars are processed, and the
  theorems cover `CapOvershoot` for any faults. The cap of `PaperBook` does not bind in
  `paper_sole`, whose two targets cannot exceed it; that the code keeps it is
  `CapOvershoot` in `paper_race` and the theorem `PaperImplementsBook`.
- `LettersMatchFailures` says that a dead letter has a failed job, not that a failed job
  has a letter: a process may die between the two commits. A letter for an unknown job
  type is in `queue_race`.
- `BarsBecomeFinal` and `KeysKept` except a file that was left broken by a death in the
  middle of a write or by two writers at once. Nothing in the code repairs one.
- `IdSharing` is the bound that holds: as many rows may share an id as there are agents
  at work.
- `WindowBound` excepts admissions of a thread that was overtaken between the clock and
  the lock. They can exceed the limit of the window they carry.

Bounds, and why they are enough. `MaxJobs`, `MaxTrades`, `MaxBars`, `MaxDays` and
`MaxLetters` only bound how often something may begin; all else is unbounded or bounded
by the code. Two jobs let one overtake, overwrite or outlive another, and a third adds
no new pair. `MaxRetries = 3` has a first, a middle and a last attempt; `PostAttempts`
likewise. `MaxLetters` exceeds what `LettersMatchFailures` permits, so that the bound
does not hide a second letter. Two processes are those the deployment has. In
`paper_race` four trades exceed the cap of two by two, one more than the overshoot that
is claimed, and the sizes 1 and 3 pass the exposure limit from below and in one step.
Two bars let a process hold an old one while another handles the new one. In `parts` two
overlapping requests and two backtests give a row two results to mix up; four bars allow
an entry, an exit, a second entry and a position left open; six admissions fill a window
of two twice and leave two to expire; three changes let the second of two copies go
stale and a third read the outcome. In `market` two bars in a month and a third in the
next one let an ingestion write two files, and pages of two make a range take two pages.
Two agents are enough for one to overtake the other, in one process or from two. The
death of a process, or a failing fetch, can come at any step. In `research` two agents
are what each file shares at a time, and three runs let both write and a third one list.
`MaxLoop = 1` leaves out that a second cycle follows the first, which differs from a
second run only in who starts it; two faults let an agent leave a file without a row and
another leave a stale page. In `live_race` two tickets are what two requests can mix up,
with a venue and switches that do not change; in `live_sole` and `live_faulty` both
venues, both values of the switches and every change of the vault occur. Symmetry is
declared on requests and on processes only where no liveness is checked.

Every property of a passing run has a mutant in `PROJECT.json`: a plausible slip in one
mapped definition under which TLC finds the property violated. The mutated forms are
written next to the definitions they stand for.

## 5. Fairness

- *Workers* (`WF` on `Claims`): `worker_loop` calls `process_next_job` again and again.
  API requests get no such assumption. That a worker which died is started again is
  assumed: `docker-compose.yml` states no restart policy, so it is somebody's task.
- *Calls that have begun* (`WF` on the steps of a processor, request or tick): they are
  straight-line code without locks.
- *Time* (`WF` on `BackoffElapses`): the clock passes `next_attempt_at`.
- *The scheduler*: nothing is assumed of how often a tick reads a bar. A tick ingests
  first and then loops over all instruments, and an exception of `ingest_defaults`, or
  of `latest_feature_bar_async` for one instrument, ends it before it has read the
  others. That every instrument is read again and again is therefore the premise
  `TicksReachEveryBar` of `BarsGetProcessed` (`SF` on `ReadBar`; strong, because the
  same process is busy with the other instruments in between).
- *Ingestion* (`SF` on `StartIngest` by some coroutine of the worker, for each range):
  its cron jobs fire at fixed times for ever. Strong, since another job disables it
  while that one merges and writes. Requests that ingest get `WF` only for the steps of
  a job that has begun.
- *Marks* (`WF` on `RefreshRead`, `RefreshSave`, `MarkToMarket`): the refresh is an
  interval job of the worker. It assumes that `latest_feature_bar_async` does not raise
  for ever. `StoreBar` is the ingestion above, and `RunBarValues` a tick or request that
  has begun. Nothing is assumed of the streams, which may be switched off or
  disconnected.
- *Research* (`WF` on the steps of a run, and on `StartLinter` or `StartScout`): a call
  of the language model returns or raises, and the scheduler starts the two weekly
  agents.
- Nothing is assumed of people, of the exchange, of the feed, of the vault, or of
  failures, which may occur or not. The liveness properties of the queue, of live
  execution and of paper trading have an explicit premise that processes stop dying at
  some time (`CrashesCease`, `TicksStopDying`); those of market data and research rest
  on the bounds `MaxFaults` (of both modules) and `MaxRestarts`, which say the same of
  deaths, failing fetches and exceptions, and on prices and files that come to rest.

In `JobsSettle` and `QueuedTicketIsActedOn` the case that a processor died with the job
claimed is an alternative of the conclusion, because nothing in the code releases such a
row.

## 6. What is proved

TLAPS checks every theorem down to its leaves. They hold for all values of the constants
that satisfy the named assumptions of the modules (`QueueAssumption`, `LiveAssumption`,
`PaperAssumption`, `TargetAssumption`, `RateAssumption`, `VaultAssumption`,
`EngineAssumption`, `WikiAssumption`, `BarAssumption`, `MarksAssumption`), under the
premises named below. Every premise describes a deployment or a set of faults:
`SoleWorker` (at most one processor, and only the job type that the code enqueues),
`SoleRequest` (one approval request at a time), `SoleRunner` (one process runs the paper
tick), `Requests = {}` and `Threads = {}` (only the worker ingests and checks bars), or
that certain faults do not occur.

`JobQueueProofs`:

- `QueueTypeCorrect`: type correctness, for any number of processors and any faults.
- `ClaimsAreOwned`: `ClaimedIsOwned`, assuming that no processor dies (`"crash" \notin
  Faults`). The property is not inductive: a processor that only has a dead letter left
  to write, or that has just selected the row, holds the job too, and may go away
  without writing it. `OwnedInv` asks for a processor that runs or settles the job, and
  such a one always writes the row again, with a status other than claimed, whatever
  copy it read.
- `RunsStayBounded`, `LettersStayMatched`, `QueueImplementsLifecycle`: assuming
  `SoleWorker`, with any crashes and exceptions. They share the inductive invariant
  `SoleInv`: each row accounts for the started attempts and for its dead letter
  (`JobAccounted`), and what the processor has read is what the table holds, with a
  verdict that fits the attempts (`CopyIsFresh`). `RunsBounded` alone says nothing about
  the next claim: that needs `runs = attempts` for a queued row, which needs that a
  requeue adds one to the row that was claimed.

`LiveExecutionProofs`:

- `LiveTypeCorrect` and `LiveImplementsQueue`: type correctness, and the refinement of
  `QueueSpec`, for any requests, workers and faults. Every step of a request or a
  handler that touches the queue is one of the queue's own steps, so what the queue's
  theorems promise holds for its jobs here.
- `GatesAlwaysHold`: `OrdersWithinGates`, for any edits of the settings and any
  restarts. The limit is checked by the approval, long before the order; so `LinkInv`
  says that the ticket of every job is within the notional limit, and that the copies
  which requests and handlers hold agree with the row in all that the gates look at; and
  that a handler about to send runs in a process started with the live network enabled
  (`SubLinked`), which no restart changes while it is at work. That nothing leaves once
  live trading is off and the queue is dry is an argument about single steps: only an
  approval in an API started with trading on enqueues again.
- `RefsStayTheirOwn`: `RefsAreTheirOwn`. Rows are written whole from copies, so `RefInv`
  asks of every copy in progress what the property asks of the table.
- `OpenTicketsHaveNoJob` assumes `SoleRequest` and an API that does not die inside a
  request, `RejectionsHold` only `SoleRequest`. `OpenInv` adds that a ticket whose
  approval passed its check has no job, and that no ticket has two; processors may still
  write tickets while a request is between its read and its write.
- `OrdersStayBounded`: `OrdersBounded`, assuming `SoleWorker`. `SpentInv` accounts for
  the orders of a job against the starts of its handler before the one in progress,
  times the attempts of `retry_sync`, plus the attempts that one has made; the starts
  are bounded by `SoleInv` of the queue.
- `OneOrderEach`: `OneOrderPerTicket`, assuming `SoleWorker`, `SoleRequest`, and neither
  an API crash, a lost answer nor a save that raises. To `OpenInv` and `SoleInv` it adds
  `SentOnce`: a job that was sent is completed, or in the hands of a processor that can
  only finish it, or left claimed by one that died; in no case is it started again.

`PaperRunnerProofs`:

- `PaperTypeCorrect`: type correctness, for any number of processes.
- `CapIsKept`: `CapOvershoot`. The inductive invariant `CapInv` counts the open
  positions together with the runners whose count check is behind them (`Past`), each of
  which may still open one; the check lets a runner pass only below the cap. The
  argument is about cardinalities, and needs no fact on which order belongs to whom.
- `GrossIsKept`: `GrossOvershoot`, for any finite nonempty set of sizes. `GrossInv` is
  the same idea with the exposure in place of the count: the open exposure and one
  largest order for every runner past its exposure check.
- `OrdersStayFollowed`: `OrdersAreFollowed`, assuming that no tick dies (`Faults = {}`).
  `HoldInv` adds that each runner carries an order of its own between `SubmitOrder` and
  `OpenPosition`, whose status fits the runner's stage, and that held positions were
  opened.
- `ClosesStayBounded`: `ClosesBounded`. `ClosesInv` adds to the closes of a position the
  runners that hold it (`Holders`): a runner takes up only open positions, and lets go
  of one by closing it.
- `LateOrdersStayBounded`: `LateOrdersBounded`. `LateInv` adds to the late orders the
  runners whose loss check is behind them; nobody joins them once the limit is reached.
- `LimitsFreeze`: `LimitsFreezeTheBook`, an action property, from the types alone: in
  the states it is about, no runner is past its checks, and only the kill switch or a
  new day changes a position.
- `MarksMoveForward` and `PaperImplementsBook`: `BarsMoveForward` and `ImplementsBook`,
  assuming `SoleRunner`, with any faults. `BarsInv` says that the bar of a tick that was
  let through is newer than the mark. `BookInv` says that a target has at most one open
  position and that what the runner has read of the table is still so: the check of the
  cap, the position it holds, and that it found none. With two processes each of them is
  false.
- `TargetsHoldOnePerProcess`: what is left of that with several processes, for any
  faults: a target has at most one open position for each process (`OnePerProcess`). No
  run checks it; the bound is reached by processes that read the table before any of
  them has opened a position. `OpenerInv` gives every open position of a target an
  opener, no two the same, and says that a process which is at the target and has kept
  nothing has its own position in its hands, so none when it enters.

`BacktestEngineProofs`, for any strategies, prices, rates, sizes, frames of any length,
and any windows that `walk_forward_analysis` accepts:

- `EngineTypeCorrect`: type correctness, and that an open position was entered at the
  close of a bar of the frame (`PassInv`).
- `BooksAlwaysBalance`: `BooksBalance`. `BooksInv` says so after every bar and not only
  at the end, and adds that an open position was entered after the last trade and has
  accrued the rates of the bars since its entry, the entry's excluded. The property
  compares a running total with sums over the whole frame.
- `DrawdownsAreLargest`: `DrawdownIsTheLargest`, for curves whose equity is positive. (A
  ratio to a point that is zero or negative is not a drawdown; the code does not exclude
  it, and the model's instances choose a capital that no trade can lose.) After any
  prefix (`DeepestAt`) the peak is the highest point, and the fall kept is one of the
  falls between two points of the prefix and not below any of them.
- `HoldingsAgree`: `HoldsOnlyWhatPaperHolds`.
- `TestsStayUnseen`: `TestsAreUnseen`. `WalkInv` adds that all that was tested lies
  before the rows that the next window tests, which needs `Stride` to be exactly the
  integer quotient: the floor of ten rows never applies where a walk is accepted.

`ResearchVaultProofs`, for any agents, files, answers, deaths and exceptions:

- `WikiTypeCorrect`: type correctness.
- `IdsAreShared`: `IdSharing`. `IdInv` counts the rows with an id together with the
  agents that have read it off the log and not yet written their row.
- `FilesStayLogged`: `FilesAreLogged`. `FileInv` bounds the hypothesis files that are
  neither in the log nor in the hands of an agent by the number of deaths and
  exceptions.

`StrategyTargetsProofs`, for any number of requests, targets, results and edits:

- `TargetsTypeCorrect`: type correctness.
- `StatusesHaveGrounds`: `StatusHasGrounds`, for any runs that people name. Rows are
  written from copies and patches that may be long out of date, so `GroundsInv` asks the
  same of every copy and patch in progress, and adds what a backtest has on file at each
  of its stages. A copy stays justified because a result that has been decided on is
  never changed (`Kept`), which in turn needs that no two backtests share a run.
- `PeopleEnable`: `EnabledByPeople`. `EnabledInv` says that, for a target without
  overlapping requests, there is at most one request in progress, and that its copy and
  patch switch paper on only where a person did (`Backed`).

`MarketDataProofs`, for any processes, lengths of bars, months and answers, any
lookbacks and any faults:

- `BarTypeCorrect` and `MarksTypeCorrect`: type correctness; of the marks, that no mark
  and no valuation is a price that was never made.
- `HealthyVerdictsHold`: `HealthyIsTrue`. `Covered` asks of every verdict in progress
  what the property asks of the saved one; it stays true because the bars that are
  stored or were dropped (`Kept`) never get fewer. That a verdict is true when it is
  made is a lemma on sets of numbers, `NoHole`: where no member but the last lacks its
  successor, nothing is missing between the ends.
- `BarsImprove`: `BarsOnlyImprove`. It is not inductive: what a write may lose depends
  on what its ingestion fetched, and read, long before. `SoundJob` says of an ingestion
  that nobody has overtaken that no answer it holds is older than what is stored
  (`GotIsNewer`), and that its merged copy is the merge with the file as it is now
  (`CopyIsMerged`). A fresh answer is not older than what is stored because nothing is
  ever from the future (`NotAhead`); the exception is the first point of an answer of
  context, which may be a part (`Cut`).
- `FinalClosesStay` and `NoCloseFromTheFuture` follow: no close is later than the end of
  its bar, so a final one stays unless a writer was overtaken.
- `UnreadableIsBeingWritten`: a file that cannot be read is open, or was left broken by
  a death or by two writers at once (`torn`). A writer that finishes restores only its
  own file, and leaves it to the last of its rivals.
- `OneLoopDropsNoBar`, assuming `Requests = {}` and `Threads = {}`, for any number of
  the worker's coroutines in flight: no bar is dropped, and what is reported healthy is
  stored. They overtake each other, and an older answer may be written last; but at most
  one of them is between the read and the write of a file (`OneAtATime`), so what it
  writes back of the file is what the file holds (`CopiesAreCurrent`). No run checks it.
- `OnlyBarsPartThem`: a position that is valued at the saved mark leaves it only when
  the tick or a request runs a bar with another close, or when the worker dies between a
  mark and its valuation; and a valuation that follows a mark ends at it. It rests on
  `MarkIsMarking`: the mark being valued is the one saved last. No run checks it.

`ApiProofs` (two parts of the API without common state):

- `RateTypeCorrect`: type correctness, for any callers, limit and window.
- `WindowIsBounded`: `WindowBound`. `DroppedExpired` says that what has left the deque
  is older than the window of the latest reading; then an admission that finds fewer
  than `Limit` entries in the deque has the one `Limit` places earlier among the dropped
  ones.
- `VaultTypeCorrect`: type correctness, for any writers, names, values and passphrases.
- `KeysAreKept`: `KeysKept`. `CopiesAgree` says that, in names that are not `exposed`,
  the vault and every copy of it in progress agree with what was asked for last, apart
  from a copy's own change; `BrokenIsOpen` that a broken file has a writer in it, or had
  one that died.

Sums and folds. `Gross`, the books and the drawdown are folds over sets or sequences of
any size. The induction principles of the library take an operator as a parameter, which
the provers cannot instantiate, so the proofs argue by a smallest counterexample
instead: strict inclusion is well-founded on the subsets of a finite set (`WFMin` with
`FS_StrictSubsetOrderingWellFounded`), so if a fact about folds failed for some subset,
it would fail for a smallest one, and the fold takes that apart (`SmallestSubset`,
`FoldsAgree`, `FoldExists`). From there on `FoldNone`, `FoldMore` and `FoldSame` are all
that is used of a fold, and `FirstFailure` is induction up to a bound.

Only model-checked: the liveness properties `JobsSettle`, `QueuedTicketIsActedOn`,
`BarsGetProcessed`, `BarsBecomeFinal`, `MarksCatchUp` and `IndexCatchesUp` (they depend
on fairness, which is out of the provers' reach); and that `OnlyNewFiles` is violated.

## 7. What is not modelled

- Outside `BacktestEngine`, prices, indicators, fees, order quantities; and the text of
  language models. Where a decision depends on them, every outcome is possible.
- Several API requests that run the paper tick within one process are not distinguished
  from several processes. A process whose ticks do not overlap is one runner. (Within a
  process, the code from `should_process_bar` to `mark_processed` does not suspend.)
- Two timeframes of one symbol count as different instruments, also in the correlation
  check, which in the code ignores positions of the same symbol. The model may leave a
  target there where the code goes on.
- The audit log, alerts, metrics, heartbeats, backups and the record of paper cycles:
  outputs that no modelled decision reads. That their inserts may raise is part of
  `SettleRaises`, `StoreRaises`, `RequestDies`, `TickDies` and `RequestFails`.
- SQLite itself: a commit is atomic and durable, and a reader sees the last one. A
  statement that raises has changed nothing: after the `commit` of `save_json_record` no
  call of `finish_job` can raise.
- `reconcile_venue`, which compares balances and only stores a report.
- Features and the numeric part of a backtest: the Sharpe ratio, statistics, Monte Carlo
  and the parameter grid are floating-point formulas without state.
- Authentication: single inserts and lookups, the comparison of two roles, and a
  bootstrap of the first user.
- In the research vault: the contents of files (a raw file that changes after it was
  summarised is not noticed), two raw files of the same stem, which share one summary
  file, and what only writes output (answers, slides, the digest). The creation of
  `results.tsv` by the first result (`_ensure_file` looks for the file and then writes
  its header; two processes that log their first result at the same instant may lose one
  row) is not modelled: the log exists. That the number of a dispute may be used again,
  and the older dispute be overwritten, is in the model but nothing is claimed of it.
- The order-book snapshot, which is displayed and not stored; the HTTP shell, the
  frontend and the scripts.

## 8. Plan

In order; each step adds its runs, mutants and map entries.

1. `JobQueue`, `JobLifecycle`, `LiveExecution` with proofs of the queue. *Done.*
2. `PaperRunner`, `PaperBook` with proofs of the cap and of the order's commits. *Done.*
3. `StrategyTargets` with its proofs, `BacktestEngine`, `RateLimit` with its proof.
   *Done.*
4. `BarStore` and `MarketMarks`. *Done.*
5. `SecretsVault` with its proof, and `ResearchVault`. *Done.*
6. Proofs of every safety property of `LiveExecution`, `PaperRunner`, `BacktestEngine`
   and `ResearchVault`, and of the refinements `ImplementsQueue` and `ImplementsBook`.
   *Done.*
7. Proofs of `HealthyIsTrue` and `BarsOnlyImprove` of `BarStore`, and the types of
   `BarStore` and `MarketMarks`. *Done.*
8. `PaperRunner` over `StrategyTargets`: the set `enabled`, which the tick now takes as
   given, is `ActiveTargets`, and a backtest may reject a target while a tick is at work
   on it.
