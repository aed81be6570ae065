----------------------------- MODULE BarStore -------------------------------
(* Bars of one instrument and timeframe, on their way from the exchange to the *)
(* Parquet files.  The worker's cron jobs and requests of the API ingest: they  *)
(* fetch, read a month's file, merge, and write it whole; nothing locks a file. *)
(* Several may be in flight in one process: they are coroutines of its event    *)
(* loop, which wait for the exchange together and write one after another.      *)
(* A close is named by the tick of the clock at which it was made, so a bar     *)
(* fetched before it is complete has an earlier close than one fetched later.   *)
EXTENDS Naturals, FiniteSets, FiniteSetsExt

CONSTANTS
  Crons,        \* coroutines of the worker: on_15m_bar_close, repair_gaps, the hourly ones
  Requests,     \* coroutines of the API process, which may ingest as well
  Threads,      \* threads of the API process, in which refresh_health runs
  TicksPerBar,
  BarsPerMonth,
  PageLimit,    \* bars in an answer of the exchange
  Lookbacks,    \* bars before the current one that an ingestion asks for
  StaleBars,    \* STALE_MULTIPLIER
  MaxClock,     \* bound: ticks
  MaxRequests,  \* bound: requests of the API
  MaxFaults     \* bound: fetches that fail and processes that die

VARIABLES
  clock,
  files,        \* by dataset and bar: the close that is stored, or NoBar
  broken,       \* dataset and month of files that cannot be read
  torn,         \* history: a file was left broken
  job,          \* ingestions in progress
  health,       \* the row of dataset_health
  lost,         \* history: bars that a whole-file write has dropped
  asked,        \* how many of MaxRequests have begun
  faults

barVars == <<clock, files, broken, torn, job, health, lost, asked, faults>>

Agents == Crons \cup Requests \cup Threads
Process(a) == IF a \in Crons THEN Crons ELSE Requests \cup Threads
Datasets == {"bars", "context"}
BarAt(t) == 1 + ((t - 1) \div TicksPerBar)
Bars == 1..BarAt(MaxClock)
MonthOf(b) == 1 + ((b - 1) \div BarsPerMonth)
NoBar == 0
Empty == [b \in Bars |-> NoBar]
JobStages == {"idle", "fetching", "merging", "merged", "opened", "stored", "checked"}
Qualities == {"unverified", "healthy", "gapped", "stale"}
NoHealth == [quality |-> "unverified", first |-> NoBar, last |-> NoBar]
IdleJob == [pc |-> "idle", set |-> "bars", from |-> 1, to |-> 1, cursor |-> 1, got |-> Empty,
            todo |-> {}, copy |-> Empty, row |-> NoHealth, overtaken |-> FALSE, shared |-> FALSE]

ASSUME BarAssumption ==
  /\ TicksPerBar \in Nat \ {0} /\ BarsPerMonth \in Nat \ {0} /\ PageLimit \in Nat \ {0, 1}
  /\ Lookbacks \subseteq Nat /\ StaleBars \in Nat
  /\ MaxClock \in Nat \ {0} /\ MaxRequests \in Nat /\ MaxFaults \in Nat
  /\ Crons \cap Requests = {} /\ Crons \cap Threads = {} /\ Requests \cap Threads = {}

BarInit ==
  /\ clock \in 1..TicksPerBar
  /\ files = [d \in Datasets |-> Empty]
  /\ broken = {} /\ torn = FALSE
  /\ job = [a \in Agents |-> IdleJob]
  /\ health = NoHealth
  /\ lost = {}
  /\ asked = 0 /\ faults = 0

Tick ==
  /\ clock < MaxClock
  /\ clock' = clock + 1
  /\ UNCHANGED <<files, broken, torn, job, health, lost, asked, faults>>

\* A coroutine gives its loop back where it awaits, which is at the exchange only.
Loop(a) == IF a \in Crons THEN Crons ELSE IF a \in Requests THEN Requests ELSE {a}
Awaits(a) == job[a].pc \in {"idle", "fetching"}
Turn(a) == \A r \in Loop(a) \ {a} : Awaits(r)

\* The worker ingests for ever, what people ask for is counted.
MayStart(a) ==
  /\ job[a].pc = "idle" /\ Turn(a)
  /\ \/ a \in Crons /\ UNCHANGED asked
     \/ a \notin Crons /\ asked < MaxRequests /\ asked' = asked + 1

-----------------------------------------------------------------------------
(* The exchange.                                                              *)

\* What the exchange answers for a bar, or for a point of the context.
Close(b) == IF clock < b * TicksPerBar THEN clock ELSE b * TicksPerBar
Listed(from, to) == {b \in Bars : from <= b /\ b <= to /\ b <= BarAt(clock)}

\* on_15m_bar_close, repair_gaps and the routes: ingest_defaults and its likes
\* take their end from the clock before they await anything.
StartIngest(a, d, n) ==
  /\ a \notin Threads
  /\ MayStart(a)
  /\ LET from == IF BarAt(clock) > n THEN BarAt(clock) - n ELSE 1
     IN  job' = [job EXCEPT ![a] = [IdleJob EXCEPT !.pc = "fetching", !.set = d, !.from = from,
                                      !.to = BarAt(clock), !.cursor = from]]
  /\ UNCHANGED <<clock, files, broken, torn, health, lost, faults>>

\* The first bars of those that were asked for, as many as fit into an answer.
Page(from, to) ==
  LET there == Listed(from, to)
  IN  {b \in there : Cardinality({c \in there : c < b}) < PageLimit}

\* The closes of an answer.  The liquidations of the first hour that fits into an
\* answer are summed up from some of them only: a part is a value of the first tick.
Answered(j, chunk, part) ==
  [b \in Bars |-> IF b \notin chunk THEN j.got[b]
                  ELSE IF part /\ b = Min(chunk) THEN 1 ELSE Close(b)]

Fetched(j, chunk, finished, part) ==
  LET got == Answered(j, chunk, part)
      todo == {MonthOf(b) : b \in {c \in Bars : got[c] # NoBar}}
  IN  [j EXCEPT !.got = got, !.todo = todo,
                !.cursor = IF finished THEN 1 ELSE Max(chunk) + 1,
                !.pc = IF ~finished THEN "fetching" ELSE IF todo = {} THEN "stored" ELSE "merging"]

\* binance.fetch_bars: page after page, from just behind the last bar.  The answer
\* of hyperliquid.fetch_bars is not paged: a limit that no answer reaches.
FetchPage(a) ==
  LET j == job[a]
      chunk == Page(j.cursor, j.to)
      finished == Cardinality(chunk) < PageLimit \/ Max(chunk) <= j.cursor
  IN  /\ j.pc = "fetching" /\ j.set = "bars" /\ Turn(a)
      /\ job' = [job EXCEPT ![a] = Fetched(j, chunk, finished, FALSE)]
      /\ UNCHANGED <<clock, files, broken, torn, health, lost, asked, faults>>

\* The funding and context of both exchanges are not paged.  The context is asked
\* for by count, whatever the dates, and hyperliquid's adapter answers the latest
\* point of some of it and nothing when it fails: some of the latest points come.
Answers(j) == {Listed(first, j.to) : first \in j.from..(j.to + 1)}

FetchAll(a) ==
  LET j == job[a]
  IN  /\ j.pc = "fetching" /\ j.set = "context" /\ Turn(a)
      /\ \E chunk \in Answers(j), part \in BOOLEAN :
           job' = [job EXCEPT ![a] = Fetched(j, chunk, TRUE, part)]
      /\ UNCHANGED <<clock, files, broken, torn, health, lost, asked, faults>>

\* retry_async gives up, and the job with it.
FetchFails(a) ==
  /\ job[a].pc = "fetching" /\ Turn(a)
  /\ faults < MaxFaults
  /\ faults' = faults + 1
  /\ job' = [job EXCEPT ![a] = IdleJob]
  /\ UNCHANGED <<clock, files, broken, torn, health, lost, asked>>

-----------------------------------------------------------------------------
(* write_bars, write_funding and write_market_context, which are alike.       *)
(* latest_feature_bar_async writes context as well, and counts as an          *)
(* ingestion of it.                                                           *)

ThisMonth(a) == Min(job[a].todo)
File(a) == <<job[a].set, ThisMonth(a)>>
InMonth(a, b) == MonthOf(b) = ThisMonth(a)

\* Mutants: what is stored stays; the file is replaced by what was fetched.
MergedKeepFirst(a, b) ==
  LET stored == files[job[a].set][b] IN IF stored # NoBar THEN stored ELSE job[a].got[b]
MergedNothing(a, b) == job[a].got[b]

\* concat and drop_duplicates(keep="last").
Merged(a, b) ==
  LET new == job[a].got[b] IN IF new # NoBar THEN new ELSE files[job[a].set][b]

ReadMonth(a) ==
  /\ job[a].pc = "merging"
  /\ job' = IF File(a) \in broken THEN [job EXCEPT ![a] = IdleJob]
            ELSE [job EXCEPT ![a].pc = "merged",
                    ![a].copy = [b \in Bars |-> IF InMonth(a, b) THEN Merged(a, b) ELSE NoBar]]
  /\ UNCHANGED <<clock, files, broken, torn, health, lost, asked, faults>>

\* to_parquet empties the file ...
OpenMonth(a) ==
  /\ job[a].pc = "merged"
  /\ broken' = broken \cup {File(a)}
  /\ job' = [job EXCEPT ![a].pc = "opened"]
  /\ UNCHANGED <<clock, files, torn, health, lost, asked, faults>>

Rivals(a) == {r \in Agents \ {a} : job[r].pc = "opened" /\ File(r) = File(a)}

\* ... and fills it.  When two processes fill the same file it may end up as
\* neither's.
FillMonth(a) ==
  LET j == job[a]
      todo == j.todo \ {ThisMonth(a)}
      rest == IF todo = {}
              THEN [IdleJob EXCEPT !.pc = "stored", !.set = j.set, !.from = j.from, !.to = j.to]
              ELSE [j EXCEPT !.pc = "merging", !.todo = todo, !.copy = Empty, !.shared = FALSE]
  IN  /\ j.pc = "opened"
      /\ \E garbled \in BOOLEAN :
           /\ garbled => j.shared
           /\ torn' = (torn \/ garbled)
           /\ broken' = IF garbled \/ Rivals(a) # {} THEN broken ELSE broken \ {File(a)}
      /\ files' = [files EXCEPT ![j.set] =
                     [b \in Bars |-> IF InMonth(a, b) THEN j.copy[b] ELSE @[b]]]
      /\ lost' = lost \cup {b \in Bars : j.set = "bars" /\ files["bars"][b] # NoBar
                                         /\ files'["bars"][b] = NoBar}
      /\ job' = [r \in Agents |->
                   IF r = a THEN rest
                   ELSE IF job[r].pc \notin {"fetching", "merging", "merged", "opened"} THEN job[r]
                   ELSE [job[r] EXCEPT !.overtaken = TRUE, !.shared = @ \/ r \in Rivals(a)]]
      /\ UNCHANGED <<clock, health, asked, faults>>

\* Only bars are checked.
FinishContext(a) ==
  /\ job[a].pc = "stored" /\ job[a].set # "bars"
  /\ job' = [job EXCEPT ![a] = IdleJob]
  /\ UNCHANGED <<clock, files, broken, torn, health, lost, asked, faults>>

-----------------------------------------------------------------------------
(* Health.                                                                    *)

\* read_bars raises when any file it looks at is broken.
Readable == \A f \in broken : f[1] # "bars"
Stored == {b \in Bars : files["bars"][b] # NoBar}

\* Mutant: a single missing bar is tolerated.
GapsAfterTwo(bars) == {b \in bars : b < Max(bars) /\ b + 1 \notin bars /\ b + 2 \notin bars}

\* Bars that are followed by a hole.
Gaps(bars) == {b \in bars : b < Max(bars) /\ b + 1 \notin bars}

\* check_dataset
Checked(bars) ==
  IF bars = {} THEN NoHealth
  ELSE [first |-> Min(bars), last |-> Max(bars),
        quality |-> IF Gaps(bars) # {} THEN "gapped"
                    ELSE IF Max(bars) + StaleBars <= BarAt(clock) THEN "stale" ELSE "healthy"]

\* run_quality_checks and the route: refresh_health looks at all bars.
StartCheck(a) ==
  /\ a \notin Requests
  /\ MayStart(a)
  /\ job' = [job EXCEPT ![a] = [IdleJob EXCEPT !.pc = "stored", !.to = BarAt(clock)]]
  /\ UNCHANGED <<clock, files, broken, torn, health, lost, faults>>

CheckHealth(a) ==
  LET j == job[a]
  IN  /\ j.pc = "stored" /\ j.set = "bars"
      /\ job' = IF Readable
                THEN [job EXCEPT ![a].pc = "checked", ![a].row = Checked(Stored \cap (j.from..j.to))]
                ELSE [job EXCEPT ![a] = IdleJob]
      /\ UNCHANGED <<clock, files, broken, torn, health, lost, asked, faults>>

SaveHealth(a) ==
  /\ job[a].pc = "checked"
  /\ health' = job[a].row
  /\ job' = [job EXCEPT ![a] = IdleJob]
  /\ UNCHANGED <<clock, files, broken, torn, lost, asked, faults>>

-----------------------------------------------------------------------------
\* The process of an agent dies, wherever its agents are.
Dies(a) ==
  /\ faults < MaxFaults
  /\ faults' = faults + 1
  /\ torn' = (torn \/ \E r \in Process(a) : job[r].pc = "opened")
  /\ job' = [r \in Agents |-> IF r \in Process(a) THEN IdleJob ELSE job[r]]
  /\ UNCHANGED <<clock, files, broken, health, lost, asked>>

JobStep(a) ==
  \/ FetchPage(a) \/ FetchAll(a) \/ ReadMonth(a) \/ OpenMonth(a) \/ FillMonth(a)
  \/ FinishContext(a) \/ CheckHealth(a) \/ SaveHealth(a)

BarNext ==
  \/ Tick
  \/ \E a \in Agents, d \in Datasets, n \in Lookbacks : StartIngest(a, d, n)
  \/ \E a \in Agents : StartCheck(a) \/ JobStep(a) \/ FetchFails(a) \/ Dies(a)

\* Cron jobs fire again and again, and a job that has begun goes on when its loop
\* stays free for it.
BarFairness ==
  /\ \A n \in Lookbacks : SF_barVars(\E a \in Crons : StartIngest(a, "bars", n))
  /\ \A a \in Agents : WF_barVars(JobStep(a))

BarSpec == BarInit /\ [][BarNext]_barVars /\ BarFairness

-----------------------------------------------------------------------------
(* Properties.                                                                *)

\* The first point of an answer of context may be a part.
Cut(j, b) == j.set = "context" /\ \A c \in Bars : j.got[c] # NoBar => b <= c

\* A stored close is never replaced by an earlier one, and a stored bar never
\* vanishes, unless the writer was overtaken: another ingestion has written
\* since this one began.  (Then both happen: its answer is the older one, or the
\* file it merged with is.)  Of the context, the first point of an answer may
\* also be replaced by a part of it.
BarsOnlyImprove ==
  [][\A d \in Datasets, b \in Bars :
       files'[d][b] < files[d][b] =>
         \E a \in Agents : /\ job[a].pc = "opened" /\ job[a].set = d
                           /\ job[a].overtaken \/ Cut(job[a], b)]_barVars

\* A dataset that is reported healthy has every bar between the first and the
\* last that the check has seen, unless a write of two processes at once has
\* dropped it since: whoever saved its verdict last, and over which days.
HealthyIsTrue ==
  health.quality = "healthy" => \A b \in health.first..health.last : b \in Stored \cup lost

\* The bars that one of the worker's jobs still asks for get their final close,
\* although they are first fetched while they are forming, fetches fail, and other
\* jobs of the worker and requests of the API write older answers over them --
\* unless a file was left broken, which nothing in the code repairs.
Due(b) ==
  /\ b * TicksPerBar <= clock
  /\ \E n \in Lookbacks : BarAt(clock) <= b + n
UpToDate(b) == torn \/ (Due(b) => files["bars"][b] = b * TicksPerBar)
BarsBecomeFinal == \A b \in Bars : <>[]UpToDate(b)
=============================================================================
