--------------------------- MODULE StrategyTargets --------------------------
(* Strategy targets: a row of strategy_targets says for one strategy on one   *)
(* instrument which status it has reached and whether it is traded on paper.  *)
(* Three writers share the rows: backtests (sync_target_with_backtest),       *)
(* people (upsert_target) and the start of the API (bootstrap_default_target). *)
(* Each of them reads, computes, and writes the whole row, in the thread of a  *)
(* request of its own.  Approvals and the strategy's own row hang on the same  *)
(* results.                                                                    *)
EXTENDS Naturals, FiniteSets

CONSTANTS
  Requests,    \* threads of the API
  Targets,     \* strategy, symbol and venue
  Seeded,      \* the target of DEFAULT_TARGET, a set of at most one
  Results,     \* what a backtest may report, see ResultSpace
  Patches,     \* what people ask for: a status or "keep", a paper flag or "keep"
  MaxRuns,     \* bound: backtests started
  MaxEdits     \* bound: requests of people

VARIABLES
  rows,        \* strategy_targets
  runs,        \* backtest_runs: the result stored for each run
  decisions,   \* promotion_decisions of the runs
  spec,        \* strategy_specs.status
  req,         \* requests in progress
  started,     \* how many backtests have begun
  edits,       \* how many requests of people have begun
  asked,       \* history: a person switched paper on, and nobody off since
  overlapped   \* history: two requests for this target ran at the same time

targetVars == <<rows, runs, decisions, spec, req, started, edits, asked, overlapped>>

Statuses == {"rejected", "proposed", "shortlist", "candidate", "promoted"}
Flags == {"on", "off"}
Keep == "keep"

(* A result by the sides of the thresholds it falls on, in ascending order.   *)
(* "passed" is the decision of evaluate_promotion on the same run.             *)
ResultSpace ==
  [passed : BOOLEAN,
   sharpe : {"negative", "low", "fair", "strong"},   \* 0, 0.35, 1.0
   return : {"loss", "flat", "gain"},
   trades : {"few", "some", "half", "most"},         \* 8, 15, 22 of a minimum of 30
   drawdown : {"mild", "medium", "deep"}]            \* 8 and 12 percent

ASSUME TargetAssumption ==
  /\ Targets # {} /\ Seeded \subseteq Targets
  /\ Results \subseteq ResultSpace
  /\ Patches \subseteq [status : Statuses \cup {Keep}, paper : Flags \cup {Keep}]
  /\ MaxRuns \in Nat /\ MaxEdits \in Nat

RunIds == 1..MaxRuns
NoRun == 0
NoResult == [passed |-> FALSE, sharpe |-> "none", return |-> "none", trades |-> "none",
             drawdown |-> "none"]
Origins == {"person", "run", "seed", "default"}
\* History in a row: who gave the status, and who gave last_backtest_run_id.
Rows == [status : Statuses, paper : Flags, run : RunIds \cup {NoRun}, origin : Origins,
         namer : Origins]
NoRow == [status |-> "shortlist", paper |-> "off", run |-> NoRun, origin |-> "absent",
          namer |-> "default"]

(* What update_target_state overlays on the row: Keep is Python's None.       *)
Overlays == [status : Statuses \cup {Keep}, paper : Flags \cup {Keep},
             run : RunIds \cup {NoRun}, by : Origins]
NoOverlay == [status |-> Keep, paper |-> Keep, run |-> NoRun, by |-> "default"]

Stages == {"idle", "tested", "stored", "decided", "patched", "missing", "new",
           "copied", "cleared"}
Locals == [pc : Stages, target : Targets, run : RunIds \cup {NoRun},
           patch : Overlays, copy : Rows \cup {NoRow}]
Idle == [pc |-> "idle", target |-> CHOOSE t \in Targets : TRUE, run |-> NoRun,
         patch |-> NoOverlay, copy |-> NoRow]

TargetsInit ==
  /\ rows = [t \in Targets |-> NoRow]
  /\ runs = [k \in RunIds |-> NoResult]
  /\ decisions = [k \in RunIds |-> "none"]
  /\ spec = "proposed"
  /\ req = [q \in Requests |-> Idle]
  /\ started = 0 /\ edits = 0
  /\ asked = [t \in Targets |-> FALSE]
  /\ overlapped = [t \in Targets |-> FALSE]

InProgress(t) == {q \in Requests : req[q].pc \notin {"idle", "cleared"} /\ req[q].target = t}
Begin(q, t) ==
  /\ req[q].pc = "idle"
  /\ overlapped' = [overlapped EXCEPT ![t] = @ \/ InProgress(t) # {}]

-----------------------------------------------------------------------------
(* Reads of the table.                                                        *)

\* list_active_paper_targets, and the count of readiness_snapshot
ActiveTargets == {t \in Targets : rows[t].paper = "on" /\ rows[t].status \in {"candidate", "promoted"}}

Strong(r) ==
  /\ r.sharpe = "strong" /\ r.return = "gain"
  /\ r.trades = "most" /\ r.drawdown = "mild"
Constructive(r) ==
  /\ r.sharpe \in {"fair", "strong"} /\ r.return \in {"flat", "gain"}
  /\ r.trades \in {"half", "most"} /\ r.drawdown \in {"mild", "medium"}

\* infer_target_status
Verdict(r) ==
  IF r.passed \/ Strong(r) THEN "promoted"
  ELSE IF Constructive(r) THEN "candidate"
  ELSE IF r.sharpe # "negative" /\ r.trades # "few" THEN "shortlist"
  ELSE "rejected"

-----------------------------------------------------------------------------
(* update_target_state and save_target, the part that all writers share.      *)

\* SELECT * of the row to be overlaid.
CopyRow(q) ==
  /\ req[q].pc = "patched"
  /\ LET row == rows[req[q].target]
     IN  req' = [req EXCEPT ![q].copy = row,
                            ![q].pc = IF row = NoRow THEN "missing" ELSE "copied"]
  /\ UNCHANGED <<rows, runs, decisions, spec, started, edits, asked, overlapped>>

\* Mutant: the run of the first backtest is kept.
OverlayFirstRun(copy, patch) ==
  [status |-> IF patch.status = Keep THEN copy.status ELSE patch.status,
   paper  |-> IF patch.paper = Keep THEN copy.paper ELSE patch.paper,
   run    |-> IF copy.run # NoRun THEN copy.run ELSE patch.run,
   namer  |-> IF patch.run = NoRun THEN copy.namer ELSE patch.by,
   origin |-> IF patch.status # Keep THEN patch.by
              ELSE IF copy = NoRow THEN "default" ELSE copy.origin]

\* The row that save_target writes: what was read, with what is asked for on top.
Overlay(copy, patch) ==
  [status |-> IF patch.status = Keep THEN copy.status ELSE patch.status,
   paper  |-> IF patch.paper = Keep THEN copy.paper ELSE patch.paper,
   run    |-> IF patch.run = NoRun THEN copy.run ELSE patch.run,
   namer  |-> IF patch.run = NoRun THEN copy.namer ELSE patch.by,
   origin |-> IF patch.status # Keep THEN patch.by
              ELSE IF copy = NoRow THEN "default" ELSE copy.origin]

\* Whether the flag that is on was asked for by a person.
AskedBy(t, patch) ==
  CASE patch.paper = "off" -> FALSE
    [] patch.paper = "on" /\ patch.by = "person" -> TRUE
    [] OTHER -> asked[t]

Write(q) ==
  LET r == req[q]
  IN  /\ rows' = [rows EXCEPT ![r.target] = Overlay(r.copy, r.patch)]
      /\ asked' = [asked EXCEPT ![r.target] = AskedBy(r.target, r.patch)]

\* The copy has a target_id: INSERT ... ON CONFLICT(target_id) DO UPDATE.
SaveRow(q) ==
  /\ req[q].pc = "copied"
  /\ Write(q)
  /\ req' = [req EXCEPT ![q] = Idle]
  /\ UNCHANGED <<runs, decisions, spec, started, edits, overlapped>>

\* There was no row: save_target looks for its target_id once more, ...
LookUp(q) ==
  /\ req[q].pc = "missing"
  /\ req' = [req EXCEPT ![q].pc = IF rows[req[q].target] = NoRow THEN "new" ELSE "copied"]
  /\ UNCHANGED <<rows, runs, decisions, spec, started, edits, asked, overlapped>>

\* ... makes one up, and UNIQUE(spec_id, symbol, venue) refuses a second row.
InsertRow(q) ==
  /\ req[q].pc = "new"
  /\ IF rows[req[q].target] = NoRow THEN Write(q) ELSE UNCHANGED <<rows, asked>>
  /\ req' = [req EXCEPT ![q] = Idle]
  /\ UNCHANGED <<runs, decisions, spec, started, edits, overlapped>>

-----------------------------------------------------------------------------
(* create_backtest: the run, the decision and the target are three commits.   *)

ExecuteBacktest(q, t) ==
  /\ started < MaxRuns
  /\ started' = started + 1
  /\ Begin(q, t)
  /\ req' = [req EXCEPT ![q] = [Idle EXCEPT !.pc = "tested", !.target = t, !.run = started']]
  /\ UNCHANGED <<rows, runs, decisions, spec, edits, asked>>

SaveRun(q) ==
  /\ req[q].pc = "tested"
  /\ \E r \in Results : runs' = [runs EXCEPT ![req[q].run] = r]
  /\ req' = [req EXCEPT ![q].pc = "stored"]
  /\ UNCHANGED <<rows, decisions, spec, started, edits, asked, overlapped>>

SaveDecision(q) ==
  /\ req[q].pc = "stored"
  /\ decisions' = [decisions EXCEPT ![req[q].run] =
                     IF runs[req[q].run].passed THEN "passed" ELSE "failed"]
  /\ req' = [req EXCEPT ![q].pc = "decided"]
  /\ UNCHANGED <<rows, runs, spec, started, edits, asked, overlapped>>

\* A backtest without symbol and venue leaves the target alone.
SkipSync(q) ==
  /\ req[q].pc = "decided"
  /\ req' = [req EXCEPT ![q] = Idle]
  /\ UNCHANGED <<rows, runs, decisions, spec, started, edits, asked, overlapped>>

\* Mutant: a promotion starts paper trading.
CarriedPromoted(t, verdict) ==
  IF verdict = "promoted" THEN "on"
  ELSE IF verdict = "rejected" THEN "off" ELSE IF rows[t] = NoRow THEN Keep ELSE rows[t].paper

\* sync_target_with_backtest reads the flag and writes it back explicitly.
Carried(t, verdict) ==
  IF verdict = "rejected" THEN "off" ELSE IF rows[t] = NoRow THEN Keep ELSE rows[t].paper

SyncFlag(q) ==
  /\ req[q].pc = "decided"
  /\ LET verdict == Verdict(runs[req[q].run])
     IN  req' = [req EXCEPT ![q].pc = "patched",
                            ![q].patch = [status |-> verdict, run |-> req[q].run, by |-> "run",
                                          paper |-> Carried(req[q].target, verdict)]]
  /\ UNCHANGED <<rows, runs, decisions, spec, started, edits, asked, overlapped>>

-----------------------------------------------------------------------------
(* People.                                                                    *)

\* upsert_target.  A person may name a run as well, one of this target or of any
\* other; the code takes any text for it, of which ids that no run has are left out.
StartUpsert(q, t) ==
  /\ edits < MaxEdits
  /\ edits' = edits + 1
  /\ Begin(q, t)
  /\ \E p \in Patches, k \in {NoRun} \cup 1..started :
       req' = [req EXCEPT ![q] = [Idle EXCEPT !.pc = "patched", !.target = t,
                 !.patch = [status |-> p.status, paper |-> p.paper, run |-> k, by |-> "person"]]]
  /\ UNCHANGED <<rows, runs, decisions, spec, started, asked>>

\* approve: the decision, and the gate of readiness_snapshot on paper trading.
\* Whether there are enough paper events is a choice.
ApproveRead(q, k) ==
  /\ decisions[k] # "none"
  /\ ActiveTargets # {}
  /\ req[q].pc = "idle"
  /\ req' = [req EXCEPT ![q] = [Idle EXCEPT !.pc = "cleared", !.run = k]]
  /\ UNCHANGED <<rows, runs, decisions, spec, started, edits, asked, overlapped>>

\* Two statements and one commit.
ApproveCommit(q) ==
  /\ req[q].pc = "cleared"
  /\ decisions' = [decisions EXCEPT ![req[q].run] = "approved"]
  /\ spec' = "promoted"
  /\ req' = [req EXCEPT ![q] = Idle]
  /\ UNCHANGED <<rows, runs, started, edits, asked, overlapped>>

\* create_strategy saves a strategy again under its id.
CreateStrategy ==
  /\ edits < MaxEdits
  /\ edits' = edits + 1
  /\ spec' = "proposed"
  /\ UNCHANGED <<rows, runs, decisions, req, started, asked, overlapped>>

\* bootstrap_default_target at the start of the API, which sees no row.
Bootstrap(q, t) ==
  /\ t \in Seeded
  /\ rows[t] = NoRow
  /\ edits < MaxEdits
  /\ edits' = edits + 1
  /\ Begin(q, t)
  /\ req' = [req EXCEPT ![q] = [Idle EXCEPT !.pc = "missing", !.target = t,
               !.patch = [status |-> "candidate", paper |-> "off", run |-> NoRun, by |-> "seed"]]]
  /\ UNCHANGED <<rows, runs, decisions, spec, started, asked>>

\* An exception or the end of the process, between any two statements.
RequestFails(q) ==
  /\ req[q].pc # "idle"
  /\ req' = [req EXCEPT ![q] = Idle]
  /\ UNCHANGED <<rows, runs, decisions, spec, started, edits, asked, overlapped>>

RequestStep(q) ==
  \/ CopyRow(q) \/ SaveRow(q) \/ LookUp(q) \/ InsertRow(q)
  \/ SaveRun(q) \/ SaveDecision(q) \/ SkipSync(q) \/ SyncFlag(q)
  \/ ApproveCommit(q) \/ RequestFails(q)

TargetsNext ==
  \/ \E q \in Requests : RequestStep(q)
  \/ \E q \in Requests, t \in Targets :
       ExecuteBacktest(q, t) \/ StartUpsert(q, t) \/ Bootstrap(q, t)
  \/ \E q \in Requests, k \in RunIds : ApproveRead(q, k)
  \/ CreateStrategy

TargetsSpec == TargetsInit /\ [][TargetsNext]_targetVars

-----------------------------------------------------------------------------
(* Properties.                                                                *)

\* The rows keep their types.
TargetsTypeOK ==
  /\ rows \in [Targets -> Rows \cup {NoRow}]
  /\ runs \in [RunIds -> Results \cup {NoResult}]
  /\ decisions \in [RunIds -> {"none", "failed", "passed", "approved"}]
  /\ spec \in {"proposed", "promoted"}
  /\ req \in [Requests -> Locals]
  /\ started \in 0..MaxRuns /\ edits \in 0..MaxEdits
  /\ asked \in [Targets -> BOOLEAN]
  /\ overlapped \in [Targets -> BOOLEAN]

\* A status that came from a backtest is what a run with a stored result and a
\* stored decision earned, and unless a person put another run's id into the row it
\* is the run that the row names: however whole rows are written over each other,
\* and wherever a request fails between its commits, readers that join a target with
\* its last run (best_target_snapshot) do not see a status next to somebody else's
\* result that no person put there.
StatusHasGrounds ==
  \A t \in Targets :
    rows[t].origin = "run" =>
      \E k \in RunIds :
        /\ runs[k] # NoResult /\ decisions[k] # "none"
        /\ rows[t].status = Verdict(runs[k])
        /\ rows[t].namer # "person" => k = rows[t].run

\* Paper trading is switched on by people: a backtest may switch a target off
\* and carries the flag otherwise, so a target that is on was switched on by a
\* person and by nobody switched off since -- unless two requests for it were in
\* progress at the same time, when the flag that the backtest read before the
\* other one's write comes back.
EnabledByPeople ==
  \A t \in Targets : rows[t].paper = "on" => asked[t] \/ overlapped[t]
=============================================================================
