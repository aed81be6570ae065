------------------------ MODULE StrategyTargetsProofs -----------------------
(* Strategy targets for any number of requests, targets, backtests and edits. *)
EXTENDS StrategyTargets, TLAPS

\* The result and the decision of run k are stored, and it earned this status.
Earned(status, k, res, dec) ==
  res[k] # NoResult /\ dec[k] # "none" /\ status = Verdict(res[k])

\* A row that claims a backtest: some run earned its status, the one that the row
\* names unless a person named it.
Grounded(row, res, dec) ==
  row.origin = "run" =>
    \E k \in RunIds : Earned(row.status, k, res, dec) /\ (row.namer # "person" => k = row.run)

\* What a request asks to be written over the row, likewise.
GroundedPatch(patch, res, dec) ==
  /\ patch.by = "run" =>
       /\ patch.run \in RunIds
       /\ Earned(patch.status, patch.run, res, dec)
  /\ patch.by # "run" /\ patch.run # NoRun => patch.by = "person"

Testing(l) == l.pc \in {"tested", "stored"}

\* The run of a request has the result and the decision of the request's stage.
StageGrounds(l, res, dec, st) ==
  /\ l.pc \in {"tested", "stored", "decided", "cleared"} => l.run \in RunIds
  /\ Testing(l) => l.run <= st /\ dec[l.run] = "none"
  /\ l.pc \in {"stored", "decided"} => res[l.run] # NoResult
  /\ l.pc \in {"decided", "cleared"} => dec[l.run] # "none"

\* Every row, copy and patch has its grounds, and no two backtests share a run.
GroundsInv ==
  /\ \A t \in Targets : Grounded(rows[t], runs, decisions)
  /\ \A q \in Requests : /\ Grounded(req[q].copy, runs, decisions)
                         /\ GroundedPatch(req[q].patch, runs, decisions)
                         /\ StageGrounds(req[q], runs, decisions, started)
  /\ \A p, q \in Requests :
       p # q /\ Testing(req[p]) /\ Testing(req[q]) => req[p].run # req[q].run
  /\ \A k \in RunIds : k > started => decisions[k] = "none"

\* Results that have been decided on stay as they are.
Kept(res, dec, res2, dec2) ==
  \A k \in RunIds : res[k] # NoResult /\ dec[k] # "none" => res2[k] = res[k] /\ dec2[k] # "none"

\* A request that is about to write a row of its target.
Active(l) == l.pc \notin {"idle", "cleared"}

\* What it has read or asks for switches paper on only if a person did.
Backed(l, a) ==
  /\ l.copy.paper = "on" => a
  /\ l.patch.paper = "on" => l.patch.by = "person" \/ a

\* While two requests for a target have not run at once, there is one at most,
\* and it is backed.
EnabledInv ==
  \A t \in Targets :
    overlapped[t] \/
      /\ rows[t].paper = "on" => asked[t]
      /\ \A p, q \in Requests :
           /\ Active(req[p]) /\ req[p].target = t
           /\ Active(req[q]) /\ req[q].target = t
           => p = q
      /\ \A q \in Requests : Active(req[q]) /\ req[q].target = t => Backed(req[q], asked[t])

-----------------------------------------------------------------------------
(* Types.                                                                     *)

\* The parts of a request.
LEMMA LocalParts ==
  ASSUME NEW l \in Locals
  PROVE  /\ l.pc \in Stages /\ l.target \in Targets /\ l.run \in RunIds \cup {NoRun}
         /\ l.patch \in Overlays /\ l.copy \in Rows \cup {NoRow}
  BY DEF Locals

\* A request at another stage, or with another copy or patch, is a request.
LEMMA LocalChanges ==
  ASSUME NEW l \in Locals, NEW s \in Stages, NEW c \in Rows \cup {NoRow}, NEW p \in Overlays
  PROVE  /\ [l EXCEPT !.pc = s] \in Locals
         /\ [l EXCEPT !.copy = c, !.pc = s] \in Locals
         /\ [l EXCEPT !.pc = s, !.patch = p] \in Locals
  BY DEF Locals

\* The parts of a patch.
LEMMA OverlayParts ==
  ASSUME NEW p \in Overlays
  PROVE  /\ p.status \in Statuses \cup {Keep} /\ p.paper \in Flags \cup {Keep}
         /\ p.run \in RunIds \cup {NoRun} /\ p.by \in Origins
  BY DEF Overlays

\* The parts of a row.
LEMMA RowParts ==
  ASSUME NEW row \in Rows \cup {NoRow}
  PROVE  /\ row.status \in Statuses /\ row.paper \in Flags
         /\ row.run \in RunIds \cup {NoRun}
         /\ row.namer \in Origins
         /\ row # NoRow => row.origin \in Origins
         /\ row = NoRow => row.origin = "absent"
  BY DEF Rows, NoRow, Statuses, Flags, Origins

\* The row that is written is one.
LEMMA OverlayType ==
  ASSUME NEW copy \in Rows \cup {NoRow}, NEW patch \in Overlays
  PROVE  Overlay(copy, patch) \in Rows
<1>1. /\ (IF patch.status = Keep THEN copy.status ELSE patch.status) \in Statuses
      /\ (IF patch.paper = Keep THEN copy.paper ELSE patch.paper) \in Flags
      /\ (IF patch.run = NoRun THEN copy.run ELSE patch.run) \in RunIds \cup {NoRun}
  BY RowParts, OverlayParts
<1>2. (IF patch.status # Keep THEN patch.by
       ELSE IF copy = NoRow THEN "default" ELSE copy.origin) \in Origins
  BY RowParts, OverlayParts DEF Origins
<1>3. (IF patch.run = NoRun THEN copy.namer ELSE patch.by) \in Origins
  BY RowParts, OverlayParts
<1> QED BY <1>1, <1>2, <1>3 DEF Overlay, Rows

\* A request that does nothing is a request.
LEMMA IdleType == Idle \in Locals
  BY TargetAssumption DEF Idle, Locals, Stages, NoOverlay, Overlays, Origins

\* An idle request has a stage of no run, a default patch and no row.
LEMMA IdleParts ==
  /\ Idle.pc = "idle" /\ Idle.copy = NoRow /\ Idle.patch = NoOverlay
  BY DEF Idle

\* Every verdict is a status.
LEMMA VerdictType == \A r : Verdict(r) \in Statuses
  BY DEF Verdict, Statuses

\* Types hold at the start.
LEMMA TargetsInitial == TargetsInit => TargetsTypeOK
  BY IdleType, TargetAssumption DEF TargetsInit, TargetsTypeOK

\* One request writes its row.
LEMMA WriteType ==
  ASSUME TargetsTypeOK, NEW q \in Requests, Write(q)
  PROVE  rows' \in [Targets -> Rows \cup {NoRow}] /\ asked' \in [Targets -> BOOLEAN]
<1> DEFINE l == req[q]
<1>1. l \in Locals
  BY DEF TargetsTypeOK
<1>2. l.target \in Targets /\ l.copy \in Rows \cup {NoRow} /\ l.patch \in Overlays
  BY <1>1, LocalParts
<1>3. Overlay(l.copy, l.patch) \in Rows
  BY <1>2, OverlayType
<1>4. asked[l.target] \in BOOLEAN
  BY <1>2 DEF TargetsTypeOK
<1>5. AskedBy(l.target, l.patch) \in BOOLEAN
  BY <1>4 DEF AskedBy
<1>6. rows' = [rows EXCEPT ![l.target] = Overlay(l.copy, l.patch)]
      /\ asked' = [asked EXCEPT ![l.target] = AskedBy(l.target, l.patch)]
  BY DEF Write
<1> HIDE DEF l
<1> QED BY <1>2, <1>3, <1>5, <1>6 DEF TargetsTypeOK

\* The variables of a step in which only the request moves.
LEMMA MoveType ==
  ASSUME TargetsTypeOK, NEW q \in Requests, NEW l \in Locals,
         req' = [req EXCEPT ![q] = l]
  PROVE  req' \in [Requests -> Locals]
  BY DEF TargetsTypeOK

\* Every step of a request under way keeps the types.
LEMMA RequestType ==
  ASSUME TargetsTypeOK, NEW q \in Requests, RequestStep(q)
  PROVE  TargetsTypeOK'
<1> DEFINE l == req[q]
<1>1. l \in Locals
  BY DEF TargetsTypeOK
<1>2. /\ l.target \in Targets /\ l.run \in RunIds \cup {NoRun}
      /\ l.copy \in Rows \cup {NoRow} /\ l.patch \in Overlays /\ l.pc \in Stages
  BY <1>1, LocalParts
<1>3. Idle \in Locals
  BY IdleType
<1>4. \A s \in Stages : [l EXCEPT !.pc = s] \in Locals
  BY <1>1, <1>2, LocalChanges
<1>5. CASE CopyRow(q)
  <2>1. rows[l.target] \in Rows \cup {NoRow}
    BY <1>2 DEF TargetsTypeOK
  <2>2. PICK s \in Stages : req' = [req EXCEPT ![q] = [l EXCEPT !.copy = rows[l.target], !.pc = s]]
    BY <1>5 DEF CopyRow, Stages, TargetsTypeOK
  <2>3. [l EXCEPT !.copy = rows[l.target], !.pc = s] \in Locals
    BY <1>1, <1>2, <2>1, LocalChanges
  <2> HIDE DEF l
  <2>4. req' \in [Requests -> Locals]
    BY <2>2, <2>3, MoveType
  <2> QED BY <1>5, <2>4 DEF CopyRow, TargetsTypeOK
<1>6. CASE SaveRow(q)
  <2>1. req' \in [Requests -> Locals]
    BY <1>3, <1>6, MoveType DEF SaveRow
  <2>2. Write(q)
    BY <1>6 DEF SaveRow
  <2> QED BY <1>6, <2>1, <2>2, WriteType DEF SaveRow, TargetsTypeOK
<1>7. CASE LookUp(q)
  <2>1. PICK s \in Stages : req' = [req EXCEPT ![q] = [l EXCEPT !.pc = s]]
    BY <1>7 DEF LookUp, Stages, TargetsTypeOK
  <2>2. req' \in [Requests -> Locals]
    BY <1>4, <2>1, MoveType
  <2> QED BY <1>7, <2>2 DEF LookUp, TargetsTypeOK
<1>8. CASE InsertRow(q)
  <2>1. req' \in [Requests -> Locals]
    BY <1>3, <1>8, MoveType DEF InsertRow
  <2>2. Write(q) \/ UNCHANGED <<rows, asked>>
    BY <1>8 DEF InsertRow
  <2>3. rows' \in [Targets -> Rows \cup {NoRow}] /\ asked' \in [Targets -> BOOLEAN]
    BY <2>2, WriteType DEF TargetsTypeOK
  <2> QED BY <1>8, <2>1, <2>3 DEF InsertRow, TargetsTypeOK
<1>9. CASE SaveRun(q)
  <2>1. req' = [req EXCEPT ![q] = [l EXCEPT !.pc = "stored"]]
    BY <1>9 DEF SaveRun, TargetsTypeOK
  <2>2. req' \in [Requests -> Locals]
    BY <1>4, <2>1, MoveType DEF Stages
  <2>3. runs' \in [RunIds -> Results \cup {NoResult}]
    BY <1>9 DEF SaveRun, TargetsTypeOK
  <2> QED BY <1>9, <2>2, <2>3 DEF SaveRun, TargetsTypeOK
<1>10. CASE SaveDecision(q)
  <2>1. req' = [req EXCEPT ![q] = [l EXCEPT !.pc = "decided"]]
    BY <1>10 DEF SaveDecision, TargetsTypeOK
  <2>2. req' \in [Requests -> Locals]
    BY <1>4, <2>1, MoveType DEF Stages
  <2>3. decisions' \in [RunIds -> {"none", "failed", "passed", "approved"}]
    BY <1>10 DEF SaveDecision, TargetsTypeOK
  <2> QED BY <1>10, <2>2, <2>3 DEF SaveDecision, TargetsTypeOK
<1>11. CASE SkipSync(q)
  <2>1. req' \in [Requests -> Locals]
    BY <1>3, <1>11, MoveType DEF SkipSync
  <2> QED BY <1>11, <2>1 DEF SkipSync, TargetsTypeOK
<1>12. CASE SyncFlag(q)
  <2> DEFINE v == Verdict(runs[l.run])
             patch == [status |-> v, run |-> l.run, by |-> "run", paper |-> Carried(l.target, v)]
  <2>1. v \in Statuses
    BY VerdictType
  <2>2. rows[l.target].paper \in Flags
    BY <1>2, RowParts DEF TargetsTypeOK
  <2>3. Carried(l.target, v) \in Flags \cup {Keep}
    BY <2>2 DEF Carried, Flags
  <2>4. patch \in Overlays
    BY <1>2, <2>1, <2>3 DEF Overlays, Origins
  <2>5. req' = [req EXCEPT ![q] = [l EXCEPT !.pc = "patched", !.patch = patch]]
    BY <1>12 DEF SyncFlag, TargetsTypeOK
  <2> HIDE DEF patch
  <2>6. [l EXCEPT !.pc = "patched", !.patch = patch] \in Locals
    BY <1>1, <1>2, <2>4, LocalChanges DEF Stages
  <2>7. req' \in [Requests -> Locals]
    BY <2>5, <2>6, MoveType
  <2> QED BY <1>12, <2>7 DEF SyncFlag, TargetsTypeOK
<1>13. CASE ApproveCommit(q)
  <2>1. req' \in [Requests -> Locals]
    BY <1>3, <1>13, MoveType DEF ApproveCommit
  <2>2. decisions' \in [RunIds -> {"none", "failed", "passed", "approved"}]
    BY <1>13 DEF ApproveCommit, TargetsTypeOK
  <2> QED BY <1>13, <2>1, <2>2 DEF ApproveCommit, TargetsTypeOK
<1>14. CASE RequestFails(q)
  <2>1. req' \in [Requests -> Locals]
    BY <1>3, <1>14, MoveType DEF RequestFails
  <2> QED BY <1>14, <2>1 DEF RequestFails, TargetsTypeOK
<1> QED BY <1>5, <1>6, <1>7, <1>8, <1>9, <1>10, <1>11, <1>12, <1>13, <1>14 DEF RequestStep

\* A request begins.
LEMMA BeginType ==
  ASSUME TargetsTypeOK, NEW q \in Requests, NEW t \in Targets, Begin(q, t)
  PROVE  overlapped' \in [Targets -> BOOLEAN]
<1>1. overlapped[t] \in BOOLEAN
  BY DEF TargetsTypeOK
<1>2. (overlapped[t] \/ InProgress(t) # {}) \in BOOLEAN
  OBVIOUS
<1>3. overlapped' = [overlapped EXCEPT ![t] = overlapped[t] \/ InProgress(t) # {}]
  BY DEF Begin
<1> QED BY <1>2, <1>3 DEF TargetsTypeOK

\* Every step that begins a request keeps the types.
LEMMA StartType ==
  ASSUME TargetsTypeOK, NEW q \in Requests
  PROVE  /\ \A t \in Targets : ExecuteBacktest(q, t) \/ StartUpsert(q, t) \/ Bootstrap(q, t)
                               => TargetsTypeOK'
         /\ \A k \in RunIds : ApproveRead(q, k) => TargetsTypeOK'
<1>1. ASSUME NEW t \in Targets, ExecuteBacktest(q, t) PROVE TargetsTypeOK'
  <2>1. started' \in RunIds /\ started' \in 0..MaxRuns
    BY <1>1, TargetAssumption DEF ExecuteBacktest, TargetsTypeOK, RunIds
  <2>2. [Idle EXCEPT !.pc = "tested", !.target = t, !.run = started'] \in Locals
    BY <2>1, IdleType DEF Locals, Stages
  <2>3. req' \in [Requests -> Locals]
    BY <1>1, <2>2, MoveType DEF ExecuteBacktest
  <2>4. overlapped' \in [Targets -> BOOLEAN]
    BY <1>1, BeginType DEF ExecuteBacktest
  <2> QED BY <1>1, <2>1, <2>3, <2>4 DEF ExecuteBacktest, TargetsTypeOK
<1>2. ASSUME NEW t \in Targets, StartUpsert(q, t) PROVE TargetsTypeOK'
  <2>1. PICK p \in Patches, k \in {NoRun} \cup 1..started :
          req' = [req EXCEPT ![q] = [Idle EXCEPT !.pc = "patched", !.target = t,
                    !.patch = [status |-> p.status, paper |-> p.paper, run |-> k, by |-> "person"]]]
    BY <1>2 DEF StartUpsert
  <2>2. [status |-> p.status, paper |-> p.paper, run |-> k, by |-> "person"] \in Overlays
    <3>1. k \in RunIds \cup {NoRun}
      BY TargetAssumption DEF TargetsTypeOK, RunIds
    <3> QED BY <3>1, TargetAssumption DEF Overlays, Origins
  <2>3. [Idle EXCEPT !.pc = "patched", !.target = t, !.patch =
           [status |-> p.status, paper |-> p.paper, run |-> k, by |-> "person"]] \in Locals
    BY <2>2, IdleType DEF Locals, Stages
  <2>4. req' \in [Requests -> Locals]
    BY <2>1, <2>3, MoveType
  <2>5. overlapped' \in [Targets -> BOOLEAN]
    BY <1>2, BeginType DEF StartUpsert
  <2>6. edits' \in 0..MaxEdits
    BY <1>2, TargetAssumption DEF StartUpsert, TargetsTypeOK
  <2> QED BY <1>2, <2>4, <2>5, <2>6 DEF StartUpsert, TargetsTypeOK
<1>3. ASSUME NEW t \in Targets, Bootstrap(q, t) PROVE TargetsTypeOK'
  <2> DEFINE patch == [status |-> "candidate", paper |-> "off", run |-> NoRun, by |-> "seed"]
  <2>1. patch \in Overlays
    BY DEF Overlays, Origins, Statuses, Flags
  <2>2. req' = [req EXCEPT ![q] = [Idle EXCEPT !.pc = "missing", !.target = t, !.patch = patch]]
    BY <1>3 DEF Bootstrap
  <2> HIDE DEF patch
  <2>3. [Idle EXCEPT !.pc = "missing", !.target = t, !.patch = patch] \in Locals
    BY <2>1, IdleType DEF Locals, Stages
  <2>4. req' \in [Requests -> Locals]
    BY <2>2, <2>3, MoveType
  <2>5. overlapped' \in [Targets -> BOOLEAN]
    BY <1>3, BeginType DEF Bootstrap
  <2>6. edits' \in 0..MaxEdits
    BY <1>3, TargetAssumption DEF Bootstrap, TargetsTypeOK
  <2> QED BY <1>3, <2>4, <2>5, <2>6 DEF Bootstrap, TargetsTypeOK
<1>4. ASSUME NEW k \in RunIds, ApproveRead(q, k) PROVE TargetsTypeOK'
  <2>1. [Idle EXCEPT !.pc = "cleared", !.run = k] \in Locals
    BY IdleType DEF Locals, Stages
  <2>2. req' \in [Requests -> Locals]
    BY <1>4, <2>1, MoveType DEF ApproveRead
  <2> QED BY <1>4, <2>2 DEF ApproveRead, TargetsTypeOK
<1> QED BY <1>1, <1>2, <1>3, <1>4

\* A strategy is saved again.
LEMMA CreateType == TargetsTypeOK /\ CreateStrategy => TargetsTypeOK'
  BY TargetAssumption DEF CreateStrategy, TargetsTypeOK

\* Every step keeps the types.
LEMMA TargetsStepType == TargetsTypeOK /\ [TargetsNext]_targetVars => TargetsTypeOK'
<1> SUFFICES ASSUME TargetsTypeOK, [TargetsNext]_targetVars PROVE TargetsTypeOK'
  OBVIOUS
<1>1. CASE TargetsNext
  BY <1>1, RequestType, StartType, CreateType DEF TargetsNext
<1>2. CASE UNCHANGED targetVars
  BY <1>2 DEF targetVars, TargetsTypeOK
<1> QED BY <1>1, <1>2

\* The tables and requests of strategy targets keep their types.
THEOREM TargetsTypeCorrect == TargetsSpec => []TargetsTypeOK
  BY TargetsInitial, TargetsStepType, PTL DEF TargetsSpec

-----------------------------------------------------------------------------
(* Statuses have grounds.                                                     *)

\* No backtest reports that there is no result.
LEMMA NoResultIsNone == NoResult \notin Results
  BY TargetAssumption DEF NoResult, ResultSpace

\* The grounds of a row and of a patch do not get lost.
LEMMA GroundsKept ==
  ASSUME NEW res, NEW dec, NEW res2, NEW dec2, Kept(res, dec, res2, dec2)
  PROVE  /\ \A row : Grounded(row, res, dec) => Grounded(row, res2, dec2)
         /\ \A patch : GroundedPatch(patch, res, dec) => GroundedPatch(patch, res2, dec2)
<1>1. ASSUME NEW row, Grounded(row, res, dec) PROVE Grounded(row, res2, dec2)
  <2>1. ASSUME NEW k \in RunIds, Earned(row.status, k, res, dec)
        PROVE  Earned(row.status, k, res2, dec2)
    BY <2>1 DEF Kept, Earned
  <2> QED BY <1>1, <2>1 DEF Grounded
<1>2. ASSUME NEW patch, GroundedPatch(patch, res, dec) PROVE GroundedPatch(patch, res2, dec2)
  BY <1>2 DEF Kept, GroundedPatch, Earned
<1> QED BY <1>1, <1>2

\* The row that is written has the grounds of what it was made of.
LEMMA OverlayGrounded ==
  ASSUME NEW copy \in Rows \cup {NoRow}, NEW patch \in Overlays, NEW res, NEW dec,
         Grounded(copy, res, dec), GroundedPatch(patch, res, dec)
  PROVE  Grounded(Overlay(copy, patch), res, dec)
<1> DEFINE row == Overlay(copy, patch)
<1>1. /\ row.status = (IF patch.status = Keep THEN copy.status ELSE patch.status)
      /\ row.run = (IF patch.run = NoRun THEN copy.run ELSE patch.run)
      /\ row.namer = (IF patch.run = NoRun THEN copy.namer ELSE patch.by)
      /\ row.origin = (IF patch.status # Keep THEN patch.by
                       ELSE IF copy = NoRow THEN "default" ELSE copy.origin)
  BY DEF Overlay
<1> HIDE DEF row
<1>2. CASE patch.status # Keep
  <2>1. SUFFICES ASSUME patch.by = "run" PROVE Grounded(row, res, dec)
    BY <1>1, <1>2 DEF Grounded, row
  <2>2. patch.run \in RunIds /\ Earned(patch.status, patch.run, res, dec)
    BY <2>1 DEF GroundedPatch
  <2>3. patch.run # NoRun
    BY <2>2 DEF RunIds, NoRun
  <2>4. row.status = patch.status /\ row.run = patch.run
    BY <1>1, <1>2, <2>3
  <2> QED BY <2>2, <2>4 DEF Grounded
<1>3. CASE patch.status = Keep
  <2>1. SUFFICES ASSUME row.origin = "run" PROVE Grounded(row, res, dec)
    BY DEF Grounded, row
  <2>2. copy.origin = "run" /\ row.status = copy.status
    BY <1>1, <1>3, <2>1
  <2>3. PICK k \in RunIds : /\ Earned(copy.status, k, res, dec)
                            /\ copy.namer # "person" => k = copy.run
    BY <2>2 DEF Grounded
  <2>4. patch.by # "run"
    BY <1>3, VerdictType DEF GroundedPatch, Earned, Keep, Statuses
  <2>5. patch.run # NoRun => row.namer = "person"
    BY <1>1, <2>4 DEF GroundedPatch
  <2>6. patch.run = NoRun => row.namer = copy.namer /\ row.run = copy.run
    BY <1>1
  <2>7. row.namer # "person" => k = row.run
    BY <2>3, <2>5, <2>6
  <2> QED BY <2>2, <2>3, <2>7 DEF Grounded
<1> QED BY <1>2, <1>3 DEF row

\* One request moves, and the results that were decided on stay.
LEMMA GroundsMove ==
  ASSUME TargetsTypeOK, GroundsInv, NEW q \in Requests, NEW l, req' = [req EXCEPT ![q] = l],
         Kept(runs, decisions, runs', decisions'),
         \A p \in Requests \ {q} : StageGrounds(req[p], runs', decisions', started'),
         Grounded(l.copy, runs', decisions'), GroundedPatch(l.patch, runs', decisions'),
         StageGrounds(l, runs', decisions', started'),
         Testing(l) => \A p \in Requests \ {q} : Testing(req[p]) => req[p].run # l.run,
         \A t \in Targets : rows'[t] = rows[t] \/ Grounded(rows'[t], runs', decisions'),
         \A k \in RunIds : k > started' => decisions'[k] = "none"
  PROVE  GroundsInv'
<1>1. /\ req'[q] = l
      /\ \A p \in Requests \ {q} : req'[p] = req[p]
  BY DEF TargetsTypeOK
<1>2. \A t \in Targets : Grounded(rows'[t], runs', decisions')
  BY GroundsKept DEF GroundsInv
<1>3. ASSUME NEW p \in Requests
      PROVE  /\ Grounded(req'[p].copy, runs', decisions')
             /\ GroundedPatch(req'[p].patch, runs', decisions')
             /\ StageGrounds(req'[p], runs', decisions', started')
  <2>1. CASE p = q
    BY <1>1, <2>1
  <2>2. CASE p # q
    BY <1>1, <2>2, GroundsKept DEF GroundsInv
  <2> QED BY <2>1, <2>2
<1>4. ASSUME NEW p1 \in Requests, NEW p2 \in Requests, p1 # p2,
             Testing(req'[p1]), Testing(req'[p2])
      PROVE  req'[p1].run # req'[p2].run
  <2>1. CASE p1 = q
    BY <1>1, <1>4, <2>1
  <2>2. CASE p2 = q
    BY <1>1, <1>4, <2>2
  <2>3. CASE p1 # q /\ p2 # q
    BY <1>1, <1>4, <2>3 DEF GroundsInv
  <2> QED BY <2>1, <2>2, <2>3
<1> QED BY <1>2, <1>3, <1>4 DEF GroundsInv

\* The same when neither results nor decisions change.
LEMMA GroundsQuiet ==
  ASSUME TargetsTypeOK, GroundsInv, NEW q \in Requests, NEW l, req' = [req EXCEPT ![q] = l],
         UNCHANGED <<runs, decisions, started>>,
         Grounded(l.copy, runs, decisions), GroundedPatch(l.patch, runs, decisions),
         StageGrounds(l, runs, decisions, started),
         Testing(l) => Testing(req[q]) /\ l.run = req[q].run,
         \A t \in Targets : rows'[t] = rows[t] \/ Grounded(rows'[t], runs, decisions)
  PROVE  GroundsInv'
<1>1. Kept(runs, decisions, runs', decisions')
  BY DEF Kept
<1>2. \A p \in Requests \ {q} : StageGrounds(req[p], runs', decisions', started')
  BY DEF GroundsInv
<1>3. Testing(l) => \A p \in Requests \ {q} : Testing(req[p]) => req[p].run # l.run
  BY DEF GroundsInv
<1>4. \A k \in RunIds : k > started' => decisions'[k] = "none"
  BY DEF GroundsInv
<1> QED BY <1>1, <1>2, <1>3, <1>4, GroundsMove

\* A request that ends, or that has just begun without a run.
LEMMA GroundsOfIdle ==
  \A res, dec, st : /\ Grounded(Idle.copy, res, dec) /\ GroundedPatch(Idle.patch, res, dec)
                    /\ StageGrounds(Idle, res, dec, st) /\ ~Testing(Idle)
  BY DEF Idle, NoRow, NoOverlay, Grounded, GroundedPatch, StageGrounds, Testing

\* The row a request writes has grounds.
LEMMA WriteGrounded ==
  ASSUME TargetsTypeOK, GroundsInv, NEW q \in Requests, Write(q), NEW t \in Targets
  PROVE  rows'[t] = rows[t] \/ Grounded(rows'[t], runs, decisions)
<1> DEFINE l == req[q]
<1>1. l \in Locals
  BY DEF TargetsTypeOK
<1>2. l.target \in Targets /\ l.copy \in Rows \cup {NoRow} /\ l.patch \in Overlays
  BY <1>1, LocalParts
<1>3. Grounded(Overlay(l.copy, l.patch), runs, decisions)
  BY <1>2, OverlayGrounded DEF GroundsInv
<1>4. rows' = [rows EXCEPT ![l.target] = Overlay(l.copy, l.patch)]
  BY DEF Write
<1> HIDE DEF l
<1> QED BY <1>2, <1>3, <1>4 DEF TargetsTypeOK

\* Every step of a request under way keeps the grounds.
LEMMA GroundsRequest ==
  ASSUME TargetsTypeOK, GroundsInv, NEW q \in Requests, RequestStep(q)
  PROVE  GroundsInv'
<1> DEFINE l == req[q]
<1>1. l \in Locals
  BY DEF TargetsTypeOK
<1>2. /\ l.target \in Targets /\ l.run \in RunIds \cup {NoRun}
      /\ l.copy \in Rows \cup {NoRow} /\ l.patch \in Overlays /\ l.pc \in Stages
  BY <1>1, LocalParts
<1>3. /\ Grounded(l.copy, runs, decisions) /\ GroundedPatch(l.patch, runs, decisions)
      /\ StageGrounds(l, runs, decisions, started)
  BY DEF GroundsInv
<1>4. ASSUME req' = [req EXCEPT ![q] = Idle], UNCHANGED <<runs, decisions, started>>,
             \A t \in Targets : rows'[t] = rows[t] \/ Grounded(rows'[t], runs, decisions)
      PROVE  GroundsInv'
  BY <1>4, GroundsOfIdle, GroundsQuiet
<1>5. CASE CopyRow(q)
  <2>1. Grounded(rows[l.target], runs, decisions)
    BY <1>2 DEF GroundsInv
  <2>2. PICK s \in {"missing", "copied"} :
          req' = [req EXCEPT ![q] = [l EXCEPT !.copy = rows[l.target], !.pc = s]]
    BY <1>5 DEF CopyRow, TargetsTypeOK
  <2> DEFINE m == [l EXCEPT !.copy = rows[l.target], !.pc = s]
  <2>3. m.copy = rows[l.target] /\ m.patch = l.patch /\ m.pc = s
    BY <1>1 DEF Locals
  <2>4. UNCHANGED <<runs, decisions, started, rows>>
    BY <1>5 DEF CopyRow
  <2> HIDE DEF m, l
  <2>5. StageGrounds(m, runs, decisions, started) /\ ~Testing(m)
    BY <2>3 DEF StageGrounds, Testing
  <2>6. req' = [req EXCEPT ![q] = m]
    BY <2>2 DEF m
  <2> QED BY <1>3, <2>1, <2>3, <2>4, <2>5, <2>6, GroundsQuiet
<1>6. CASE SaveRow(q)
  <2>1. Write(q)
    BY <1>6 DEF SaveRow
  <2> QED BY <1>4, <1>6, <2>1, WriteGrounded DEF SaveRow
<1>7. CASE LookUp(q)
  <2>1. PICK s \in {"new", "copied"} : req' = [req EXCEPT ![q] = [l EXCEPT !.pc = s]]
    BY <1>7 DEF LookUp, TargetsTypeOK
  <2> DEFINE m == [l EXCEPT !.pc = s]
  <2>2. m.copy = l.copy /\ m.patch = l.patch /\ m.pc = s
    BY <1>1 DEF Locals
  <2>3. UNCHANGED <<runs, decisions, started, rows>>
    BY <1>7 DEF LookUp
  <2>4. req' = [req EXCEPT ![q] = m]
    BY <2>1
  <2> HIDE DEF m, l
  <2>5. StageGrounds(m, runs, decisions, started) /\ ~Testing(m)
    BY <2>2 DEF StageGrounds, Testing
  <2> QED BY <1>3, <2>2, <2>3, <2>4, <2>5, GroundsQuiet
<1>8. CASE InsertRow(q)
  <2>1. Write(q) \/ UNCHANGED rows
    BY <1>8 DEF InsertRow
  <2> QED BY <1>4, <1>8, <2>1, WriteGrounded DEF InsertRow
<1>9. CASE SaveRun(q)
  <2> DEFINE m == [l EXCEPT !.pc = "stored"]
             k == l.run
  <2>1. l.pc = "tested" /\ k \in RunIds /\ k <= started /\ decisions[k] = "none"
    BY <1>3, <1>9 DEF SaveRun, StageGrounds, Testing
  <2>2. PICK r \in Results : runs' = [runs EXCEPT ![k] = r]
    BY <1>9 DEF SaveRun
  <2>3. /\ runs'[k] # NoResult
        /\ \A n \in RunIds : n # k => runs'[n] = runs[n]
        /\ \A n \in RunIds : runs[n] # NoResult => runs'[n] # NoResult
    BY <2>1, <2>2, NoResultIsNone DEF TargetsTypeOK
  <2>4. UNCHANGED <<decisions, started, rows>> /\ req' = [req EXCEPT ![q] = m]
    BY <1>9 DEF SaveRun, TargetsTypeOK
  <2>5. m.copy = l.copy /\ m.patch = l.patch /\ m.pc = "stored" /\ m.run = k
    BY <1>1 DEF Locals
  <2>6. Kept(runs, decisions, runs', decisions')
    BY <2>1, <2>3, <2>4 DEF Kept
  <2>7. \A p \in Requests \ {q} : StageGrounds(req[p], runs', decisions', started')
    BY <2>3, <2>4 DEF GroundsInv, StageGrounds
  <2>8. Testing(l) /\ \A p \in Requests \ {q} : Testing(req[p]) => req[p].run # k
    BY <2>1 DEF GroundsInv, Testing
  <2> HIDE DEF m, l, k
  <2>9. StageGrounds(m, runs', decisions', started')
    BY <2>1, <2>3, <2>4, <2>5 DEF StageGrounds, Testing
  <2>10. Grounded(m.copy, runs', decisions') /\ GroundedPatch(m.patch, runs', decisions')
    BY <1>3, <2>5, <2>6, GroundsKept
  <2>11. \A n \in RunIds : n > started' => decisions'[n] = "none"
    BY <2>4 DEF GroundsInv
  <2> QED BY <2>4, <2>5, <2>6, <2>7, <2>8, <2>9, <2>10, <2>11, GroundsMove
<1>10. CASE SaveDecision(q)
  <2> DEFINE m == [l EXCEPT !.pc = "decided"]
             k == l.run
  <2>1. /\ l.pc = "stored" /\ k \in RunIds /\ k <= started /\ decisions[k] = "none"
        /\ runs[k] # NoResult
    BY <1>3, <1>10 DEF SaveDecision, StageGrounds, Testing
  <2>2. PICK d \in {"passed", "failed"} : decisions' = [decisions EXCEPT ![k] = d]
    BY <1>10 DEF SaveDecision
  <2>3. /\ decisions'[k] # "none"
        /\ \A n \in RunIds : n # k => decisions'[n] = decisions[n]
        /\ \A n \in RunIds : decisions[n] # "none" => decisions'[n] # "none"
    BY <2>1, <2>2 DEF TargetsTypeOK
  <2>4. UNCHANGED <<runs, started, rows>> /\ req' = [req EXCEPT ![q] = m]
    BY <1>10 DEF SaveDecision, TargetsTypeOK
  <2>5. m.copy = l.copy /\ m.patch = l.patch /\ m.pc = "decided" /\ m.run = k
    BY <1>1 DEF Locals
  <2>6. Kept(runs, decisions, runs', decisions')
    BY <2>3, <2>4 DEF Kept
  <2>7. \A p \in Requests \ {q} : Testing(req[p]) => req[p].run # k
    BY <2>1 DEF GroundsInv, Testing
  <2>8. \A p \in Requests \ {q} : StageGrounds(req[p], runs', decisions', started')
    BY <2>3, <2>4, <2>7 DEF GroundsInv, StageGrounds, Testing
  <2> HIDE DEF m, l, k
  <2>9. StageGrounds(m, runs', decisions', started') /\ ~Testing(m)
    BY <2>1, <2>3, <2>4, <2>5 DEF StageGrounds, Testing
  <2>10. Grounded(m.copy, runs', decisions') /\ GroundedPatch(m.patch, runs', decisions')
    BY <1>3, <2>5, <2>6, GroundsKept
  <2>11. \A n \in RunIds : n > started' => decisions'[n] = "none"
    <3>1. started \in Nat /\ \A n \in RunIds : n \in Nat
      BY DEF TargetsTypeOK, RunIds
    <3> QED BY <2>1, <2>3, <2>4, <3>1 DEF GroundsInv
  <2> QED BY <2>4, <2>6, <2>8, <2>9, <2>10, <2>11, GroundsMove
<1>11. CASE SkipSync(q)
  BY <1>4, <1>11 DEF SkipSync
<1>12. CASE SyncFlag(q)
  <2> DEFINE v == Verdict(runs[l.run])
             patch == [status |-> v, run |-> l.run, by |-> "run", paper |-> Carried(l.target, v)]
             m == [l EXCEPT !.pc = "patched", !.patch = patch]
  <2>1. l.pc = "decided" /\ UNCHANGED <<runs, decisions, started, rows>>
    BY <1>12 DEF SyncFlag
  <2>2. GroundedPatch(patch, runs, decisions)
    BY <1>3, <2>1 DEF GroundedPatch, StageGrounds, Earned
  <2>3. m.copy = l.copy /\ m.patch = patch /\ m.pc = "patched"
    BY <1>1 DEF Locals
  <2>4. req' = [req EXCEPT ![q] = m]
    BY <1>12 DEF SyncFlag, TargetsTypeOK
  <2> HIDE DEF m, l, patch
  <2>5. StageGrounds(m, runs, decisions, started) /\ ~Testing(m)
    BY <2>3 DEF StageGrounds, Testing
  <2> QED BY <1>3, <2>1, <2>2, <2>3, <2>4, <2>5, GroundsQuiet
<1>13. CASE ApproveCommit(q)
  <2> DEFINE k == l.run
  <2>1. k \in RunIds /\ decisions[k] # "none"
    BY <1>3, <1>13 DEF ApproveCommit, StageGrounds
  <2>2. /\ \A n \in RunIds : n # k => decisions'[n] = decisions[n]
        /\ \A n \in RunIds : decisions[n] # "none" => decisions'[n] # "none"
    BY <1>13 DEF ApproveCommit, TargetsTypeOK
  <2>3. UNCHANGED <<runs, started, rows>> /\ req' = [req EXCEPT ![q] = Idle]
    BY <1>13 DEF ApproveCommit
  <2>4. Kept(runs, decisions, runs', decisions')
    BY <2>2, <2>3 DEF Kept
  <2>5. \A p \in Requests \ {q} : StageGrounds(req[p], runs', decisions', started')
    BY <2>1, <2>2, <2>3 DEF GroundsInv, StageGrounds, Testing
  <2>6. \A n \in RunIds : n > started' => decisions'[n] = "none"
    BY <2>1, <2>2, <2>3 DEF GroundsInv
  <2> QED BY <2>3, <2>4, <2>5, <2>6, GroundsOfIdle, GroundsMove
<1>14. CASE RequestFails(q)
  BY <1>4, <1>14 DEF RequestFails
<1> QED BY <1>5, <1>6, <1>7, <1>8, <1>9, <1>10, <1>11, <1>12, <1>13, <1>14 DEF RequestStep

\* Every step that begins a request keeps the grounds.
LEMMA GroundsStart ==
  ASSUME TargetsTypeOK, GroundsInv, NEW q \in Requests
  PROVE  /\ \A t \in Targets : ExecuteBacktest(q, t) \/ StartUpsert(q, t) \/ Bootstrap(q, t)
                               => GroundsInv'
         /\ \A k \in RunIds : ApproveRead(q, k) => GroundsInv'
<1>1. ASSUME NEW t \in Targets, ExecuteBacktest(q, t) PROVE GroundsInv'
  <2> DEFINE k == started + 1
             m == [Idle EXCEPT !.pc = "tested", !.target = t, !.run = k]
  <2>1. /\ k \in RunIds /\ started' = k /\ started \in Nat
        /\ req' = [req EXCEPT ![q] = m] /\ UNCHANGED <<rows, runs, decisions>>
    BY <1>1, TargetAssumption DEF ExecuteBacktest, TargetsTypeOK, RunIds
  <2>2. m.copy = Idle.copy /\ m.patch = Idle.patch /\ m.pc = "tested" /\ m.run = k
    BY DEF Idle
  <2>3. decisions[k] = "none"
    BY <2>1 DEF GroundsInv
  <2> HIDE DEF m
  <2>4. StageGrounds(m, runs', decisions', started')
    BY <2>1, <2>2, <2>3 DEF StageGrounds, Testing
  <2>5. \A n \in RunIds : n \in Nat
    BY DEF RunIds
  <2>6. \A p \in Requests \ {q} : StageGrounds(req[p], runs', decisions', started')
    BY <2>1, <2>5 DEF GroundsInv, StageGrounds, Testing
  <2>7. \A p \in Requests \ {q} : Testing(req[p]) => req[p].run # m.run
    BY <2>1, <2>2, <2>5 DEF GroundsInv, StageGrounds, Testing
  <2>8. \A n \in RunIds : n > started' => decisions'[n] = "none"
    BY <2>1, <2>5 DEF GroundsInv
  <2>9. Kept(runs, decisions, runs', decisions')
    BY <2>1 DEF Kept
  <2>10. Grounded(m.copy, runs', decisions') /\ GroundedPatch(m.patch, runs', decisions')
    BY <2>2, GroundsOfIdle
  <2> QED BY <2>1, <2>4, <2>6, <2>7, <2>8, <2>9, <2>10, GroundsMove
<1>2. ASSUME NEW t \in Targets, StartUpsert(q, t) PROVE GroundsInv'
  <2>1. PICK p \in Patches, k \in {NoRun} \cup 1..started :
          req' = [req EXCEPT ![q] = [Idle EXCEPT !.pc = "patched", !.target = t,
                    !.patch = [status |-> p.status, paper |-> p.paper, run |-> k, by |-> "person"]]]
    BY <1>2 DEF StartUpsert
  <2> DEFINE patch == [status |-> p.status, paper |-> p.paper, run |-> k, by |-> "person"]
             m == [Idle EXCEPT !.pc = "patched", !.target = t, !.patch = patch]
  <2>2. req' = [req EXCEPT ![q] = m] /\ UNCHANGED <<rows, runs, decisions, started>>
    BY <1>2, <2>1 DEF StartUpsert
  <2>3. GroundedPatch(patch, runs, decisions)
    BY DEF GroundedPatch
  <2>4. m.copy = Idle.copy /\ m.patch = patch /\ m.pc = "patched"
    BY DEF Idle
  <2> HIDE DEF m, patch
  <2>5. StageGrounds(m, runs, decisions, started) /\ ~Testing(m)
    BY <2>4 DEF StageGrounds, Testing
  <2> QED BY <2>2, <2>3, <2>4, <2>5, GroundsOfIdle, GroundsQuiet
<1>3. ASSUME NEW t \in Targets, Bootstrap(q, t) PROVE GroundsInv'
  <2> DEFINE patch == [status |-> "candidate", paper |-> "off", run |-> NoRun, by |-> "seed"]
             m == [Idle EXCEPT !.pc = "missing", !.target = t, !.patch = patch]
  <2>1. req' = [req EXCEPT ![q] = m] /\ UNCHANGED <<rows, runs, decisions, started>>
    BY <1>3 DEF Bootstrap
  <2>2. GroundedPatch(patch, runs, decisions)
    BY DEF GroundedPatch
  <2>3. m.copy = Idle.copy /\ m.patch = patch /\ m.pc = "missing"
    BY DEF Idle
  <2> HIDE DEF m, patch
  <2>4. StageGrounds(m, runs, decisions, started) /\ ~Testing(m)
    BY <2>3 DEF StageGrounds, Testing
  <2> QED BY <2>1, <2>2, <2>3, <2>4, GroundsOfIdle, GroundsQuiet
<1>4. ASSUME NEW k \in RunIds, ApproveRead(q, k) PROVE GroundsInv'
  <2> DEFINE m == [Idle EXCEPT !.pc = "cleared", !.run = k]
  <2>1. /\ req' = [req EXCEPT ![q] = m] /\ UNCHANGED <<rows, runs, decisions, started>>
        /\ decisions[k] # "none"
    BY <1>4 DEF ApproveRead
  <2>2. m.copy = Idle.copy /\ m.patch = Idle.patch /\ m.pc = "cleared" /\ m.run = k
    BY DEF Idle
  <2> HIDE DEF m
  <2>3. StageGrounds(m, runs, decisions, started) /\ ~Testing(m)
    BY <2>1, <2>2 DEF StageGrounds, Testing
  <2> QED BY <2>1, <2>2, <2>3, GroundsOfIdle, GroundsQuiet
<1> QED BY <1>1, <1>2, <1>3, <1>4

\* Nothing has happened yet.
LEMMA GroundsInitial == TargetsInit => GroundsInv
<1>1. SUFFICES ASSUME TargetsInit PROVE GroundsInv
  OBVIOUS
<1>2. \A t \in Targets : Grounded(rows[t], runs, decisions)
  BY <1>1 DEF TargetsInit, Grounded, NoRow
<1>3. \A q \in Requests : req[q] = Idle
  BY <1>1 DEF TargetsInit
<1>4. \A k \in RunIds : decisions[k] = "none"
  BY <1>1 DEF TargetsInit
<1> QED BY <1>2, <1>3, <1>4, GroundsOfIdle DEF GroundsInv

\* Every step keeps the grounds.
LEMMA GroundsStep ==
  TargetsTypeOK /\ GroundsInv /\ [TargetsNext]_targetVars => GroundsInv'
<1> SUFFICES ASSUME TargetsTypeOK, GroundsInv, [TargetsNext]_targetVars PROVE GroundsInv'
  OBVIOUS
<1>1. CASE CreateStrategy
  BY <1>1 DEF CreateStrategy, GroundsInv
<1>2. CASE TargetsNext /\ ~CreateStrategy
  BY <1>2, GroundsRequest, GroundsStart DEF TargetsNext
<1>3. CASE UNCHANGED targetVars
  BY <1>3 DEF targetVars, GroundsInv
<1> QED BY <1>1, <1>2, <1>3

\* For any number of requests and targets, however they write whole rows over
\* each other and wherever they fail: a status that came from a backtest is what
\* some stored and decided run earned, the one named next to it unless a person
\* named another (sync_target_with_backtest, upsert_target, save_target).
THEOREM StatusesHaveGrounds == TargetsSpec => []StatusHasGrounds
<1>1. GroundsInv => StatusHasGrounds
  BY DEF GroundsInv, Grounded, Earned, StatusHasGrounds
<1> QED BY <1>1, TargetsInitial, TargetsStepType, GroundsInitial, GroundsStep, PTL DEF TargetsSpec

-----------------------------------------------------------------------------
(* Paper trading is switched on by people.                                    *)

\* A request moves on, or ends, and writes nothing.
LEMMA EnabledMove ==
  ASSUME TargetsTypeOK, EnabledInv, NEW q \in Requests, NEW l, req' = [req EXCEPT ![q] = l],
         UNCHANGED <<rows, asked, overlapped>>,
         Active(l) => /\ Active(req[q]) /\ l.target = req[q].target
                      /\ overlapped[l.target] \/ Backed(l, asked[l.target])
  PROVE  EnabledInv'
<1>1. req'[q] = l /\ \A p \in Requests \ {q} : req'[p] = req[p]
  BY DEF TargetsTypeOK
<1>2. SUFFICES ASSUME NEW t \in Targets, ~overlapped[t]
               PROVE  /\ rows[t].paper = "on" => asked[t]
                      /\ \A p1, p2 \in Requests :
                           /\ Active(req'[p1]) /\ req'[p1].target = t
                           /\ Active(req'[p2]) /\ req'[p2].target = t
                           => p1 = p2
                      /\ \A p \in Requests :
                           Active(req'[p]) /\ req'[p].target = t => Backed(req'[p], asked[t])
  BY DEF EnabledInv
<1>3. \A p \in Requests : Active(req'[p]) /\ req'[p].target = t => Active(req[p]) /\ req[p].target = t
  BY <1>1
<1>4. \A p \in Requests : Active(req'[p]) /\ req'[p].target = t => Backed(req'[p], asked[t])
  BY <1>1, <1>2 DEF EnabledInv
<1> QED BY <1>2, <1>3, <1>4 DEF EnabledInv

\* A request writes its row and ends.
LEMMA EnabledWrite ==
  ASSUME TargetsTypeOK, EnabledInv, NEW q \in Requests, Active(req[q]), Write(q),
         req' = [req EXCEPT ![q] = Idle], UNCHANGED overlapped
  PROVE  EnabledInv'
<1> DEFINE l == req[q]
           u == l.target
<1>1. u \in Targets /\ l.copy \in Rows \cup {NoRow} /\ l.patch \in Overlays
  BY LocalParts DEF TargetsTypeOK
<1>2. /\ rows'[u] = Overlay(l.copy, l.patch) /\ asked'[u] = AskedBy(u, l.patch)
      /\ \A t \in Targets \ {u} : rows'[t] = rows[t] /\ asked'[t] = asked[t]
  BY <1>1 DEF Write, TargetsTypeOK
<1>3. /\ ~Active(req'[q])
      /\ \A p \in Requests \ {q} : req'[p] = req[p]
  BY DEF TargetsTypeOK, Active, Idle
<1>4. SUFFICES ASSUME NEW t \in Targets, ~overlapped[t]
               PROVE  /\ rows'[t].paper = "on" => asked'[t]
                      /\ \A p1, p2 \in Requests :
                           /\ Active(req'[p1]) /\ req'[p1].target = t
                           /\ Active(req'[p2]) /\ req'[p2].target = t
                           => p1 = p2
                      /\ \A p \in Requests :
                           Active(req'[p]) /\ req'[p].target = t => Backed(req'[p], asked'[t])
  BY DEF EnabledInv
<1>5. \A p1, p2 \in Requests :
        /\ Active(req'[p1]) /\ req'[p1].target = t
        /\ Active(req'[p2]) /\ req'[p2].target = t
        => p1 = p2
  BY <1>3, <1>4 DEF EnabledInv
<1>6. CASE t # u
  <2>1. rows'[t] = rows[t] /\ asked'[t] = asked[t]
    BY <1>2, <1>6
  <2> QED BY <1>3, <1>4, <1>5, <2>1 DEF EnabledInv
<1>7. CASE t = u
  <2>1. \A p \in Requests : ~(Active(req'[p]) /\ req'[p].target = t)
    BY <1>3, <1>4, <1>7 DEF EnabledInv
  <2>2. Backed(l, asked[t])
    BY <1>4, <1>7 DEF EnabledInv
  <2>3. ASSUME rows'[t].paper = "on" PROVE asked'[t]
    <3>1. Overlay(l.copy, l.patch).paper = "on"
      BY <1>2, <1>7, <2>3
    <3> HIDE DEF l
    <3>2. (IF l.patch.paper = Keep THEN l.copy.paper ELSE l.patch.paper) = "on"
      BY <3>1 DEF Overlay
    <3>3. CASE l.patch.paper = "on"
      BY <1>2, <1>7, <2>2, <3>3 DEF Backed, AskedBy
    <3>4. CASE l.patch.paper = Keep
      BY <1>2, <1>7, <2>2, <3>2, <3>4 DEF Backed, AskedBy, Keep
    <3> QED BY <3>2, <3>3, <3>4
  <2> QED BY <1>5, <2>1, <2>3
<1> QED BY <1>6, <1>7

\* A request begins: it is alone, or the target counts as overlapped.
LEMMA EnabledBegin ==
  ASSUME TargetsTypeOK, EnabledInv, NEW q \in Requests, NEW t \in Targets, Begin(q, t),
         NEW l, req' = [req EXCEPT ![q] = l], UNCHANGED <<rows, asked>>,
         l.target = t, Backed(l, asked[t])
  PROVE  EnabledInv'
<1>1. req'[q] = l /\ (\A p \in Requests \ {q} : req'[p] = req[p])
  BY DEF TargetsTypeOK
<1>2. /\ overlapped'[t] = (overlapped[t] \/ InProgress(t) # {})
      /\ \A u \in Targets \ {t} : overlapped'[u] = overlapped[u]
  BY DEF Begin, TargetsTypeOK
<1>3. SUFFICES ASSUME NEW u \in Targets, ~overlapped'[u]
               PROVE  /\ rows[u].paper = "on" => asked[u]
                      /\ \A p1, p2 \in Requests :
                           /\ Active(req'[p1]) /\ req'[p1].target = u
                           /\ Active(req'[p2]) /\ req'[p2].target = u
                           => p1 = p2
                      /\ \A p \in Requests :
                           Active(req'[p]) /\ req'[p].target = u => Backed(req'[p], asked[u])
  BY DEF EnabledInv
<1>4. ~overlapped[u]
  BY <1>2, <1>3
<1>5. CASE u # t
  BY <1>1, <1>4, <1>5 DEF EnabledInv
<1>6. CASE u = t
  <2>1. InProgress(t) = {}
    BY <1>2, <1>3, <1>6
  <2>2. \A p \in Requests \ {q} : ~(Active(req'[p]) /\ req'[p].target = t)
    BY <1>1, <2>1 DEF InProgress, Active
  <2>3. rows[t].paper = "on" => asked[t]
    BY <1>4, <1>6 DEF EnabledInv
  <2> QED BY <1>1, <1>6, <2>2, <2>3
<1> QED BY <1>5, <1>6

\* Every step of a request under way keeps the flags backed.
LEMMA EnabledRequest ==
  ASSUME TargetsTypeOK, EnabledInv, NEW q \in Requests, RequestStep(q)
  PROVE  EnabledInv'
<1> DEFINE l == req[q]
<1>1. l \in Locals
  BY DEF TargetsTypeOK
<1>2. l.target \in Targets /\ l.copy \in Rows \cup {NoRow} /\ l.patch \in Overlays
  BY <1>1, LocalParts
<1>3. Active(l) => overlapped[l.target] \/ Backed(l, asked[l.target])
  BY <1>2 DEF EnabledInv
<1>4. rows[l.target].paper = "on" => overlapped[l.target] \/ asked[l.target]
  BY <1>2 DEF EnabledInv
<1>5. ~Active(Idle)
  BY DEF Active, Idle
<1>6. CASE CopyRow(q)
  <2>1. PICK s \in {"missing", "copied"} :
          req' = [req EXCEPT ![q] = [l EXCEPT !.copy = rows[l.target], !.pc = s]]
    BY <1>6 DEF CopyRow, TargetsTypeOK
  <2> DEFINE m == [l EXCEPT !.copy = rows[l.target], !.pc = s]
  <2>2. m.copy = rows[l.target] /\ m.patch = l.patch /\ m.target = l.target
    BY <1>1 DEF Locals
  <2>3. Active(l) /\ UNCHANGED <<rows, asked, overlapped>>
    BY <1>6 DEF CopyRow, Active
  <2>4. req' = [req EXCEPT ![q] = m]
    BY <2>1
  <2> HIDE DEF m
  <2>5. overlapped[m.target] \/ Backed(m, asked[m.target])
    BY <1>3, <1>4, <2>2, <2>3 DEF Backed
  <2> QED BY <2>2, <2>3, <2>4, <2>5, EnabledMove
<1>7. CASE SaveRow(q)
  BY <1>7, EnabledWrite DEF SaveRow, Active
<1>8. CASE LookUp(q) \/ SaveRun(q) \/ SaveDecision(q)
  <2>1. PICK s \in Stages : req' = [req EXCEPT ![q] = [l EXCEPT !.pc = s]]
    BY <1>8 DEF LookUp, SaveRun, SaveDecision, Stages, TargetsTypeOK
  <2> DEFINE m == [l EXCEPT !.pc = s]
  <2>2. m.copy = l.copy /\ m.patch = l.patch /\ m.target = l.target
    BY <1>1 DEF Locals
  <2>3. Active(l) /\ UNCHANGED <<rows, asked, overlapped>>
    BY <1>8 DEF LookUp, SaveRun, SaveDecision, Active
  <2>4. req' = [req EXCEPT ![q] = m]
    BY <2>1
  <2> HIDE DEF m
  <2>5. overlapped[m.target] \/ Backed(m, asked[m.target])
    BY <1>3, <2>2, <2>3 DEF Backed
  <2> QED BY <2>2, <2>3, <2>4, <2>5, EnabledMove
<1>9. CASE InsertRow(q)
  <2>1. CASE Write(q)
    BY <1>9, <2>1, EnabledWrite DEF InsertRow, Active
  <2>2. CASE UNCHANGED <<rows, asked>>
    BY <1>5, <1>9, <2>2, EnabledMove DEF InsertRow
  <2> QED BY <1>9, <2>1, <2>2 DEF InsertRow
<1>10. CASE SyncFlag(q)
  <2> DEFINE v == Verdict(runs[l.run])
             patch == [status |-> v, run |-> l.run, by |-> "run", paper |-> Carried(l.target, v)]
             m == [l EXCEPT !.pc = "patched", !.patch = patch]
  <2>1. m.copy = l.copy /\ m.patch = patch /\ m.target = l.target
    BY <1>1 DEF Locals
  <2>2. Active(l) /\ UNCHANGED <<rows, asked, overlapped>> /\ req' = [req EXCEPT ![q] = m]
    BY <1>10 DEF SyncFlag, Active, TargetsTypeOK
  <2>3. patch.paper = "on" => rows[l.target].paper = "on"
    BY DEF Carried, Keep
  <2> HIDE DEF m, patch
  <2>4. overlapped[m.target] \/ Backed(m, asked[m.target])
    BY <1>3, <1>4, <2>1, <2>2, <2>3 DEF Backed
  <2> QED BY <2>1, <2>2, <2>4, EnabledMove
<1>11. CASE SkipSync(q) \/ ApproveCommit(q) \/ RequestFails(q)
  BY <1>5, <1>11, EnabledMove DEF SkipSync, ApproveCommit, RequestFails
<1> QED BY <1>6, <1>7, <1>8, <1>9, <1>10, <1>11 DEF RequestStep

\* Every step that begins a request keeps the flags backed.
LEMMA EnabledStart ==
  ASSUME TargetsTypeOK, EnabledInv, NEW q \in Requests
  PROVE  /\ \A t \in Targets : ExecuteBacktest(q, t) \/ StartUpsert(q, t) \/ Bootstrap(q, t)
                               => EnabledInv'
         /\ \A k \in RunIds : ApproveRead(q, k) => EnabledInv'
<1>1. ASSUME NEW t \in Targets, ExecuteBacktest(q, t) PROVE EnabledInv'
  <2> DEFINE m == [Idle EXCEPT !.pc = "tested", !.target = t, !.run = started']
  <2>1. Begin(q, t) /\ req' = [req EXCEPT ![q] = m] /\ UNCHANGED <<rows, asked>>
    BY <1>1 DEF ExecuteBacktest
  <2>2. m.target = t /\ Backed(m, asked[t])
    BY DEF Idle, NoRow, NoOverlay, Backed, Keep
  <2> HIDE DEF m
  <2> QED BY <2>1, <2>2, EnabledBegin
<1>2. ASSUME NEW t \in Targets, StartUpsert(q, t) PROVE EnabledInv'
  <2>1. PICK p \in Patches, k \in {NoRun} \cup 1..started :
          req' = [req EXCEPT ![q] = [Idle EXCEPT !.pc = "patched", !.target = t,
                    !.patch = [status |-> p.status, paper |-> p.paper, run |-> k, by |-> "person"]]]
    BY <1>2 DEF StartUpsert
  <2> DEFINE m == [Idle EXCEPT !.pc = "patched", !.target = t, !.patch =
                    [status |-> p.status, paper |-> p.paper, run |-> k, by |-> "person"]]
  <2>2. Begin(q, t) /\ req' = [req EXCEPT ![q] = m] /\ UNCHANGED <<rows, asked>>
    BY <1>2, <2>1 DEF StartUpsert
  <2>3. m.target = t /\ Backed(m, asked[t])
    BY DEF Idle, NoRow, Backed
  <2> HIDE DEF m
  <2> QED BY <2>2, <2>3, EnabledBegin
<1>3. ASSUME NEW t \in Targets, Bootstrap(q, t) PROVE EnabledInv'
  <2> DEFINE m == [Idle EXCEPT !.pc = "missing", !.target = t, !.patch =
                    [status |-> "candidate", paper |-> "off", run |-> NoRun, by |-> "seed"]]
  <2>1. Begin(q, t) /\ req' = [req EXCEPT ![q] = m] /\ UNCHANGED <<rows, asked>>
    BY <1>3 DEF Bootstrap
  <2>2. m.target = t /\ Backed(m, asked[t])
    BY DEF Idle, NoRow, Backed
  <2> HIDE DEF m
  <2> QED BY <2>1, <2>2, EnabledBegin
<1>4. ASSUME NEW k \in RunIds, ApproveRead(q, k) PROVE EnabledInv'
  <2> DEFINE m == [Idle EXCEPT !.pc = "cleared", !.run = k]
  <2>1. req' = [req EXCEPT ![q] = m] /\ UNCHANGED <<rows, asked, overlapped>>
    BY <1>4 DEF ApproveRead
  <2>2. ~Active(m)
    BY DEF Idle, Active
  <2> HIDE DEF m
  <2> QED BY <2>1, <2>2, EnabledMove
<1> QED BY <1>1, <1>2, <1>3, <1>4

\* Nothing has happened yet.
LEMMA EnabledInitial == TargetsInit => EnabledInv
<1>1. SUFFICES ASSUME TargetsInit PROVE EnabledInv
  OBVIOUS
<1>2. \A q \in Requests : ~Active(req[q])
  BY <1>1 DEF TargetsInit, Active, Idle
<1>3. \A t \in Targets : rows[t].paper # "on"
  BY <1>1 DEF TargetsInit, NoRow
<1> QED BY <1>2, <1>3 DEF EnabledInv

\* Every step keeps the flags backed.
LEMMA EnabledStep ==
  TargetsTypeOK /\ EnabledInv /\ [TargetsNext]_targetVars => EnabledInv'
<1> SUFFICES ASSUME TargetsTypeOK, EnabledInv, [TargetsNext]_targetVars PROVE EnabledInv'
  OBVIOUS
<1>1. CASE CreateStrategy
  BY <1>1 DEF CreateStrategy, EnabledInv
<1>2. CASE TargetsNext /\ ~CreateStrategy
  BY <1>2, EnabledRequest, EnabledStart DEF TargetsNext
<1>3. CASE UNCHANGED targetVars
  BY <1>3 DEF targetVars, EnabledInv
<1> QED BY <1>1, <1>2, <1>3

\* For any number of requests and targets: a target that is traded on paper was
\* switched on by a person and by nobody off since, unless two requests for it
\* were in progress at once (update_target_state, sync_target_with_backtest).
THEOREM PeopleEnable == TargetsSpec => []EnabledByPeople
<1>1. EnabledInv => EnabledByPeople
  BY DEF EnabledInv, EnabledByPeople
<1> QED BY <1>1, TargetsInitial, TargetsStepType, EnabledInitial, EnabledStep, PTL DEF TargetsSpec
=============================================================================
