--------------------------- MODULE JobQueueProofs ---------------------------
(***************************************************************************)
(* Theorems about JobQueue for any number of jobs, processors and retries.  *)
(***************************************************************************)
EXTENDS JobQueue, TLAPS

-----------------------------------------------------------------------------
(* Type correctness *)

(* The type invariant holds initially and is kept by every step.            *)
LEMMA TypeInit == QueueInit => QueueTypeOK
BY DEF QueueInit, QueueTypeOK, Rows, Statuses, AbsentRow, Locals, Stages,
       Verdicts, IdleLocal

(* A row selected by a claim is the row of some job.                        *)
LEMMA FirstIsJob ==
  ASSUME NEW kinds, NEW j \in FirstOf(Eligible(kinds))
  PROVE  /\ j \in JobIds
         /\ jobs[j].status = "queued" /\ jobs[j].due /\ jobs[j].kind \in kinds
BY DEF FirstOf, Eligible

(* What the operations write back is a row again.                           *)
LEMMA RowUpdates ==
  ASSUME NEW row \in Rows
  PROVE  /\ \A st \in Statuses : [row EXCEPT !.status = st] \in Rows
         /\ [row EXCEPT !.due = TRUE] \in Rows
         /\ Requeued(row) \in Rows
         /\ row.attempts \in Nat
<1>1. \A st \in Statuses : [row EXCEPT !.status = st] \in Rows
  BY DEF Rows
<1>2. [row EXCEPT !.due = TRUE] \in Rows
  BY Zenon DEF Rows
<1>3. row.attempts \in Nat /\ row.attempts + 1 \in Nat
  BY DEF Rows
<1>4. Requeued(row) \in Rows
  <2>1. "queued" \in Statuses /\ FALSE \in BOOLEAN
    BY DEF Statuses
  <2>2. QED
    BY <1>3, <2>1 DEF Rows, Requeued
<1>5. QED
  BY <1>1, <1>2, <1>3, <1>4

(* A verdict keeps the local state of a processor well typed.               *)
LEMMA SettleTyped ==
  ASSUME QueueTypeOK, NEW p \in Processors, prc[p].pc # "idle",
         NEW v \in Verdicts, prc' = Settle(p, v), UNCHANGED <<jobs, letters, runs>>
  PROVE  QueueTypeOK'
BY DEF QueueTypeOK, Settle, Locals, Stages, Rows, Statuses, AbsentRow

LEMMA ExceptionVerdict == \A n : OnException(n) \in Verdicts
BY DEF OnException, Verdicts

(* An absent row and a new row are rows.                                    *)
LEMMA FixedRows ==
  /\ AbsentRow \in Rows
  /\ \A k \in Kinds, n \in Priorities : NewRow(k, n) \in Rows
  /\ IdleLocal \in Locals
BY QueueAssumption DEF AbsentRow, NewRow, IdleLocal, Rows, Statuses, Locals,
                       Stages, Verdicts

LEMMA TypeStep == QueueTypeOK /\ [QueueNext]_queueVars => QueueTypeOK'
<1> SUFFICES ASSUME QueueTypeOK, [QueueNext]_queueVars PROVE QueueTypeOK'
  OBVIOUS
<1> USE DEF QueueTypeOK
<1>a. \A p \in Processors :
        /\ prc[p] \in Locals
        /\ prc[p].pc \in Stages
        /\ prc[p].pc # "idle" => prc[p].job \in JobIds
        /\ prc[p].row \in Rows
        /\ prc[p].seen \in Nat
        /\ prc[p].verdict \in Verdicts
  BY DEF Locals
<1>1. ASSUME NEW j \in JobIds, NEW k \in Kinds, NEW n \in Priorities,
             Enqueue(j, k, n)
      PROVE  QueueTypeOK'
  BY <1>1, FixedRows DEF Enqueue
<1>2. ASSUME NEW j \in JobIds, BackoffElapses(j) PROVE QueueTypeOK'
  <2>1. [jobs[j] EXCEPT !.due = TRUE] \in Rows
    BY RowUpdates
  <2>2. QED
    BY <1>2, <2>1 DEF BackoffElapses
<1>3. ASSUME NEW p \in Processors, NEW kinds, ClaimRead(p, kinds)
      PROVE  QueueTypeOK'
  <2>1. PICK j \in JobIds :
          prc' = [prc EXCEPT ![p] = [pc |-> "claim", job |-> j, row |-> jobs[j],
                                     seen |-> 0, verdict |-> "none"]]
    BY <1>3, FirstIsJob DEF ClaimRead
  <2>2. prc'[p] \in Locals
    BY <2>1 DEF Locals, Stages, Verdicts
  <2>3. QED
    BY <1>3, <2>1, <2>2 DEF ClaimRead
<1>4. ASSUME NEW p \in Processors, ClaimSave(p) PROVE QueueTypeOK'
  <2>1. /\ [prc[p].row EXCEPT !.status = "claimed"] \in Rows
        /\ prc[p].row.attempts \in Nat
        /\ prc[p].job \in JobIds
    BY <1>4, <1>a, RowUpdates DEF ClaimSave, Statuses
  <2>2. prc'[p] \in Locals /\ prc'[p].job \in JobIds
    BY <1>4, <2>1, FixedRows DEF ClaimSave, Locals, Stages, Verdicts
  <2>3. runs' \in [JobIds -> Nat]
    BY <1>4, <2>1 DEF ClaimSave
  <2>4. QED
    BY <1>4, <2>1, <2>2, <2>3 DEF ClaimSave
<1>5. ASSUME NEW p \in Processors, SettleRead(p) PROVE QueueTypeOK'
  <2>1. prc'[p] \in Locals /\ prc'[p].job \in JobIds
    BY <1>5, <1>a DEF SettleRead, Locals, Stages
  <2>2. QED
    BY <1>5, <2>1 DEF SettleRead
<1>6. ASSUME NEW p \in Processors, FinishSave(p) PROVE QueueTypeOK'
  <2>1. /\ [prc[p].row EXCEPT !.status = "completed"] \in Rows
        /\ prc[p].job \in JobIds
    BY <1>6, <1>a, RowUpdates DEF FinishSave, Statuses
  <2>2. QED
    BY <1>6, <2>1, FixedRows DEF FinishSave, IdleLocal
<1>7. ASSUME NEW p \in Processors, RequeueSave(p) PROVE QueueTypeOK'
  <2>1. Requeued(prc[p].row) \in Rows /\ prc[p].job \in JobIds
    BY <1>7, <1>a, RowUpdates DEF RequeueSave
  <2>2. QED
    BY <1>7, <2>1, FixedRows DEF RequeueSave, IdleLocal
<1>8. ASSUME NEW p \in Processors, BurySave(p) PROVE QueueTypeOK'
  <2>1. /\ [prc[p].row EXCEPT !.status = "failed"] \in Rows
        /\ prc[p].job \in JobIds
    BY <1>8, <1>a, RowUpdates DEF BurySave, Statuses
  <2>2. prc'[p] \in Locals /\ prc'[p].job \in JobIds
    BY <1>8, <1>a, <2>1, FixedRows DEF BurySave, Locals, Stages
  <2>3. QED
    BY <1>8, <2>1, <2>2 DEF BurySave
<1>9. ASSUME NEW p \in Processors, BuryLetter(p) PROVE QueueTypeOK'
  <2>1. letters' \in [JobIds -> Nat]
    BY <1>9, <1>a DEF BuryLetter
  <2>2. QED
    BY <1>9, <2>1, FixedRows DEF BuryLetter, IdleLocal
<1>10. ASSUME NEW p \in Processors, SettleRaises(p) PROVE QueueTypeOK'
  BY <1>10, SettleTyped, ExceptionVerdict DEF SettleRaises
<1>11. ASSUME NEW p \in Processors, HandlerReturns(p) PROVE QueueTypeOK'
  BY <1>11, SettleTyped DEF HandlerReturns, Verdicts
<1>12. ASSUME NEW p \in Processors, HandlerRaises(p) PROVE QueueTypeOK'
  BY <1>12, SettleTyped, ExceptionVerdict DEF HandlerRaises
<1>13. ASSUME NEW p \in Processors, Crash(p) PROVE QueueTypeOK'
  BY <1>13, FixedRows DEF Crash, IdleLocal
<1>14. CASE UNCHANGED queueVars
  BY <1>14 DEF queueVars
<1>15. QED
  BY <1>1, <1>2, <1>3, <1>4, <1>5, <1>6, <1>7, <1>8, <1>9, <1>10, <1>11,
     <1>12, <1>13, <1>14 DEF QueueNext, QueueStep, HandlerStep

(* The tables and the processors' local states keep their types.            *)
THEOREM QueueTypeCorrect == QueueSpec => []QueueTypeOK
BY TypeInit, TypeStep, PTL DEF QueueSpec

-----------------------------------------------------------------------------
(* No job is lost in "claimed" *)

(* ClaimedIsOwned is not inductive: a processor that only writes a dead     *)
(* letter, or that has only selected a row, holds the job too.  The owner   *)
(* is one that will still write the row, with a status other than claimed.  *)
Owns(p, j) == prc[p].pc \in {"run", "settle", "save"} /\ prc[p].job = j

OwnedInv ==
  \A j \in JobIds : jobs[j].status = "claimed" => \E p \in Processors : Owns(p, j)

(* Without crashes no step leaves a claimed row without an owner.           *)
LEMMA OwnedStep ==
  ASSUME "crash" \notin Faults, QueueTypeOK, OwnedInv, [QueueNext]_queueVars
  PROVE  OwnedInv'
<1> USE DEF OwnedInv, Owns
<1>a. \A p \in Processors :
        /\ prc[p] \in Locals
        /\ prc[p].pc # "idle" => prc[p].job \in JobIds
        /\ prc[p].row \in Rows
  BY DEF QueueTypeOK, Locals
<1>b. prc \in [Processors -> Locals] /\ jobs \in [JobIds -> Rows]
  BY DEF QueueTypeOK
<1>1. ASSUME NEW j \in JobIds, NEW k \in Kinds, NEW n \in Priorities,
             Enqueue(j, k, n)
      PROVE  OwnedInv'
  BY <1>1, <1>b DEF Enqueue, NewRow
<1>2. ASSUME NEW j \in JobIds, BackoffElapses(j) PROVE OwnedInv'
  <2>1. \A i \in JobIds : jobs'[i].status = jobs[i].status
    BY <1>2, <1>b DEF BackoffElapses, Rows
  <2>2. QED
    BY <1>2, <2>1 DEF BackoffElapses
<1>3. ASSUME NEW p \in Processors, NEW kinds, ClaimRead(p, kinds)
      PROVE  OwnedInv'
  BY <1>3, <1>b DEF ClaimRead
<1>4. ASSUME NEW p \in Processors, ClaimSave(p) PROVE OwnedInv'
  BY <1>4, <1>a, <1>b DEF ClaimSave
<1>5. ASSUME NEW p \in Processors, SettleRead(p) PROVE OwnedInv'
  BY <1>5, <1>b DEF SettleRead
<1>6. ASSUME NEW p \in Processors, NEW row \in Rows, row.status # "claimed",
             prc[p].pc # "idle",
             jobs' = [jobs EXCEPT ![prc[p].job] = row],
             \A q \in Processors : q # p => prc'[q] = prc[q]
      PROVE  OwnedInv'
  <2>1. \A j \in JobIds : j # prc[p].job => jobs'[j] = jobs[j]
    BY <1>6, <1>b
  <2>2. jobs'[prc[p].job].status # "claimed"
    BY <1>6, <1>a, <1>b
  <2>3. QED
    BY <1>6, <2>1, <2>2
<1>7. ASSUME NEW p \in Processors, FinishSave(p) PROVE OwnedInv'
  BY <1>7, <1>6, <1>a, <1>b, RowUpdates DEF FinishSave, Rows, Statuses
<1>8. ASSUME NEW p \in Processors, RequeueSave(p) PROVE OwnedInv'
  <2>1. Requeued(prc[p].row) \in Rows /\ Requeued(prc[p].row).status = "queued"
    BY <1>a, RowUpdates DEF Requeued, Rows
  <2>2. QED
    BY <1>8, <1>6, <1>b, <2>1 DEF RequeueSave
<1>9. ASSUME NEW p \in Processors, BurySave(p) PROVE OwnedInv'
  BY <1>9, <1>6, <1>a, <1>b, RowUpdates DEF BurySave, Rows, Statuses
<1>10. ASSUME NEW p \in Processors, BuryLetter(p) PROVE OwnedInv'
  BY <1>10, <1>b DEF BuryLetter
<1>11. ASSUME NEW p \in Processors, SettleRaises(p) PROVE OwnedInv'
  BY <1>11, <1>b DEF SettleRaises, Settle
<1>12. ASSUME NEW p \in Processors, HandlerStep(p) PROVE OwnedInv'
  BY <1>12, <1>b DEF HandlerStep, HandlerReturns, HandlerRaises, Settle
<1>13. CASE UNCHANGED queueVars
  BY <1>13 DEF queueVars
<1>14. QED
  BY <1>1, <1>2, <1>3, <1>4, <1>5, <1>7, <1>8, <1>9, <1>10, <1>11, <1>12,
     <1>13 DEF QueueNext, QueueStep, HandlerStep, Crash

(* Without crashes every claimed job is in the hands of a processor, for    *)
(* any number of processors and any interleaving of their reads and writes. *)
THEOREM ClaimsAreOwned ==
  ASSUME "crash" \notin Faults PROVE QueueSpec => []ClaimedIsOwned
<1>1. QueueInit => OwnedInv
  BY DEF QueueInit, OwnedInv, AbsentRow
<1>2. QueueTypeOK /\ OwnedInv /\ [QueueNext]_queueVars => OwnedInv'
  BY OwnedStep
<1>3. OwnedInv => ClaimedIsOwned
  BY DEF OwnedInv, Owns, ClaimedIsOwned, Holds
<1>4. QED
  BY <1>1, <1>2, <1>3, QueueTypeCorrect, PTL DEF QueueSpec
-----------------------------------------------------------------------------
(* One processor *)

(* One processor drains the queue, and only the job type that the code      *)
(* enqueues is in it.                                                       *)
SoleWorker ==
  /\ \A p, q \in Processors : p = q
  /\ Kinds = {"execution_submit"}

(* Every attempt is accounted for in the row, and a failed row alone may    *)
(* have a dead letter.                                                      *)
JobAccounted(j) ==
  /\ jobs[j].attempts + 1 <= MaxRetries
  /\ runs[j] = jobs[j].attempts
               + (IF jobs[j].status \in {"absent", "queued"} THEN 0 ELSE 1)
  /\ jobs[j].status = "absent" => jobs[j].attempts = 0
  /\ jobs[j].status # "absent" => jobs[j].kind = "execution_submit"
  /\ letters[j] <= 1
  /\ letters[j] = 1 => jobs[j].status = "failed"

(* With no second processor a copy is never stale: what the processor has   *)
(* read is what the table holds, at every stage.                            *)
CopyIsFresh(p) ==
  LET j == prc[p].job IN
  /\ prc[p].pc = "claim" =>
       prc[p].row = jobs[j] /\ jobs[j].status = "queued" /\ jobs[j].due
  /\ prc[p].pc \in {"run", "settle", "save"} =>
       jobs[j].status = "claimed" /\ prc[p].seen = jobs[j].attempts
  /\ prc[p].pc = "save" => prc[p].row = jobs[j]
  /\ prc[p].pc \in {"settle", "save"} =>
       \/ prc[p].verdict = "completed"
       \/ prc[p].verdict = "retry" /\ prc[p].seen + 1 < MaxRetries
       \/ prc[p].verdict = "exhausted" /\ ~ (prc[p].seen + 1 < MaxRetries)
  /\ prc[p].pc = "letter" =>
       /\ jobs[j].status = "failed" /\ letters[j] = 0
       /\ prc[p].verdict = "exhausted"

SoleInv ==
  /\ \A j \in JobIds : JobAccounted(j)
  /\ \A p \in Processors : CopyIsFresh(p)

LEMMA SoleInit == QueueInit => SoleInv
BY QueueAssumption DEF QueueInit, SoleInv, JobAccounted, CopyIsFresh,
                       AbsentRow, IdleLocal

(* The sole processor p is at some stage of job j; every step of the queue  *)
(* keeps the accounts and the copy.                                         *)
LEMMA SoleStep ==
  ASSUME SoleWorker, QueueTypeOK, SoleInv, [QueueNext]_queueVars
  PROVE  SoleInv'
<1> USE QueueAssumption DEF SoleInv
<1>a. /\ jobs \in [JobIds -> Rows] /\ prc \in [Processors -> Locals]
      /\ letters \in [JobIds -> Nat] /\ runs \in [JobIds -> Nat]
      /\ \A p \in Processors :
           /\ prc[p].pc # "idle" => prc[p].job \in JobIds
           /\ prc[p].row \in Rows /\ prc[p].seen \in Nat
      /\ \A j \in JobIds : jobs[j].attempts \in Nat
      /\ \A p, q \in Processors : p = q
  BY DEF QueueTypeOK, SoleWorker, Locals, Rows
<1>1. ASSUME NEW j \in JobIds, NEW k \in Kinds, NEW n \in Priorities,
             Enqueue(j, k, n)
      PROVE  SoleInv'
  <2>1. k = "execution_submit"
    BY DEF SoleWorker
  <2>2. \A i \in JobIds : JobAccounted(i)'
    BY <1>1, <1>a, <2>1 DEF Enqueue, NewRow, JobAccounted
  <2>3. \A p \in Processors : CopyIsFresh(p)'
    BY <1>1, <1>a DEF Enqueue, CopyIsFresh
  <2>4. QED
    BY <2>2, <2>3
<1>2. ASSUME NEW j \in JobIds, BackoffElapses(j) PROVE SoleInv'
  <2>1. /\ \A i \in JobIds :
              /\ jobs'[i].status = jobs[i].status
              /\ jobs'[i].attempts = jobs[i].attempts
              /\ jobs'[i].kind = jobs[i].kind
              /\ i # j => jobs'[i] = jobs[i]
        /\ UNCHANGED <<letters, runs, prc>>
    BY <1>2, <1>a DEF BackoffElapses, Rows
  <2>2. \A i \in JobIds : JobAccounted(i)'
    BY <2>1 DEF JobAccounted
  <2>3. \A p \in Processors : CopyIsFresh(p)'
    BY <1>2, <1>a, <2>1 DEF CopyIsFresh, BackoffElapses
  <2>4. QED
    BY <2>2, <2>3
<1>3. ASSUME NEW p \in Processors, NEW kinds, ClaimRead(p, kinds)
      PROVE  SoleInv'
  <2>1. PICK j \in FirstOf(Eligible(kinds)) :
          prc' = [prc EXCEPT ![p] = [pc |-> "claim", job |-> j, row |-> jobs[j],
                                     seen |-> 0, verdict |-> "none"]]
    BY <1>3 DEF ClaimRead
  <2>2. \A q \in Processors : CopyIsFresh(q)'
    BY <1>3, <1>a, <2>1, FirstIsJob DEF ClaimRead, CopyIsFresh
  <2>3. \A i \in JobIds : JobAccounted(i)'
    BY <1>3 DEF ClaimRead, JobAccounted
  <2>4. QED
    BY <2>2, <2>3
<1>4. ASSUME NEW p \in Processors, ClaimSave(p) PROVE SoleInv'
  <2> DEFINE j == prc[p].job
  <2>1. /\ j \in JobIds /\ prc[p].row = jobs[j] /\ jobs[j].status = "queued"
        /\ jobs[j].kind = "execution_submit"
    BY <1>4, <1>a DEF ClaimSave, CopyIsFresh, JobAccounted
  <2>2. /\ jobs' = [jobs EXCEPT ![j] = [jobs[j] EXCEPT !.status = "claimed"]]
        /\ runs' = [runs EXCEPT ![j] = @ + 1]
        /\ prc' = [prc EXCEPT ![p] =
                     [pc |-> "run", job |-> j, row |-> AbsentRow,
                      seen |-> jobs[j].attempts, verdict |-> "none"]]
        /\ letters' = letters
    BY <1>4, <2>1 DEF ClaimSave
  <2>3. /\ jobs'[j].status = "claimed" /\ jobs'[j].attempts = jobs[j].attempts
        /\ jobs'[j].kind = jobs[j].kind
    BY <1>a, <2>1, <2>2 DEF Rows
  <2>4. \A i \in JobIds : JobAccounted(i)'
    BY <1>a, <2>1, <2>2, <2>3 DEF JobAccounted
  <2>5. \A q \in Processors : CopyIsFresh(q)'
    BY <1>a, <2>1, <2>2, <2>3 DEF CopyIsFresh
  <2>6. QED
    BY <2>4, <2>5
<1>5. ASSUME NEW p \in Processors, SettleRead(p) PROVE SoleInv'
  <2>1. \A i \in JobIds : JobAccounted(i)'
    BY <1>5 DEF SettleRead, JobAccounted
  <2>2. CopyIsFresh(p)'
    BY <1>5, <1>a DEF SettleRead, CopyIsFresh
  <2>3. QED
    BY <1>a, <2>1, <2>2
<1>6. ASSUME NEW p \in Processors, prc[p].pc = "save",
             NEW j \in JobIds, j = prc[p].job,
             NEW row \in Rows, row.status \in {"completed", "queued", "failed"},
             row.kind = jobs[j].kind,
             row.attempts + 1 <= MaxRetries,
             row.attempts = jobs[j].attempts
                            + (IF row.status = "queued" THEN 1 ELSE 0),
             jobs' = [jobs EXCEPT ![j] = row],
             UNCHANGED <<letters, runs>>
      PROVE  \A i \in JobIds : JobAccounted(i)'
  <2>1. /\ jobs[j].status = "claimed" /\ JobAccounted(j)
        /\ jobs'[j] = row /\ jobs[j].attempts \in Nat
    BY <1>6, <1>a DEF CopyIsFresh
  <2>2. JobAccounted(j)'
    BY <1>6, <1>a, <2>1 DEF JobAccounted
  <2>3. \A i \in JobIds : i # j => JobAccounted(i)'
    BY <1>6, <1>a DEF JobAccounted
  <2>4. QED
    BY <2>2, <2>3
<1>s. ASSUME NEW p \in Processors, prc[p].pc = "save"
      PROVE  /\ prc[p].row = jobs[prc[p].job] /\ prc[p].job \in JobIds
             /\ jobs[prc[p].job].attempts + 1 <= MaxRetries
             /\ prc[p].verdict = "retry" =>
                  jobs[prc[p].job].attempts + 1 < MaxRetries
  BY <1>s, <1>a DEF CopyIsFresh, JobAccounted
<1>7. ASSUME NEW p \in Processors, FinishSave(p) PROVE SoleInv'
  <2> DEFINE row == [jobs[prc[p].job] EXCEPT !.status = "completed"]
  <2>1. /\ row \in Rows /\ row.status = "completed"
        /\ row.kind = jobs[prc[p].job].kind
        /\ row.attempts = jobs[prc[p].job].attempts
    <3>1. jobs[prc[p].job] \in Rows
      BY <1>7, <1>a, <1>s DEF FinishSave
    <3>2. QED
      BY <3>1, RowUpdates DEF Rows, Statuses
  <2>2. jobs' = [jobs EXCEPT ![prc[p].job] = row]
    BY <1>7, <1>s DEF FinishSave
  <2>3. \A i \in JobIds : JobAccounted(i)'
    <3>1. /\ row.attempts + 1 <= MaxRetries
          /\ row.attempts = jobs[prc[p].job].attempts
                            + (IF row.status = "queued" THEN 1 ELSE 0)
      BY <1>7, <1>s, <1>a, <2>1 DEF FinishSave
    <3> HIDE DEF row
    <3> QED BY <1>7, <1>s, <1>6, <2>1, <2>2, <3>1 DEF FinishSave
  <2>4. CopyIsFresh(p)'
    BY <1>7, <1>a DEF FinishSave, CopyIsFresh, IdleLocal
  <2>5. QED
    BY <1>a, <2>3, <2>4
<1>8. ASSUME NEW p \in Processors, RequeueSave(p) PROVE SoleInv'
  <2> DEFINE row == Requeued(jobs[prc[p].job])
  <2>1. /\ row \in Rows /\ row.status = "queued"
        /\ row.kind = jobs[prc[p].job].kind
        /\ row.attempts = jobs[prc[p].job].attempts + 1
    <3>1. jobs[prc[p].job] \in Rows
      BY <1>8, <1>a, <1>s DEF RequeueSave
    <3>2. QED
      BY <3>1, RowUpdates DEF Rows, Requeued
  <2>2. jobs' = [jobs EXCEPT ![prc[p].job] = row]
    BY <1>8, <1>s DEF RequeueSave
  <2>3. \A i \in JobIds : JobAccounted(i)'
    <3>1. row.attempts + 1 <= MaxRetries
      BY <1>8, <1>s, <1>a, <2>1 DEF RequeueSave
    <3> HIDE DEF row
    <3> QED BY <1>8, <1>s, <1>6, <1>a, <2>1, <2>2, <3>1 DEF RequeueSave
  <2>4. CopyIsFresh(p)'
    BY <1>8, <1>a DEF RequeueSave, CopyIsFresh, IdleLocal
  <2>5. QED
    BY <1>a, <2>3, <2>4
<1>9. ASSUME NEW p \in Processors, BurySave(p) PROVE SoleInv'
  <2> DEFINE row == [jobs[prc[p].job] EXCEPT !.status = "failed"]
  <2>1. /\ row \in Rows /\ row.status = "failed"
        /\ row.kind = jobs[prc[p].job].kind
        /\ row.attempts = jobs[prc[p].job].attempts
    <3>1. jobs[prc[p].job] \in Rows
      BY <1>9, <1>a, <1>s DEF BurySave
    <3>2. QED
      BY <3>1, RowUpdates DEF Rows, Statuses
  <2>2. jobs' = [jobs EXCEPT ![prc[p].job] = row]
    BY <1>9, <1>s DEF BurySave
  <2>3. \A i \in JobIds : JobAccounted(i)'
    <3>1. /\ row.attempts + 1 <= MaxRetries
          /\ row.attempts = jobs[prc[p].job].attempts
                            + (IF row.status = "queued" THEN 1 ELSE 0)
      BY <1>9, <1>s, <1>a, <2>1 DEF BurySave
    <3> HIDE DEF row
    <3> QED BY <1>9, <1>s, <1>6, <2>1, <2>2, <3>1 DEF BurySave
  <2>4. letters[prc[p].job] = 0
    <3>1. /\ prc[p].job \in JobIds /\ jobs[prc[p].job].status = "claimed"
          /\ JobAccounted(prc[p].job)
      BY <1>9, <1>a DEF BurySave, CopyIsFresh
    <3>2. QED
      BY <1>a, <3>1 DEF JobAccounted
  <2>5. CopyIsFresh(p)'
    BY <1>9, <1>a, <1>s, <2>1, <2>2, <2>4 DEF BurySave, CopyIsFresh
  <2>6. QED
    BY <1>a, <2>3, <2>5
<1>10. ASSUME NEW p \in Processors, BuryLetter(p) PROVE SoleInv'
  <2>1. \A i \in JobIds : JobAccounted(i)'
    BY <1>10, <1>a DEF BuryLetter, JobAccounted, CopyIsFresh
  <2>2. CopyIsFresh(p)'
    BY <1>10, <1>a DEF BuryLetter, CopyIsFresh, IdleLocal
  <2>3. QED
    BY <1>a, <2>1, <2>2
<1>11. ASSUME NEW p \in Processors, NEW v,
              prc[p].pc \in {"run", "settle", "save"},
              v = "completed" \/ v = OnException(prc[p].seen),
              prc' = Settle(p, v), UNCHANGED <<jobs, letters, runs>>
       PROVE  SoleInv'
  <2>1. \A i \in JobIds : JobAccounted(i)'
    BY <1>11 DEF JobAccounted
  <2>2. CopyIsFresh(p)'
    BY <1>11, <1>a DEF Settle, OnException, CopyIsFresh
  <2>3. QED
    BY <1>a, <2>1, <2>2
<1>12. ASSUME NEW p \in Processors, SettleRaises(p) PROVE SoleInv'
  <2>1. prc[p].pc # "letter"
    BY <1>12 DEF SettleRaises, CopyIsFresh
  <2>2. QED
    BY <1>11, <1>12, <2>1 DEF SettleRaises
<1>13. ASSUME NEW p \in Processors, HandlerStep(p) PROVE SoleInv'
  BY <1>11, <1>13 DEF HandlerStep, HandlerReturns, HandlerRaises
<1>14. ASSUME NEW p \in Processors, Crash(p) PROVE SoleInv'
  <2>1. CopyIsFresh(p)'
    BY <1>14, <1>a DEF Crash, CopyIsFresh, IdleLocal
  <2>2. \A i \in JobIds : JobAccounted(i)'
    BY <1>14 DEF Crash, JobAccounted
  <2>3. QED
    BY <1>a, <2>1, <2>2
<1>15. CASE UNCHANGED queueVars
  BY <1>15 DEF queueVars, JobAccounted, CopyIsFresh
<1>16. QED
  BY <1>1, <1>2, <1>3, <1>4, <1>5, <1>7, <1>8, <1>9, <1>10, <1>12, <1>13,
     <1>14, <1>15 DEF QueueNext, QueueStep

LEMMA SoleCorrect == ASSUME SoleWorker PROVE QueueSpec => []SoleInv
<1>1. QueueTypeOK /\ SoleInv /\ [QueueNext]_queueVars => SoleInv'
  BY SoleStep
<1>2. QED
  BY SoleInit, <1>1, QueueTypeCorrect, PTL DEF QueueSpec

(* One worker starts the handler of a job at most MaxRetries times.         *)
THEOREM RunsStayBounded == ASSUME SoleWorker PROVE QueueSpec => []RunsBounded
<1>1. QueueTypeOK /\ SoleInv => RunsBounded
  BY QueueAssumption DEF QueueTypeOK, SoleInv, JobAccounted, RunsBounded, Rows
<1>2. QED
  BY <1>1, SoleCorrect, QueueTypeCorrect, PTL

(* One worker writes one dead letter at most, for a job that stays failed.  *)
THEOREM LettersStayMatched ==
  ASSUME SoleWorker PROVE QueueSpec => []LettersMatchFailures
<1>1. SoleInv => LettersMatchFailures
  BY DEF SoleInv, JobAccounted, LettersMatchFailures
<1>2. QED
  BY <1>1, SoleCorrect, PTL
-----------------------------------------------------------------------------
(* Refinement *)

(* The life cycle's variables, as functions of the table.                   *)
Stage == [j \in JobIds |-> jobs[j].status]
Failures == [j \in JobIds |-> jobs[j].attempts]

(* A step that keeps status, attempts and runs of every job is a stutter.   *)
LEMMA Stutter ==
  ASSUME \A j \in JobIds : /\ jobs'[j].status = jobs[j].status
                           /\ jobs'[j].attempts = jobs[j].attempts,
         runs' = runs
  PROVE  UNCHANGED Lifecycle!lifecycleVars
BY DEF Lifecycle!lifecycleVars

(* A step that writes the row of one job moves that job alone.              *)
LEMMA OneRow ==
  ASSUME NEW j \in JobIds, NEW st, NEW n,
         jobs'[j].status = st, jobs'[j].attempts = n,
         \A i \in JobIds : i # j => jobs'[i] = jobs[i]
  PROVE  /\ Stage' = [Stage EXCEPT ![j] = st]
         /\ Failures' = [Failures EXCEPT ![j] = n]
         /\ Stage[j] = jobs[j].status /\ Failures[j] = jobs[j].attempts
BY DEF Stage, Failures

LEMMA LifecycleStep ==
  ASSUME SoleWorker, QueueTypeOK, SoleInv, [QueueNext]_queueVars
  PROVE  [Lifecycle!LifecycleNext]_(Lifecycle!lifecycleVars)
<1> DEFINE Goal == [Lifecycle!LifecycleNext]_(Lifecycle!lifecycleVars)
<1> USE QueueAssumption
<1>a. /\ jobs \in [JobIds -> Rows] /\ runs \in [JobIds -> Nat]
      /\ \A j \in JobIds : jobs[j] \in Rows /\ jobs[j].attempts \in Nat
      /\ \A p \in Processors : prc[p].pc # "idle" => prc[p].job \in JobIds
      /\ \A p \in Processors : CopyIsFresh(p)
      /\ \A j \in JobIds : JobAccounted(j)
  BY DEF QueueTypeOK, SoleInv, Rows
<1>b. /\ Lifecycle!LifecycleNext =
           \E j \in JobIds : \/ Lifecycle!Submit(j) \/ Lifecycle!Begin(j)
                             \/ Lifecycle!Complete(j) \/ Lifecycle!Retry(j)
                             \/ Lifecycle!GiveUp(j)
  BY DEF Lifecycle!LifecycleNext
<1>1. ASSUME NEW j \in JobIds, NEW k \in Kinds, NEW n \in Priorities,
             Enqueue(j, k, n)
      PROVE  Goal
  <2>1. jobs[j].attempts = 0
    BY <1>1, <1>a DEF Enqueue, JobAccounted
  <2>2. /\ Stage' = [Stage EXCEPT ![j] = "queued"]
        /\ Failures' = [Failures EXCEPT ![j] = 0]
        /\ Stage[j] = "absent" /\ Failures[j] = 0
    <3>1. /\ jobs'[j].status = "queued" /\ jobs'[j].attempts = 0
          /\ \A i \in JobIds : i # j => jobs'[i] = jobs[i]
          /\ jobs[j].status = "absent"
      BY <1>1, <1>a DEF Enqueue, NewRow
    <3>2. QED
      BY <2>1, <3>1, OneRow
  <2>3. Failures' = Failures
    BY <2>2 DEF Failures
  <2>4. Lifecycle!Submit(j)
    BY <1>1, <2>2, <2>3
       DEF Enqueue, Stage, Failures, Lifecycle!Submit, Lifecycle!Move
  <2>5. QED
    BY <2>4, <1>b
<1>2. ASSUME NEW j \in JobIds, BackoffElapses(j) PROVE Goal
  <2>1. \A i \in JobIds : /\ jobs'[i].status = jobs[i].status
                          /\ jobs'[i].attempts = jobs[i].attempts
    BY <1>2, <1>a DEF BackoffElapses, Rows
  <2>2. QED
    BY <1>2, <2>1, Stutter DEF BackoffElapses
<1>3. ASSUME UNCHANGED <<jobs, runs>> PROVE Goal
  BY <1>3, Stutter
<1>4. ASSUME NEW p \in Processors, ClaimSave(p) PROVE Goal
  <2>1. PICK j \in JobIds : j = prc[p].job
    BY <1>4, <1>a DEF ClaimSave
  <2>2. /\ prc[p].row = jobs[j] /\ jobs[j].status = "queued"
        /\ jobs[j].kind = "execution_submit"
    BY <1>4, <1>a, <2>1 DEF ClaimSave, CopyIsFresh, JobAccounted
  <2>3. /\ jobs' = [jobs EXCEPT ![j] = [jobs[j] EXCEPT !.status = "claimed"]]
        /\ runs' = [runs EXCEPT ![j] = @ + 1]
    BY <1>4, <2>1, <2>2 DEF ClaimSave
  <2>4. [jobs[j] EXCEPT !.status = "claimed"].status = "claimed"
        /\ [jobs[j] EXCEPT !.status = "claimed"].attempts = jobs[j].attempts
    BY <1>a DEF Rows
  <2>5. /\ Stage' = [Stage EXCEPT ![j] = "claimed"]
        /\ Failures' = [Failures EXCEPT ![j] = jobs[j].attempts]
        /\ Stage[j] = "queued" /\ Failures[j] = jobs[j].attempts
    <3>1. /\ jobs'[j].status = "claimed"
          /\ jobs'[j].attempts = jobs[j].attempts
          /\ \A i \in JobIds : i # j => jobs'[i] = jobs[i]
      BY <1>a, <2>3, <2>4
    <3>2. QED
      BY <2>2, <3>1, OneRow
  <2>6. Failures' = Failures
    BY <2>5 DEF Failures
  <2>7. Lifecycle!Begin(j)
    BY <2>3, <2>5, <2>6 DEF Stage, Failures, Lifecycle!Begin, Lifecycle!Move
  <2>8. QED
    BY <2>7, <1>b
<1>s. ASSUME NEW p \in Processors, prc[p].pc = "save"
      PROVE  \E j \in JobIds :
               /\ j = prc[p].job /\ prc[p].row = jobs[j]
               /\ jobs[j].status = "claimed" /\ prc[p].seen = jobs[j].attempts
  BY <1>s, <1>a DEF CopyIsFresh
<1>5. ASSUME NEW p \in Processors, FinishSave(p) PROVE Goal
  <2>1. PICK j \in JobIds :
          /\ j = prc[p].job /\ prc[p].row = jobs[j] /\ jobs[j].status = "claimed"
    BY <1>5, <1>s DEF FinishSave
  <2>2. [jobs[j] EXCEPT !.status = "completed"].status = "completed"
        /\ [jobs[j] EXCEPT !.status = "completed"].attempts = jobs[j].attempts
    BY <1>a DEF Rows
  <2>3. /\ Stage' = [Stage EXCEPT ![j] = "completed"]
        /\ Failures' = [Failures EXCEPT ![j] = jobs[j].attempts]
        /\ Stage[j] = "claimed" /\ Failures[j] = jobs[j].attempts
    <3>1. /\ jobs'[j].status = "completed"
          /\ jobs'[j].attempts = jobs[j].attempts
          /\ \A i \in JobIds : i # j => jobs'[i] = jobs[i]
      BY <1>5, <1>a, <2>1, <2>2 DEF FinishSave
    <3>2. QED
      BY <2>1, <3>1, OneRow
  <2>4. Failures' = Failures
    BY <2>3 DEF Failures
  <2>5. Lifecycle!Complete(j)
    BY <1>5, <2>3, <2>4
       DEF FinishSave, Stage, Failures, Lifecycle!Complete, Lifecycle!Move
  <2>6. QED
    BY <2>5, <1>b
<1>6. ASSUME NEW p \in Processors, RequeueSave(p) PROVE Goal
  <2>1. PICK j \in JobIds :
          /\ j = prc[p].job /\ prc[p].row = jobs[j] /\ jobs[j].status = "claimed"
          /\ prc[p].seen = jobs[j].attempts
    BY <1>6, <1>s DEF RequeueSave
  <2>2. Requeued(jobs[j]).status = "queued"
        /\ Requeued(jobs[j]).attempts = jobs[j].attempts + 1
    BY <1>a DEF Rows, Requeued
  <2>3. /\ Stage' = [Stage EXCEPT ![j] = "queued"]
        /\ Failures' = [Failures EXCEPT ![j] = jobs[j].attempts + 1]
        /\ Stage[j] = "claimed" /\ Failures[j] = jobs[j].attempts
    <3>1. /\ jobs'[j].status = "queued"
          /\ jobs'[j].attempts = jobs[j].attempts + 1
          /\ \A i \in JobIds : i # j => jobs'[i] = jobs[i]
      BY <1>6, <1>a, <2>1, <2>2 DEF RequeueSave
    <3>2. QED
      BY <2>1, <3>1, OneRow
  <2>4. jobs[j].attempts + 1 < MaxRetries
    BY <1>6, <1>a, <2>1 DEF RequeueSave, CopyIsFresh
  <2>5. Lifecycle!Retry(j)
    BY <1>6, <2>3, <2>4
       DEF RequeueSave, Stage, Failures, Lifecycle!Retry, Lifecycle!Move
  <2>6. QED
    BY <2>5, <1>b
<1>7. ASSUME NEW p \in Processors, BurySave(p) PROVE Goal
  <2>1. PICK j \in JobIds :
          /\ j = prc[p].job /\ prc[p].row = jobs[j] /\ jobs[j].status = "claimed"
          /\ prc[p].seen = jobs[j].attempts
    BY <1>7, <1>s DEF BurySave
  <2>2. [jobs[j] EXCEPT !.status = "failed"].status = "failed"
        /\ [jobs[j] EXCEPT !.status = "failed"].attempts = jobs[j].attempts
    BY <1>a DEF Rows
  <2>3. /\ Stage' = [Stage EXCEPT ![j] = "failed"]
        /\ Failures' = [Failures EXCEPT ![j] = jobs[j].attempts]
        /\ Stage[j] = "claimed" /\ Failures[j] = jobs[j].attempts
    <3>1. /\ jobs'[j].status = "failed"
          /\ jobs'[j].attempts = jobs[j].attempts
          /\ \A i \in JobIds : i # j => jobs'[i] = jobs[i]
      BY <1>7, <1>a, <2>1, <2>2 DEF BurySave
    <3>2. QED
      BY <2>1, <3>1, OneRow
  <2>4. Failures' = Failures
    BY <2>3 DEF Failures
  <2>5. jobs[j].attempts + 1 = MaxRetries
    <3>1. ~ (jobs[j].attempts + 1 < MaxRetries)
      BY <1>7, <1>a, <2>1 DEF BurySave, CopyIsFresh
    <3>2. jobs[j].attempts + 1 <= MaxRetries
      BY <1>a DEF JobAccounted
    <3>3. QED
      BY <1>a, <3>1, <3>2
  <2>6. Lifecycle!GiveUp(j)
    BY <1>7, <2>3, <2>4, <2>5
       DEF BurySave, Stage, Failures, Lifecycle!GiveUp, Lifecycle!Move
  <2>7. QED
    BY <2>6, <1>b
<1>8. ASSUME NEW p \in Processors, NEW kinds,
             \/ ClaimRead(p, kinds) \/ SettleRead(p) \/ BuryLetter(p)
             \/ SettleRaises(p) \/ HandlerStep(p) \/ Crash(p)
      PROVE  Goal
  BY <1>8, <1>3 DEF ClaimRead, SettleRead, BuryLetter, SettleRaises,
     HandlerStep, HandlerReturns, HandlerRaises, Crash
<1>9. CASE UNCHANGED queueVars
  BY <1>9, <1>3 DEF queueVars
<1>10. QED
  BY <1>1, <1>2, <1>4, <1>5, <1>6, <1>7, <1>8, <1>9 DEF QueueNext, QueueStep

(* The table and its processor implement the life cycle that is promised,   *)
(* for any number of jobs and retries, whatever raises or crashes.          *)
THEOREM QueueImplementsLifecycle ==
  ASSUME SoleWorker PROVE QueueSpec => ImplementsLifecycle
<1>1. QueueInit => Lifecycle!LifecycleInit
  BY DEF QueueInit, AbsentRow, Lifecycle!LifecycleInit
<1>2. QueueTypeOK /\ SoleInv /\ [QueueNext]_queueVars
        => [Lifecycle!LifecycleNext]_(Lifecycle!lifecycleVars)
  BY LifecycleStep
<1>3. QED
  BY <1>1, <1>2, SoleCorrect, QueueTypeCorrect, PTL
     DEF QueueSpec, ImplementsLifecycle, Lifecycle!LifecycleSpec
=============================================================================
