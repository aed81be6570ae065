------------------------------ MODULE JobQueue ------------------------------
(***************************************************************************)
(* The SQLite job table of backend/worker/jobs.py and the processors that   *)
(* run process_next_job (backend/worker/service.py): the worker loop, the   *)
(* scheduler tick in the same process, and the threads that serve           *)
(* POST /execution/jobs/process.                                            *)
(*                                                                          *)
(* Every fetch and every save_json_record is a step of its own: a row is    *)
(* read whole, changed in memory and written back whole, and nothing        *)
(* between the read and the write looks at the table again.  What the job   *)
(* does (its handler) is left open here: it returns or it raises.           *)
(* LiveExecution says what the only handler of the code does.               *)
(***************************************************************************)
EXTENDS Integers, FiniteSets

CONSTANTS
  Processors,   \* whoever may be inside process_next_job
  Workers,      \* those of them that poll for ever: the worker processes
  Kinds,        \* job types that are enqueued
  Priorities,   \* priorities that are enqueued
  MaxRetries,   \* settings.worker_max_retries
  Faults,       \* what may go wrong: see FaultNames
  MaxJobs,      \* bound: jobs ever enqueued
  MaxLetters    \* bound: dead letters written per job

FaultNames == { "crash",        \* a processor dies between two steps
                "save_error",   \* a statement raises inside the try block
                "api_crash",    \* an API request dies between two steps
                "refused",      \* the venue answers with an error
                "unreachable",  \* a request never reaches the venue
                "lost_answer" } \* the venue acts, its answer is lost

ASSUME QueueAssumption ==
  /\ Workers \subseteq Processors
  /\ MaxRetries \in Nat \ {0}
  /\ MaxJobs \in Nat
  /\ MaxLetters \in Nat
  /\ Priorities \subseteq Nat
  /\ "none" \notin Kinds
  /\ Faults \subseteq FaultNames

JobIds == 1 .. MaxJobs

VARIABLES
  jobs,      \* the job_queue table; job ids are numbered by created_at
  letters,   \* how many rows job_dead_letters holds for each job
  runs,      \* history: how often the handler was started for each job
  prc        \* the local state of each processor

queueVars == <<jobs, letters, runs, prc>>

-----------------------------------------------------------------------------
(* Rows and local states *)

Statuses == {"absent", "queued", "claimed", "completed", "failed"}
Settled == {"completed", "failed"}

Rows == [status: Statuses, kind: Kinds \cup {"none"}, priority: Nat,
         attempts: Nat, due: BOOLEAN]

AbsentRow == [status |-> "absent", kind |-> "none", priority |-> 0,
              attempts |-> 0, due |-> FALSE]

(* What process_next_job decided to do with the job it holds. *)
Verdicts == {"none", "completed", "unsupported", "retry", "exhausted"}

(* claim: a row was selected; run: the handler runs; settle: about to call  *)
(* finish_job, requeue_job or dead_letter_job; save: that call has read the *)
(* row; letter: the job is failed, its dead letter not yet written.         *)
Stages == {"idle", "claim", "run", "settle", "save", "letter"}

Locals == [pc: Stages, job: JobIds \cup {0}, row: Rows, seen: Nat,
           verdict: Verdicts]

IdleLocal == [pc |-> "idle", job |-> 0, row |-> AbsentRow, seen |-> 0,
              verdict |-> "none"]

QueueTypeOK ==
  /\ jobs \in [JobIds -> Rows]
  /\ letters \in [JobIds -> Nat]
  /\ runs \in [JobIds -> Nat]
  /\ prc \in [Processors -> Locals]
  /\ \A p \in Processors : prc[p].pc # "idle" => prc[p].job \in JobIds

QueueInit ==
  /\ jobs = [j \in JobIds |-> AbsentRow]
  /\ letters = [j \in JobIds |-> 0]
  /\ runs = [j \in JobIds |-> 0]
  /\ prc = [p \in Processors |-> IdleLocal]

-----------------------------------------------------------------------------
(* enqueue_job: a new row, due at once. *)

NewRow(kind, priority) ==
  [status |-> "queued", kind |-> kind, priority |-> priority,
   attempts |-> 0, due |-> TRUE]

Enqueue(j, kind, priority) ==
  /\ jobs[j].status = "absent"
  /\ \A k \in JobIds : k < j => jobs[k].status # "absent"
  /\ jobs' = [jobs EXCEPT ![j] = NewRow(kind, priority)]
  /\ UNCHANGED <<letters, runs, prc>>

(* The time written in next_attempt_at passes. *)
BackoffElapses(j) ==
  /\ jobs[j].status = "queued"
  /\ ~ jobs[j].due
  /\ jobs' = [jobs EXCEPT ![j] = [@ EXCEPT !.due = TRUE]]
  /\ UNCHANGED <<letters, runs, prc>>

-----------------------------------------------------------------------------
(* claim_next_job: select the first due row, then write it back as claimed. *)

(* Mutation: only rows that were never retried are due. *)
EligibleOnlyFresh(kinds) ==
  { j \in JobIds : jobs[j].status = "queued" /\ jobs[j].attempts = 0
                   /\ jobs[j].kind \in kinds }

Eligible(kinds) ==
  { j \in JobIds : jobs[j].status = "queued" /\ jobs[j].due
                   /\ jobs[j].kind \in kinds }

Before(i, j) ==
  \/ jobs[i].priority < jobs[j].priority
  \/ jobs[i].priority = jobs[j].priority /\ i <= j

FirstOf(S) == { j \in S : \A i \in S : Before(j, i) }

ClaimRead(p, kinds) ==
  /\ prc[p].pc = "idle"
  /\ \E j \in FirstOf(Eligible(kinds)) :
       prc' = [prc EXCEPT ![p] = [pc |-> "claim", job |-> j, row |-> jobs[j],
                                  seen |-> 0, verdict |-> "none"]]
  /\ UNCHANGED <<jobs, letters, runs>>

(* The branch on job_type follows the claim at once; no other step of the   *)
(* processor lies between them.                                             *)
ClaimSave(p) ==
  LET j == prc[p].job
      row == prc[p].row
      known == row.kind = "execution_submit"
  IN /\ prc[p].pc = "claim"
     /\ jobs' = [jobs EXCEPT ![j] = [row EXCEPT !.status = "claimed"]]
     /\ prc' = [prc EXCEPT ![p] =
                  [pc |-> IF known THEN "run" ELSE "settle",
                   job |-> j, row |-> AbsentRow, seen |-> row.attempts,
                   verdict |-> IF known THEN "none" ELSE "unsupported"]]
     /\ runs' = IF known THEN [runs EXCEPT ![j] = @ + 1] ELSE runs
     /\ UNCHANGED letters

-----------------------------------------------------------------------------
(* The handler ends.  An exception is turned into a verdict from the        *)
(* attempt count read at the claim, not from the row as it is now.          *)

(* Mutation: one retry too many. *)
OnExceptionLate(attempts) ==
  IF attempts < MaxRetries THEN "retry" ELSE "exhausted"

OnException(attempts) ==
  IF attempts + 1 < MaxRetries THEN "retry" ELSE "exhausted"

Settle(p, verdict) ==
  [prc EXCEPT ![p] = [pc |-> "settle", job |-> prc[p].job, row |-> AbsentRow,
                      seen |-> prc[p].seen, verdict |-> verdict]]

HandlerReturns(p) ==
  /\ prc[p].pc = "run"
  /\ prc' = Settle(p, "completed")
  /\ UNCHANGED <<jobs, letters, runs>>

HandlerRaises(p) ==
  /\ prc[p].pc = "run"
  /\ prc' = Settle(p, OnException(prc[p].seen))
  /\ UNCHANGED <<jobs, letters, runs>>

-----------------------------------------------------------------------------
(* finish_job, requeue_job and dead_letter_job: read the row, write it back *)
(* with the new status, and for a dead letter write a second row.           *)

SettleRead(p) ==
  /\ prc[p].pc = "settle"
  /\ prc' = [prc EXCEPT ![p] = [pc |-> "save", job |-> prc[p].job,
                                row |-> jobs[prc[p].job],
                                seen |-> prc[p].seen,
                                verdict |-> prc[p].verdict]]
  /\ UNCHANGED <<jobs, letters, runs>>

(* Mutations: the status shown to the caller is saved; the attempt is not  *)
(* counted; the status is not reset.                                        *)
RequeuedAsScheduled(row) ==
  [row EXCEPT !.status = "retry_scheduled", !.attempts = @ + 1, !.due = FALSE]

RequeuedUncounted(row) == [row EXCEPT !.status = "queued", !.due = FALSE]

RequeuedStillClaimed(row) == [row EXCEPT !.attempts = @ + 1, !.due = FALSE]

Requeued(row) ==
  [row EXCEPT !.status = "queued", !.attempts = @ + 1, !.due = FALSE]

FinishSave(p) ==
  LET j == prc[p].job IN
  /\ prc[p].pc = "save"
  /\ prc[p].verdict = "completed"
  /\ jobs' = [jobs EXCEPT ![j] = [prc[p].row EXCEPT !.status = "completed"]]
  /\ prc' = [prc EXCEPT ![p] = IdleLocal]
  /\ UNCHANGED <<letters, runs>>

RequeueSave(p) ==
  LET j == prc[p].job IN
  /\ prc[p].pc = "save"
  /\ prc[p].verdict = "retry"
  /\ jobs' = [jobs EXCEPT ![j] = Requeued(prc[p].row)]
  /\ prc' = [prc EXCEPT ![p] = IdleLocal]
  /\ UNCHANGED <<letters, runs>>

BurySave(p) ==
  LET j == prc[p].job IN
  /\ prc[p].pc = "save"
  /\ prc[p].verdict \in {"unsupported", "exhausted"}
  /\ jobs' = [jobs EXCEPT ![j] = [prc[p].row EXCEPT !.status = "failed"]]
  /\ prc' = [prc EXCEPT ![p] = [pc |-> "letter", job |-> j,
                                row |-> AbsentRow, seen |-> prc[p].seen,
                                verdict |-> prc[p].verdict]]
  /\ UNCHANGED <<letters, runs>>

(* Mutation: the except block falls through to requeue_job. *)
BuryLetterThenRequeue(p) ==
  LET j == prc[p].job IN
  /\ prc[p].pc = "letter"
  /\ letters[j] < MaxLetters
  /\ letters' = [letters EXCEPT ![j] = @ + 1]
  /\ prc' = Settle(p, "retry")
  /\ UNCHANGED <<jobs, runs>>

BuryLetter(p) ==
  LET j == prc[p].job IN
  /\ prc[p].pc = "letter"
  /\ letters[j] < MaxLetters
  /\ letters' = [letters EXCEPT ![j] = @ + 1]
  /\ prc' = [prc EXCEPT ![p] = IdleLocal]
  /\ UNCHANGED <<jobs, runs>>

(* finish_job, and dead_letter_job for an unknown type, are called inside   *)
(* the try block: when one of their statements raises, the job is handed to *)
(* the except block.  An exception of the except block itself is not caught *)
(* by anyone and ends the processor: that is Crash.                         *)
SettleRaises(p) ==
  /\ "save_error" \in Faults
  /\ prc[p].pc \in {"settle", "save", "letter"}
  /\ prc[p].verdict \in {"completed", "unsupported"}
  /\ prc' = Settle(p, OnException(prc[p].seen))
  /\ UNCHANGED <<jobs, letters, runs>>

(* The processor dies and a new one takes its place; whatever it held stays *)
(* in the table as it is, for nothing in the code looks for claimed rows.   *)
Crash(p) ==
  /\ "crash" \in Faults
  /\ prc[p].pc # "idle"
  /\ prc' = [prc EXCEPT ![p] = IdleLocal]
  /\ UNCHANGED <<jobs, letters, runs>>

-----------------------------------------------------------------------------
(* The steps of a processor outside the handler. *)

Filters == {Kinds} \cup { {k} : k \in Kinds }

QueueStep(p) ==
  \/ \E kinds \in Filters : ClaimRead(p, kinds)
  \/ ClaimSave(p)
  \/ SettleRead(p)
  \/ FinishSave(p)
  \/ RequeueSave(p)
  \/ BurySave(p)
  \/ BuryLetter(p)
  \/ SettleRaises(p)

HandlerStep(p) == HandlerReturns(p) \/ HandlerRaises(p)

QueueNext ==
  \/ \E j \in JobIds, k \in Kinds, n \in Priorities : Enqueue(j, k, n)
  \/ \E j \in JobIds : BackoffElapses(j)
  \/ \E p \in Processors : QueueStep(p) \/ HandlerStep(p) \/ Crash(p)

QueueSpec == QueueInit /\ [][QueueNext]_queueVars

(* The worker loop of main.py calls process_next_job for ever, and every    *)
(* call, an API request's too, runs on until it returns or its process dies. *)
(* Time passes.  Nobody has to enqueue anything, and nothing has to fail.   *)
Claims(p) == \E kinds \in Filters : ClaimRead(p, kinds)

InCall(p) == prc[p].pc # "idle" /\ (QueueStep(p) \/ HandlerStep(p))

QueueFairness ==
  /\ \A p \in Workers : WF_queueVars(Claims(p))
  /\ \A p \in Processors : WF_queueVars(InCall(p))
  /\ \A j \in JobIds : WF_queueVars(BackoffElapses(j))

FairQueueSpec == QueueSpec /\ QueueFairness

-----------------------------------------------------------------------------
(* Properties *)

Holds(p, j) == prc[p].pc # "idle" /\ prc[p].job = j

(* A claimed row always has a processor inside process_next_job that will   *)
(* write it again: without crashes no job is lost in "claimed", however     *)
(* claims, stale snapshots and late saves of several processors interleave. *)
ClaimedIsOwned ==
  \A j \in JobIds : jobs[j].status = "claimed" => \E p \in Processors : Holds(p, j)

(* With one processor the handler of a job is started at most MaxRetries    *)
(* times, whatever raises and whenever the processor dies.                  *)
RunsBounded == \A j \in JobIds : runs[j] <= MaxRetries

(* With one processor a job gets one dead letter at most, and only when its *)
(* row is failed; from then on the row stays failed.                        *)
LettersMatchFailures ==
  \A j \in JobIds :
    /\ letters[j] <= 1
    /\ letters[j] = 1 => jobs[j].status = "failed"

(* With one processor the table implements the life cycle promised.         *)
Lifecycle == INSTANCE JobLifecycle
  WITH Jobs <- JobIds, MaxRetries <- MaxRetries, starts <- runs,
       stage <- [j \in JobIds |-> jobs[j].status],
       failures <- [j \in JobIds |-> jobs[j].attempts]

ImplementsLifecycle == Lifecycle!LifecycleSpec

(* Nothing in the code looks for claimed rows, so a job whose processor     *)
(* died stays claimed.  Once processors stop dying, every other queued job  *)
(* is settled in the end.                                                   *)
Orphan(j) == jobs[j].status = "claimed" /\ \A p \in Processors : ~ Holds(p, j)

CrashesCease == <>[][\A p \in Processors : ~ Crash(p)]_queueVars

JobsSettle ==
  CrashesCease =>
    \A j \in JobIds :
      jobs[j].status = "queued" ~> jobs[j].status \in Settled \/ Orphan(j)
=============================================================================
