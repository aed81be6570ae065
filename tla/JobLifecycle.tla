---------------------------- MODULE JobLifecycle ----------------------------
(***************************************************************************)
(* What the job queue promises to whoever enqueues a job, when one          *)
(* processor drains it: a job is attempted at most MaxRetries times, one    *)
(* attempt at a time, each attempt started by a claim; it is completed by   *)
(* an attempt, or given up after the last one, and what is settled stays    *)
(* settled.  Tables, row copies and exceptions do not appear here.          *)
(***************************************************************************)
EXTENDS Integers

CONSTANTS Jobs, MaxRetries

VARIABLES
  stage,    \* where each job stands
  failures, \* attempts of the job that failed and were followed by a retry
  starts    \* attempts of the job that were started

lifecycleVars == <<stage, failures, starts>>

LifecycleInit ==
  /\ stage = [j \in Jobs |-> "absent"]
  /\ failures = [j \in Jobs |-> 0]
  /\ starts = [j \in Jobs |-> 0]

Move(j, from, to) ==
  /\ stage[j] = from
  /\ stage' = [stage EXCEPT ![j] = to]

Submit(j) == Move(j, "absent", "queued") /\ UNCHANGED <<failures, starts>>

Begin(j) ==
  /\ Move(j, "queued", "claimed")
  /\ starts' = [starts EXCEPT ![j] = @ + 1]
  /\ UNCHANGED failures

Complete(j) == Move(j, "claimed", "completed") /\ UNCHANGED <<failures, starts>>

Retry(j) ==
  /\ Move(j, "claimed", "queued")
  /\ failures[j] + 1 < MaxRetries
  /\ failures' = [failures EXCEPT ![j] = @ + 1]
  /\ UNCHANGED starts

GiveUp(j) ==
  /\ Move(j, "claimed", "failed")
  /\ failures[j] + 1 = MaxRetries
  /\ UNCHANGED <<failures, starts>>

LifecycleNext ==
  \E j \in Jobs : Submit(j) \/ Begin(j) \/ Complete(j) \/ Retry(j) \/ GiveUp(j)

LifecycleSpec == LifecycleInit /\ [][LifecycleNext]_lifecycleVars
=============================================================================
