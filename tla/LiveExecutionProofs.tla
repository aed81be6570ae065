------------------------- MODULE LiveExecutionProofs ------------------------
(***************************************************************************)
(* Theorems about LiveExecution for any number of tickets, requests, jobs,  *)
(* processors and retries.  What JobQueueProofs shows of the queue is used  *)
(* here, for live execution implements the queue.                           *)
(***************************************************************************)
EXTENDS LiveExecution, JobQueueProofs

-----------------------------------------------------------------------------
(* Inductive invariants *)

(* Two rows of a ticket that exists differ in status and reference only.    *)
Agree(row, other) ==
  /\ row.status # "absent" /\ other.status # "absent"
  /\ row.venue = other.venue /\ row.limitOk = other.limitOk

(* What a processor holds is in the table.                                  *)
HeldInv == \A p \in Processors : prc[p].pc # "idle" =>
             jobs[prc[p].job].status # "absent"

(* A job has a ticket, within the notional limit.                           *)
JobLinked(j) ==
  /\ payload[j] = "none" <=> jobs[j].status = "absent"
  /\ payload[j] # "none" =>
       /\ tickets[payload[j]].status # "absent"
       /\ tickets[payload[j]].limitOk
  /\ orders[j] > 0 => payload[j] # "none"

(* A handler works on the ticket of its job, from a copy that may be stale  *)
(* in status and reference only, and sends only in a process started with   *)
(* the live network enabled.                                                *)
NetworkOn(p) == env.network[p]

SubLinked(p) ==
  /\ sub[p].pc # "none" =>
       /\ prc[p].pc = "run" /\ sub[p].ticket = payload[prc[p].job]
       /\ Agree(sub[p].row, tickets[sub[p].ticket])
  /\ sub[p].pc = "post" => NetworkOn(p)

(* So does a request that has begun.                                        *)
AdmLinked(a) ==
  adm[a].pc # "idle" =>
    /\ adm[a].ticket \in Tickets
    /\ Agree(adm[a].row, tickets[adm[a].ticket])

LinkInv ==
  /\ HeldInv
  /\ \A j \in JobIds : JobLinked(j)
  /\ \A p \in Processors : SubLinked(p)
  /\ \A a \in Admins : AdmLinked(a)

(* The reference of a row that is, or may be, written to ticket t.          *)
RefOwn(t, row) ==
  /\ row.ref \in JobIds => payload[row.ref] = t
  /\ row.status = "queued" => row.ref \in JobIds
  /\ row.ref = OrderRef => \E j \in JobsOf(t) : orders[j] > 0

RefInv ==
  /\ \A t \in Tickets : RefOwn(t, tickets[t])
  /\ \A a \in Admins : adm[a].pc # "idle" => RefOwn(adm[a].ticket, adm[a].row)
  /\ \A p \in Processors :
       /\ sub[p].ref \notin JobIds
       /\ sub[p].pc = "store" /\ sub[p].ref = OrderRef => orders[prc[p].job] > 0

(* Attempts that a job's ticket allows to each start of its handler.        *)
Tries(j) == Attempts(tickets[payload[j]].venue)

(* The orders of a job, against the starts of its handler: those before the *)
(* start in progress, if any, and the attempts that one has made.           *)
SpentInv ==
  /\ \A j \in JobIds : payload[j] = "none" => orders[j] = 0
  /\ \A j \in JobIds : payload[j] # "none" => orders[j] <= runs[j] * Tries(j)
  /\ \A p \in Processors : sub[p].pc = "none" => sub[p].tries = 0
  /\ \A p \in Processors : prc[p].pc = "run" =>
       LET j == prc[p].job IN
       /\ orders[j] <= (runs[j] - 1) * Tries(j) + sub[p].tries
       /\ sub[p].pc = "post" => sub[p].tries < Tries(j)
       /\ sub[p].pc = "store" => sub[p].tries <= Tries(j)

(* A ticket that may still be approved has no job but the one its request   *)
(* is about to write down; no ticket has two.                               *)
OpenInv ==
  /\ \A t \in Tickets : tickets[t].status \in Approvable \cup {"absent"} =>
       \A j \in JobsOf(t) : \E a \in Admins :
         /\ adm[a].pc = "save" /\ adm[a].ticket = t
         /\ adm[a].row.ref = j /\ adm[a].row.status = "queued"
  /\ \A a \in Admins :
       \/ adm[a].pc = "approve"
       \/ adm[a].pc = "save" /\ adm[a].row.status \in Approvable \cup {"absent"}
       => JobsOf(adm[a].ticket) = {}
  /\ \A t \in Tickets : \A i, j \in JobsOf(t) : i = j

(* A job was sent at most once, and one that was is never started again:    *)
(* whoever holds it is on the way to finish_job.                            *)
SentOnce ==
  \A j \in JobIds :
    /\ orders[j] <= 1
    /\ orders[j] > 0 =>
         /\ jobs[j].status \in {"claimed", "completed"}
         /\ \A p \in Processors : Holds(p, j) =>
              \/ prc[p].pc = "run" /\ sub[p].pc = "store"
              \/ prc[p].pc \in {"settle", "save"} /\ prc[p].verdict = "completed"

(* While an approval is decided its ticket is not rejected.                 *)
ApproveInv ==
  \A a \in Admins : adm[a].pc = "approve" =>
    tickets[adm[a].ticket].status # "rejected"

-----------------------------------------------------------------------------
(* Live execution is a job queue *)

(* Credentials come or go, or a process starts with the settings of now.    *)
SettingsStep ==
  \/ \E v \in Venues : SecretsChange(v)
  \/ ApiRestarts
  \/ \E p \in Workers : WorkerRestarts(p)

(* Every step is one of the queue or leaves the queue alone.                *)
LEMMA StepOfQueue == [LiveNext]_liveVars => [QueueNext]_queueVars
<1> SUFFICES ASSUME [LiveNext]_liveVars PROVE [QueueNext]_queueVars
  OBVIOUS
<1>1. ASSUME NEW t \in Tickets, NEW v \in Traded, NEW ok \in BOOLEAN,
             CreateTicket(t, v, ok)
      PROVE  UNCHANGED queueVars
  BY <1>1 DEF CreateTicket
<1>2. ASSUME SettingsStep PROVE UNCHANGED queueVars
  BY <1>2 DEF SettingsStep, SecretsChange, ApiRestarts, WorkerRestarts, Restart
<1>3. ASSUME NEW a \in Admins, AdminStep(a) PROVE [QueueNext]_queueVars
  <2>1. ASSUME NEW j \in JobIds, ApproveEnqueue(a, j) PROVE QueueNext
    <3>1. PICK n \in Priorities : Enqueue(j, "execution_submit", n)
      BY <2>1 DEF ApproveEnqueue
    <3>2. "execution_submit" \in Kinds
      BY LiveAssumption
    <3>3. QED
      BY <3>1, <3>2 DEF QueueNext
  <2>2. ASSUME NEW t \in Tickets, ApproveRead(a, t) \/ RejectRead(a, t)
        PROVE  UNCHANGED queueVars
    BY <2>2 DEF ApproveRead, RejectRead
  <2>3. ASSUME ApproveBlock(a) \/ TicketSave(a) \/ RequestDies(a)
        PROVE  UNCHANGED queueVars
    BY <2>3 DEF ApproveBlock, TicketSave, RequestDies
  <2>4. QED
    BY <1>3, <2>1, <2>2, <2>3 DEF AdminStep
<1>4. ASSUME NEW p \in Processors, SubmitStep(p) PROVE [QueueNext]_queueVars
  <2>1. UNCHANGED queueVars \/ HandlerStep(p)
    BY <1>4 DEF SubmitStep, LoadTicket, LoadRaises, PostAccepted, PostDeclined,
       PostRaises, AnswerRaises, StoreTicket, StoreRaises, HandlerStep
  <2>2. QED
    BY <2>1 DEF QueueNext
<1>5. ASSUME NEW p \in Processors, ProcessorDies(p) PROVE QueueNext
  BY <1>5 DEF ProcessorDies, QueueNext
<1>6. CASE UNCHANGED liveVars
  BY <1>6 DEF liveVars, queueVars
<1>7. QED
  BY <1>1, <1>2, <1>3, <1>4, <1>5, <1>6 DEF LiveNext, QueueNext, SettingsStep

(* Tickets, requests and the venue never touch the tables of the queue but  *)
(* by its own operations, for any number of processors and requests.        *)
THEOREM LiveImplementsQueue == LiveSpec => ImplementsQueue
<1>1. LiveInit => QueueInit
  BY DEF LiveInit
<1>2. QED
  BY <1>1, StepOfQueue, PTL DEF LiveSpec, QueueSpec, ImplementsQueue

-----------------------------------------------------------------------------
(* Frames *)

(* The steps of the queue that enqueue nothing.                             *)
InnerStep ==
  \/ \E j \in JobIds : BackoffElapses(j)
  \/ \E p \in Processors : QueueStep(p) \/ HandlerStep(p) \/ Crash(p)

(* They neither create nor delete a row, and a processor holds a row that   *)
(* is there.                                                                *)
LEMMA RowsStay ==
  ASSUME QueueTypeOK, HeldInv, InnerStep
  PROVE  /\ HeldInv'
         /\ \A j \in JobIds : jobs'[j].status = "absent"
                              <=> jobs[j].status = "absent"
<1> DEFINE Goal == /\ HeldInv'
                   /\ \A j \in JobIds : jobs'[j].status = "absent"
                                        <=> jobs[j].status = "absent"
<1> USE DEF HeldInv
<1>a. /\ prc \in [Processors -> Locals] /\ jobs \in [JobIds -> Rows]
      /\ \A p \in Processors :
           /\ prc[p].row \in Rows
           /\ prc[p].pc # "idle" => prc[p].job \in JobIds
  BY DEF QueueTypeOK, Locals
<1>1. ASSUME NEW j \in JobIds, BackoffElapses(j) PROVE Goal
  <2>1. \A i \in JobIds : jobs'[i].status = jobs[i].status
    BY <1>1, <1>a DEF BackoffElapses, Rows
  <2>2. QED
    BY <1>1, <1>a, <2>1 DEF BackoffElapses
<1>2. ASSUME NEW p \in Processors, NEW kinds, ClaimRead(p, kinds) PROVE Goal
  <2>1. PICK j \in FirstOf(Eligible(kinds)) :
          prc' = [prc EXCEPT ![p] = [pc |-> "claim", job |-> j, row |-> jobs[j],
                                     seen |-> 0, verdict |-> "none"]]
    BY <1>2 DEF ClaimRead
  <2>2. QED
    BY <1>2, <1>a, <2>1, FirstIsJob DEF ClaimRead
<1>3. ASSUME NEW p \in Processors, NEW row \in Rows, row.status # "absent",
             prc[p].pc # "idle",
             jobs' = [jobs EXCEPT ![prc[p].job] = row],
             prc'[p].pc = "idle" \/ prc'[p].job = prc[p].job,
             \A q \in Processors : q # p => prc'[q] = prc[q]
      PROVE  Goal
  BY <1>3, <1>a
<1>4. ASSUME NEW p \in Processors, ClaimSave(p) PROVE Goal
  <2>1. /\ [prc[p].row EXCEPT !.status = "claimed"] \in Rows
        /\ [prc[p].row EXCEPT !.status = "claimed"].status = "claimed"
    BY <1>a, RowUpdates DEF Rows, Statuses
  <2>2. /\ prc'[p].job = prc[p].job
        /\ \A q \in Processors : q # p => prc'[q] = prc[q]
    BY <1>4, <1>a DEF ClaimSave
  <2>3. QED
    BY <1>3, <1>4, <2>1, <2>2 DEF ClaimSave
<1>5. ASSUME NEW p \in Processors, FinishSave(p) PROVE Goal
  <2>1. /\ [prc[p].row EXCEPT !.status = "completed"] \in Rows
        /\ [prc[p].row EXCEPT !.status = "completed"].status = "completed"
    BY <1>a, RowUpdates DEF Rows, Statuses
  <2>2. QED
    BY <1>3, <1>5, <1>a, <2>1 DEF FinishSave, IdleLocal
<1>6. ASSUME NEW p \in Processors, RequeueSave(p) PROVE Goal
  <2>1. Requeued(prc[p].row) \in Rows /\ Requeued(prc[p].row).status = "queued"
    BY <1>a, RowUpdates DEF Rows, Requeued
  <2>2. QED
    BY <1>3, <1>6, <1>a, <2>1 DEF RequeueSave, IdleLocal
<1>7. ASSUME NEW p \in Processors, BurySave(p) PROVE Goal
  <2>1. /\ [prc[p].row EXCEPT !.status = "failed"] \in Rows
        /\ [prc[p].row EXCEPT !.status = "failed"].status = "failed"
    BY <1>a, RowUpdates DEF Rows, Statuses
  <2>2. QED
    BY <1>3, <1>7, <1>a, <2>1 DEF BurySave
<1>8. ASSUME NEW p \in Processors, prc[p].pc # "idle", jobs' = jobs,
             prc'[p].pc = "idle" \/ prc'[p].job = prc[p].job,
             \A q \in Processors : q # p => prc'[q] = prc[q]
      PROVE  Goal
  BY <1>8, <1>a
<1>9. ASSUME NEW p \in Processors,
             \/ SettleRead(p) \/ BuryLetter(p) \/ SettleRaises(p)
             \/ HandlerStep(p) \/ Crash(p)
      PROVE  Goal
  BY <1>8, <1>9, <1>a DEF SettleRead, BuryLetter, SettleRaises, HandlerStep,
     HandlerReturns, HandlerRaises, Crash, Settle, IdleLocal
<1>10. QED
  BY <1>1, <1>2, <1>4, <1>5, <1>6, <1>7, <1>9 DEF InnerStep, QueueStep

(* A processor's own steps leave the others alone, and are not taken while  *)
(* the handler runs.                                                        *)
LEMMA QueueStepFrame ==
  ASSUME QueueTypeOK, NEW p \in Processors, QueueStep(p)
  PROVE  /\ prc[p].pc # "run"
         /\ \A q \in Processors : q # p => prc'[q] = prc[q]
BY DEF QueueTypeOK, QueueStep, ClaimRead, ClaimSave, SettleRead, FinishSave,
   RequeueSave, BurySave, BuryLetter, SettleRaises, Settle

-----------------------------------------------------------------------------
(* Type correctness and links *)

LEMMA LiveConstants ==
  /\ "none" \notin Tickets
  /\ AbsentTicket \in TicketRows
  /\ IdleRequest \in AdmLocals /\ NoSubmission \in SubLocals
  /\ OrderRef \in Refs /\ DryRef \in Refs /\ NoRef \in Refs /\ JobIds \subseteq Refs
  /\ OrderRef \notin JobIds /\ DryRef \notin JobIds /\ NoRef \notin JobIds
  /\ OrderRef # DryRef /\ OrderRef # NoRef
<1>1. MaxJobs \in Nat /\ "none" \notin Tickets
  BY QueueAssumption, LiveAssumption
<1>2. /\ OrderRef \in Refs /\ DryRef \in Refs /\ NoRef \in Refs
      /\ JobIds \subseteq Refs
      /\ OrderRef \notin JobIds /\ DryRef \notin JobIds /\ NoRef \notin JobIds
      /\ OrderRef # DryRef /\ OrderRef # NoRef
  BY <1>1 DEF OrderRef, DryRef, NoRef, Refs, JobIds
<1>3. AbsentTicket \in TicketRows
  BY <1>2 DEF AbsentTicket, TicketRows, TicketStatuses, Venues
<1>4. IdleRequest \in AdmLocals /\ NoSubmission \in SubLocals
  BY <1>2, <1>3 DEF IdleRequest, NoSubmission, AdmLocals, SubLocals
<1>5. QED
  BY <1>1, <1>2, <1>3, <1>4

(* What the operations write into a row of a ticket.                        *)
LEMMA TicketUpdates ==
  ASSUME NEW row \in TicketRows
  PROVE  /\ \A st \in TicketStatuses :
              /\ [row EXCEPT !.status = st] \in TicketRows
              /\ [row EXCEPT !.status = st].status = st
              /\ [row EXCEPT !.status = st].ref = row.ref
              /\ st # "absent" /\ row.status # "absent" =>
                   Agree([row EXCEPT !.status = st], row)
         /\ \A st \in TicketStatuses, r \in Refs :
              /\ [row EXCEPT !.status = st, !.ref = r] \in TicketRows
              /\ [row EXCEPT !.status = st, !.ref = r].status = st
              /\ [row EXCEPT !.status = st, !.ref = r].ref = r
              /\ st # "absent" /\ row.status # "absent" =>
                   Agree([row EXCEPT !.status = st, !.ref = r], row)
BY DEF TicketRows, Agree

LEMMA StatusNames ==
  \A st \in {"pending_approval", "blocked", "queued", "submitted", "rejected"} :
    st \in TicketStatuses /\ st # "absent"
BY DEF TicketStatuses

(* The parts of the type invariant that the proofs use.                     *)
LEMMA LiveTypes ==
  ASSUME LiveTypeOK
  PROVE  /\ QueueTypeOK
         /\ jobs \in [JobIds -> Rows] /\ prc \in [Processors -> Locals]
         /\ letters \in [JobIds -> Nat] /\ runs \in [JobIds -> Nat]
         /\ tickets \in [Tickets -> TicketRows]
         /\ payload \in [JobIds -> Tickets \cup {"none"}]
         /\ orders \in [JobIds -> Nat]
         /\ adm \in [Admins -> AdmLocals] /\ sub \in [Processors -> SubLocals]
         /\ \A p \in Processors :
              /\ prc[p].pc # "idle" => prc[p].job \in JobIds
              /\ sub[p].pc \in {"none", "post", "store"}
              /\ sub[p].row \in TicketRows /\ sub[p].ref \in Refs
              /\ sub[p].tries \in Nat
              /\ sub[p].ticket \in Tickets \cup {"none"}
         /\ \A a \in Admins :
              /\ adm[a].pc \in {"idle", "approve", "save"}
              /\ adm[a].row \in TicketRows
BY DEF LiveTypeOK, QueueTypeOK, AdmLocals, SubLocals

(* What is needed of a step, besides keeping what processors hold, for the  *)
(* links to be kept: tickets that exist keep venue and limit, orders are    *)
(* received for jobs alone, and whoever moves looks at the table.           *)
LEMMA LinksKept ==
  ASSUME LiveTypeOK, LinkInv, HeldInv', payload' = payload,
         \A p \in Processors : sub[p].pc = "post" /\ NetworkOn(p) => NetworkOn(p)',
         \A j \in JobIds : jobs'[j].status = "absent" <=> jobs[j].status = "absent",
         \A t \in Tickets : \/ tickets'[t] = tickets[t]
                            \/ tickets[t].status = "absent"
                            \/ Agree(tickets'[t], tickets[t]),
         \A j \in JobIds : orders'[j] = orders[j] \/ payload[j] # "none",
         \A p \in Processors : \/ UNCHANGED <<sub[p], prc[p]>>
                               \/ sub'[p].pc = "none"
                               \/ SubLinked(p)',
         \A a \in Admins : adm'[a] = adm[a] \/ adm'[a].pc = "idle" \/ AdmLinked(a)'
  PROVE  LinkInv'
<1>a. /\ payload \in [JobIds -> Tickets \cup {"none"}]
      /\ \A p \in Processors : prc[p].pc # "idle" => prc[p].job \in JobIds
      /\ "none" \notin Tickets
  BY LiveTypes, LiveConstants
<1>1. \A j \in JobIds : JobLinked(j)'
  BY <1>a DEF LinkInv, JobLinked, Agree
<1>2. ASSUME NEW p \in Processors PROVE SubLinked(p)'
  <2>1. CASE UNCHANGED <<sub[p], prc[p]>>
    <3>1. sub[p].pc # "none" =>
            /\ prc[p].pc = "run" /\ payload[prc[p].job] # "none"
            /\ sub[p].ticket \in Tickets
      BY <1>a DEF LinkInv, SubLinked, HeldInv, JobLinked
    <3>2. QED
      BY <2>1, <3>1 DEF LinkInv, SubLinked, Agree
  <2>2. QED
    BY <2>1 DEF SubLinked
<1>3. ASSUME NEW a \in Admins PROVE AdmLinked(a)'
  BY DEF LinkInv, AdmLinked, Agree
<1>4. QED
  BY <1>1, <1>2, <1>3 DEF LinkInv

LEMMA LiveStartsSound == LiveInit => LiveTypeOK /\ LinkInv
<1> SUFFICES ASSUME LiveInit PROVE LiveTypeOK /\ LinkInv
  OBVIOUS
<1>1. LiveTypeOK
  BY TypeInit, LiveConstants DEF LiveInit, LiveTypeOK
<1>2. LinkInv
  BY DEF LiveInit, QueueInit, LinkInv, HeldInv, JobLinked, SubLinked, AdmLinked,
     AbsentRow, IdleLocal, NoSubmission, IdleRequest
<1>3. QED
  BY <1>1, <1>2

(* A step inside the handler or the death of a processor is a step of the   *)
(* queue or none of it, and moves one processor only.                       *)
LEMMA ProcessorStepFrame ==
  ASSUME LiveTypeOK, LinkInv, NEW p \in Processors,
         SubmitStep(p) \/ ProcessorDies(p)
  PROVE  /\ HeldInv'
         /\ \A j \in JobIds : jobs'[j].status = "absent"
                              <=> jobs[j].status = "absent"
         /\ \A q \in Processors : q # p => UNCHANGED <<sub[q], prc[q]>>
         /\ UNCHANGED <<payload, secrets, env, adm, jobs, runs>>
         /\ prc' = prc \/ sub'[p].pc = "none"
<1>1. UNCHANGED queueVars \/ HandlerStep(p) \/ Crash(p)
  BY DEF SubmitStep, LoadTicket, LoadRaises, PostAccepted, PostDeclined,
     PostRaises, AnswerRaises, StoreTicket, StoreRaises, HandlerStep, ProcessorDies
<1>2. /\ HeldInv'
      /\ \A j \in JobIds : jobs'[j].status = "absent" <=> jobs[j].status = "absent"
  BY <1>1, RowsStay, LiveTypes DEF InnerStep, queueVars, LinkInv, HeldInv
<1>3. /\ \A q \in Processors : q # p => prc'[q] = prc[q]
      /\ UNCHANGED <<jobs, runs>>
  BY <1>1, LiveTypes DEF queueVars, HandlerStep, HandlerReturns, HandlerRaises,
     Settle, Crash
<1>4. \A q \in Processors : q # p => sub'[q] = sub[q]
  BY LiveTypes DEF SubmitStep, LoadTicket, LoadRaises, PostAccepted,
     PostDeclined, PostRaises, AnswerRaises, StoreTicket, StoreRaises,
     ProcessorDies, Submission
<1>5. UNCHANGED <<payload, secrets, env, adm>>
  BY DEF SubmitStep, LoadTicket, LoadRaises, PostAccepted, PostDeclined,
     PostRaises, AnswerRaises, StoreTicket, StoreRaises, ProcessorDies, ticketVars
<1>6. prc' = prc \/ sub'[p].pc = "none"
  BY LiveTypes DEF SubmitStep, LoadTicket, LoadRaises, PostAccepted,
     PostDeclined, PostRaises, AnswerRaises, StoreTicket, StoreRaises,
     ProcessorDies, NoSubmission, queueVars
<1>7. QED
  BY <1>2, <1>3, <1>4, <1>5, <1>6

(* What a processor in its handler has before it.                           *)
LEMMA InHandler ==
  ASSUME LiveTypeOK, LinkInv, NEW p \in Processors,
         prc[p].pc = "run" \/ sub[p].pc # "none"
  PROVE  /\ prc[p].pc = "run" /\ prc[p].job \in JobIds
         /\ payload[prc[p].job] \in Tickets
         /\ tickets[payload[prc[p].job]].status # "absent"
         /\ tickets[payload[prc[p].job]] \in TicketRows
         /\ sub[p].pc # "none" =>
              /\ sub[p].ticket = payload[prc[p].job]
              /\ Agree(sub[p].row, tickets[sub[p].ticket])
BY LiveTypes DEF LinkInv, SubLinked, HeldInv, JobLinked

(* An attempt that raises reached the venue only if its answer was lost.    *)
LEMMA RaiseOutcome ==
  ASSUME NEW p, PostRaises(p) \/ AnswerRaises(p)
  PROVE  /\ sub[p].pc = "post" /\ tickets' = tickets
         /\ orders' = orders \/ ("lost_answer" \in Faults /\ Receive(p))
BY DEF PostRaises, AnswerRaises

(* Each step of the handler, with its effect on the processor's own state.  *)
LEMMA HandlerEffects ==
  ASSUME LiveTypeOK, LinkInv, NEW p \in Processors
  PROVE  /\ LoadTicket(p) =>
              LET t == payload[prc[p].job]
                  sends == tickets[t].venue \in secrets /\ NetworkOn(p)
              IN /\ prc[p].pc = "run" /\ sub[p].pc = "none"
                 /\ sub'[p].pc = IF sends THEN "post" ELSE "store"
                 /\ sub'[p].ticket = t /\ sub'[p].row = tickets[t]
                 /\ sub'[p].ref = IF sends THEN OrderRef ELSE DryRef
                 /\ sub'[p].tries = 0
                 /\ sub' \in [Processors -> SubLocals]
                 /\ UNCHANGED <<ticketVars, queueVars>>
         /\ LoadRaises(p) =>
              /\ prc[p].pc = "run" /\ sub[p].pc = "none"
              /\ UNCHANGED <<ticketVars, sub>>
              /\ "save_error" \in Faults /\ HandlerRaises(p)
         /\ PostAccepted(p) \/ PostDeclined(p) =>
              /\ sub[p].pc = "post" /\ sub'[p].pc = "store"
              /\ sub'[p].ticket = sub[p].ticket /\ sub'[p].row = sub[p].row
              /\ sub'[p].ref \in {OrderRef, NoRef}
              /\ sub'[p].tries = sub[p].tries + 1
              /\ sub' \in [Processors -> SubLocals]
              /\ Receive(p) \/ (orders' = orders /\ sub'[p].ref = NoRef)
              /\ UNCHANGED <<tickets, queueVars>>
         /\ PostRaises(p) \/ AnswerRaises(p) =>
              /\ sub[p].pc = "post"
              /\ orders' = orders \/ ("lost_answer" \in Faults /\ Receive(p))
              /\ tickets' = tickets
              /\ sub' \in [Processors -> SubLocals]
              /\ \/ /\ sub'[p].pc = "post" /\ UNCHANGED queueVars
                    /\ sub'[p].ticket = sub[p].ticket /\ sub'[p].row = sub[p].row
                    /\ sub'[p].ref = sub[p].ref
                    /\ sub'[p].tries = sub[p].tries + 1
                    /\ sub[p].tries + 1 < Attempts(sub[p].row.venue)
                 \/ sub'[p] = NoSubmission /\ HandlerRaises(p)
         /\ StoreTicket(p) \/ StoreRaises(p) =>
              /\ sub[p].pc = "store" /\ sub'[p] = NoSubmission
              /\ sub' \in [Processors -> SubLocals]
              /\ WriteSubmitted(p) \/ tickets' = tickets
              /\ orders' = orders
              /\ \/ StoreTicket(p) /\ HandlerReturns(p)
                 \/ "save_error" \in Faults /\ HandlerRaises(p)
         /\ ProcessorDies(p) =>
              /\ sub'[p] = NoSubmission /\ UNCHANGED ticketVars
              /\ sub' \in [Processors -> SubLocals]
              /\ Crash(p)
<1> USE LiveTypes, LiveConstants
<1>a. sub \in [Processors -> SubLocals]
  OBVIOUS
<1>1. ASSUME LoadTicket(p)
      PROVE  LET t == payload[prc[p].job]
                 sends == tickets[t].venue \in secrets /\ NetworkOn(p)
             IN /\ prc[p].pc = "run" /\ sub[p].pc = "none"
                /\ sub'[p].pc = IF sends THEN "post" ELSE "store"
                /\ sub'[p].ticket = t /\ sub'[p].row = tickets[t]
                /\ sub'[p].ref = IF sends THEN OrderRef ELSE DryRef
                /\ sub'[p].tries = 0
                /\ sub' \in [Processors -> SubLocals]
                /\ UNCHANGED <<ticketVars, queueVars>>
  <2>1. payload[prc[p].job] \in Tickets /\ tickets[payload[prc[p].job]] \in TicketRows
    BY <1>1, InHandler DEF LoadTicket
  <2>2. QED
    BY <1>1, <1>a, <2>1 DEF LoadTicket, SubLocals, NetworkOn
<1>2. ASSUME PostAccepted(p) \/ PostDeclined(p)
      PROVE  /\ sub[p].pc = "post" /\ sub'[p].pc = "store"
             /\ sub'[p].ticket = sub[p].ticket /\ sub'[p].row = sub[p].row
             /\ sub'[p].ref \in {OrderRef, NoRef}
             /\ sub'[p].tries = sub[p].tries + 1
             /\ sub' \in [Processors -> SubLocals]
             /\ Receive(p) \/ (orders' = orders /\ sub'[p].ref = NoRef)
             /\ UNCHANGED <<tickets, queueVars>>
  <2> DEFINE new == [pc |-> "store", ticket |-> sub[p].ticket, row |-> sub[p].row,
                     ref |-> sub[p].ref, tries |-> sub[p].tries + 1]
  <2>1. PICK ref \in {OrderRef, NoRef} :
          /\ sub' = [Submission(p, "store", sub[p].tries + 1) EXCEPT ![p].ref = ref]
          /\ Receive(p) \/ (orders' = orders /\ ref = NoRef)
    BY <1>2 DEF PostAccepted, PostDeclined, AnswerRefs, ticketVars
  <2>2. /\ new \in SubLocals
        /\ Submission(p, "store", sub[p].tries + 1) = [sub EXCEPT ![p] = new]
    BY <1>a DEF Submission, SubLocals
  <2>3. sub' = [sub EXCEPT ![p] = [new EXCEPT !.ref = ref]]
    BY <1>a, <2>1, <2>2
  <2>4. [new EXCEPT !.ref = ref] =
          [pc |-> "store", ticket |-> sub[p].ticket, row |-> sub[p].row,
           ref |-> ref, tries |-> sub[p].tries + 1]
    OBVIOUS
  <2>5. [new EXCEPT !.ref = ref] \in SubLocals
    BY <1>a, <2>4 DEF SubLocals
  <2>6. /\ sub'[p] = [new EXCEPT !.ref = ref]
        /\ sub' \in [Processors -> SubLocals]
    BY <1>a, <2>3, <2>5
  <2>7. QED
    BY <1>2, <2>1, <2>4, <2>6 DEF PostAccepted, PostDeclined, ticketVars
<1>3. ASSUME PostRaises(p) \/ AnswerRaises(p)
      PROVE  /\ sub[p].pc = "post"
             /\ orders' = orders \/ ("lost_answer" \in Faults /\ Receive(p))
             /\ tickets' = tickets
             /\ sub' \in [Processors -> SubLocals]
             /\ \/ /\ sub'[p].pc = "post" /\ UNCHANGED queueVars
                   /\ sub'[p].ticket = sub[p].ticket /\ sub'[p].row = sub[p].row
                   /\ sub'[p].ref = sub[p].ref
                   /\ sub'[p].tries = sub[p].tries + 1
                   /\ sub[p].tries + 1 < Attempts(sub[p].row.venue)
                \/ sub'[p] = NoSubmission /\ HandlerRaises(p)
  <2>1. /\ sub[p].pc = "post" /\ tickets' = tickets
        /\ orders' = orders \/ ("lost_answer" \in Faults /\ Receive(p))
    BY <1>3, RaiseOutcome
  <2>2. CASE sub' = [sub EXCEPT ![p] = NoSubmission] /\ HandlerRaises(p)
    BY <1>a, <2>1, <2>2
  <2>3. CASE /\ sub[p].tries + 1 < Attempts(sub[p].row.venue)
             /\ sub' = Submission(p, "post", sub[p].tries + 1)
             /\ UNCHANGED queueVars
    <3> DEFINE new == [pc |-> "post", ticket |-> sub[p].ticket,
                       row |-> sub[p].row, ref |-> sub[p].ref,
                       tries |-> sub[p].tries + 1]
    <3>1. new \in SubLocals
      BY <1>a DEF SubLocals
    <3>2. sub' = [sub EXCEPT ![p] = new]
      BY <2>3 DEF Submission
    <3>3. sub'[p] = new /\ sub' \in [Processors -> SubLocals]
      BY <1>a, <3>1, <3>2
    <3>4. QED
      BY <2>1, <2>3, <3>3
  <2>4. QED
    BY <1>3, <2>2, <2>3 DEF PostRaises, AnswerRaises
<1>4. ASSUME StoreTicket(p) \/ StoreRaises(p)
      PROVE  /\ sub[p].pc = "store" /\ sub'[p] = NoSubmission
             /\ sub' \in [Processors -> SubLocals]
             /\ WriteSubmitted(p) \/ tickets' = tickets
             /\ orders' = orders
             /\ \/ StoreTicket(p) /\ HandlerReturns(p)
                \/ "save_error" \in Faults /\ HandlerRaises(p)
  BY <1>4, <1>a DEF StoreTicket, StoreRaises
<1>5. ASSUME ProcessorDies(p)
      PROVE  /\ sub'[p] = NoSubmission /\ UNCHANGED ticketVars
             /\ sub' \in [Processors -> SubLocals]
             /\ Crash(p)
  BY <1>5, <1>a DEF ProcessorDies
<1>6. LoadRaises(p) =>
        /\ prc[p].pc = "run" /\ sub[p].pc = "none"
        /\ UNCHANGED <<ticketVars, sub>>
        /\ "save_error" \in Faults /\ HandlerRaises(p)
  BY DEF LoadRaises
<1>7. QED
  BY <1>1, <1>2, <1>3, <1>4, <1>5, <1>6

(* A change of settings moves no processor, and a handler at work keeps the *)
(* settings its process was started with.                                   *)
LEMMA SettingsFrame ==
  ASSUME LiveTypeOK, LinkInv, SettingsStep
  PROVE  /\ UNCHANGED <<tickets, payload, orders, adm, sub, jobs, letters, runs, prc>>
         /\ secrets' \in SUBSET Venues /\ env' \in Settings
         /\ \A p \in Processors : sub[p].pc = "post" /\ NetworkOn(p) => NetworkOn(p)'
<1>a. /\ secrets \in SUBSET Venues /\ env \in Settings
      /\ \A p \in Processors : sub[p].pc = "post" => prc[p].pc # "idle"
  BY DEF LiveTypeOK, LinkInv, SubLinked
<1>1. ASSUME NEW v \in Venues, SecretsChange(v)
      PROVE  /\ UNCHANGED <<tickets, payload, orders, adm, sub, jobs, letters, runs, prc>>
             /\ secrets' \in SUBSET Venues /\ env' = env
  BY <1>1, <1>a DEF SecretsChange, queueVars
<1>2. ASSUME NEW processors \in SUBSET Processors, NEW trading \in Switches,
             Restart(processors, trading)
      PROVE  /\ UNCHANGED <<tickets, payload, orders, adm, sub, jobs, letters, runs, prc>>
             /\ secrets' = secrets /\ env' \in Settings
             /\ \A p \in Processors : \/ prc[p].pc = "idle"
                                       \/ env'.network[p] = env.network[p]
  <2>1. PICK enabled \in Switches :
          env' = [trading |-> trading,
                  network |-> [p \in Processors |->
                                 IF p \in processors THEN enabled
                                 ELSE env.network[p]]]
    BY <1>2 DEF Restart
  <2>2. QED
    BY <1>2, <1>a, <2>1 DEF Restart, Settings, queueVars
<1>3. ASSUME ApiRestarts \/ \E p \in Workers : WorkerRestarts(p)
      PROVE  \E processors \in SUBSET Processors, trading \in Switches :
               Restart(processors, trading)
  BY <1>3, <1>a, QueueAssumption DEF ApiRestarts, WorkerRestarts, Settings
<1>4. QED
  BY <1>1, <1>2, <1>3, <1>a DEF SettingsStep, NetworkOn

(* Each step of a request, with its effect on the request's own state.      *)
LEMMA RequestEffects ==
  ASSUME LiveTypeOK, LinkInv, NEW a \in Admins, AdminStep(a)
  PROVE  /\ adm' \in [Admins -> AdmLocals]
         /\ \A b \in Admins : b # a => adm'[b] = adm[b]
         /\ UNCHANGED <<secrets, env, orders, sub, prc, runs, letters>>
         /\ \/ /\ adm'[a].pc = "idle" /\ tickets' = tickets
               /\ UNCHANGED <<payload, jobs>> /\ "api_crash" \in Faults
            \/ /\ adm[a].pc = "save" /\ adm'[a].pc = "idle"
               /\ tickets' = [tickets EXCEPT ![adm[a].ticket] = adm[a].row]
               /\ UNCHANGED <<payload, jobs>>
            \/ /\ adm[a].pc = "approve" /\ adm'[a].pc = "save"
               /\ adm'[a].ticket = adm[a].ticket
               /\ adm'[a].row = [adm[a].row EXCEPT !.status = "blocked"]
               /\ UNCHANGED <<tickets, payload, jobs>>
            \/ \E j \in JobIds :
                 /\ adm[a].pc = "approve" /\ adm'[a].pc = "save"
                 /\ adm'[a].ticket = adm[a].ticket
                 /\ adm'[a].row =
                      [adm[a].row EXCEPT !.status = "queued", !.ref = j]
                 /\ adm[a].row.limitOk /\ env.trading
                 /\ payload' = [payload EXCEPT ![j] = adm[a].ticket]
                 /\ jobs[j].status = "absent" /\ jobs'[j].status = "queued"
                 /\ \A i \in JobIds : i # j => jobs'[i] = jobs[i]
                 /\ tickets' = tickets
            \/ \E t \in Tickets :
                 /\ adm[a].pc = "idle" /\ adm'[a].pc = "approve"
                 /\ adm'[a].ticket = t /\ adm'[a].row = tickets[t]
                 /\ tickets[t].status \in Approvable
                 /\ UNCHANGED <<tickets, payload, jobs>>
            \/ \E t \in Tickets :
                 /\ adm[a].pc = "idle" /\ adm'[a].pc = "save"
                 /\ adm'[a].ticket = t
                 /\ adm'[a].row = [tickets[t] EXCEPT !.status = "rejected"]
                 /\ tickets[t].status # "absent"
                 /\ UNCHANGED <<tickets, payload, jobs>>
<1> DEFINE Moved == /\ adm' \in [Admins -> AdmLocals]
                    /\ \A b \in Admins : b # a => adm'[b] = adm[b]
                    /\ UNCHANGED <<secrets, env, orders, sub, prc, runs, letters>>
<1>a. /\ adm \in [Admins -> AdmLocals] /\ tickets \in [Tickets -> TicketRows]
      /\ jobs \in [JobIds -> Rows] /\ adm[a].row \in TicketRows
      /\ adm[a].pc # "idle" => adm[a].ticket \in Tickets
  BY LiveTypes DEF LinkInv, AdmLinked
<1>b. ASSUME NEW pc \in {"approve", "save"}, NEW t \in Tickets,
             NEW row \in TicketRows
      PROVE  [pc |-> pc, ticket |-> t, row |-> row] \in AdmLocals
  BY DEF AdmLocals
<1>1. CASE RequestDies(a)
  BY <1>1, <1>a, LiveConstants DEF RequestDies, IdleRequest, queueVars
<1>2. CASE TicketSave(a)
  BY <1>2, <1>a, LiveConstants DEF TicketSave, IdleRequest, queueVars
<1>3. CASE ApproveBlock(a)
  <2> DEFINE row == [adm[a].row EXCEPT !.status = "blocked"]
  <2>1. row \in TicketRows
    BY <1>a, TicketUpdates, StatusNames
  <2>2. /\ adm' = [adm EXCEPT ![a] = [pc |-> "save", ticket |-> adm[a].ticket,
                                      row |-> row]]
        /\ adm[a].pc = "approve"
        /\ UNCHANGED <<tickets, payload, jobs>>
        /\ UNCHANGED <<secrets, env, orders, sub, prc, runs, letters>>
    BY <1>3 DEF ApproveBlock, queueVars
  <2> HIDE DEF row
  <2>3. Moved /\ adm'[a] = [pc |-> "save", ticket |-> adm[a].ticket, row |-> row]
    BY <1>a, <1>b, <2>1, <2>2
  <2>4. QED
    BY <2>2, <2>3 DEF row
<1>4. ASSUME NEW j \in JobIds, ApproveEnqueue(a, j)
      PROVE  /\ Moved
             /\ adm[a].pc = "approve" /\ adm'[a].pc = "save"
             /\ adm'[a].ticket = adm[a].ticket
             /\ adm'[a].row = [adm[a].row EXCEPT !.status = "queued", !.ref = j]
             /\ adm[a].row.limitOk /\ env.trading
             /\ payload' = [payload EXCEPT ![j] = adm[a].ticket]
             /\ jobs[j].status = "absent" /\ jobs'[j].status = "queued"
             /\ \A i \in JobIds : i # j => jobs'[i] = jobs[i]
             /\ tickets' = tickets
  <2> DEFINE row == [adm[a].row EXCEPT !.status = "queued", !.ref = j]
  <2>1. row \in TicketRows
    BY <1>a, TicketUpdates, StatusNames, LiveConstants
  <2>2. /\ adm' = [adm EXCEPT ![a] = [pc |-> "save", ticket |-> adm[a].ticket,
                                      row |-> row]]
        /\ adm[a].pc = "approve" /\ adm[a].row.limitOk /\ env.trading
        /\ payload' = [payload EXCEPT ![j] = adm[a].ticket]
        /\ UNCHANGED <<tickets, secrets, env, orders, sub>>
    BY <1>4 DEF ApproveEnqueue, GatesOpen
  <2> HIDE DEF row
  <2>3. PICK n \in Priorities : Enqueue(j, "execution_submit", n)
    BY <1>4 DEF ApproveEnqueue
  <2>4. /\ jobs[j].status = "absent" /\ jobs'[j].status = "queued"
        /\ \A i \in JobIds : i # j => jobs'[i] = jobs[i]
        /\ UNCHANGED <<prc, runs, letters>>
    BY <2>3, <1>a DEF Enqueue, NewRow
  <2>5. /\ adm' \in [Admins -> AdmLocals]
        /\ \A b \in Admins : b # a => adm'[b] = adm[b]
        /\ adm'[a] = [pc |-> "save", ticket |-> adm[a].ticket, row |-> row]
    BY <1>a, <1>b, <2>1, <2>2
  <2>6. QED
    BY <2>2, <2>4, <2>5 DEF row
<1>5. ASSUME NEW t \in Tickets, ApproveRead(a, t)
      PROVE  /\ Moved
             /\ adm[a].pc = "idle" /\ adm'[a].pc = "approve"
             /\ adm'[a].ticket = t /\ adm'[a].row = tickets[t]
             /\ tickets[t].status \in Approvable
             /\ UNCHANGED <<tickets, payload, jobs>>
  BY <1>5, <1>a, <1>b DEF ApproveRead, queueVars
<1>6. ASSUME NEW t \in Tickets, RejectRead(a, t)
      PROVE  /\ Moved
             /\ adm[a].pc = "idle" /\ adm'[a].pc = "save"
             /\ adm'[a].ticket = t
             /\ adm'[a].row = [tickets[t] EXCEPT !.status = "rejected"]
             /\ tickets[t].status # "absent"
             /\ UNCHANGED <<tickets, payload, jobs>>
  <2> DEFINE row == [tickets[t] EXCEPT !.status = "rejected"]
  <2>1. row \in TicketRows
    BY <1>a, TicketUpdates, StatusNames
  <2>2. /\ adm' = [adm EXCEPT ![a] = [pc |-> "save", ticket |-> t, row |-> row]]
        /\ adm[a].pc = "idle" /\ tickets[t].status # "absent"
        /\ UNCHANGED <<tickets, payload, jobs>>
        /\ UNCHANGED <<secrets, env, orders, sub, prc, runs, letters>>
    BY <1>6 DEF RejectRead, queueVars
  <2> HIDE DEF row
  <2>3. Moved /\ adm'[a] = [pc |-> "save", ticket |-> t, row |-> row]
    BY <1>a, <1>b, <2>1, <2>2
  <2>4. QED
    BY <2>2, <2>3 DEF row
<1>7. QED
  BY <1>1, <1>2, <1>3, <1>4, <1>5, <1>6 DEF AdminStep

LEMMA LiveTypeStep ==
  ASSUME LiveTypeOK, LinkInv, [LiveNext]_liveVars PROVE LiveTypeOK'
<1> DEFINE Rest == /\ tickets' \in [Tickets -> TicketRows]
                   /\ payload' \in [JobIds -> Tickets \cup {"none"}]
                   /\ secrets' \in SUBSET Venues
                   /\ env' \in Settings
                   /\ orders' \in [JobIds -> Nat]
                   /\ adm' \in [Admins -> AdmLocals]
                   /\ sub' \in [Processors -> SubLocals]
<1>a. /\ tickets \in [Tickets -> TicketRows]
      /\ payload \in [JobIds -> Tickets \cup {"none"}]
      /\ secrets \in SUBSET Venues
      /\ env \in Settings
      /\ orders \in [JobIds -> Nat]
      /\ adm \in [Admins -> AdmLocals]
      /\ sub \in [Processors -> SubLocals]
  BY DEF LiveTypeOK
<1>q. QueueTypeOK'
  BY StepOfQueue, TypeStep, LiveTypes
<1>1. ASSUME NEW t \in Tickets, NEW v \in Traded, NEW ok \in BOOLEAN,
             CreateTicket(t, v, ok)
      PROVE  Rest
  <2>1. [status |-> "pending_approval", venue |-> v, limitOk |-> ok,
         ref |-> NoRef] \in TicketRows
    BY LiveConstants, StatusNames, LiveAssumption DEF TicketRows, Venues
  <2>2. QED
    BY <1>1, <1>a, <2>1 DEF CreateTicket
<1>2. ASSUME SettingsStep PROVE Rest
  BY <1>2, <1>a, SettingsFrame
<1>3. ASSUME NEW a \in Admins, AdminStep(a) PROVE Rest
  <2>1. adm[a].row \in TicketRows /\ (adm[a].pc # "idle" => adm[a].ticket \in Tickets)
    BY LiveTypes DEF LinkInv, AdmLinked
  <2>2. /\ adm' \in [Admins -> AdmLocals]
        /\ UNCHANGED <<secrets, env, orders, sub>>
    BY <1>3, RequestEffects
  <2>3. payload' \in [JobIds -> Tickets \cup {"none"}]
    <3>1. \/ payload' = payload
          \/ \E j \in JobIds : /\ adm[a].pc = "approve"
                               /\ payload' = [payload EXCEPT ![j] = adm[a].ticket]
      BY <1>3, RequestEffects
    <3>2. QED
      BY <1>a, <2>1, <3>1
  <2>4. tickets' \in [Tickets -> TicketRows]
    BY <1>3, <1>a, <2>1, RequestEffects
  <2>5. QED
    BY <1>a, <2>2, <2>3, <2>4
<1>4. ASSUME NEW p \in Processors, SubmitStep(p) \/ ProcessorDies(p) PROVE Rest
  <2>1. UNCHANGED <<payload, secrets, env, adm>>
    BY <1>4, ProcessorStepFrame
  <2>2. sub' \in [Processors -> SubLocals]
    BY <1>4, <1>a, HandlerEffects DEF SubmitStep
  <2>3. orders' \in [JobIds -> Nat]
    <3>1. orders' = orders \/ Receive(p)
      BY <1>4, HandlerEffects DEF SubmitStep, ticketVars
    <3>2. QED
      BY <1>a, <3>1 DEF Receive
  <2>4. tickets' \in [Tickets -> TicketRows]
    <3>1. tickets' = tickets \/ (WriteSubmitted(p) /\ sub[p].pc = "store")
      BY <1>4, HandlerEffects DEF SubmitStep, ticketVars
    <3>2. ASSUME WriteSubmitted(p), sub[p].pc = "store"
          PROVE  tickets' \in [Tickets -> TicketRows]
      <4>1. sub[p].row \in TicketRows /\ sub[p].ref \in Refs
        BY LiveTypes
      <4>2. [sub[p].row EXCEPT !.status = "submitted", !.ref = sub[p].ref]
              \in TicketRows
        <5>1. "submitted" \in TicketStatuses
          BY StatusNames
        <5>2. QED
          BY <4>1, <5>1 DEF TicketRows
      <4>3. QED
        BY <1>a, <3>2, <4>2 DEF WriteSubmitted
    <3>3. QED
      BY <1>a, <3>1, <3>2
  <2>5. QED
    BY <1>a, <2>1, <2>2, <2>3, <2>4
<1>5. ASSUME UNCHANGED <<tickets, payload, secrets, env, orders, adm, sub>>
      PROVE  Rest
  BY <1>5, <1>a
<1> HIDE DEF Rest
<1>6. ASSUME UNCHANGED liveVars PROVE Rest
  <2>1. UNCHANGED <<tickets, payload, secrets, env, orders, adm, sub>>
    BY <1>6 DEF liveVars
  <2>2. QED
    BY <1>5, <2>1
<1>7. Rest
  BY <1>1, <1>2, <1>3, <1>4, <1>5, <1>6
     DEF LiveNext, SettingsStep, ticketVars
<1>8. QED
  BY <1>q, <1>7 DEF LiveTypeOK, Rest

(* A step of the queue alone moves no processor that is in its handler.     *)
LEMMA QueueOnlyFrame ==
  ASSUME LiveTypeOK, LinkInv, UNCHANGED <<ticketVars, sub>>,
         \/ \E j \in JobIds : BackoffElapses(j)
         \/ \E p \in Processors : QueueStep(p)
  PROVE  /\ HeldInv'
         /\ \A j \in JobIds : jobs'[j].status = "absent"
                              <=> jobs[j].status = "absent"
         /\ \A p \in Processors : prc'[p] = prc[p] \/ prc[p].pc # "run"
         /\ \A p \in Processors : prc[p].pc # "run" => sub[p].pc = "none"
         /\ UNCHANGED <<tickets, payload, secrets, env, orders, adm, sub>>
<1>1. /\ HeldInv'
      /\ \A j \in JobIds : jobs'[j].status = "absent" <=> jobs[j].status = "absent"
  BY RowsStay, LiveTypes DEF InnerStep, LinkInv
<1>2. \A p \in Processors : prc'[p] = prc[p] \/ prc[p].pc # "run"
  <2>1. ASSUME NEW p \in Processors, QueueStep(p), NEW q \in Processors
        PROVE  prc'[q] = prc[q] \/ prc[q].pc # "run"
    BY <2>1, QueueStepFrame, LiveTypes
  <2>2. QED
    BY <2>1 DEF BackoffElapses
<1>3. \A p \in Processors : prc[p].pc # "run" => sub[p].pc = "none"
  BY DEF LinkInv, SubLinked
<1>4. QED
  BY <1>1, <1>2, <1>3 DEF ticketVars

LEMMA LinkStep ==
  ASSUME LiveTypeOK, LinkInv, [LiveNext]_liveVars PROVE LinkInv'
<1>a. /\ tickets \in [Tickets -> TicketRows]
      /\ payload \in [JobIds -> Tickets \cup {"none"}]
      /\ orders \in [JobIds -> Nat]
      /\ adm \in [Admins -> AdmLocals]
      /\ sub \in [Processors -> SubLocals]
      /\ \A p \in Processors : prc[p].pc # "idle" => prc[p].job \in JobIds
      /\ "none" \notin Tickets
  BY LiveTypes, LiveConstants
<1>h. HeldInv /\ (\A p \in Processors : SubLinked(p)) /\ \A a \in Admins : AdmLinked(a)
  BY DEF LinkInv
<1>1. ASSUME NEW t \in Tickets, NEW v \in Traded, NEW ok \in BOOLEAN,
             CreateTicket(t, v, ok)
      PROVE  LinkInv'
  <2>1. /\ UNCHANGED <<payload, secrets, env, orders, adm, sub, jobs, prc>>
        /\ \A s \in Tickets : tickets'[s] = tickets[s] \/ tickets[s].status = "absent"
    BY <1>1, <1>a DEF CreateTicket, queueVars
  <2>2. HeldInv'
    BY <1>h, <2>1 DEF HeldInv
  <2>3. QED
    BY <2>1, <2>2, LinksKept DEF NetworkOn
<1>2. ASSUME SettingsStep PROVE LinkInv'
  <2>1. /\ UNCHANGED <<tickets, payload, orders, adm, sub, jobs, prc>>
        /\ \A p \in Processors : sub[p].pc = "post" /\ NetworkOn(p) => NetworkOn(p)'
    BY <1>2, SettingsFrame
  <2>2. HeldInv'
    BY <1>h, <2>1 DEF HeldInv
  <2>3. QED
    BY <2>1, <2>2, LinksKept DEF NetworkOn
<1>3. ASSUME NEW a \in Admins, AdminStep(a) PROVE LinkInv'
  <2>1. /\ UNCHANGED <<secrets, env, orders, sub, prc, runs, letters>>
        /\ \A b \in Admins : b # a => adm'[b] = adm[b]
    BY <1>3, RequestEffects
  <2>2. adm[a].row \in TicketRows /\ AdmLinked(a)
    BY <1>h, LiveTypes
  <2>3. CASE UNCHANGED <<tickets, payload, jobs>> /\
             (adm'[a].pc = "idle" \/ AdmLinked(a)')
    <3>1. HeldInv'
      BY <1>h, <2>1, <2>3 DEF HeldInv
    <3>2. QED
      BY <2>1, <2>3, <3>1, LinksKept DEF NetworkOn
  <2>4. CASE /\ adm[a].pc = "save" /\ adm'[a].pc = "idle"
             /\ tickets' = [tickets EXCEPT ![adm[a].ticket] = adm[a].row]
             /\ UNCHANGED <<payload, jobs>>
    <3>1. HeldInv'
      BY <1>h, <2>1, <2>4 DEF HeldInv
    <3>2. \A t \in Tickets : tickets'[t] = tickets[t] \/ Agree(tickets'[t], tickets[t])
      BY <1>a, <2>2, <2>4 DEF AdmLinked
    <3>3. QED
      BY <2>1, <2>4, <3>1, <3>2, LinksKept DEF NetworkOn
  <2>5. ASSUME NEW j \in JobIds,
               adm[a].pc = "approve", adm'[a].ticket = adm[a].ticket,
               adm'[a].row = [adm[a].row EXCEPT !.status = "queued", !.ref = j],
               adm[a].row.limitOk,
               payload' = [payload EXCEPT ![j] = adm[a].ticket],
               jobs[j].status = "absent", jobs'[j].status = "queued",
               \A i \in JobIds : i # j => jobs'[i] = jobs[i],
               tickets' = tickets
        PROVE  LinkInv'
    <3>1. payload[j] = "none" /\ adm[a].ticket \in Tickets
      <4>1. JobLinked(j)
        BY DEF LinkInv
      <4>2. QED
        BY <2>2, <2>5, <4>1 DEF JobLinked, AdmLinked
    <3>2. HeldInv'
      BY <1>a, <1>h, <2>1, <2>5 DEF HeldInv
    <3>3. \A i \in JobIds : JobLinked(i)'
      BY <1>a, <2>1, <2>2, <2>5, <3>1 DEF LinkInv, JobLinked, AdmLinked, Agree
    <3>4. \A p \in Processors : SubLinked(p)'
      <4>1. ASSUME NEW p \in Processors, sub[p].pc # "none" PROVE prc[p].job # j
        BY <1>h, <2>5, <4>1 DEF SubLinked, HeldInv
      <4>2. QED
        BY <1>a, <1>h, <2>1, <2>5, <4>1 DEF SubLinked, NetworkOn
    <3>5. Agree(adm'[a].row, adm[a].row)
      BY <2>2, <2>5 DEF AdmLinked, Agree, TicketRows
    <3>6. \A b \in Admins : AdmLinked(b)'
      <4>1. AdmLinked(a)'
        BY <2>2, <2>5, <3>1, <3>5 DEF AdmLinked, Agree
      <4>2. ASSUME NEW b \in Admins, b # a PROVE AdmLinked(b)'
        BY <1>h, <2>1, <2>5, <4>2 DEF AdmLinked
      <4>3. QED
        BY <4>1, <4>2
    <3>7. QED
      BY <3>2, <3>3, <3>4, <3>6 DEF LinkInv
  <2>6. CASE /\ adm[a].pc = "approve" /\ adm'[a].ticket = adm[a].ticket
             /\ adm'[a].row = [adm[a].row EXCEPT !.status = "blocked"]
             /\ UNCHANGED <<tickets, payload, jobs>>
    <3>1. Agree(adm'[a].row, adm[a].row)
      BY <2>2, <2>6 DEF AdmLinked, Agree, TicketRows
    <3>2. AdmLinked(a)'
      BY <2>2, <2>6, <3>1 DEF AdmLinked, Agree
    <3>3. QED
      BY <2>3, <2>6, <3>2
  <2>7. ASSUME NEW t \in Tickets, adm'[a].ticket = t, adm'[a].row = tickets[t],
               tickets[t].status \in Approvable,
               UNCHANGED <<tickets, payload, jobs>>
        PROVE  LinkInv'
    BY <2>3, <2>7 DEF AdmLinked, Agree, Approvable
  <2>8. ASSUME NEW t \in Tickets, adm'[a].ticket = t,
               adm'[a].row = [tickets[t] EXCEPT !.status = "rejected"],
               tickets[t].status # "absent",
               UNCHANGED <<tickets, payload, jobs>>
        PROVE  LinkInv'
    <3>1. Agree(adm'[a].row, tickets[t])
      BY <1>a, <2>8 DEF Agree, TicketRows
    <3>2. QED
      BY <2>3, <2>8, <3>1 DEF AdmLinked
  <2>9. QED
    BY <1>3, <2>3, <2>4, <2>5, <2>6, <2>7, <2>8, RequestEffects
<1>4. ASSUME NEW p \in Processors, SubmitStep(p) \/ ProcessorDies(p)
      PROVE  LinkInv'
  <2>1. /\ HeldInv'
        /\ \A j \in JobIds : jobs'[j].status = "absent" <=> jobs[j].status = "absent"
        /\ \A q \in Processors : q # p => UNCHANGED <<sub[q], prc[q]>>
        /\ UNCHANGED <<payload, env, adm>>
    BY <1>4, ProcessorStepFrame
  <2>2. \A j \in JobIds : orders'[j] = orders[j] \/ payload[j] # "none"
    <3>1. orders' = orders \/ (Receive(p) /\ sub[p].pc = "post")
      BY <1>4, HandlerEffects DEF SubmitStep, ticketVars
    <3>2. ASSUME Receive(p), sub[p].pc = "post", NEW j \in JobIds
          PROVE  orders'[j] = orders[j] \/ payload[j] # "none"
      BY <1>a, <3>2, InHandler DEF Receive
    <3>3. QED
      BY <3>1, <3>2
  <2>3. \A t \in Tickets : tickets'[t] = tickets[t] \/ Agree(tickets'[t], tickets[t])
    <3>1. tickets' = tickets \/ (WriteSubmitted(p) /\ sub[p].pc = "store")
      BY <1>4, HandlerEffects DEF SubmitStep, ticketVars
    <3>2. ASSUME WriteSubmitted(p), sub[p].pc = "store"
          PROVE  \A t \in Tickets : \/ tickets'[t] = tickets[t]
                                    \/ Agree(tickets'[t], tickets[t])
      <4> DEFINE row == [sub[p].row EXCEPT !.status = "submitted",
                                           !.ref = sub[p].ref]
      <4>1. /\ sub[p].row \in TicketRows /\ sub[p].ref \in Refs
            /\ sub[p].ticket \in Tickets
            /\ Agree(sub[p].row, tickets[sub[p].ticket])
        BY <3>2, LiveTypes, InHandler
      <4>2. Agree(row, sub[p].row)
        BY <4>1 DEF Agree, TicketRows
      <4>3. tickets' = [tickets EXCEPT ![sub[p].ticket] = row]
        BY <3>2 DEF WriteSubmitted
      <4> HIDE DEF row
      <4>4. QED
        BY <1>a, <4>1, <4>2, <4>3 DEF Agree
    <3>3. QED
      BY <3>1, <3>2
  <2>4. sub'[p].pc = "none" \/ SubLinked(p)'
    <3>1. CASE LoadTicket(p)
      <4>1. /\ prc'[p] = prc[p] /\ tickets' = tickets /\ payload' = payload
            /\ env' = env /\ prc[p].pc = "run"
            /\ sub'[p].ticket = payload[prc[p].job]
            /\ sub'[p].row = tickets[payload[prc[p].job]]
            /\ sub'[p].pc = "post" => NetworkOn(p)
        BY <3>1, HandlerEffects DEF ticketVars, queueVars
      <4>2. QED
        BY <4>1, InHandler DEF SubLinked, Agree, NetworkOn
    <3>2. CASE /\ sub[p].pc = "post" /\ UNCHANGED <<prc, tickets>>
               /\ sub'[p].ticket = sub[p].ticket /\ sub'[p].row = sub[p].row
      BY <1>h, <2>1, <3>2 DEF SubLinked, NetworkOn
    <3>r. CASE LoadRaises(p)
      BY <3>r, HandlerEffects
    <3>3. QED
      BY <1>4, <3>1, <3>2, <3>r, HandlerEffects DEF SubmitStep, NoSubmission, queueVars
  <2>5. QED
    BY <2>1, <2>2, <2>3, <2>4, LinksKept DEF NetworkOn
<1>5. ASSUME UNCHANGED <<ticketVars, sub>>,
             \/ \E j \in JobIds : BackoffElapses(j)
             \/ \E p \in Processors : QueueStep(p)
      PROVE  LinkInv'
  <2>1. \A p \in Processors : UNCHANGED <<sub[p], prc[p]>> \/ sub'[p].pc = "none"
    BY <1>5, QueueOnlyFrame
  <2>2. QED
    BY <1>5, <2>1, QueueOnlyFrame, LinksKept DEF NetworkOn
<1>6. CASE UNCHANGED liveVars
  <2>1. HeldInv'
    BY <1>h, <1>6 DEF HeldInv, liveVars
  <2>2. QED
    BY <1>6, <2>1, LinksKept DEF NetworkOn, liveVars
<1>7. QED
  BY <1>1, <1>2, <1>3, <1>4, <1>5, <1>6 DEF LiveNext, SettingsStep

(* The tables and the local states of requests and processors keep their    *)
(* types: what a handler reads is the row of a ticket that exists.          *)
THEOREM LiveTypeCorrect == LiveSpec => []LiveTypeOK
<1>1. LiveTypeOK /\ LinkInv /\ [LiveNext]_liveVars => (LiveTypeOK /\ LinkInv)'
  BY LiveTypeStep, LinkStep
<1>2. QED
  BY LiveStartsSound, <1>1, PTL DEF LiveSpec

LEMMA LinksHold == LiveSpec => [](LiveTypeOK /\ LinkInv)
<1>1. LiveTypeOK /\ LinkInv /\ [LiveNext]_liveVars => (LiveTypeOK /\ LinkInv)'
  BY LiveTypeStep, LinkStep
<1>2. QED
  BY LiveStartsSound, <1>1, PTL DEF LiveSpec

(* What one step may send, and what it may not once live trading is off     *)
(* and the queue has run dry.                                               *)
LEMMA GateStep ==
  ASSUME LiveTypeOK, LinkInv, [LiveNext]_liveVars
  PROVE  /\ \A j \in JobIds : orders'[j] # orders[j] =>
              /\ tickets[payload[j]].limitOk
              /\ \E p \in Processors : prc[p].job = j /\ env.network[p]
         /\ Disarmed => orders' = orders /\ (Disarmed' \/ env'.trading)
<1> DEFINE Sent == \A j \in JobIds : orders'[j] # orders[j] =>
                     /\ tickets[payload[j]].limitOk
                     /\ \E p \in Processors : prc[p].job = j /\ NetworkOn(p)
           Quiet == Disarmed => orders' = orders /\ (Disarmed' \/ env'.trading)
           Goal == Sent /\ Quiet
<1>a. /\ orders \in [JobIds -> Nat] /\ jobs \in [JobIds -> Rows]
      /\ \A p \in Processors : sub[p].pc # "none" => prc[p].pc = "run"
  BY LiveTypes DEF LinkInv, SubLinked
<1>1. ASSUME UNCHANGED <<orders, env, jobs, prc>> PROVE Goal
  BY <1>1 DEF Disarmed
<1>2. ASSUME NEW t \in Tickets, NEW v \in Traded, NEW ok \in BOOLEAN,
             CreateTicket(t, v, ok)
      PROVE  Goal
  BY <1>1, <1>2 DEF CreateTicket, queueVars
<1>3. ASSUME SettingsStep PROVE Goal
  <2>1. UNCHANGED <<orders, jobs, prc>>
    BY <1>3, SettingsFrame
  <2>2. QED
    BY <2>1 DEF Disarmed
<1>4. ASSUME NEW a \in Admins, AdminStep(a) PROVE Goal
  <2>1. UNCHANGED <<env, orders, prc>> /\ (jobs' = jobs \/ env.trading)
    BY <1>4, RequestEffects
  <2>2. QED
    BY <1>1, <2>1 DEF Disarmed
<1>5. ASSUME NEW p \in Processors, SubmitStep(p) \/ ProcessorDies(p) PROVE Goal
  <2>1. orders' = orders \/ (Receive(p) /\ sub[p].pc = "post")
    BY <1>5, HandlerEffects DEF SubmitStep, ticketVars
  <2>2. Sent
    <3>1. ASSUME Receive(p), sub[p].pc = "post" PROVE Sent
      <4>1. /\ prc[p].job \in JobIds /\ NetworkOn(p)
            /\ tickets[payload[prc[p].job]].limitOk
        BY <3>1, InHandler, LiveConstants DEF LinkInv, SubLinked, JobLinked
      <4>2. \A j \in JobIds : orders'[j] # orders[j] => j = prc[p].job
        BY <1>a, <3>1, <4>1 DEF Receive
      <4>3. QED
        BY <4>1, <4>2
    <3>2. QED
      BY <2>1, <3>1
  <2>3. prc[p].pc # "idle"
    BY <1>5, <1>a, HandlerEffects DEF SubmitStep, ProcessorDies, Crash
  <2>4. QED
    BY <2>2, <2>3 DEF Disarmed
<1>6. ASSUME NEW j \in JobIds, BackoffElapses(j), UNCHANGED <<ticketVars, sub>>
      PROVE  Goal
  <2>1. orders' = orders /\ jobs[j].status = "queued"
    BY <1>6 DEF BackoffElapses, ticketVars
  <2>2. QED
    BY <2>1 DEF Disarmed
<1>7. ASSUME NEW p \in Processors, QueueStep(p), UNCHANGED <<ticketVars, sub>>
      PROVE  Goal
  <2>1. orders' = orders
    BY <1>7 DEF ticketVars
  <2>2. prc[p].pc # "idle" \/ \E j \in JobIds : jobs[j].status = "queued"
    <3>1. ASSUME NEW kinds, ClaimRead(p, kinds)
          PROVE  \E j \in JobIds : jobs[j].status = "queued"
      BY <3>1, FirstIsJob DEF ClaimRead
    <3>2. QED
      BY <1>7, <3>1 DEF QueueStep, ClaimSave, SettleRead, FinishSave,
         RequeueSave, BurySave, BuryLetter, SettleRaises
  <2>3. QED
    BY <2>1, <2>2 DEF Disarmed
<1> HIDE DEF Goal
<1>8. Goal
  BY <1>1, <1>2, <1>3, <1>4, <1>5, <1>6, <1>7 DEF LiveNext, SettingsStep, liveVars
<1>9. QED
  BY <1>8 DEF Goal, NetworkOn

(* However any number of approvals, retries, crashes, vault changes, edits  *)
(* of .env and restarts interleave, an order leaves a process started with  *)
(* the network enabled for a ticket within the limit; and none leaves once  *)
(* live trading is off, no job waits and none is at work, until the API is  *)
(* started with live trading on.                                            *)
THEOREM GatesAlwaysHold == LiveSpec => OrdersWithinGates
<1>1. LiveTypeOK /\ LinkInv /\ [LiveNext]_liveVars =>
        [/\ \A j \in JobIds : orders'[j] # orders[j] =>
              /\ tickets[payload[j]].limitOk
              /\ \E p \in Processors : prc[p].job = j /\ env.network[p]
         /\ Disarmed => orders' = orders /\ (Disarmed' \/ env'.trading)]_liveVars
  BY GateStep
<1>2. QED
  BY <1>1, LinksHold, PTL DEF LiveSpec, OrdersWithinGates

-----------------------------------------------------------------------------
(* References *)

(* The ticket of a job is never changed, nor is an order taken back.        *)
LEMMA HistoryGrows ==
  ASSUME LiveTypeOK, LinkInv, [LiveNext]_liveVars
  PROVE  /\ \A j \in JobIds : payload[j] # "none" => payload'[j] = payload[j]
         /\ \A j \in JobIds : orders[j] > 0 => orders'[j] > 0
<1> DEFINE Grows == /\ \A j \in JobIds : payload[j] # "none" =>
                         payload'[j] = payload[j]
                    /\ \A j \in JobIds : orders[j] > 0 => orders'[j] > 0
<1>a. orders \in [JobIds -> Nat] /\ payload \in [JobIds -> Tickets \cup {"none"}]
  BY LiveTypes
<1>1. ASSUME UNCHANGED <<payload, orders>> PROVE Grows
  BY <1>1
<1>2. ASSUME NEW a \in Admins, AdminStep(a) PROVE Grows
  <2>1. orders' = orders
    BY <1>2, RequestEffects
  <2>2. \/ payload' = payload
        \/ \E j \in JobIds : /\ payload' = [payload EXCEPT ![j] = adm[a].ticket]
                             /\ jobs[j].status = "absent"
    BY <1>2, RequestEffects
  <2>3. \A j \in JobIds : jobs[j].status = "absent" => payload[j] = "none"
    BY DEF LinkInv, JobLinked
  <2>4. QED
    BY <1>a, <2>1, <2>2, <2>3
<1>3. ASSUME NEW p \in Processors, SubmitStep(p) \/ ProcessorDies(p) PROVE Grows
  <2>1. orders' = orders \/ Receive(p)
    BY <1>3, HandlerEffects DEF SubmitStep, ticketVars
  <2>2. QED
    BY <1>3, <1>a, <2>1, ProcessorStepFrame DEF Receive
<1> HIDE DEF Grows
<1>4. Grows
  BY <1>1, <1>2, <1>3, SettingsFrame DEF LiveNext, SettingsStep, CreateTicket,
     ticketVars, liveVars
<1>5. QED
  BY <1>4 DEF Grows

(* So a row that names its own job or order goes on doing so.               *)
LEMMA RefStays ==
  ASSUME LiveTypeOK, LinkInv, [LiveNext]_liveVars,
         NEW t \in Tickets, NEW row, RefOwn(t, row)
  PROVE  RefOwn(t, row)'
<1>1. "none" # t
  BY LiveConstants
<1>2. JobsOf(t) \subseteq JobsOf(t)'
  BY <1>1, HistoryGrows DEF JobsOf
<1>3. row.ref \in JobIds => payload'[row.ref] = t
  BY <1>1, HistoryGrows DEF RefOwn
<1>4. row.ref = OrderRef => \E j \in JobsOf(t)' : orders'[j] > 0
  <2>1. SUFFICES ASSUME row.ref = OrderRef
                 PROVE  \E j \in JobsOf(t)' : orders'[j] > 0
    OBVIOUS
  <2>2. PICK j \in JobsOf(t) : orders[j] > 0
    BY <2>1 DEF RefOwn
  <2>3. j \in JobIds
    BY DEF JobsOf
  <2>4. QED
    BY <1>2, <2>2, <2>3, HistoryGrows
<1>5. QED
  BY <1>3, <1>4 DEF RefOwn

LEMMA RefInit == LiveInit => RefInv
<1> SUFFICES ASSUME LiveInit PROVE RefInv
  OBVIOUS
<1>1. \A t \in Tickets : RefOwn(t, tickets[t])
  BY LiveConstants DEF LiveInit, AbsentTicket, RefOwn
<1>2. QED
  BY <1>1, LiveConstants DEF LiveInit, RefInv, IdleRequest, NoSubmission

LEMMA RefStep ==
  ASSUME LiveTypeOK, LinkInv, RefInv, [LiveNext]_liveVars PROVE RefInv'
<1>a. /\ tickets \in [Tickets -> TicketRows]
      /\ payload \in [JobIds -> Tickets \cup {"none"}]
      /\ orders \in [JobIds -> Nat]
      /\ \A a \in Admins : adm[a].pc # "idle" => adm[a].ticket \in Tickets
      /\ \A p \in Processors : sub[p].pc # "none" => sub[p].ticket \in Tickets
      /\ \A p \in Processors : prc[p].pc # "idle" => prc[p].job \in JobIds
      /\ \A p \in Processors : sub[p].pc # "none" => prc[p].pc = "run"
  BY LiveTypes, InHandler DEF LinkInv, AdmLinked
<1>b. \A t \in Tickets : RefOwn(t, tickets[t])
  BY DEF RefInv
<1>c. \A a \in Admins : adm[a].pc # "idle" => RefOwn(adm[a].ticket, adm[a].row)
  BY DEF RefInv
<1>d. \A t \in Tickets : \A row : RefOwn(t, row) => RefOwn(t, row)'
  BY RefStays
<1> DEFINE T == \A t \in Tickets : RefOwn(t, tickets[t])
           A == \A a \in Admins : adm[a].pc # "idle" =>
                  RefOwn(adm[a].ticket, adm[a].row)
           S == \A p \in Processors :
                  /\ sub[p].ref \notin JobIds
                  /\ sub[p].pc = "store" /\ sub[p].ref = OrderRef =>
                       orders[prc[p].job] > 0
<1>e. S
  BY DEF RefInv
<1>t. ASSUME \A t \in Tickets : \E row : RefOwn(t, row) /\ tickets'[t] = row
      PROVE  T'
  BY <1>t, <1>d DEF RefOwn
<1>r. ASSUME \A a \in Admins : adm'[a].pc # "idle" =>
               \/ adm'[a] = adm[a]
               \/ /\ adm'[a].ticket \in Tickets
                  /\ \E row : RefOwn(adm'[a].ticket, row) /\ adm'[a].row = row
               \/ RefOwn(adm[a].ticket, adm[a].row)'
      PROVE  A'
  BY <1>r, <1>a, <1>c, <1>d DEF RefOwn
<1>s. ASSUME \A p \in Processors :
               \/ UNCHANGED <<sub[p], prc[p]>>
               \/ sub'[p].pc # "store" /\ sub'[p].ref \notin JobIds
               \/ sub'[p].ref \notin JobIds \cup {OrderRef}
               \/ /\ sub'[p].ref \notin JobIds
                  /\ orders'[prc'[p].job] > 0
      PROVE  S'
  BY <1>s, <1>a, <1>e, HistoryGrows
<1>z. SUFFICES T' /\ A' /\ S'
  BY DEF RefInv
<1> HIDE DEF T, A, S
<1>1. ASSUME NEW t \in Tickets, NEW v \in Traded, NEW ok \in BOOLEAN,
             CreateTicket(t, v, ok)
      PROVE  T' /\ A' /\ S'
  <2>1. UNCHANGED <<adm, sub, prc>>
    BY <1>1 DEF CreateTicket, queueVars
  <2>2. RefOwn(t, tickets'[t])
    BY <1>1, <1>a, LiveConstants DEF CreateTicket, RefOwn
  <2>3. \A s \in Tickets : s # t => tickets'[s] = tickets[s]
    BY <1>1, <1>a DEF CreateTicket
  <2>4. \A s \in Tickets : \E row : RefOwn(s, row) /\ tickets'[s] = row
    BY <1>b, <2>2, <2>3
  <2>5. QED
    BY <2>1, <2>4, <1>t, <1>r, <1>s
<1>2. ASSUME UNCHANGED <<tickets, adm>>,
             \A p \in Processors : UNCHANGED <<sub[p], prc[p]>>
                                   \/ (sub'[p] = sub[p] /\ sub[p].pc = "none")
      PROVE  T' /\ A' /\ S'
  <2>1. \A s \in Tickets : \E row : RefOwn(s, row) /\ tickets'[s] = row
    BY <1>b, <1>2
  <2>2. S'
    BY <1>2, <1>e, <1>s DEF S
  <2>3. QED
    BY <1>2, <2>1, <2>2, <1>t, <1>r
<1>3. ASSUME NEW a \in Admins, AdminStep(a) PROVE T' /\ A' /\ S'
  <2>1. UNCHANGED <<sub, prc>> /\ \A b \in Admins : b # a => adm'[b] = adm[b]
    BY <1>3, RequestEffects
  <2>2. S'
    BY <2>1, <1>s
  <2>3. adm[a].row \in TicketRows
    BY LiveTypes
  <2>4. T'
    <3>1. \/ tickets' = tickets
          \/ /\ adm[a].pc = "save"
             /\ tickets' = [tickets EXCEPT ![adm[a].ticket] = adm[a].row]
      BY <1>3, RequestEffects
    <3>2. \A s \in Tickets : \E row : RefOwn(s, row) /\ tickets'[s] = row
      BY <1>a, <1>b, <1>c, <3>1
    <3>3. QED
      BY <3>2, <1>t
  <2>5. CASE adm'[a].pc = "idle"
    BY <2>1, <2>2, <2>4, <2>5, <1>r
  <2>6. CASE /\ adm[a].pc = "approve" /\ adm'[a].ticket = adm[a].ticket
             /\ adm'[a].row = [adm[a].row EXCEPT !.status = "blocked"]
    <3>1. RefOwn(adm'[a].ticket, adm'[a].row)
      BY <1>c, <2>3, <2>6 DEF RefOwn, TicketRows
    <3>2. QED
      BY <1>a, <2>1, <2>2, <2>4, <2>6, <3>1, <1>r
  <2>7. ASSUME NEW j \in JobIds, adm[a].pc = "approve",
               adm'[a].ticket = adm[a].ticket,
               adm'[a].row = [adm[a].row EXCEPT !.status = "queued", !.ref = j],
               payload' = [payload EXCEPT ![j] = adm[a].ticket]
        PROVE  T' /\ A' /\ S'
    <3>1. adm'[a].row.ref = j /\ adm'[a].row.status = "queued"
      BY <2>3, <2>7 DEF TicketRows
    <3>2. payload'[j] = adm'[a].ticket
      BY <1>a, <2>7
    <3>3. RefOwn(adm[a].ticket, adm[a].row)'
      BY <3>1, <3>2, LiveConstants DEF RefOwn
    <3>4. QED
      BY <2>1, <2>2, <2>4, <3>3, <1>r
  <2>8. ASSUME NEW t \in Tickets, adm'[a].ticket = t,
               \/ adm'[a].row = tickets[t]
               \/ adm'[a].row = [tickets[t] EXCEPT !.status = "rejected"]
        PROVE  T' /\ A' /\ S'
    <3>1. tickets[t] \in TicketRows /\ RefOwn(t, tickets[t])
      BY <1>a, <1>b
    <3>2. RefOwn(t, adm'[a].row)
      BY <2>8, <3>1 DEF RefOwn, TicketRows
    <3>3. QED
      BY <2>1, <2>2, <2>4, <2>8, <3>2, <1>r
  <2>9. QED
    BY <1>3, <2>5, <2>6, <2>7, <2>8, RequestEffects
<1>4. ASSUME NEW p \in Processors, SubmitStep(p) \/ ProcessorDies(p)
      PROVE  T' /\ A' /\ S'
  <2>1. adm' = adm /\ \A q \in Processors : q # p => UNCHANGED <<sub[q], prc[q]>>
    BY <1>4, ProcessorStepFrame
  <2>2. A'
    BY <2>1, <1>r
  <2>3. T'
    <3>1. tickets' = tickets \/ (WriteSubmitted(p) /\ sub[p].pc = "store")
      BY <1>4, HandlerEffects DEF SubmitStep, ticketVars
    <3>2. ASSUME WriteSubmitted(p), sub[p].pc = "store"
          PROVE  RefOwn(sub[p].ticket, tickets'[sub[p].ticket])
      <4>1. /\ prc[p].job \in JobsOf(sub[p].ticket)
            /\ sub[p].row \in TicketRows /\ sub[p].ticket \in Tickets
        BY <1>a, <3>2, InHandler, LiveTypes DEF JobsOf
      <4>2. /\ tickets'[sub[p].ticket].status = "submitted"
            /\ tickets'[sub[p].ticket].ref = sub[p].ref
        BY <1>a, <3>2, <4>1 DEF WriteSubmitted, TicketRows
      <4>3. QED
        BY <1>e, <3>2, <4>1, <4>2 DEF RefOwn, S
    <3>3. \A s \in Tickets : \E row : RefOwn(s, row) /\ tickets'[s] = row
      BY <1>a, <1>b, <3>1, <3>2 DEF WriteSubmitted
    <3>4. QED
      BY <3>3, <1>t
  <2>4. S'
    <3>1. sub[p].ref \notin JobIds
      BY <1>e DEF S
    <3>2. CASE LoadTicket(p)
      BY <3>2, <2>1, HandlerEffects, LiveConstants, <1>s
    <3>r. CASE LoadRaises(p)
      <4>1. sub' = sub /\ sub[p].pc = "none"
        BY <3>r, HandlerEffects
      <4>2. QED
        BY <2>1, <3>1, <4>1, <1>s
    <3>3. CASE PostAccepted(p) \/ PostDeclined(p)
      <4>1. /\ sub[p].pc = "post" /\ prc' = prc /\ sub'[p].ref \notin JobIds
            /\ Receive(p) \/ sub'[p].ref = NoRef
        BY <3>3, HandlerEffects, LiveConstants DEF queueVars
      <4>2. Receive(p) => orders'[prc'[p].job] > 0
        BY <1>a, <4>1 DEF Receive
      <4>3. QED
        BY <2>1, <4>1, <4>2, <1>s, LiveConstants
    <3>4. CASE PostRaises(p) \/ AnswerRaises(p)
      <4>1. sub'[p].pc # "store" /\ sub'[p].ref \notin JobIds
        BY <3>1, <3>4, HandlerEffects, LiveConstants DEF NoSubmission
      <4>2. QED
        BY <2>1, <4>1, <1>s
    <3>5. CASE StoreTicket(p) \/ StoreRaises(p) \/ ProcessorDies(p)
      <4>1. sub'[p].pc # "store" /\ sub'[p].ref \notin JobIds
        BY <3>5, HandlerEffects, LiveConstants DEF NoSubmission
      <4>2. QED
        BY <2>1, <4>1, <1>s
    <3>6. QED
      BY <1>4, <3>2, <3>r, <3>3, <3>4, <3>5 DEF SubmitStep
  <2>5. QED
    BY <2>2, <2>3, <2>4
<1>5. ASSUME UNCHANGED <<ticketVars, sub>>,
             \/ \E j \in JobIds : BackoffElapses(j)
             \/ \E p \in Processors : QueueStep(p)
      PROVE  T' /\ A' /\ S'
  <2>1. /\ UNCHANGED <<tickets, adm, sub>>
        /\ \A p \in Processors : prc'[p] = prc[p] \/ sub[p].pc = "none"
    BY <1>5, QueueOnlyFrame
  <2>2. QED
    BY <2>1, <1>2
<1>6. QED
  BY <1>1, <1>2, <1>3, <1>4, <1>5, SettingsFrame
     DEF LiveNext, SettingsStep, liveVars

(* The reference an operator sees on a ticket is that of a job enqueued for *)
(* it or of an order sent for it: whole rows written late, by any number of *)
(* requests and processors, never mix tickets.                              *)
THEOREM RefsStayTheirOwn == LiveSpec => []RefsAreTheirOwn
<1>1. LiveTypeOK /\ LinkInv /\ RefInv /\ [LiveNext]_liveVars => RefInv'
  BY RefStep
<1>2. RefInv => RefsAreTheirOwn
  BY DEF RefInv, RefOwn, RefsAreTheirOwn
<1>3. QED
  BY <1>1, <1>2, RefInit, LinksHold, PTL DEF LiveSpec

-----------------------------------------------------------------------------
(* One request at a time *)

(* An API that serves one request at a time.                                *)
SoleRequest == \A a, b \in Admins : a = b

(* A processor writes a ticket as submitted or leaves it, and never a       *)
(* payload.                                                                 *)
LEMMA ProcessorTickets ==
  ASSUME LiveTypeOK, LinkInv, NEW p \in Processors,
         SubmitStep(p) \/ ProcessorDies(p)
  PROVE  /\ UNCHANGED <<payload, adm>>
         /\ \A t \in Tickets : \/ tickets'[t] = tickets[t]
                               \/ /\ tickets'[t].status = "submitted"
                                  /\ tickets[t].status # "absent"
<1>1. UNCHANGED <<payload, adm>>
  BY ProcessorStepFrame
<1>2. tickets' = tickets \/ (WriteSubmitted(p) /\ sub[p].pc = "store")
  BY HandlerEffects DEF SubmitStep, ticketVars
<1>3. ASSUME WriteSubmitted(p), sub[p].pc = "store", NEW t \in Tickets
      PROVE  \/ tickets'[t] = tickets[t]
             \/ tickets'[t].status = "submitted" /\ tickets[t].status # "absent"
  BY <1>3, LiveTypes, InHandler DEF WriteSubmitted, TicketRows
<1>4. QED
  BY <1>1, <1>2, <1>3

LEMMA OpenStep ==
  ASSUME SoleRequest, "api_crash" \notin Faults,
         LiveTypeOK, LinkInv, OpenInv, [LiveNext]_liveVars
  PROVE  OpenInv'
<1> DEFINE Open(t) == tickets[t].status \in Approvable \cup {"absent"} =>
                        \A j \in JobsOf(t) : \E a \in Admins :
                          /\ adm[a].pc = "save" /\ adm[a].ticket = t
                          /\ adm[a].row.ref = j /\ adm[a].row.status = "queued"
           Free(a) == \/ adm[a].pc = "approve"
                      \/ /\ adm[a].pc = "save"
                         /\ adm[a].row.status \in Approvable \cup {"absent"}
                      => JobsOf(adm[a].ticket) = {}
           One(t) == \A i, j \in JobsOf(t) : i = j
<1>a. /\ tickets \in [Tickets -> TicketRows]
      /\ payload \in [JobIds -> Tickets \cup {"none"}]
      /\ \A a \in Admins : adm[a].pc # "idle" =>
           /\ adm[a].ticket \in Tickets
           /\ adm[a].row.status # "absent"
      /\ \A a \in Admins : adm[a].row \in TicketRows
      /\ \A a, b \in Admins : a = b
      /\ "none" \notin Tickets
  BY LiveTypes, LiveConstants DEF LinkInv, AdmLinked, SoleRequest, Agree
<1>b. /\ \A t \in Tickets : Open(t) /\ One(t)
      /\ \A a \in Admins : Free(a)
  BY DEF OpenInv
<1>z. SUFFICES (\A t \in Tickets : Open(t)' /\ One(t)') /\ \A a \in Admins : Free(a)'
  BY DEF OpenInv
<1> DEFINE Goal == (\A t \in Tickets : Open(t)' /\ One(t)') /\ \A a \in Admins : Free(a)'
<1>p. ASSUME UNCHANGED <<payload, adm>>,
             \A t \in Tickets :
               \/ tickets'[t] = tickets[t]
               \/ tickets[t].status = "absent"
               \/ tickets'[t].status \notin Approvable \cup {"absent"}
      PROVE  Goal
  BY <1>p, <1>b DEF JobsOf
<1>1. ASSUME NEW t \in Tickets, NEW v \in Traded, NEW ok \in BOOLEAN,
             CreateTicket(t, v, ok)
      PROVE  Goal
  BY <1>1, <1>a, <1>p DEF CreateTicket
<1>2. ASSUME SettingsStep PROVE Goal
  BY <1>2, <1>p, SettingsFrame
<1>3. ASSUME NEW p \in Processors, SubmitStep(p) \/ ProcessorDies(p) PROVE Goal
  BY <1>3, <1>p, ProcessorTickets DEF Approvable
<1>4. ASSUME NEW a \in Admins, AdminStep(a) PROVE Goal
  <2>1. CASE /\ adm[a].pc = "save" /\ adm'[a].pc = "idle"
             /\ tickets' = [tickets EXCEPT ![adm[a].ticket] = adm[a].row]
             /\ payload' = payload
    <3>0. PICK u \in Tickets : u = adm[a].ticket
      BY <1>a, <2>1
    <3>1. \A t \in Tickets : JobsOf(t)' = JobsOf(t)
      BY <2>1 DEF JobsOf
    <3>2. ASSUME NEW t \in Tickets, t # u PROVE Open(t)'
      <4>1. tickets'[t] = tickets[t]
        BY <1>a, <2>1, <3>0, <3>2
      <4>2. tickets[t].status \in Approvable \cup {"absent"} => JobsOf(t) = {}
        BY <1>a, <1>b, <2>1, <3>0, <3>2
      <4>3. QED
        BY <3>1, <4>1, <4>2
    <3>3. Open(u)'
      <4>1. tickets'[u] = adm[a].row
        BY <1>a, <2>1, <3>0
      <4>2. adm[a].row.status \in Approvable => JobsOf(u) = {}
        BY <1>b, <2>1, <3>0
      <4>3. adm[a].row.status # "absent" /\ u \in Tickets
        BY <1>a, <2>1
      <4>4. tickets'[u].status \in Approvable \cup {"absent"} =>
              JobsOf(u)' = {}
        BY <3>1, <4>1, <4>2, <4>3
      <4>5. QED
        BY <4>4
    <3>4. \A b \in Admins : Free(b)'
      BY <1>a, <2>1
    <3>5. \A t \in Tickets : One(t)'
      BY <1>b, <3>1
    <3>6. QED
      BY <3>2, <3>3, <3>4, <3>5
  <2>2. CASE /\ adm[a].pc = "approve" /\ adm'[a].pc = "save"
             /\ adm'[a].ticket = adm[a].ticket
             /\ adm'[a].row = [adm[a].row EXCEPT !.status = "blocked"]
             /\ UNCHANGED <<tickets, payload>>
    <3>1. \A t \in Tickets : JobsOf(t)' = JobsOf(t)
      BY <2>2 DEF JobsOf
    <3>2. JobsOf(adm[a].ticket) = {}
      BY <1>b, <2>2
    <3>3. \A t \in Tickets :
            tickets[t].status \in Approvable \cup {"absent"} => JobsOf(t) = {}
      BY <1>a, <1>b, <2>2
    <3>4. QED
      BY <1>a, <1>b, <2>2, <3>1, <3>2, <3>3
  <2>3. ASSUME NEW j \in JobIds,
               adm[a].pc = "approve", adm'[a].pc = "save",
               adm'[a].ticket = adm[a].ticket,
               adm'[a].row = [adm[a].row EXCEPT !.status = "queued", !.ref = j],
               payload' = [payload EXCEPT ![j] = adm[a].ticket],
               jobs[j].status = "absent", tickets' = tickets
        PROVE  Goal
    <3>0. PICK u \in Tickets : u = adm[a].ticket
      BY <1>a, <2>3
    <3>1. adm'[a].row.ref = j /\ adm'[a].row.status = "queued"
      BY <1>a, <2>3 DEF TicketRows
    <3>2. payload[j] = "none"
      BY <2>3 DEF LinkInv, JobLinked
    <3>3. JobsOf(u) = {}
      BY <1>b, <2>3, <3>0
    <3>4. JobsOf(u)' = {j}
      BY <1>a, <2>3, <3>0, <3>3 DEF JobsOf
    <3>5. \A t \in Tickets : t # u => JobsOf(t)' = JobsOf(t)
      BY <1>a, <2>3, <3>0, <3>2 DEF JobsOf
    <3>6. \A t \in Tickets :
            tickets[t].status \in Approvable \cup {"absent"} => JobsOf(t) = {}
      BY <1>a, <1>b, <2>3
    <3>7. \A b \in Admins : Free(b)'
      BY <1>a, <2>3, <3>1 DEF Approvable
    <3>8. \A t \in Tickets : Open(t)'
      <4>1. Open(u)'
        BY <2>3, <3>0, <3>1, <3>4
      <4>2. ASSUME NEW t \in Tickets, t # u PROVE Open(t)'
        <5>1. tickets[t].status \in Approvable \cup {"absent"} => JobsOf(t)' = {}
          BY <3>5, <3>6, <4>2
        <5>2. QED
          BY <2>3, <5>1
      <4>3. QED
        BY <4>1, <4>2
    <3>9. \A t \in Tickets : One(t)'
      <4>1. One(u)'
        BY <3>4
      <4>2. ASSUME NEW t \in Tickets, t # u PROVE One(t)'
        <5>1. JobsOf(t)' = JobsOf(t) /\ One(t)
          BY <1>b, <3>5, <4>2
        <5>2. QED
          BY <5>1
      <4>3. QED
        BY <4>1, <4>2
    <3>10. QED
      BY <3>7, <3>8, <3>9
  <2>4. ASSUME NEW t \in Tickets, adm[a].pc = "idle", adm'[a].ticket = t,
               UNCHANGED <<tickets, payload>>,
               \/ adm'[a].pc = "approve" /\ tickets[t].status \in Approvable
               \/ /\ adm'[a].pc = "save"
                  /\ adm'[a].row = [tickets[t] EXCEPT !.status = "rejected"]
        PROVE  Goal
    <3>1. \A s \in Tickets : JobsOf(s)' = JobsOf(s)
      BY <2>4 DEF JobsOf
    <3>2. \A s \in Tickets :
            tickets[s].status \in Approvable \cup {"absent"} => JobsOf(s) = {}
      BY <1>a, <1>b, <2>4
    <3>3. adm'[a].pc = "save" => adm'[a].row.status = "rejected"
      BY <1>a, <2>4 DEF TicketRows
    <3>4. \A b \in Admins : Free(b)'
      BY <1>a, <2>4, <3>1, <3>2, <3>3 DEF Approvable
    <3>5. \A s \in Tickets : Open(s)'
      BY <2>4, <3>1, <3>2
    <3>6. \A s \in Tickets : One(s)'
      BY <1>b, <3>1
    <3>7. QED
      BY <3>4, <3>5, <3>6
  <2>5. QED
    BY <1>4, <2>1, <2>2, <2>3, <2>4, RequestEffects
<1>5. ASSUME UNCHANGED <<ticketVars, sub>> PROVE Goal
  BY <1>5, <1>p DEF ticketVars
<1>6. ASSUME UNCHANGED liveVars PROVE Goal
  BY <1>6, <1>p DEF liveVars
<1> HIDE DEF Goal
<1>7. Goal
  BY <1>1, <1>2, <1>3, <1>4, <1>5, <1>6 DEF LiveNext, SettingsStep
<1>8. QED
  BY <1>7 DEF Goal

(* With requests that run to their end one at a time, a ticket that may be  *)
(* approved has no job yet, however processors write tickets meanwhile.     *)
THEOREM OpenTicketsHaveNoJob ==
  ASSUME SoleRequest, "api_crash" \notin Faults
  PROVE  LiveSpec => []OpenTicketHasNoJob
<1>1. LiveInit => OpenInv
  BY LiveConstants DEF LiveInit, OpenInv, IdleRequest, JobsOf
<1>2. LiveTypeOK /\ LinkInv /\ OpenInv /\ [LiveNext]_liveVars => OpenInv'
  BY OpenStep
<1>3. OpenInv => OpenTicketHasNoJob
  BY DEF OpenInv, OpenTicketHasNoJob
<1>4. QED
  BY <1>1, <1>2, <1>3, LinksHold, PTL DEF LiveSpec

LEMMA ApproveStep ==
  ASSUME SoleRequest, LiveTypeOK, LinkInv, ApproveInv, [LiveNext]_liveVars
  PROVE  /\ ApproveInv'
         /\ \A t \in Tickets :
              tickets[t].status = "rejected" /\ JobsOf(t) = {} => JobsOf(t)' = {}
<1> DEFINE Kept == \A t \in Tickets :
                     tickets[t].status = "rejected" /\ JobsOf(t) = {} =>
                       JobsOf(t)' = {}
<1>a. /\ tickets \in [Tickets -> TicketRows]
      /\ payload \in [JobIds -> Tickets \cup {"none"}]
      /\ \A a \in Admins : adm[a].pc # "idle" => adm[a].ticket \in Tickets
      /\ \A a, b \in Admins : a = b
  BY LiveTypes DEF LinkInv, AdmLinked, SoleRequest
<1>p. ASSUME UNCHANGED <<payload, adm>>,
             \A t \in Tickets : \/ tickets'[t] = tickets[t]
                                \/ tickets'[t].status # "rejected"
      PROVE  ApproveInv' /\ Kept
  BY <1>p, <1>a DEF ApproveInv, JobsOf
<1>1. ASSUME NEW t \in Tickets, NEW v \in Traded, NEW ok \in BOOLEAN,
             CreateTicket(t, v, ok)
      PROVE  ApproveInv' /\ Kept
  BY <1>1, <1>a, <1>p DEF CreateTicket
<1>2. ASSUME SettingsStep PROVE ApproveInv' /\ Kept
  BY <1>2, <1>p, SettingsFrame
<1>3. ASSUME NEW p \in Processors, SubmitStep(p) \/ ProcessorDies(p)
      PROVE  ApproveInv' /\ Kept
  BY <1>3, <1>p, ProcessorTickets
<1>4. ASSUME NEW a \in Admins, AdminStep(a) PROVE ApproveInv' /\ Kept
  <2>1. CASE adm'[a].pc # "approve" /\ payload' = payload
    BY <1>a, <2>1 DEF ApproveInv, JobsOf
  <2>2. CASE \E t \in Tickets :
               /\ adm'[a].ticket = t /\ tickets[t].status \in Approvable
               /\ UNCHANGED <<tickets, payload>>
    BY <1>a, <2>2 DEF ApproveInv, JobsOf, Approvable
  <2>3. ASSUME NEW j \in JobIds, adm[a].pc = "approve", adm'[a].pc = "save",
               payload' = [payload EXCEPT ![j] = adm[a].ticket]
        PROVE  ApproveInv' /\ Kept
    <3>1. tickets[adm[a].ticket].status # "rejected"
      BY <2>3 DEF ApproveInv
    <3>2. \A t \in Tickets : t # adm[a].ticket => JobsOf(t)' \subseteq JobsOf(t)
      BY <1>a, <2>3 DEF JobsOf
    <3>3. QED
      BY <1>a, <2>3, <3>1, <3>2 DEF ApproveInv
  <2>4. QED
    BY <1>4, <2>1, <2>2, <2>3, RequestEffects
<1>5. ASSUME UNCHANGED <<ticketVars, sub>> PROVE ApproveInv' /\ Kept
  BY <1>5, <1>p DEF ticketVars
<1>6. ASSUME UNCHANGED liveVars PROVE ApproveInv' /\ Kept
  BY <1>6, <1>p DEF liveVars
<1> HIDE DEF Kept
<1>7. ApproveInv' /\ Kept
  BY <1>1, <1>2, <1>3, <1>4, <1>5, <1>6 DEF LiveNext, SettingsStep
<1>8. QED
  BY <1>7 DEF Kept

(* With one request at a time a ticket rejected before it had a job gets    *)
(* none afterwards, whoever dies and whatever processors write meanwhile.   *)
THEOREM RejectionsHold == ASSUME SoleRequest PROVE LiveSpec => RejectionHolds
<1>1. LiveInit => ApproveInv
  BY DEF LiveInit, ApproveInv, IdleRequest
<1>2. LiveTypeOK /\ LinkInv /\ ApproveInv /\ [LiveNext]_liveVars =>
        /\ ApproveInv'
        /\ [\A t \in Tickets : tickets[t].status = "rejected" /\ JobsOf(t) = {} =>
              JobsOf(t)' = {}]_liveVars
  BY ApproveStep
<1>3. QED
  BY <1>1, <1>2, LinksHold, PTL DEF LiveSpec, RejectionHolds

-----------------------------------------------------------------------------
(* One processor *)

LEMMA SoleHolds ==
  ASSUME SoleWorker PROVE LiveSpec => []SoleInv
BY SoleCorrect, LiveImplementsQueue, PTL DEF ImplementsQueue

(* A ticket that exists keeps its venue, whatever is written.               *)
LEMMA VenuesStay ==
  ASSUME LiveTypeOK, LinkInv, [LiveNext]_liveVars, NEW t \in Tickets,
         tickets[t].status # "absent"
  PROVE  tickets'[t].venue = tickets[t].venue
<1>a. /\ tickets \in [Tickets -> TicketRows]
      /\ \A a \in Admins : adm[a].pc # "idle" =>
           Agree(adm[a].row, tickets[adm[a].ticket])
  BY LiveTypes DEF LinkInv, AdmLinked
<1>1. ASSUME NEW a \in Admins, AdminStep(a)
      PROVE  tickets'[t].venue = tickets[t].venue
  <2>1. \/ tickets' = tickets
        \/ /\ adm[a].pc = "save"
           /\ tickets' = [tickets EXCEPT ![adm[a].ticket] = adm[a].row]
    BY <1>1, RequestEffects
  <2>2. QED
    BY <1>a, <2>1 DEF Agree
<1>2. ASSUME NEW p \in Processors, SubmitStep(p) \/ ProcessorDies(p)
      PROVE  tickets'[t].venue = tickets[t].venue
  <2>1. tickets' = tickets \/ (WriteSubmitted(p) /\ sub[p].pc = "store")
    BY <1>2, HandlerEffects DEF SubmitStep, ticketVars
  <2>2. ASSUME WriteSubmitted(p), sub[p].pc = "store"
        PROVE  tickets'[t].venue = tickets[t].venue
    <3>1. sub[p].row \in TicketRows /\ Agree(sub[p].row, tickets[sub[p].ticket])
      BY <2>2, LiveTypes, InHandler
    <3>2. [sub[p].row EXCEPT !.status = "submitted", !.ref = sub[p].ref].venue
            = sub[p].row.venue
      BY <3>1 DEF TicketRows
    <3>3. QED
      BY <1>a, <2>2, <3>1, <3>2 DEF WriteSubmitted, Agree
  <2>3. QED
    BY <2>1, <2>2
<1>3. ASSUME NEW s \in Tickets, NEW v \in Traded, NEW ok \in BOOLEAN,
             CreateTicket(s, v, ok)
      PROVE  tickets'[t].venue = tickets[t].venue
  BY <1>3, <1>a DEF CreateTicket
<1>4. ASSUME tickets' = tickets PROVE tickets'[t].venue = tickets[t].venue
  BY <1>4
<1>5. QED
  BY <1>1, <1>2, <1>3, <1>4, SettingsFrame DEF LiveNext, SettingsStep, ticketVars,
     liveVars

(* Products of a number of starts and a number of attempts.                 *)
LEMMA Products ==
  ASSUME NEW n \in Nat, NEW a \in Nat
  PROVE  /\ n * a \in Nat
         /\ (n - 1) * a \in Int
         /\ n * a = (n - 1) * a + a
         /\ (n + 1) * a = n * a + a
         /\ \A m \in Nat : n <= m => n * a <= m * a
<1>1. /\ n * a \in Nat /\ (n - 1) * a \in Int
      /\ n * a = (n - 1) * a + a /\ (n + 1) * a = n * a + a
  OBVIOUS
<1>2. ASSUME NEW m \in Nat, n <= m PROVE n * a <= m * a
  <2>1. m - n \in Nat /\ (m - n) * a \in Nat /\ m * a = n * a + (m - n) * a
    BY <1>2
  <2>2. QED
    BY <1>1, <2>1
<1>3. QED
  BY <1>1, <1>2

LEMMA TriesCount ==
  ASSUME LiveTypeOK, LinkInv, [LiveNext]_liveVars, NEW j \in JobIds,
         payload[j] # "none"
  PROVE  /\ Tries(j) \in Nat /\ Tries(j) > 0
         /\ Tries(j)' = Tries(j) /\ payload'[j] = payload[j]
<1>1. payload[j] \in Tickets /\ tickets[payload[j]].status # "absent"
  BY LiveTypes DEF LinkInv, JobLinked
<1>2. payload'[j] = payload[j]
  BY HistoryGrows
<1>3. tickets'[payload[j]].venue = tickets[payload[j]].venue
  BY <1>1, VenuesStay
<1>4. QED
  BY <1>2, <1>3, LiveAssumption DEF Tries, Attempts

LEMMA AttemptsCount == \A v : Attempts(v) \in Nat /\ Attempts(v) > 0
BY LiveAssumption DEF Attempts

(* A processor starts the handler of a job by writing the row as claimed,   *)
(* and in no other way.                                                     *)
LEMMA StartsCounted ==
  ASSUME LiveTypeOK, NEW p \in Processors, QueueStep(p)
  PROVE  \/ runs' = runs /\ prc'[p].pc # "run"
         \/ /\ prc[p].job \in JobIds /\ prc'[p].job = prc[p].job
            /\ runs' = [runs EXCEPT ![prc[p].job] = @ + 1]
<1>a. prc \in [Processors -> Locals] /\ \A q \in Processors :
        prc[q].pc # "idle" => prc[q].job \in JobIds
  BY LiveTypes
<1>1. CASE ClaimSave(p)
  BY <1>1, <1>a DEF ClaimSave
<1>2. ASSUME NEW kinds, ClaimRead(p, kinds)
      PROVE  runs' = runs /\ prc'[p].pc # "run"
  BY <1>2, <1>a DEF ClaimRead
<1>3. CASE \/ SettleRead(p) \/ FinishSave(p) \/ RequeueSave(p) \/ BurySave(p)
           \/ BuryLetter(p) \/ SettleRaises(p)
  BY <1>3, <1>a DEF SettleRead, FinishSave, RequeueSave, BurySave, BuryLetter,
     SettleRaises, Settle, IdleLocal
<1>4. QED
  BY <1>1, <1>2, <1>3 DEF QueueStep

LEMMA SpentStep ==
  ASSUME SoleWorker, LiveTypeOK, LinkInv, SpentInv, [LiveNext]_liveVars
  PROVE  SpentInv'
<1> DEFINE Spent(j) == /\ payload[j] = "none" => orders[j] = 0
                       /\ payload[j] # "none" => orders[j] <= runs[j] * Tries(j)
           Idle(p) == sub[p].pc = "none" => sub[p].tries = 0
           Going(p) == prc[p].pc = "run" =>
             LET j == prc[p].job IN
             /\ orders[j] <= (runs[j] - 1) * Tries(j) + sub[p].tries
             /\ sub[p].pc = "post" => sub[p].tries < Tries(j)
             /\ sub[p].pc = "store" => sub[p].tries <= Tries(j)
           Goal == /\ \A j \in JobIds : Spent(j)'
                   /\ \A p \in Processors : Idle(p)' /\ Going(p)'
<1>a. /\ orders \in [JobIds -> Nat] /\ runs \in [JobIds -> Nat]
      /\ payload \in [JobIds -> Tickets \cup {"none"}]
      /\ prc \in [Processors -> Locals] /\ sub \in [Processors -> SubLocals]
      /\ \A p \in Processors : /\ prc[p].pc # "idle" => prc[p].job \in JobIds
                               /\ sub[p].tries \in Nat
                               /\ sub[p].pc \in {"none", "post", "store"}
      /\ \A p, q \in Processors : p = q
  BY LiveTypes DEF SoleWorker
<1>b. /\ \A j \in JobIds : Spent(j)
      /\ \A p \in Processors : Idle(p) /\ Going(p)
  BY DEF SpentInv
<1>c. \A j \in JobIds : payload[j] # "none" =>
        /\ Tries(j) \in Nat /\ Tries(j) > 0
        /\ Tries(j)' = Tries(j) /\ payload'[j] = payload[j]
  BY TriesCount
<1>d. \A p \in Processors : prc[p].pc = "run" => payload[prc[p].job] # "none"
  BY InHandler, LiveConstants
<1>z. SUFFICES Goal
  BY DEF SpentInv
<1>k. ASSUME UNCHANGED <<orders, runs, prc, sub>> PROVE Goal
  <2>1. ASSUME NEW j \in JobIds PROVE Spent(j)'
    <3>1. CASE payload[j] # "none"
      BY <1>b, <1>c, <1>k, <3>1
    <3>2. CASE payload[j] = "none"
      <4>1. orders'[j] = 0 /\ runs'[j] \in Nat /\ Tries(j)' \in Nat
        BY <1>a, <1>b, <1>k, <3>2, AttemptsCount DEF Tries
      <4>2. runs'[j] * Tries(j)' \in Nat
        BY <4>1, Products
      <4>3. QED
        BY <4>1, <4>2
    <3>3. QED
      BY <3>1, <3>2
  <2>2. ASSUME NEW p \in Processors PROVE Idle(p)' /\ Going(p)'
    <3>1. Idle(p)'
      BY <1>b, <1>k
    <3>2. CASE prc[p].pc = "run"
      <4>1. PICK j \in JobIds : j = prc[p].job
        BY <1>a, <3>2
      <4>2. Tries(j)' = Tries(j)
        BY <1>c, <1>d, <3>2, <4>1
      <4>3. QED
        BY <1>b, <1>k, <3>1, <3>2, <4>1, <4>2
    <3>3. QED
      BY <1>k, <3>1, <3>2
  <2>3. QED
    BY <2>1, <2>2
<1>1. ASSUME UNCHANGED <<ticketVars, sub>>,
             \/ \E j \in JobIds : BackoffElapses(j)
             \/ \E p \in Processors : QueueStep(p)
      PROVE  Goal
  <2>1. CASE \E j \in JobIds : BackoffElapses(j)
    BY <1>k, <1>1, <2>1 DEF BackoffElapses, ticketVars
  <2>2. ASSUME NEW p \in Processors, QueueStep(p) PROVE Goal
    <3>1. UNCHANGED <<payload, orders, sub>> /\ prc[p].pc # "run" /\ sub[p].pc = "none"
      BY <1>1, <2>2, QueueOnlyFrame, QueueStepFrame, LiveTypes
    <3>2. Idle(p)' /\ sub[p].tries = 0
      BY <1>b, <3>1
    <3>3. CASE runs' = runs /\ prc'[p].pc # "run"
      <4>1. \A j \in JobIds : Spent(j)'
        BY <1>b, <1>c, <3>1, <3>3
      <4>2. Going(p)'
        BY <3>3
      <4>3. QED
        BY <1>a, <3>2, <4>1, <4>2
    <3>4. CASE /\ prc[p].job \in JobIds /\ prc'[p].job = prc[p].job
               /\ runs' = [runs EXCEPT ![prc[p].job] = @ + 1]
      <4>1. PICK j \in JobIds : j = prc[p].job
        BY <3>4
      <4>2. prc[p].pc # "idle"
        <5>1. \A kinds : ~ ClaimRead(p, kinds) \/ runs' = runs
          BY DEF ClaimRead
        <5>2. runs' # runs
          BY <1>a, <3>4, <4>1
        <5>3. QED
          BY <2>2, <5>1, <5>2 DEF QueueStep, ClaimSave, SettleRead, FinishSave,
             RequeueSave, BurySave, BuryLetter, SettleRaises
      <4>3. payload[j] # "none"
        BY <4>1, <4>2 DEF LinkInv, HeldInv, JobLinked
      <4>4. /\ runs'[j] = runs[j] + 1 /\ runs[j] \in Nat
            /\ Tries(j) \in Nat /\ Tries(j)' = Tries(j)
            /\ orders'[j] = orders[j] /\ orders[j] \in Nat
            /\ orders[j] <= runs[j] * Tries(j) /\ payload'[j] = payload[j]
        BY <1>a, <1>b, <1>c, <3>1, <3>4, <4>1, <4>3
      <4>5. orders'[j] <= runs'[j] * Tries(j)'
        BY <4>4, Products
      <4>6. orders'[j] <= (runs'[j] - 1) * Tries(j)' + sub'[p].tries
        <5>1. runs'[j] - 1 = runs[j] /\ sub'[p].tries = 0
          BY <3>1, <3>2, <4>4
        <5>2. runs[j] * Tries(j) \in Nat
          BY <4>4, Products
        <5>3. QED
          BY <4>4, <5>1, <5>2
      <4>7. Spent(j)'
        BY <4>3, <4>4, <4>5
      <4>8. ASSUME NEW i \in JobIds, i # j PROVE Spent(i)'
        <5>1. runs'[i] = runs[i]
          BY <1>a, <3>4, <4>1, <4>8
        <5>2. QED
          BY <1>b, <1>c, <3>1, <5>1
      <4>9. Going(p)'
        BY <3>1, <3>4, <4>1, <4>6
      <4>10. QED
        BY <1>a, <3>2, <4>7, <4>8, <4>9
    <3>5. QED
      BY <2>2, <3>3, <3>4, StartsCounted
  <2>3. QED
    BY <1>1, <2>1, <2>2
<1>2. ASSUME NEW p \in Processors, SubmitStep(p) \/ ProcessorDies(p) PROVE Goal
  <2>1. /\ UNCHANGED <<payload, runs>> /\ (prc' = prc \/ sub'[p].pc = "none")
        /\ \A q \in Processors : q = p
    BY <1>2, <1>a, ProcessorStepFrame
  <2>2. CASE orders' = orders /\ Idle(p)' /\ (prc'[p].pc # "run" \/ Going(p)')
    <3>1. \A j \in JobIds : Spent(j)'
      BY <1>b, <1>c, <2>1, <2>2
    <3>2. Going(p)'
      BY <2>2
    <3>3. QED
      BY <2>1, <2>2, <3>1, <3>2
  <2>3. CASE ProcessorDies(p)
    <3>1. orders' = orders /\ sub'[p].tries = 0 /\ prc'[p].pc = "idle"
      BY <2>3, <1>a, HandlerEffects DEF ticketVars, NoSubmission, Crash, IdleLocal
    <3>2. QED
      BY <2>2, <3>1
  <2>4. CASE StoreTicket(p) \/ StoreRaises(p)
    <3>1. orders' = orders /\ sub'[p].tries = 0 /\ prc'[p].pc = "settle"
      BY <2>4, <1>a, HandlerEffects DEF NoSubmission, HandlerReturns,
         HandlerRaises, Settle
    <3>2. QED
      BY <2>2, <3>1
  <2>r. CASE LoadRaises(p)
    <3>1. orders' = orders /\ sub' = sub /\ prc'[p].pc = "settle"
      BY <2>r, <1>a, HandlerEffects DEF ticketVars, HandlerRaises, Settle
    <3>2. QED
      BY <2>2, <1>b, <3>1
  <2>n. ASSUME prc[p].pc = "run"
        PROVE  \E j \in JobIds :
                 /\ j = prc[p].job /\ payload[j] # "none"
                 /\ Tries(j) \in Nat /\ Tries(j) > 0 /\ Tries(j)' = Tries(j)
                 /\ runs[j] \in Nat /\ orders[j] \in Nat /\ sub[p].tries \in Nat
                 /\ orders[j] <= (runs[j] - 1) * Tries(j) + sub[p].tries
                 /\ (runs[j] - 1) * Tries(j) \in Int
                 /\ runs[j] * Tries(j) = (runs[j] - 1) * Tries(j) + Tries(j)
                 /\ sub[p].pc = "post" =>
                      /\ sub[p].tries < Tries(j)
                      /\ Attempts(sub[p].row.venue) = Tries(j)
    <3>1. PICK j \in JobIds : j = prc[p].job
      BY <1>a, <2>n
    <3>2. payload[j] # "none"
      BY <1>d, <2>n, <3>1
    <3>3. sub[p].pc = "post" => Attempts(sub[p].row.venue) = Tries(j)
      BY <2>n, <3>1, InHandler DEF Agree, Tries
    <3>4. /\ runs[j] \in Nat /\ orders[j] \in Nat /\ sub[p].tries \in Nat
          /\ Tries(j) \in Nat /\ Tries(j) > 0 /\ Tries(j)' = Tries(j)
      BY <1>a, <1>c, <3>2
    <3>5. /\ (runs[j] - 1) * Tries(j) \in Int
          /\ runs[j] * Tries(j) = (runs[j] - 1) * Tries(j) + Tries(j)
      BY <3>4, Products
    <3>6. /\ orders[j] <= (runs[j] - 1) * Tries(j) + sub[p].tries
          /\ sub[p].pc = "post" => sub[p].tries < Tries(j)
      BY <1>b, <2>n, <3>1
    <3>7. QED
      BY <3>1, <3>2, <3>3, <3>4, <3>5, <3>6
  <2>5. CASE LoadTicket(p)
    <3>1. /\ prc[p].pc = "run" /\ prc' = prc /\ orders' = orders
          /\ sub'[p].tries = 0 /\ sub[p].tries = 0 /\ sub'[p].pc # "none"
      BY <2>5, <1>b, HandlerEffects DEF ticketVars, queueVars
    <3>2. PICK j \in JobIds :
            /\ j = prc[p].job /\ Tries(j) \in Nat /\ Tries(j) > 0
            /\ Tries(j)' = Tries(j)
            /\ orders[j] <= (runs[j] - 1) * Tries(j) + sub[p].tries
      BY <2>n, <3>1
    <3>3. Going(p)'
      BY <2>1, <3>1, <3>2
    <3>4. QED
      BY <2>2, <3>1, <3>3
  <2>6. CASE sub[p].pc = "post"
    <3>1. prc[p].pc = "run"
      BY <2>6, InHandler
    <3>2. PICK j \in JobIds :
            /\ j = prc[p].job /\ payload[j] # "none"
            /\ Tries(j) \in Nat /\ Tries(j) > 0 /\ Tries(j)' = Tries(j)
            /\ runs[j] \in Nat /\ orders[j] \in Nat /\ sub[p].tries \in Nat
            /\ orders[j] <= (runs[j] - 1) * Tries(j) + sub[p].tries
            /\ (runs[j] - 1) * Tries(j) \in Int
            /\ runs[j] * Tries(j) = (runs[j] - 1) * Tries(j) + Tries(j)
            /\ sub[p].tries < Tries(j)
            /\ Attempts(sub[p].row.venue) = Tries(j)
      BY <2>n, <2>6, <3>1
    <3>3. CASE /\ \/ orders' = orders
                  \/ Receive(p)
               /\ \/ /\ prc' = prc /\ sub'[p].tries = sub[p].tries + 1
                     /\ \/ sub'[p].pc = "post" /\ sub[p].tries + 1 < Tries(j)
                        \/ sub'[p].pc = "store"
                  \/ sub'[p].tries = 0 /\ prc'[p].pc # "run"
      <4>1. orders'[j] <= orders[j] + 1 /\ orders'[j] \in Nat
        BY <1>a, <3>2, <3>3 DEF Receive
      <4>2. \A i \in JobIds : i # j => orders'[i] = orders[i]
        BY <1>a, <3>2, <3>3 DEF Receive
      <4>3. Spent(j)'
        BY <2>1, <3>2, <4>1
      <4>4. \A i \in JobIds : i # j => Spent(i)'
        BY <1>b, <1>c, <2>1, <4>2
      <4>5. Idle(p)'
        BY <3>3
      <4>6. Going(p)'
        BY <2>1, <3>2, <3>3, <4>1
      <4>7. QED
        BY <2>1, <4>3, <4>4, <4>5, <4>6
    <3>4. CASE PostAccepted(p) \/ PostDeclined(p)
      BY <3>3, <3>4, HandlerEffects DEF queueVars
    <3>5. CASE PostRaises(p) \/ AnswerRaises(p)
      <4>1. orders' = orders \/ Receive(p)
        BY <3>5, HandlerEffects
      <4>2. \/ /\ prc' = prc /\ sub'[p].tries = sub[p].tries + 1
               /\ sub'[p].pc = "post" /\ sub[p].tries + 1 < Tries(j)
            \/ sub'[p] = NoSubmission /\ HandlerRaises(p)
        BY <3>2, <3>5, HandlerEffects DEF queueVars
      <4>3. ASSUME sub'[p] = NoSubmission, HandlerRaises(p)
            PROVE  sub'[p].tries = 0 /\ prc'[p].pc # "run"
        BY <4>3, <1>a DEF NoSubmission, HandlerRaises, Settle
      <4>4. QED
        BY <3>3, <4>1, <4>2, <4>3
    <3>6. QED
      BY <1>2, <2>6, <3>4, <3>5, <2>3, <2>4, <2>5, <2>r, HandlerEffects DEF SubmitStep
  <2>7. QED
    BY <1>2, <2>3, <2>4, <2>5, <2>6, <2>r, HandlerEffects DEF SubmitStep
<1>3. ASSUME NEW a \in Admins, AdminStep(a) PROVE Goal
  BY <1>3, <1>k, RequestEffects
<1> HIDE DEF Goal
<1>4. ASSUME NEW t \in Tickets, NEW v \in Traded, NEW ok \in BOOLEAN,
             CreateTicket(t, v, ok)
      PROVE  Goal
  BY <1>4, <1>k DEF CreateTicket, queueVars
<1>5. ASSUME SettingsStep PROVE Goal
  BY <1>5, <1>k, SettingsFrame
<1>6. CASE UNCHANGED liveVars
  BY <1>6, <1>k DEF liveVars
<1>7. QED
  BY <1>1, <1>2, <1>3, <1>4, <1>5, <1>6 DEF LiveNext, SettingsStep

(* One processor sends a job's order at most MaxRetries times the attempts  *)
(* of retry_sync, for any number of tickets and requests, whatever raises,  *)
(* dies or is lost.                                                         *)
THEOREM OrdersStayBounded ==
  ASSUME SoleWorker PROVE LiveSpec => []OrdersBounded
<1>1. LiveInit => SpentInv
  <2> SUFFICES ASSUME LiveInit PROVE SpentInv
    OBVIOUS
  <2>1. QED
    BY DEF LiveInit, QueueInit, SpentInv, NoSubmission, IdleLocal
<1>2. LiveTypeOK /\ LinkInv /\ SpentInv /\ [LiveNext]_liveVars => SpentInv'
  BY SpentStep
<1>3. LiveTypeOK /\ LinkInv /\ SpentInv /\ RunsBounded => OrdersBounded
  <2> SUFFICES ASSUME LiveTypeOK, LinkInv, SpentInv, RunsBounded,
                      NEW j \in JobIds, orders[j] > 0
               PROVE  orders[j] <= MaxRetries * Tries(j)
    BY DEF OrdersBounded, Tries
  <2>1. /\ orders[j] \in Nat /\ runs[j] \in Nat /\ runs[j] <= MaxRetries
        /\ MaxRetries \in Nat /\ Tries(j) \in Nat
    BY LiveTypes, QueueAssumption, AttemptsCount DEF RunsBounded, Tries
  <2>2. orders[j] <= runs[j] * Tries(j)
    BY <2>1 DEF SpentInv
  <2>3. /\ runs[j] * Tries(j) \in Nat /\ MaxRetries * Tries(j) \in Nat
        /\ runs[j] * Tries(j) <= MaxRetries * Tries(j)
    BY <2>1, Products
  <2>4. QED
    BY <2>1, <2>2, <2>3
<1>4. LiveSpec => []RunsBounded
  BY RunsStayBounded, LiveImplementsQueue, PTL DEF ImplementsQueue
<1>5. QED
  BY <1>1, <1>2, <1>3, <1>4, LinksHold, PTL DEF LiveSpec

-----------------------------------------------------------------------------
(* One order *)

LEMMA SentStep ==
  ASSUME SoleWorker, "lost_answer" \notin Faults, "save_error" \notin Faults,
         LiveTypeOK, LinkInv, SoleInv, SentOnce, [LiveNext]_liveVars
  PROVE  SentOnce'
<1> DEFINE Ready(p) == \/ prc[p].pc = "run" /\ sub[p].pc = "store"
                       \/ /\ prc[p].pc \in {"settle", "save"}
                          /\ prc[p].verdict = "completed"
           Sent(j) == /\ orders[j] <= 1
                      /\ orders[j] > 0 =>
                           /\ jobs[j].status \in {"claimed", "completed"}
                           /\ \A p \in Processors : Holds(p, j) => Ready(p)
           Goal == \A j \in JobIds : Sent(j)'
<1>a. /\ orders \in [JobIds -> Nat] /\ jobs \in [JobIds -> Rows]
      /\ prc \in [Processors -> Locals]
      /\ \A p \in Processors : /\ prc[p].pc # "idle" => prc[p].job \in JobIds
                               /\ prc[p].row \in Rows
                               /\ sub[p].pc \in {"none", "post", "store"}
      /\ \A p, q \in Processors : p = q
  BY LiveTypes DEF SoleWorker, Locals
<1>b. \A j \in JobIds : Sent(j)
  BY DEF SentOnce
<1>c. \A p \in Processors : CopyIsFresh(p)
  BY DEF SoleInv
<1>z. SUFFICES Goal
  BY DEF SentOnce
<1>k. ASSUME UNCHANGED <<orders, prc, sub>>,
             \A j \in JobIds : jobs'[j] = jobs[j] \/ orders[j] = 0
      PROVE  Goal
  BY <1>k, <1>b DEF Holds
<1>n. \A p \in Processors : ~ Ready(p) /\ prc[p].pc # "idle" =>
        orders[prc[p].job] = 0
  BY <1>a, <1>b DEF Holds
<1>1. ASSUME NEW a \in Admins, AdminStep(a) PROVE Goal
  <2>1. /\ UNCHANGED <<orders, prc, sub>>
        /\ \/ jobs' = jobs
           \/ \E j \in JobIds : /\ jobs[j].status = "absent"
                                /\ \A i \in JobIds : i # j => jobs'[i] = jobs[i]
    BY <1>1, RequestEffects
  <2>2. \A j \in JobIds : jobs[j].status = "absent" => orders[j] = 0
    BY <1>a, <1>b
  <2>3. QED
    BY <1>k, <2>1, <2>2
<1>2. ASSUME NEW j \in JobIds, BackoffElapses(j), UNCHANGED <<ticketVars, sub>>
      PROVE  Goal
  <2>1. orders[j] = 0 /\ \A i \in JobIds : i # j => jobs'[i] = jobs[i]
    BY <1>2, <1>a, <1>b DEF BackoffElapses
  <2>2. QED
    BY <1>2, <1>k, <2>1 DEF BackoffElapses, ticketVars
(* The processor moves, the venue receives nothing: rows of jobs that were  *)
(* sent are kept, and it goes on holding such a job only if it is ready.    *)
<1>m. ASSUME NEW p \in Processors, orders' = orders,
             \A j \in JobIds : \/ jobs'[j] = jobs[j]
                               \/ orders[j] = 0
                               \/ jobs'[j].status = "completed",
             \/ prc'[p].pc = "idle"
             \/ prc'[p].job \in JobIds /\ orders[prc'[p].job] = 0
             \/ Ready(p)'
      PROVE  Goal
  <2>1. \A q \in Processors : q = p
    BY <1>a
  <2>2. QED
    BY <1>m, <1>b, <2>1 DEF Holds
<1>3. ASSUME NEW p \in Processors, QueueStep(p), UNCHANGED <<ticketVars, sub>>
      PROVE  Goal
  <2>1. orders' = orders
    BY <1>3 DEF ticketVars
  <2>2. ASSUME NEW kinds, ClaimRead(p, kinds) PROVE Goal
    <3>1. PICK j \in FirstOf(Eligible(kinds)) :
            prc' = [prc EXCEPT ![p] = [pc |-> "claim", job |-> j,
                      row |-> jobs[j], seen |-> 0, verdict |-> "none"]]
      BY <2>2 DEF ClaimRead
    <3>2. j \in JobIds /\ jobs[j].status = "queued"
      BY FirstIsJob
    <3>3. orders[j] = 0
      BY <1>a, <1>b, <3>2
    <3>4. QED
      BY <1>a, <1>m, <2>1, <2>2, <3>1, <3>2, <3>3 DEF ClaimRead
  <2>3. CASE ClaimSave(p) \/ RequeueSave(p) \/ BurySave(p)
    <3>1. ~ Ready(p) /\ prc[p].job \in JobIds
      BY <1>a, <2>3 DEF ClaimSave, RequeueSave, BurySave
    <3>2. orders[prc[p].job] = 0
      BY <1>n, <2>3, <3>1 DEF ClaimSave, RequeueSave, BurySave
    <3>3. \A j \in JobIds : j # prc[p].job => jobs'[j] = jobs[j]
      BY <1>a, <2>3 DEF ClaimSave, RequeueSave, BurySave
    <3>4. prc'[p].pc = "idle" \/ prc'[p].job = prc[p].job
      BY <1>a, <2>3 DEF ClaimSave, RequeueSave, BurySave, IdleLocal
    <3>5. QED
      BY <1>m, <2>1, <3>1, <3>2, <3>3, <3>4
  <2>4. CASE SettleRead(p)
    <3>1. /\ jobs' = jobs /\ prc'[p].job = prc[p].job /\ prc[p].job \in JobIds
          /\ prc[p].pc = "settle" /\ prc'[p].pc = "save"
          /\ prc'[p].verdict = prc[p].verdict
      BY <1>a, <2>4 DEF SettleRead
    <3>2. orders[prc[p].job] = 0 \/ prc[p].verdict = "completed"
      BY <1>n, <3>1
    <3>3. QED
      BY <1>m, <2>1, <3>1, <3>2
  <2>5. CASE FinishSave(p)
    <3>1. \A j \in JobIds : jobs'[j] = jobs[j] \/ jobs'[j].status = "completed"
      BY <1>a, <2>5 DEF FinishSave, Rows
    <3>2. prc'[p].pc = "idle"
      BY <1>a, <2>5 DEF FinishSave, IdleLocal
    <3>3. QED
      BY <1>m, <2>1, <3>1, <3>2
  <2>6. CASE BuryLetter(p)
    <3>1. jobs' = jobs /\ prc'[p].pc = "idle"
      BY <1>a, <2>6 DEF BuryLetter, IdleLocal
    <3>2. QED
      BY <1>m, <2>1, <3>1
  <2>7. ~ SettleRaises(p)
    BY DEF SettleRaises
  <2>8. QED
    BY <1>3, <2>2, <2>3, <2>4, <2>5, <2>6, <2>7 DEF QueueStep
<1>4. ASSUME NEW p \in Processors, SubmitStep(p) \/ ProcessorDies(p) PROVE Goal
  <2>1. jobs' = jobs
    BY <1>4, ProcessorStepFrame
  <2>2. CASE LoadTicket(p)
    <3>1. /\ prc[p].pc = "run" /\ sub[p].pc = "none" /\ orders' = orders
          /\ prc' = prc /\ prc[p].job \in JobIds
      BY <1>a, <2>2, HandlerEffects DEF ticketVars, queueVars
    <3>2. orders[prc[p].job] = 0
      BY <1>n, <3>1
    <3>3. QED
      BY <1>m, <2>1, <3>1, <3>2
  <2>3. CASE PostAccepted(p)
    <3>1. /\ sub[p].pc = "post" /\ sub'[p].pc = "store" /\ Receive(p)
          /\ prc' = prc
      BY <2>3, HandlerEffects DEF queueVars, PostAccepted
    <3>2. prc[p].pc = "run" /\ prc[p].job \in JobIds
      BY <3>1, InHandler
    <3>3. PICK j \in JobIds : j = prc[p].job
      BY <3>2
    <3>4. orders[j] = 0
      BY <1>n, <3>1, <3>2, <3>3
    <3>5. orders'[j] = 1 /\ \A i \in JobIds : i # j => orders'[i] = orders[i]
      BY <1>a, <3>1, <3>3, <3>4 DEF Receive
    <3>6. jobs[j].status = "claimed"
      BY <1>c, <3>2, <3>3 DEF CopyIsFresh
    <3>7. Sent(j)'
      BY <1>a, <2>1, <3>1, <3>2, <3>5, <3>6 DEF Holds
    <3>8. ASSUME NEW i \in JobIds, i # j PROVE Sent(i)'
      <4>1. \A q \in Processors : ~ Holds(q, i)'
        BY <1>a, <3>1, <3>3, <3>8 DEF Holds
      <4>2. QED
        BY <1>b, <2>1, <3>5, <3>8, <4>1
    <3>9. QED
      BY <3>7, <3>8
  <2>4. CASE PostRaises(p) \/ AnswerRaises(p)
    <3>1. sub[p].pc = "post" /\ orders' = orders
      BY <2>4, HandlerEffects
    <3>2. prc[p].pc = "run" /\ prc[p].job \in JobIds
      BY <3>1, InHandler
    <3>3. orders[prc[p].job] = 0
      BY <1>n, <3>1, <3>2
    <3>4. prc'[p].job = prc[p].job
      BY <1>a, <2>4, HandlerEffects DEF HandlerRaises, Settle, queueVars
    <3>5. QED
      BY <1>m, <2>1, <3>1, <3>2, <3>3, <3>4
  <2>5. CASE StoreTicket(p) \/ StoreRaises(p)
    <3>1. orders' = orders /\ HandlerReturns(p)
      BY <2>5, HandlerEffects DEF StoreRaises, StoreTicket
    <3>2. Ready(p)'
      BY <1>a, <3>1 DEF HandlerReturns, Settle
    <3>3. QED
      BY <1>m, <2>1, <3>1, <3>2
  <2>6. CASE ProcessorDies(p)
    <3>1. orders' = orders /\ prc'[p].pc = "idle"
      BY <1>a, <2>6, HandlerEffects DEF ticketVars, Crash, IdleLocal
    <3>2. QED
      BY <1>m, <2>1, <3>1
  <2>d. CASE PostDeclined(p)
    <3>1. /\ sub'[p].pc = "store" /\ sub[p].pc = "post"
          /\ orders' = orders /\ prc' = prc
      BY <2>d, HandlerEffects DEF PostDeclined, ticketVars, queueVars
    <3>2. prc[p].pc = "run"
      BY <3>1, InHandler
    <3>3. QED
      BY <1>m, <2>1, <3>1, <3>2
  <2>r. ~ LoadRaises(p)
    BY DEF LoadRaises
  <2>7. QED
    BY <1>4, <2>2, <2>3, <2>4, <2>5, <2>6, <2>d, <2>r DEF SubmitStep
<1> HIDE DEF Goal
<1>5. ASSUME NEW t \in Tickets, NEW v \in Traded, NEW ok \in BOOLEAN,
             CreateTicket(t, v, ok)
      PROVE  Goal
  BY <1>5, <1>k DEF CreateTicket, queueVars
<1>6. ASSUME SettingsStep PROVE Goal
  BY <1>6, <1>k, SettingsFrame
<1>7. CASE UNCHANGED liveVars
  BY <1>7, <1>k DEF liveVars
<1>8. QED
  BY <1>1, <1>2, <1>3, <1>4, <1>5, <1>6, <1>7 DEF LiveNext, SettingsStep

(* With one request and one processor at a time, when answers are not lost  *)
(* and requests and saves run to their end, a ticket reaches the venue at   *)
(* most once, even if the processor dies anywhere.                          *)
THEOREM OneOrderEach ==
  ASSUME SoleWorker, SoleRequest, "api_crash" \notin Faults,
         "lost_answer" \notin Faults, "save_error" \notin Faults
  PROVE  LiveSpec => []OneOrderPerTicket
<1>1. LiveInit => OpenInv /\ SentOnce
  <2> SUFFICES ASSUME LiveInit PROVE OpenInv /\ SentOnce
    OBVIOUS
  <2>1. OpenInv
    BY LiveConstants DEF LiveInit, OpenInv, IdleRequest, JobsOf
  <2>2. SentOnce
    BY DEF LiveInit, SentOnce
  <2>3. QED
    BY <2>1, <2>2
<1>2. LiveTypeOK /\ LinkInv /\ OpenInv /\ [LiveNext]_liveVars => OpenInv'
  BY OpenStep
<1>3. LiveTypeOK /\ LinkInv /\ SoleInv /\ SentOnce /\ [LiveNext]_liveVars
        => SentOnce'
  BY SentStep
<1>4. OpenInv /\ SentOnce => OneOrderPerTicket
  BY DEF OpenInv, SentOnce, OneOrderPerTicket, JobsOf
<1>5. QED
  BY <1>1, <1>2, <1>3, <1>4, LinksHold, SoleHolds, PTL DEF LiveSpec
=============================================================================
