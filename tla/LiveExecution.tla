---------------------------- MODULE LiveExecution ---------------------------
(***************************************************************************)
(* Live orders from ticket to venue: backend/execution/service.py and       *)
(* adapters.py, run by the job queue.  Administrators create, approve and   *)
(* reject execution tickets in API requests; an approval enqueues a job;    *)
(* a processor of JobQueue claims it, reads the ticket, sends the order to  *)
(* the venue and writes the ticket back.                                    *)
(*                                                                          *)
(* Tickets, jobs, the secrets vault and the venue are separate stores and   *)
(* every commit to one of them is a step of its own.  Tickets are written   *)
(* back as whole rows, from the copy read at the start of the operation.    *)
(***************************************************************************)
EXTENDS JobQueue

CONSTANTS
  Tickets,      \* execution tickets that may be created
  Traded,       \* bound: the venues that tickets are created for
  Switches,     \* bound: the values that the switches in .env take
  Admins,       \* API requests that may be in progress at a time
  PostAttempts  \* attempts of retry_sync around the Binance order request

ASSUME LiveAssumption ==
  /\ PostAttempts \in Nat \ {0}
  /\ Traded \subseteq {"binance", "hyperliquid"}
  /\ Switches \subseteq BOOLEAN
  /\ Kinds = {"execution_submit"}
  /\ "none" \notin Tickets

Venues == {"binance", "hyperliquid"}

VARIABLES
  tickets,  \* the execution_tickets table
  payload,  \* the ticket_id in each job's payload
  secrets,  \* venues whose credentials the vault (or environment) holds
  env,      \* the settings each process read from .env when it started
  orders,   \* what the venue has executed: orders received for each job
  adm,      \* the local state of each API request
  sub       \* the local state of process_execution_job in each processor

liveVars == <<jobs, letters, runs, prc, tickets, payload, secrets, env,
              orders, adm, sub>>
ticketVars == <<tickets, payload, secrets, env, orders, adm>>

-----------------------------------------------------------------------------
(* Rows and local states *)

TicketStatuses == {"absent", "pending_approval", "blocked", "queued",
                   "submitted", "rejected"}

(* broker_order_id: nothing, the id of the job, the venue's order id, or    *)
(* the id a dry run makes up.                                               *)
NoRef == 0
OrderRef == MaxJobs + 1
DryRef == MaxJobs + 2
Refs == 0 .. MaxJobs + 2

TicketRows == [status: TicketStatuses, venue: Venues, limitOk: BOOLEAN,
               ref: Refs]

AbsentTicket == [status |-> "absent", venue |-> "binance", limitOk |-> FALSE,
                 ref |-> NoRef]

AdmLocals == [pc: {"idle", "approve", "save"},
              ticket: Tickets \cup {"none"}, row: TicketRows]

IdleRequest == [pc |-> "idle", ticket |-> "none", row |-> AbsentTicket]

SubLocals == [pc: {"none", "post", "store"}, ticket: Tickets \cup {"none"},
              row: TicketRows, ref: Refs, tries: Nat]

NoSubmission == [pc |-> "none", ticket |-> "none", row |-> AbsentTicket,
                 ref |-> NoRef, tries |-> 0]

(* live_trading_enabled of the API process, the only one that reads it, and *)
(* live_network_enabled of the process that each processor belongs to: a    *)
(* worker is a process of its own, the others are requests of the API.      *)
Settings == [trading: Switches, network: [Processors -> Switches]]

LiveTypeOK ==
  /\ QueueTypeOK
  /\ tickets \in [Tickets -> TicketRows]
  /\ payload \in [JobIds -> Tickets \cup {"none"}]
  /\ secrets \in SUBSET Venues
  /\ env \in Settings
  /\ orders \in [JobIds -> Nat]
  /\ adm \in [Admins -> AdmLocals]
  /\ sub \in [Processors -> SubLocals]

LiveInit ==
  /\ QueueInit
  /\ tickets = [t \in Tickets |-> AbsentTicket]
  /\ payload = [j \in JobIds |-> "none"]
  /\ secrets \in SUBSET Venues
  /\ env \in Settings
  /\ orders = [j \in JobIds |-> 0]
  /\ adm = [a \in Admins |-> IdleRequest]
  /\ sub = [p \in Processors |-> NoSubmission]

-----------------------------------------------------------------------------
(* create_execution_ticket: the preview is stored with the row, and with it *)
(* whether the size was within the notional limit.                          *)
CreateTicket(t, venue, limitOk) ==
  /\ tickets[t].status = "absent"
  /\ tickets' = [tickets EXCEPT ![t] =
                   [status |-> "pending_approval", venue |-> venue,
                    limitOk |-> limitOk, ref |-> NoRef]]
  /\ UNCHANGED <<payload, secrets, env, orders, adm, sub, queueVars>>

-----------------------------------------------------------------------------
(* approve_execution_ticket: read the row, decide, enqueue, write the row.  *)

(* Mutation: a rejected ticket may be approved again. *)
ApprovableAgain == {"pending_approval", "blocked", "rejected"}

Approvable == {"pending_approval", "blocked"}

(* Mutation: the status of the row is not looked at. *)
ApproveReadAny(a, t) ==
  /\ adm[a].pc = "idle"
  /\ tickets[t].status # "absent"
  /\ adm' = [adm EXCEPT ![a] = [pc |-> "approve", ticket |-> t,
                                row |-> tickets[t]]]
  /\ UNCHANGED <<tickets, payload, secrets, env, orders, sub, queueVars>>

ApproveRead(a, t) ==
  /\ adm[a].pc = "idle"
  /\ tickets[t].status \in Approvable
  /\ adm' = [adm EXCEPT ![a] = [pc |-> "approve", ticket |-> t,
                                row |-> tickets[t]]]
  /\ UNCHANGED <<tickets, payload, secrets, env, orders, sub, queueVars>>

(* Mutation: live_trading_enabled is not looked at. *)
GatesOpenDisarmed(row) == row.limitOk /\ secrets = Venues

GatesOpen(row) == row.limitOk /\ env.trading /\ secrets = Venues

ApproveBlock(a) ==
  /\ adm[a].pc = "approve"
  /\ ~ GatesOpen(adm[a].row)
  /\ adm' = [adm EXCEPT ![a] =
               [pc |-> "save", ticket |-> adm[a].ticket,
                row |-> [adm[a].row EXCEPT !.status = "blocked"]]]
  /\ UNCHANGED <<tickets, payload, secrets, env, orders, sub, queueVars>>

(* Mutations: the ticket keeps its status; it learns the first job's id. *)
ApproveEnqueueStaysOpen(a, j) ==
  /\ adm[a].pc = "approve"
  /\ GatesOpen(adm[a].row)
  /\ \E priority \in Priorities : Enqueue(j, "execution_submit", priority)
  /\ payload' = [payload EXCEPT ![j] = adm[a].ticket]
  /\ adm' = [adm EXCEPT ![a] =
               [pc |-> "save", ticket |-> adm[a].ticket,
                row |-> [adm[a].row EXCEPT !.ref = j]]]
  /\ UNCHANGED <<tickets, secrets, env, orders, sub>>

ApproveEnqueueFirstJob(a, j) ==
  /\ adm[a].pc = "approve"
  /\ GatesOpen(adm[a].row)
  /\ \E priority \in Priorities : Enqueue(j, "execution_submit", priority)
  /\ payload' = [payload EXCEPT ![j] = adm[a].ticket]
  /\ adm' = [adm EXCEPT ![a] =
               [pc |-> "save", ticket |-> adm[a].ticket,
                row |-> [adm[a].row EXCEPT !.status = "queued", !.ref = 1]]]
  /\ UNCHANGED <<tickets, secrets, env, orders, sub>>

(* The job is committed here; the ticket still says pending or blocked.     *)
ApproveEnqueue(a, j) ==
  /\ adm[a].pc = "approve"
  /\ GatesOpen(adm[a].row)
  /\ \E priority \in Priorities : Enqueue(j, "execution_submit", priority)
  /\ payload' = [payload EXCEPT ![j] = adm[a].ticket]
  /\ adm' = [adm EXCEPT ![a] =
               [pc |-> "save", ticket |-> adm[a].ticket,
                row |-> [adm[a].row EXCEPT !.status = "queued", !.ref = j]]]
  /\ UNCHANGED <<tickets, secrets, env, orders, sub>>

(* reject_execution_ticket: any ticket, whatever its status.                *)
RejectRead(a, t) ==
  /\ adm[a].pc = "idle"
  /\ tickets[t].status # "absent"
  /\ adm' = [adm EXCEPT ![a] =
               [pc |-> "save", ticket |-> t,
                row |-> [tickets[t] EXCEPT !.status = "rejected"]]]
  /\ UNCHANGED <<tickets, payload, secrets, env, orders, sub, queueVars>>

(* Mutation: a rejection also fails the job of the ticket. *)
TicketSaveCancels(a) ==
  LET j == adm[a].row.ref IN
  /\ adm[a].pc = "save"
  /\ tickets' = [tickets EXCEPT ![adm[a].ticket] = adm[a].row]
  /\ adm' = [adm EXCEPT ![a] = IdleRequest]
  /\ jobs' = IF adm[a].row.status = "rejected" /\ j \in JobIds
             THEN [jobs EXCEPT ![j].status = "failed"] ELSE jobs
  /\ UNCHANGED <<payload, secrets, env, orders, sub, letters, runs, prc>>

(* Both operations end by writing the whole row back.                       *)
TicketSave(a) ==
  /\ adm[a].pc = "save"
  /\ tickets' = [tickets EXCEPT ![adm[a].ticket] = adm[a].row]
  /\ adm' = [adm EXCEPT ![a] = IdleRequest]
  /\ UNCHANGED <<payload, secrets, env, orders, sub, queueVars>>

(* A request dies, or one of its statements raises: it ends where it is.    *)
RequestDies(a) ==
  /\ "api_crash" \in Faults
  /\ adm[a].pc # "idle"
  /\ adm' = [adm EXCEPT ![a] = IdleRequest]
  /\ UNCHANGED <<tickets, payload, secrets, env, orders, sub, queueVars>>

(* The vault API stores and deletes credentials at any time.                *)
SecretsChange(v) ==
  /\ secrets' = IF v \in secrets THEN secrets \ {v} ELSE secrets \cup {v}
  /\ UNCHANGED <<tickets, payload, env, orders, adm, sub, queueVars>>

(* A process starts again and reads .env, which may have been edited.  Work *)
(* that a process leaves unfinished ends in RequestDies or ProcessorDies.   *)
Restart(processors, trading) ==
  /\ \A p \in processors : prc[p].pc = "idle"
  /\ \E enabled \in Switches :
       env' = [trading |-> trading,
               network |-> [p \in Processors |->
                              IF p \in processors THEN enabled
                              ELSE env.network[p]]]
  /\ UNCHANGED <<tickets, payload, secrets, orders, adm, sub, queueVars>>

WorkerRestarts(p) == Restart({p}, env.trading)

ApiRestarts ==
  /\ \A a \in Admins : adm[a].pc = "idle"
  /\ \E trading \in Switches : Restart(Processors \ Workers, trading)

-----------------------------------------------------------------------------
(* process_execution_job, the handler of JobQueue.  The ticket is read and  *)
(* the adapter chosen; only an adapter with credentials and the network     *)
(* enabled sends anything.  Neither the status of the ticket nor            *)
(* live_trading_enabled is looked at again.                                 *)
LoadTicket(p) ==
  LET t == payload[prc[p].job]
      sends == tickets[t].venue \in secrets /\ env.network[p]
  IN /\ prc[p].pc = "run"
     /\ sub[p].pc = "none"
     /\ sub' = [sub EXCEPT ![p] =
                  [pc |-> IF sends THEN "post" ELSE "store", ticket |-> t,
                   row |-> tickets[t],
                   ref |-> IF sends THEN OrderRef ELSE DryRef, tries |-> 0]]
     /\ UNCHANGED <<ticketVars, queueVars>>

(* The lookup of the ticket raises, or that of the credentials.             *)
LoadRaises(p) ==
  /\ "save_error" \in Faults
  /\ prc[p].pc = "run"
  /\ sub[p].pc = "none"
  /\ HandlerRaises(p)
  /\ UNCHANGED <<ticketVars, sub>>

(* retry_sync surrounds the Binance request; Hyperliquid's is sent once.    *)
Attempts(venue) == IF venue = "binance" THEN PostAttempts ELSE 1

(* Mutation: the attempt is not counted. *)
SubmissionUncounted(p, pc, tries) ==
  [sub EXCEPT ![p] = [pc |-> pc, ticket |-> sub[p].ticket, row |-> sub[p].row,
                      ref |-> sub[p].ref, tries |-> sub[p].tries]]

Submission(p, pc, tries) ==
  [sub EXCEPT ![p] = [pc |-> pc, ticket |-> sub[p].ticket, row |-> sub[p].row,
                      ref |-> sub[p].ref, tries |-> tries]]

Receive(p) == orders' = [orders EXCEPT ![prc[p].job] = @ + 1]

(* Hyperliquid's order id is only found in an answer that left the order    *)
(* resting on the book.                                                     *)
AnswerRefs(venue) == IF venue = "binance" THEN {OrderRef} ELSE {OrderRef, NoRef}

PostAccepted(p) ==
  /\ sub[p].pc = "post"
  /\ Receive(p)
  /\ \E ref \in AnswerRefs(sub[p].row.venue) :
       sub' = [Submission(p, "store", sub[p].tries + 1) EXCEPT ![p].ref = ref]
  /\ UNCHANGED <<tickets, payload, secrets, env, adm, queueVars>>

(* Hyperliquid answers with an error in place of the order's state, and the *)
(* adapter returns that as submitted.                                       *)
PostDeclined(p) ==
  /\ "refused" \in Faults
  /\ sub[p].pc = "post"
  /\ sub[p].row.venue = "hyperliquid"
  /\ sub' = [Submission(p, "store", sub[p].tries + 1) EXCEPT ![p].ref = NoRef]
  /\ UNCHANGED <<ticketVars, queueVars>>

(* An attempt raises: the order did not arrive, or it did and the answer    *)
(* was lost.  The last attempt's exception leaves the handler.              *)
PostRaises(p) ==
  /\ sub[p].pc = "post"
  /\ \/ "unreachable" \in Faults /\ UNCHANGED orders
     \/ "lost_answer" \in Faults /\ Receive(p)
  /\ IF sub[p].tries + 1 < Attempts(sub[p].row.venue)
       THEN /\ sub' = Submission(p, "post", sub[p].tries + 1)
            /\ UNCHANGED queueVars
       ELSE /\ sub' = [sub EXCEPT ![p] = NoSubmission]
            /\ HandlerRaises(p)
  /\ UNCHANGED <<tickets, payload, secrets, env, adm>>

(* An error answer is raised outside retry_sync, and so are the failures of *)
(* the price and precision lookups that come before the order.  An answer   *)
(* that cannot be read may follow an order that was executed.               *)
AnswerRaises(p) ==
  /\ sub[p].pc = "post"
  /\ \/ "refused" \in Faults /\ UNCHANGED orders
     \/ "lost_answer" \in Faults /\ Receive(p)
  /\ sub' = [sub EXCEPT ![p] = NoSubmission]
  /\ HandlerRaises(p)
  /\ UNCHANGED <<tickets, payload, secrets, env, adm>>

(* Mutation: the status of the answer is written into the ticket. *)
WriteAnswerStatus(p) ==
  tickets' = [tickets EXCEPT ![sub[p].ticket] =
                [sub[p].row EXCEPT !.status = "network_disabled",
                                   !.ref = sub[p].ref]]

WriteSubmitted(p) ==
  tickets' = [tickets EXCEPT ![sub[p].ticket] =
                [sub[p].row EXCEPT !.status = "submitted", !.ref = sub[p].ref]]

StoreTicket(p) ==
  /\ sub[p].pc = "store"
  /\ WriteSubmitted(p)
  /\ sub' = [sub EXCEPT ![p] = NoSubmission]
  /\ HandlerReturns(p)
  /\ UNCHANGED <<payload, secrets, env, orders, adm>>

(* The save of the ticket raises, or the audit record after it does.        *)
StoreRaises(p) ==
  /\ "save_error" \in Faults
  /\ sub[p].pc = "store"
  /\ WriteSubmitted(p) \/ UNCHANGED tickets
  /\ sub' = [sub EXCEPT ![p] = NoSubmission]
  /\ HandlerRaises(p)
  /\ UNCHANGED <<payload, secrets, env, orders, adm>>

SubmitStep(p) ==
  \/ LoadTicket(p)
  \/ LoadRaises(p)
  \/ PostAccepted(p)
  \/ PostDeclined(p)
  \/ PostRaises(p)
  \/ AnswerRaises(p)
  \/ StoreTicket(p)
  \/ StoreRaises(p)

ProcessorDies(p) ==
  /\ Crash(p)
  /\ sub' = [sub EXCEPT ![p] = NoSubmission]
  /\ UNCHANGED ticketVars

-----------------------------------------------------------------------------
AdminStep(a) ==
  \/ \E t \in Tickets : ApproveRead(a, t) \/ RejectRead(a, t)
  \/ ApproveBlock(a)
  \/ \E j \in JobIds : ApproveEnqueue(a, j)
  \/ TicketSave(a)
  \/ RequestDies(a)

LiveNext ==
  \/ \E t \in Tickets, v \in Traded, ok \in BOOLEAN : CreateTicket(t, v, ok)
  \/ \E v \in Venues : SecretsChange(v)
  \/ \E a \in Admins : AdminStep(a)
  \/ ApiRestarts
  \/ \E p \in Workers : WorkerRestarts(p)
  \/ \E j \in JobIds : BackoffElapses(j) /\ UNCHANGED <<ticketVars, sub>>
  \/ \E p \in Processors :
       \/ QueueStep(p) /\ UNCHANGED <<ticketVars, sub>>
       \/ SubmitStep(p)
       \/ ProcessorDies(p)

LiveSpec == LiveInit /\ [][LiveNext]_liveVars

(* An API request that has begun runs to its end; the worker polls and runs *)
(* every call to its end; time passes.  No person has to do anything, and   *)
(* the venue may answer or not.                                             *)
LiveFairness ==
  /\ \A a \in Admins : WF_liveVars(adm[a].pc # "idle" /\ AdminStep(a))
  /\ \A p \in Workers :
       WF_liveVars(Claims(p) /\ UNCHANGED <<ticketVars, sub>>)
  /\ \A p \in Processors :
       WF_liveVars(/\ prc[p].pc # "idle"
                   /\ \/ QueueStep(p) /\ UNCHANGED <<ticketVars, sub>>
                      \/ SubmitStep(p))
  /\ \A j \in JobIds :
       WF_liveVars(BackoffElapses(j) /\ UNCHANGED <<ticketVars, sub>>)

FairLiveSpec == LiveSpec /\ LiveFairness

-----------------------------------------------------------------------------
(* Properties *)

JobsOf(t) == { j \in JobIds : payload[j] = t }

(* Live trading is off in the API, no job waits and no handler is at work.  *)
Disarmed ==
  /\ ~ env.trading
  /\ \A j \in JobIds : jobs[j].status # "queued"
  /\ \A p \in Processors : prc[p].pc = "idle"

(* However approvals, retries, deaths, edits of .env and restarts of either *)
(* process interleave, an order only leaves a processor whose own process   *)
(* was started with the live network enabled, for a ticket within the       *)
(* notional limit.  A job already queued is still sent after live trading   *)
(* was switched off, for the handler does not look at that setting; once no *)
(* job waits and none is at work, nothing is sent until the API is started  *)
(* with live trading on.                                                    *)
OrdersWithinGates ==
  [][/\ \A j \in JobIds : orders'[j] # orders[j] =>
          /\ tickets[payload[j]].limitOk
          /\ \E p \in Processors : prc[p].job = j /\ env.network[p]
     /\ Disarmed => orders' = orders /\ (Disarmed' \/ env'.trading)]_liveVars

(* The broker_order_id an operator sees on a queued ticket names a job that *)
(* was enqueued for that very ticket, and only a ticket some processor has  *)
(* handled carries an order id: stale whole-row writes never mix tickets.   *)
RefsAreTheirOwn ==
  \A t \in Tickets :
    /\ tickets[t].ref \in JobIds => payload[tickets[t].ref] = t
    /\ tickets[t].status = "queued" => tickets[t].ref \in JobIds
    /\ tickets[t].ref = OrderRef => \E j \in JobsOf(t) : orders[j] > 0

(* One processor sends at most MaxRetries times the attempts of retry_sync  *)
(* for a job, whatever the venue, the database and the process do.          *)
OrdersBounded ==
  \A j \in JobIds : orders[j] > 0 =>
    orders[j] <= MaxRetries * Attempts(tickets[payload[j]].venue)

(* With one request and one processor at a time, when answers are not lost  *)
(* and statements do not raise, a ticket reaches the venue at most once:    *)
(* at most one of its jobs is sent, and that one once, even if the          *)
(* processor dies anywhere.                                                 *)
OneOrderPerTicket ==
  \A t \in Tickets : \A i, j \in JobsOf(t) :
    /\ orders[i] <= 1
    /\ orders[i] > 0 /\ orders[j] > 0 => i = j

(* With one request at a time that runs to its end, a ticket that may still *)
(* be approved has no job, or its request is about to write that it has.    *)
OpenTicketHasNoJob ==
  \A t \in Tickets : tickets[t].status \in Approvable =>
    \A j \in JobsOf(t) : \E a \in Admins :
      adm[a].pc = "save" /\ adm[a].ticket = t /\ adm[a].row.ref = j

(* With one request at a time, a ticket rejected before a job was enqueued  *)
(* for it never gets one.                                                   *)
RejectionHolds ==
  [][\A t \in Tickets :
       tickets[t].status = "rejected" /\ JobsOf(t) = {} => JobsOf(t)' = {}]_liveVars

(* Once processors stop dying, a queued ticket's job is settled in the end, *)
(* or was left behind by a processor that died with it.                     *)
QueuedTicketIsActedOn ==
  (<>[][\A p \in Processors : ~ ProcessorDies(p)]_liveVars) =>
    \A t \in Tickets : tickets[t].status = "queued" ~>
      \E j \in JobsOf(t) : jobs[j].status \in Settled \/ Orphan(j)

(* Live execution is a job queue: nothing else touches the queue's tables.  *)
ImplementsQueue == QueueSpec
=============================================================================
