---------------------------- MODULE MCMarketData ----------------------------
(* Market data for TLC, in parts that keep out of each other's files: a         *)
(* behaviour is one of the stored bars, of the stored context, or of the mark  *)
(* prices, and the other parts keep still.  Of the agents two are at work in a *)
(* behaviour, of one process or of both.                                       *)
EXTENDS BarStore, MarketMarks

CONSTANTS tick, repair, request, thread
TwoCrons == {tick, repair}
OneRequest == {request}
OneThread == {thread}

VARIABLES part, cast

OneProcess == {tick, repair}
BothProcesses == {tick, request}
Checking == {repair, thread}

\* The store starts as its first bar closes; no bar is due where it keeps still.
Init ==
  /\ BarInit /\ MarksInit
  /\ \/ part = "bars" /\ cast \in {OneProcess, BothProcesses, Checking} /\ clock = TicksPerBar
     \/ part = "context" /\ cast = OneProcess /\ clock = TicksPerBar
     \/ part = "marks" /\ cast = {} /\ clock = 1

StorePart ==
  /\ part \in Datasets
  /\ BarNext
  /\ \A a \in Agents : job'[a].pc # "idle" => a \in cast
  /\ \A a \in Agents : job'[a].pc = "fetching" => job'[a].set = part
  /\ UNCHANGED <<part, cast, marksVars>>
MarksPart == part = "marks" /\ MarksNext /\ UNCHANGED <<part, cast, barVars>>

\* The fairness of each part, where that part is the one that moves.
Fairness ==
  /\ \A n \in Lookbacks :
       SF_barVars(part = "bars" /\ \E a \in Crons \cap cast : StartIngest(a, "bars", n))
  /\ \A a \in Agents : WF_barVars(part = "bars" /\ JobStep(a))
  /\ WF_marksVars(part = "marks" /\ StoreBar)
  /\ WF_marksVars(part = "marks" /\ RefreshRead)
  /\ WF_marksVars(part = "marks" /\ RefreshSave)
  /\ WF_marksVars(part = "marks" /\ MarkToMarket)
  /\ \A r \in Runners : WF_marksVars(part = "marks" /\ RunBarValues(r))

Spec == Init /\ [][StorePart \/ MarksPart]_<<part, cast, barVars, marksVars>> /\ Fairness

\* Where bars are ingested: those that one of the worker's jobs asks for get their
\* final close (see BarsBecomeFinal).
IngestedBarsBecomeFinal == \A b \in Bars : <>[](part = "bars" => UpToDate(b))
=============================================================================
