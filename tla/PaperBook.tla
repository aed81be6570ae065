------------------------------ MODULE PaperBook -----------------------------
(***************************************************************************)
(* What paper trading promises when one process runs the bars: every target *)
(* is flat, long or short, a target is entered only from flat and only      *)
(* below the position cap, and the kill switch flattens everything.         *)
(* Orders, fills, bars, risk reads and restarts do not appear here.         *)
(***************************************************************************)
EXTENDS Integers, FiniteSets

CONSTANTS Targets, MaxOpen

VARIABLE book  \* the direction each target holds

Taken == { t \in Targets : book[t] # "flat" }

BookInit == book = [t \in Targets |-> "flat"]

Enter(t, d) ==
  /\ book[t] = "flat"
  /\ Cardinality(Taken) < MaxOpen
  /\ book' = [book EXCEPT ![t] = d]

Exit(t) ==
  /\ book[t] # "flat"
  /\ book' = [book EXCEPT ![t] = "flat"]

Liquidate == book' = [t \in Targets |-> "flat"]

BookNext ==
  \/ \E t \in Targets : Exit(t) \/ \E d \in {"long", "short"} : Enter(t, d)
  \/ Liquidate

BookSpec == BookInit /\ [][BookNext]_book
=============================================================================
