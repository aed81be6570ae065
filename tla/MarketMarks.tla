---------------------------- MODULE MarketMarks -----------------------------
(* Mark prices of one instrument: market_marks holds the latest, and an open   *)
(* paper position is valued with it.  Prices come from the exchange's stream,  *)
(* from a refresh every five seconds that takes the close of the last stored   *)
(* bar, and from run_bar, which values the positions it holds: the worker's    *)
(* tick runs bars, and so does the API's run-once.  A price is named by the    *)
(* time at which it was made.  How bars get stored is BarStore's; here only    *)
(* the last close matters.                                                     *)
EXTENDS Naturals

CONSTANTS
  MaxPrice,     \* bound: prices made
  MaxOld,       \* bound: ingestions that store an older answer over a newer one
  MaxBarRuns,   \* bound: bars run
  MaxRestarts   \* bound: deaths of a process

ASSUME MarksAssumption ==
  MaxPrice \in Nat \ {0} /\ MaxOld \in Nat /\ MaxBarRuns \in Nat /\ MaxRestarts \in Nat

VARIABLES
  price,        \* the latest price made
  stored,       \* the close of the last stored bar
  refresh,      \* the close that mark_to_market_refresh has read
  barRun,       \* by runner: the close of the bar that it is about to run
  delivered,    \* the latest price that a stream has delivered
  marking,      \* the price ingest_mark_price still has to value positions with
  mark,         \* market_marks.price
  valued,       \* the price the open position was last valued with
  used          \* how much of each bound is used up

marksVars == <<price, stored, refresh, barRun, delivered, marking, mark, valued, used>>

NoPrice == 0
Runners == {"tick", "request"}   \* on_15m_bar_close of the worker, run_once of the API

MarksInit ==
  /\ price = NoPrice /\ stored = NoPrice
  /\ refresh = NoPrice /\ barRun = [r \in Runners |-> NoPrice] /\ delivered = NoPrice
  /\ marking = NoPrice /\ mark = NoPrice /\ valued = NoPrice
  /\ used = [old |-> 0, runs |-> 0, restarts |-> 0]

PriceMoves ==
  /\ price < MaxPrice
  /\ price' = price + 1
  /\ UNCHANGED <<stored, refresh, barRun, delivered, marking, mark, valued, used>>

\* The worker's ingestion stores what the exchange answers now, ...
StoreBar ==
  /\ stored' = price
  /\ UNCHANGED <<price, refresh, barRun, delivered, marking, mark, valued, used>>

\* ... and one that was overtaken what it answered before.
StoreOldBar ==
  /\ used.old < MaxOld
  /\ \E t \in 1..price : stored' = t
  /\ used' = [used EXCEPT !.old = @ + 1]
  /\ UNCHANGED <<price, refresh, barRun, delivered, marking, mark, valued>>

-----------------------------------------------------------------------------
\* Mutant: once there is a mark, it is refreshed with itself.
RefreshCloseOnce == IF mark = NoPrice THEN stored ELSE mark

\* The close that latest_feature_bar_async returns.
RefreshClose == stored

\* mark_to_market_refresh reads, and may await the market context.
RefreshRead ==
  /\ refresh = NoPrice
  /\ refresh' = RefreshClose
  /\ UNCHANGED <<price, stored, barRun, delivered, marking, mark, valued, used>>

\* ingest_mark_price saves the mark, and mark_to_market the valuation; the
\* worker's event loop does nothing else in between.
RefreshSave ==
  /\ refresh # NoPrice /\ marking = NoPrice
  /\ mark' = refresh /\ marking' = refresh /\ refresh' = NoPrice
  /\ UNCHANGED <<price, stored, barRun, delivered, valued, used>>

\* The callback of _stream_loop.  A stream delivers in order, and what is sent
\* while it is disconnected is missed.
StreamSave(t) ==
  /\ marking = NoPrice
  /\ delivered < t /\ t <= price
  /\ mark' = t /\ marking' = t /\ delivered' = t
  /\ UNCHANGED <<price, stored, refresh, barRun, valued, used>>

MarkToMarket ==
  /\ marking # NoPrice
  /\ valued' = marking
  /\ marking' = NoPrice
  /\ UNCHANGED <<price, stored, refresh, barRun, delivered, mark, used>>

\* A runner reads a bar; latest_feature_bar_async may await before it returns it.
ReadBarToRun(r) ==
  /\ barRun[r] = NoPrice
  /\ used.runs < MaxBarRuns
  /\ barRun' = [barRun EXCEPT ![r] = stored]
  /\ used' = [used EXCEPT !.runs = @ + 1]
  /\ UNCHANGED <<price, stored, refresh, delivered, marking, mark, valued>>

\* run_bar values a position that it keeps with the close of its bar, and saves no
\* mark.  The tick shares the event loop with the refresh and the streams.
RunBarValues(r) ==
  /\ barRun[r] # NoPrice
  /\ r = "tick" => marking = NoPrice
  /\ valued' = barRun[r]
  /\ barRun' = [barRun EXCEPT ![r] = NoPrice]
  /\ UNCHANGED <<price, stored, refresh, delivered, marking, mark, used>>

\* The process of a runner dies, the worker perhaps between the mark and the
\* valuation.
ProcessDies(r) ==
  /\ used.restarts < MaxRestarts
  /\ used' = [used EXCEPT !.restarts = @ + 1]
  /\ barRun' = [barRun EXCEPT ![r] = NoPrice]
  /\ IF r = "tick" THEN refresh' = NoPrice /\ marking' = NoPrice
     ELSE UNCHANGED <<refresh, marking>>
  /\ UNCHANGED <<price, stored, delivered, mark, valued>>

MarksNext ==
  \/ PriceMoves \/ StoreBar \/ StoreOldBar
  \/ RefreshRead \/ RefreshSave \/ MarkToMarket
  \/ \E t \in 1..MaxPrice : StreamSave(t)
  \/ \E r \in Runners : ReadBarToRun(r) \/ RunBarValues(r) \/ ProcessDies(r)

\* The interval job fires again and again; nothing is assumed of the streams,
\* which may be disabled.
MarksFairness ==
  /\ WF_marksVars(StoreBar)
  /\ WF_marksVars(RefreshRead) /\ WF_marksVars(RefreshSave) /\ WF_marksVars(MarkToMarket)
  /\ \A r \in Runners : WF_marksVars(RunBarValues(r))

MarksSpec == MarksInit /\ [][MarksNext]_marksVars /\ MarksFairness

-----------------------------------------------------------------------------
\* The mark and the valuation of an open position end up at the last price, even
\* if the streams deliver nothing: a close that was read before an await and
\* saved after a newer price, an older answer of the exchange, or a valuation
\* that the worker did not live to make, do not stay.
MarksCatchUp == <>[](mark = price /\ valued = price)
=============================================================================
