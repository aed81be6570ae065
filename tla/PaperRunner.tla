----------------------------- MODULE PaperRunner ----------------------------
(***************************************************************************)
(* Paper trading: the tick of backend/scheduler.py in the worker process,   *)
(* POST /paper/run-once in the API process, run_bar of                      *)
(* backend/paper/runner.py that both call, the commits of                   *)
(* backend/paper/broker.py, runner_state, and the kill switch.              *)
(*                                                                          *)
(* Every query and every commit is a step, for two processes share the      *)
(* database and run_bar reads the same tables again for every risk check.   *)
(* Prices and features are left out: a bar is its timestamp, its rules may  *)
(* give any signal, its volume may be too small, a held position may have   *)
(* hit its stop, and a close realizes any member of Results.  An instrument *)
(* stands for a symbol with a timeframe; two timeframes of one symbol may   *)
(* fail the correlation check of each other here, which the code rules out. *)
(***************************************************************************)
EXTENDS Integers, FiniteSets, FiniteSetsExt

CONSTANTS
  Runners,      \* processes that run bars
  Schedulers,   \* those of them whose scheduler does so for ever
  Targets,      \* rows of strategy_targets
  Instruments,  \* instruments with a timeframe: what a bar is a bar of
  InstrumentOf, \* the instrument and timeframe of each target
  Sizes,        \* what _resolve_size_usd may return
  Results,      \* what a close may realize
  MaxOpen,      \* settings.paper_max_open_positions
  MaxGross,     \* settings.paper_max_gross_exposure_usd
  LossLimit,    \* settings.paper_daily_loss_limit_usd
  Faults,       \* {} or {"die"}
  MaxTrades,    \* bound: orders ever submitted
  MaxBars,      \* bound: bars of each instrument
  MaxDays       \* bound: trading days

ASSUME PaperAssumption ==
  /\ IsFiniteSet(Runners) /\ Schedulers \subseteq Runners
  /\ InstrumentOf \in [Targets -> Instruments]
  /\ "none" \notin Targets \cup Instruments
  /\ Sizes \subseteq Nat \ {0} /\ Results \subseteq Int
  /\ MaxOpen \in Nat \ {0} /\ MaxGross \in Nat \ {0}
  /\ LossLimit \in Nat \ {0}
  /\ MaxTrades \in Nat /\ MaxBars \in [Instruments -> Nat] /\ MaxDays \in Nat
  /\ Faults \subseteq {"die"}

TradeIds == 1 .. MaxTrades
Directions == {"long", "short"}

VARIABLES
  orders,     \* paper_orders
  positions,  \* paper_positions; position k is opened by order k
  processed,  \* runner_state: the last processed bar of each instrument
  enabled,    \* targets that are paper-enabled candidates or promoted
  trading,    \* settings.paper_trading_enabled
  feed,       \* the latest stored bar of each instrument
  day,        \* the current trading day
  run,        \* the local state of each runner
  closes,     \* history: how often each position was closed
  late        \* history: orders submitted while the loss limit is reached

paperVars == <<orders, positions, processed, enabled, trading, feed, day, run,
               closes, late>>
-----------------------------------------------------------------------------
(* Rows and local states *)

Orders == [status: {"absent", "pending", "filled"},
           target: Targets \cup {"none"}, dir: Directions \cup {"none"},
           size: Nat]

NoOrder == [status |-> "absent", target |-> "none", dir |-> "none", size |-> 0]

Positions == [status: {"absent", "open", "closed"}, result: Int, day: Nat]

NoPosition == [status |-> "absent", result |-> 0, day |-> 0]

(* check: a bar was read; load: it is new; next: between two targets; count *)
(* to loss: the risk checks; manage: stops, flips and marks of the held     *)
(* positions; order, fill: the order was submitted, filled.                 *)
Stages == {"idle", "check", "load", "next", "count", "gross", "correlation",
           "loss", "manage", "order", "fill"}

Runs == [pc: Stages, inst: Instruments \cup {"none"}, ts: Nat,
         todo: SUBSET Targets, target: Targets \cup {"none"},
         held: SUBSET TradeIds, signal: Directions \cup {"flat"},
         kept: BOOLEAN, trade: TradeIds \cup {0}]

IdleRun == [pc |-> "idle", inst |-> "none", ts |-> 0, todo |-> {},
            target |-> "none", held |-> {}, signal |-> "flat", kept |-> FALSE,
            trade |-> 0]

PaperTypeOK ==
  /\ orders \in [TradeIds -> Orders]
  /\ positions \in [TradeIds -> Positions]
  /\ processed \in [Instruments -> Nat]
  /\ enabled \in SUBSET Targets
  /\ trading \in BOOLEAN
  /\ feed \in [Instruments -> Nat]
  /\ day \in Nat
  /\ run \in [Runners -> Runs]
  /\ closes \in [TradeIds -> Nat]
  /\ late \in Nat

PaperInit ==
  /\ orders = [k \in TradeIds |-> NoOrder]
  /\ positions = [k \in TradeIds |-> NoPosition]
  /\ processed = [i \in Instruments |-> 0]
  /\ enabled = Targets
  /\ trading \in BOOLEAN
  /\ feed = [i \in Instruments |-> 0]
  /\ day = 1
  /\ run = [r \in Runners |-> IdleRun]
  /\ closes = [k \in TradeIds |-> 0]
  /\ late = 0

-----------------------------------------------------------------------------
(* What the queries of the risk checks and of the runner return *)

Open == { k \in TradeIds : positions[k].status = "open" }
OpenOf(t) == { k \in Open : orders[k].target = t }
OpenCount == Cardinality(Open)
Gross == MapThenSumSet(LAMBDA k : orders[k].size, Open)

ClosedToday ==
  { k \in TradeIds : positions[k].status = "closed" /\ positions[k].day = day }
RealizedToday == MapThenSumSet(LAMBDA k : positions[k].result, ClosedToday)
LossReached == RealizedToday <= - LossLimit

Elsewhere(i) == { k \in Open : InstrumentOf[orders[k].target] # i }

-----------------------------------------------------------------------------
(* The world outside the runners *)

NewBar(i) ==
  /\ feed[i] < MaxBars[i]
  /\ feed' = [feed EXCEPT ![i] = @ + 1]
  /\ UNCHANGED <<orders, positions, processed, enabled, trading, day, run,
                 closes, late>>

NewDay ==
  /\ day < MaxDays
  /\ day' = day + 1
  /\ late' = 0
  /\ UNCHANGED <<orders, positions, processed, enabled, trading, feed, run,
                 closes>>

(* update_target_state, called by people and by backtests *)
SwitchTarget(t) ==
  /\ enabled' = IF t \in enabled THEN enabled \ {t} ELSE enabled \cup {t}
  /\ UNCHANGED <<orders, positions, processed, trading, feed, day, run, closes,
                 late>>

(* Mutation: closed positions are closed again. *)
KillSwitchEverything ==
  /\ positions' = [k \in TradeIds |->
       IF positions[k].status = "absent" THEN positions[k]
       ELSE [status |-> "closed", result |-> 0, day |-> day]]
  /\ closes' = [k \in TradeIds |->
       IF positions[k].status = "absent" THEN closes[k] ELSE closes[k] + 1]
  /\ UNCHANGED <<orders, processed, enabled, trading, feed, day, run, late>>

(* kill_switch: one UPDATE of every open position, which leaves the         *)
(* realized result at zero.                                                 *)
KillSwitch ==
  /\ positions' = [k \in TradeIds |->
       IF k \in Open THEN [status |-> "closed", result |-> 0, day |-> day]
       ELSE positions[k]]
  /\ closes' = [k \in TradeIds |-> IF k \in Open THEN closes[k] + 1 ELSE closes[k]]
  /\ UNCHANGED <<orders, processed, enabled, trading, feed, day, run, late>>

-----------------------------------------------------------------------------
(* The tick: on_15m_bar_close and run_once.  The bar was read before the    *)
(* runner got to look at runner_state, for the network calls in between     *)
(* suspend it.                                                              *)

Continue(r, pc) == run' = [run EXCEPT ![r] = [@ EXCEPT !.pc = pc]]

tradeVars == <<orders, positions, enabled, trading, feed, day, closes, late>>

ReadBar(r, i) ==
  /\ run[r].pc = "idle"
  /\ feed[i] > 0
  /\ run' = [run EXCEPT ![r] = [IdleRun EXCEPT !.pc = "check", !.inst = i,
                                               !.ts = feed[i]]]
  /\ UNCHANGED <<tradeVars, processed>>

(* Mutation: a bar that was processed counts as new. *)
IsNewOrSame(r) == processed[run[r].inst] <= run[r].ts

(* should_process_bar *)
IsNew(r) == processed[run[r].inst] < run[r].ts

AcceptBar(r) ==
  /\ run[r].pc = "check"
  /\ IsNew(r)
  /\ Continue(r, "load")
  /\ UNCHANGED <<tradeVars, processed>>

DropBar(r) ==
  /\ run[r].pc = "check"
  /\ ~ IsNew(r)
  /\ run' = [run EXCEPT ![r] = IdleRun]
  /\ UNCHANGED <<tradeVars, processed>>

(* list_active_paper_targets and the filter on the bar's instrument *)
LoadTargets(r) ==
  /\ run[r].pc = "load"
  /\ run' = [run EXCEPT ![r] =
       [@ EXCEPT !.pc = "next",
                 !.todo = { t \in enabled : InstrumentOf[t] = run[r].inst }]]
  /\ UNCHANGED <<tradeVars, processed>>

(* Mutation: the mark lags one bar behind. *)
MarkProcessedBehind(r) ==
  /\ run[r].pc = "next"
  /\ run[r].todo = {}
  /\ processed' = [processed EXCEPT ![run[r].inst] = run[r].ts - 1]
  /\ run' = [run EXCEPT ![r] = IdleRun]
  /\ UNCHANGED tradeVars

(* mark_processed, once no target is left *)
MarkProcessed(r) ==
  /\ run[r].pc = "next"
  /\ run[r].todo = {}
  /\ processed' = [processed EXCEPT ![run[r].inst] = run[r].ts]
  /\ run' = [run EXCEPT ![r] = IdleRun]
  /\ UNCHANGED tradeVars

(* The process dies, or a statement of the tick raises: the tick ends where *)
(* it is, and the next one reads the bar again.                             *)
TickDies(r) ==
  /\ "die" \in Faults
  /\ run[r].pc # "idle"
  /\ run' = [run EXCEPT ![r] = IdleRun]
  /\ UNCHANGED <<tradeVars, processed>>

-----------------------------------------------------------------------------
(* run_bar for one target: its open positions are read once, then the risk  *)
(* checks run, each with a query of its own; the first one that fails ends  *)
(* the target.                                                              *)

(* The state of a runner that is done with a target *)
Passed(r, t) ==
  [IdleRun EXCEPT !.pc = "next", !.inst = run[r].inst, !.ts = run[r].ts,
                  !.todo = run[r].todo \ {t}]

Leave(r) == run' = [run EXCEPT ![r] = Passed(r, run[r].target)]

(* The volume of the bar is below the target's minimum, or paper trading is *)
(* switched off.                                                            *)
SkipTarget(r) ==
  /\ run[r].pc = "next"
  /\ \E t \in run[r].todo : run' = [run EXCEPT ![r] = Passed(r, t)]
  /\ UNCHANGED <<tradeVars, processed>>

TakeTarget(r) ==
  /\ run[r].pc = "next"
  /\ trading
  /\ \E t \in run[r].todo, s \in Directions \cup {"flat"} :
       run' = [run EXCEPT ![r] =
                 [@ EXCEPT !.pc = "count", !.target = t, !.held = OpenOf(t),
                           !.signal = s]]
  /\ UNCHANGED <<tradeVars, processed>>

(* Mutation: the limit may be passed by one. *)
CountCheckPast(r) ==
  /\ run[r].pc = "count"
  /\ IF OpenCount > MaxOpen THEN Leave(r) ELSE Continue(r, "gross")
  /\ UNCHANGED <<tradeVars, processed>>

CountCheck(r) ==
  /\ run[r].pc = "count"
  /\ IF OpenCount >= MaxOpen THEN Leave(r) ELSE Continue(r, "gross")
  /\ UNCHANGED <<tradeVars, processed>>

(* Mutation: an exposure at the limit is still below it. *)
GrossCheckPast(r) ==
  /\ run[r].pc = "gross"
  /\ IF Gross > MaxGross THEN Leave(r) ELSE Continue(r, "correlation")
  /\ UNCHANGED <<tradeVars, processed>>

GrossCheck(r) ==
  /\ run[r].pc = "gross"
  /\ IF Gross >= MaxGross THEN Leave(r) ELSE Continue(r, "correlation")
  /\ UNCHANGED <<tradeVars, processed>>

(* Correlated or not, as the bars say; only other instruments count.        *)
CorrelationCheck(r) ==
  /\ run[r].pc = "correlation"
  /\ \/ Continue(r, "loss")
     \/ Elsewhere(run[r].inst) # {} /\ Leave(r)
  /\ UNCHANGED <<tradeVars, processed>>

(* Mutation: a loss at the limit is still below it. *)
LossCheckPast(r) ==
  /\ run[r].pc = "loss"
  /\ IF RealizedToday < - LossLimit THEN Leave(r) ELSE Continue(r, "manage")
  /\ UNCHANGED <<tradeVars, processed>>

LossCheck(r) ==
  /\ run[r].pc = "loss"
  /\ IF LossReached THEN Leave(r) ELSE Continue(r, "manage")
  /\ UNCHANGED <<tradeVars, processed>>

(* close_position: an UPDATE by position id, whatever closed_at says now.   *)
(* A stop or a take, or a signal that is not the position's direction.      *)
ClosePosition(r) ==
  /\ run[r].pc = "manage"
  /\ \E k \in run[r].held, x \in Results :
       /\ positions' = [positions EXCEPT ![k] =
                          [status |-> "closed", result |-> x, day |-> day]]
       /\ closes' = [closes EXCEPT ![k] = @ + 1]
       /\ run' = [run EXCEPT ![r] = [@ EXCEPT !.held = run[r].held \ {k}]]
  /\ UNCHANGED <<orders, processed, enabled, trading, feed, day>>
  /\ late' = IF LossReached' THEN late ELSE 0

KeepPosition(r) ==
  /\ run[r].pc = "manage"
  /\ \E k \in run[r].held :
       /\ orders[k].dir = run[r].signal
       /\ run' = [run EXCEPT ![r] =
                    [@ EXCEPT !.held = run[r].held \ {k}, !.kept = TRUE]]
  /\ UNCHANGED <<tradeVars, processed>>

(* Mutation: a position that was kept does not keep a second one out. *)
EntersAgain(r) == run[r].signal \in Directions

Enters(r) == run[r].signal \in Directions /\ ~ run[r].kept

(* submit_order, fill_order and open_position: three commits                *)
SubmitOrder(r) ==
  /\ run[r].pc = "manage"
  /\ run[r].held = {}
  /\ Enters(r)
  /\ \E k \in TradeIds, n \in Sizes :
       /\ orders[k].status = "absent"
       /\ \A l \in TradeIds : l < k => orders[l].status # "absent"
       /\ orders' = [orders EXCEPT ![k] =
                       [status |-> "pending", target |-> run[r].target,
                        dir |-> run[r].signal, size |-> n]]
       /\ run' = [run EXCEPT ![r] = [@ EXCEPT !.pc = "order", !.trade = k]]
  /\ late' = IF LossReached THEN late + 1 ELSE late
  /\ UNCHANGED <<positions, processed, enabled, trading, feed, day, closes>>

(* Mutations: the order is filled in memory only; it gets a status nobody   *)
(* reads.                                                                   *)
FillOrderAsSubmitted(r) ==
  /\ run[r].pc = "order"
  /\ orders' = [orders EXCEPT ![run[r].trade] = [@ EXCEPT !.status = "submitted"]]
  /\ Continue(r, "fill")
  /\ UNCHANGED <<positions, processed, enabled, trading, feed, day, closes, late>>

FillOrderUnsaved(r) ==
  /\ run[r].pc = "order"
  /\ Continue(r, "fill")
  /\ UNCHANGED <<orders, positions, processed, enabled, trading, feed, day,
                 closes, late>>

FillOrder(r) ==
  /\ run[r].pc = "order"
  /\ orders' = [orders EXCEPT ![run[r].trade] = [@ EXCEPT !.status = "filled"]]
  /\ Continue(r, "fill")
  /\ UNCHANGED <<positions, processed, enabled, trading, feed, day, closes, late>>

OpenPosition(r) ==
  /\ run[r].pc = "fill"
  /\ positions' = [positions EXCEPT ![run[r].trade] =
                     [status |-> "open", result |-> 0, day |-> 0]]
  /\ Leave(r)
  /\ UNCHANGED <<orders, processed, enabled, trading, feed, day, closes, late>>

(* The signal is flat, or a position in its direction is open already.      *)
StayOut(r) ==
  /\ run[r].pc = "manage"
  /\ run[r].held = {}
  /\ ~ Enters(r)
  /\ Leave(r)
  /\ UNCHANGED <<tradeVars, processed>>

-----------------------------------------------------------------------------
TickStep(r) ==
  \/ AcceptBar(r) \/ DropBar(r) \/ LoadTargets(r)
  \/ SkipTarget(r) \/ TakeTarget(r) \/ MarkProcessed(r)
  \/ CountCheck(r) \/ GrossCheck(r) \/ CorrelationCheck(r) \/ LossCheck(r)
  \/ ClosePosition(r) \/ KeepPosition(r) \/ StayOut(r)
  \/ SubmitOrder(r) \/ FillOrder(r) \/ OpenPosition(r)

PaperNext ==
  \/ \E i \in Instruments : NewBar(i)
  \/ NewDay
  \/ \E t \in Targets : SwitchTarget(t)
  \/ KillSwitch
  \/ \E r \in Runners :
       \/ \E i \in Instruments : ReadBar(r, i)
       \/ TickStep(r)
       \/ TickDies(r)

PaperSpec == PaperInit /\ [][PaperNext]_paperVars

(* A tick that has read a bar runs on until it ends or dies.  People need   *)
(* do nothing, no bar has to arrive, and none has to be read.               *)
PaperFairness == \A r \in Runners : WF_paperVars(TickStep(r))

FairPaperSpec == PaperSpec /\ PaperFairness

-----------------------------------------------------------------------------
(* Properties *)

(* The cap is read before the order is made, so each further process can    *)
(* overshoot it by one position, and no more, however ticks interleave, die *)
(* and start again.                                                         *)
CapOvershoot == OpenCount <= MaxOpen - 1 + Cardinality(Runners)

(* The same for the exposure limit: each process adds one order at most on  *)
(* top of an exposure below the limit.                                      *)
LargestSize == CHOOSE n \in Sizes : \A m \in Sizes : m <= n

GrossOvershoot == Gross <= MaxGross - 1 + Cardinality(Runners) * LargestSize

(* Once the loss limit is reached a process submits one more order at most, *)
(* the one its check came too early for, until the day ends or a late close *)
(* lifts the loss.                                                          *)
LateOrdersBounded == late <= Cardinality(Runners)

(* A close does not look at closed_at; still a position is closed once by   *)
(* each process at most, and once by the kill switch.                       *)
ClosesBounded == \A k \in TradeIds : closes[k] <= Cardinality(Runners) + 1

(* Three commits make a position.  A position never appears without its     *)
(* filled order, and as long as no tick dies, an order without its position *)
(* is in the hands of a runner that is about to open it.                    *)
OrdersAreFollowed ==
  \A k \in TradeIds :
    /\ positions[k].status # "absent" => orders[k].status = "filled"
    /\ orders[k].status # "absent" /\ positions[k].status = "absent" =>
         \E r \in Runners : run[r].trade = k

(* At the position cap, and after the loss limit, the checks end a target   *)
(* before its positions are looked at: no stop, no take and no flip is      *)
(* executed, and this stays so until the kill switch or a new day.          *)
AtCap ==
  /\ OpenCount >= MaxOpen
  /\ \A r \in Runners :
       run[r].pc \in {"idle", "check", "load", "next", "count"}

AtLoss ==
  /\ LossReached
  /\ \A r \in Runners : run[r].pc \notin {"manage", "order", "fill"}

LimitsFreezeTheBook ==
  [][/\ AtCap => (AtCap' /\ positions' = positions) \/ KillSwitch
     /\ AtLoss => (AtLoss' /\ positions' = positions) \/ KillSwitch \/ NewDay]_paperVars

(* With one process, whose ticks may die anywhere, the positions are those  *)
(* of the abstract book: one per target, entered below the cap.             *)
BookOf(t) ==
  CASE OpenOf(t) = {} -> "flat"
    [] \E k \in TradeIds : OpenOf(t) = {k} ->
         orders[CHOOSE k \in TradeIds : OpenOf(t) = {k}].dir
    [] OTHER -> "several"

Book == INSTANCE PaperBook WITH book <- [t \in Targets |-> BookOf(t)]

ImplementsBook == Book!BookSpec

(* With one process, a bar that was marked as processed is not acted on     *)
(* again, and the mark never moves back to an older bar.                    *)
BarsMoveForward ==
  [][\A i \in Instruments :
       /\ processed'[i] >= processed[i]
       /\ \A r \in Runners :
            run[r].inst = i /\ (orders' # orders \/ (positions' # positions /\ run' # run))
              => processed[i] < run[r].ts]_paperVars

(* Once ticks stop dying, and while they reach every instrument again and   *)
(* again, every stored bar is processed, or a newer one is: a tick that     *)
(* died is made good by a later one.  That they reach it is a premise: a    *)
(* tick whose ingestion, or the bar of an earlier instrument, raises (an    *)
(* exchange that stays down) does not come to the later ones.  A tick that  *)
(* ends and changes nothing looks like one that dies there.  A runner is    *)
(* stuck only where the model has no order left to give it.                 *)
TicksReachEveryBar ==
  \A r \in Schedulers, i \in Instruments : SF_paperVars(ReadBar(r, i))

TicksStopDying ==
  <>[][\A r \in Runners :
          TickDies(r) => DropBar(r) \/ MarkProcessed(r)]_paperVars

Stuck(r) ==
  /\ run[r].pc = "manage" /\ run[r].held = {} /\ Enters(r)
  /\ \A k \in TradeIds : orders[k].status # "absent"

BarsGetProcessed ==
  TicksReachEveryBar /\ TicksStopDying =>
    \A i \in Instruments : \A n \in 1 .. MaxBars[i] :
      feed[i] = n ~> processed[i] >= n \/ \E r \in Runners : Stuck(r)
=============================================================================
