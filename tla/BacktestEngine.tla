---------------------------- MODULE BacktestEngine --------------------------
(* run_backtest walks over the bars of a data frame with one position at a    *)
(* time, and once more over the last part of the frame for the out-of-sample  *)
(* result.  walk_forward_analysis cuts a frame into windows to train and to    *)
(* test on.  Money is counted in whole units, and a strategy looks at a single *)
(* feature; sizes that depend on volatility and equity are a choice.           *)
EXTENDS Integers, Sequences, FiniteSets, SequencesExt

CONSTANTS
  Strategies,   \* the strategies that may be tested, see StrategySpace
  Values,       \* of the feature
  Prices,       \* closes
  Rates,        \* funding of one bar per unit of size
  Sizes,        \* what _resolve_backtest_size may return
  Capital,      \* initial capital
  Cost,         \* round_trip_cost of a trade
  MaxBars,      \* bound: bars of a frame
  Frames        \* lengths of frames and numbers of windows for the walk forward

VARIABLES
  strategy,     \* the strategy under test
  pass,         \* "idle", "full", "closed", "oos", "walk" or "done"
  bars,         \* the frame: feature, close and funding rate of each bar
  at,           \* the bar that was processed last
  pos,          \* current_side, entry_price, entry_ts and size_usd
  accrued,      \* accrued_funding
  equity,
  curve,        \* equity_curve
  trades,
  paper,        \* history: what the paper runner would hold, without its stops
  walk          \* the windows of walk_forward_analysis

engineVars == <<strategy, pass, bars, at, pos, accrued, equity, curve, trades, paper, walk>>

Sides == {"long", "short"}
Flat == [side |-> "flat", price |-> 0, bar |-> 0, size |-> 0]
NoWalk == [len |-> 0, windows |-> 0, index |-> 0, results |-> <<>>]

Operators == {"gt", "lt", "gte", "lte", "eq", "neq", "between", "crossover", "crossunder"}
RuleSpace == [op : Operators, lo : Int, hi : Int]
StrategySpace == [filters : SUBSET RuleSpace, long : SUBSET RuleSpace, short : SUBSET RuleSpace,
                  exitLong : SUBSET RuleSpace, exitShort : SUBSET RuleSpace]

\* Profits are whole numbers, and no trade can lose the capital.
ASSUME EngineAssumption ==
  /\ Values \subseteq Int /\ Rates \subseteq Int
  /\ Prices \subseteq Nat \ {0} /\ Sizes \subseteq Nat \ {0}
  /\ Capital \in Nat /\ Cost \in Nat /\ MaxBars \in Nat
  /\ \A p \in Prices, q \in Prices, s \in Sizes : ((q - p) * s) % p = 0
  /\ Frames \subseteq (Nat \X (Nat \ {0}))

EngineInit ==
  /\ strategy \in Strategies
  /\ pass = "idle"
  /\ bars = <<>> /\ at = 0
  /\ pos = Flat /\ accrued = 0 /\ equity = Capital
  /\ curve = <<>> /\ trades = <<>>
  /\ paper = "flat"
  /\ walk = NoWalk

-----------------------------------------------------------------------------
(* The signal engine.                                                         *)

\* evaluate_rule: in the first bar a feature has no previous value.
Holds(rule, bs, i) ==
  LET v == bs[i].value
      before == bs[i - 1].value
  IN  CASE rule.op = "gt" -> v > rule.lo
        [] rule.op = "lt" -> v < rule.lo
        [] rule.op = "gte" -> v >= rule.lo
        [] rule.op = "lte" -> v <= rule.lo
        [] rule.op = "eq" -> v = rule.lo
        [] rule.op = "neq" -> v # rule.lo
        [] rule.op = "between" -> rule.lo <= v /\ v <= rule.hi
        [] rule.op = "crossover" -> i > 1 /\ before <= rule.lo /\ rule.lo < v
        [] rule.op = "crossunder" -> i > 1 /\ before >= rule.lo /\ rule.lo > v

AllHold(rules, bs, i) == \A rule \in rules : Holds(rule, bs, i)
Fires(rules, bs, i) == rules # {} /\ AllHold(rules, bs, i)

\* get_signal
Signal(bs, i) ==
  CASE ~AllHold(strategy.filters, bs, i) -> "flat"
    [] AllHold(strategy.filters, bs, i) /\ Fires(strategy.long, bs, i) -> "long"
    [] AllHold(strategy.filters, bs, i) /\ ~Fires(strategy.long, bs, i) ->
         IF Fires(strategy.short, bs, i) THEN "short" ELSE "flat"

\* get_signal_with_position, which the paper runner uses
SignalWithPosition(bs, i, side) ==
  IF \/ side = "long" /\ Fires(strategy.exitLong, bs, i)
     \/ side = "short" /\ Fires(strategy.exitShort, bs, i)
  THEN "flat" ELSE Signal(bs, i)

-----------------------------------------------------------------------------
(* One bar of run_backtest.                                                   *)

\* A long position pays a positive rate, a short one receives it.
Funding(side, size, rate) ==
  CASE side = "long" -> -(size * rate)
    [] side = "short" -> size * rate
    [] OTHER -> 0

Profit(side, size, from, to) ==
  LET raw == ((to - from) * size) \div from
  IN  IF side = "short" THEN -raw ELSE raw

\* The trade that ends the position at a close, with the funding accrued so far.
Trade(price, bar, funding, reason) ==
  [side |-> pos.side, from |-> pos.bar, to |-> bar, size |-> pos.size, reason |-> reason,
   pnl |-> Profit(pos.side, pos.size, pos.price, price) - Cost + funding]

\* Mutant: the signal is looked at first, and the bar of the exit is free.
AccrueUnlessLeaving(bs, i, signal) ==
  IF pos.side = "flat" THEN 0
  ELSE IF signal # pos.side THEN accrued ELSE accrued + Funding(pos.side, pos.size, bs[i].rate)

\* Funding is accrued before the signal is looked at: not in the bar of the
\* entry, but in the bar of the exit.
Accrue(bs, i, signal) ==
  IF pos.side = "flat" THEN 0 ELSE accrued + Funding(pos.side, pos.size, bs[i].rate)

\* Mutant: only the opposite signal ends a position.
LeavesOnFlip(signal) == pos.side \in Sides /\ signal \in Sides /\ signal # pos.side

Leaves(signal) == pos.side \in Sides /\ signal # pos.side

Process(bs, i) ==
  LET signal == Signal(bs, i)
      funding == Accrue(bs, i, signal)
      trade == Trade(bs[i].price, i, funding, "signal")
  IN  /\ at' = i
      /\ CASE Leaves(signal) ->
                /\ trades' = Append(trades, trade)
                /\ equity' = equity + trade.pnl
                /\ pos' = Flat
                /\ accrued' = 0
           [] pos.side = "flat" /\ signal \in Sides ->
                /\ \E size \in Sizes :
                     pos' = [side |-> signal, price |-> bs[i].price, bar |-> i, size |-> size]
                /\ accrued' = 0
                /\ UNCHANGED <<trades, equity>>
           [] OTHER ->
                /\ accrued' = funding
                /\ UNCHANGED <<pos, trades, equity>>
      /\ curve' = Append(curve, equity')

StartBacktest ==
  /\ pass = "idle"
  /\ pass' = "full"
  /\ UNCHANGED <<strategy, bars, at, pos, accrued, equity, curve, trades, paper, walk>>

\* The next row of the frame.  The paper runner closes what its signal no
\* longer supports and enters what it asks for in the same bar.
NextBar ==
  /\ pass = "full"
  /\ Len(bars) < MaxBars
  /\ \E v \in Values, p \in Prices, r \in Rates :
       bars' = Append(bars, [value |-> v, price |-> p, rate |-> r])
  /\ Process(bars', Len(bars'))
  /\ paper' = SignalWithPosition(bars', Len(bars'), paper)
  /\ UNCHANGED <<strategy, pass, walk>>

\* A position still open after the last row ends there, and the last point of
\* the curve is replaced.
CloseLast ==
  LET trade == Trade(bars[Len(bars)].price, Len(bars), accrued, "end_of_backtest")
  IN  IF pos.side = "flat" THEN UNCHANGED <<pos, accrued, equity, curve, trades>>
      ELSE /\ trades' = Append(trades, trade)
           /\ equity' = equity + trade.pnl
           /\ curve' = [curve EXCEPT ![Len(curve)] = equity']
           /\ pos' = Flat
           /\ accrued' = accrued

FinishFull ==
  /\ pass = "full"
  /\ bars # <<>>
  /\ CloseLast
  /\ pass' = "closed"
  /\ UNCHANGED <<strategy, bars, at, paper, walk>>

\* _compute_oos_sharpe: a fresh run over the last part of the frame, whose
\* features were computed on the whole frame.
Split(n) ==
  LET cut == (7 * n) \div 10
  IN  CHOOSE s \in 1..n-1 : \A x \in 1..n-1 : (s - cut) * (s - cut) <= (x - cut) * (x - cut)

StartOutOfSample ==
  /\ pass = "closed"
  /\ Len(bars) >= 2
  /\ pass' = "oos"
  /\ at' = Split(Len(bars))
  /\ pos' = Flat /\ accrued' = 0 /\ equity' = Capital /\ curve' = <<>> /\ trades' = <<>>
  /\ UNCHANGED <<strategy, bars, paper, walk>>

NextOutOfSample ==
  /\ pass = "oos"
  /\ at < Len(bars)
  /\ Process(bars, at + 1)
  /\ UNCHANGED <<strategy, pass, bars, paper, walk>>

FinishOutOfSample ==
  /\ pass = "oos"
  /\ at = Len(bars)
  /\ CloseLast
  /\ pass' = "done"
  /\ UNCHANGED <<strategy, bars, at, paper, walk>>

-----------------------------------------------------------------------------
(* walk_forward_analysis: only its windows; the sweep over variants on the     *)
(* training part runs the machine above.                                       *)

StartWalk(len, windows) ==
  /\ pass = "idle"
  /\ len >= 60 /\ len >= 12 * windows
  /\ pass' = "walk"
  /\ walk' = [len |-> len, windows |-> windows, index |-> 0, results |-> <<>>]
  /\ UNCHANGED <<strategy, bars, at, pos, accrued, equity, curve, trades, paper>>

Least(a, b) == IF a <= b THEN a ELSE b
Stride == IF walk.len \div walk.windows < 10 THEN 10 ELSE walk.len \div walk.windows

\* Mutant: the test begins one bar early, to have a previous value.
WindowWithPrevious(k) ==
  LET from == k * Stride
      cut == Least(from + Stride, walk.len - 1)
  IN  [train |-> from..cut-1, test |-> cut-1..Least(cut + Stride, walk.len)-1]

\* Half-open slices of the frame, as sets of row numbers.
Window(k) ==
  LET from == k * Stride
      cut == Least(from + Stride, walk.len - 1)
  IN  [train |-> from..cut-1, test |-> cut..Least(cut + Stride, walk.len)-1]

NextWindow ==
  /\ pass = "walk"
  /\ walk.index < walk.windows
  /\ LET w == Window(walk.index)
     IN  walk' = [walk EXCEPT !.index = @ + 1,
                              !.results = IF Cardinality(w.test) < 5 THEN @ ELSE Append(@, w)]
  /\ UNCHANGED <<strategy, pass, bars, at, pos, accrued, equity, curve, trades, paper>>

EngineNext ==
  \/ StartBacktest \/ NextBar \/ FinishFull
  \/ StartOutOfSample \/ NextOutOfSample \/ FinishOutOfSample
  \/ \E f \in Frames : StartWalk(f[1], f[2])
  \/ NextWindow

EngineSpec == EngineInit /\ [][EngineNext]_engineVars

-----------------------------------------------------------------------------
(* compute_max_drawdown.                                                      *)

\* a[1] / a[2] < b[1] / b[2]
Below(a, b) == a[1] * b[2] < b[1] * a[2]

\* Mutant: the peak follows the curve down.
DeepenPrevious(acc, value) ==
  LET fall == <<acc.peak - value, acc.peak>>
  IN  [peak |-> value, worst |-> IF Below(acc.worst, fall) THEN fall ELSE acc.worst]

Deepen(acc, value) ==
  LET peak == IF value >= acc.peak THEN value ELSE acc.peak
      fall == <<peak - value, peak>>
  IN  [peak |-> peak, worst |-> IF Below(acc.worst, fall) THEN fall ELSE acc.worst]

MaxDrawdown(points) ==
  IF points = <<>> THEN <<0, 1>>
  ELSE FoldLeft(Deepen, [peak |-> points[1], worst |-> <<0, 1>>], points).worst

-----------------------------------------------------------------------------
(* Properties.                                                                *)

SumOf(f(_), s) == FoldLeft(LAMBDA acc, x : acc + f(x), 0, s)

\* What a position of the given side earns from its entry to its exit: the
\* funding of every bar after the entry, the exit's included.
Earned(t) ==
  LET p == [k \in DOMAIN bars |-> bars[k].price]
  IN  (IF t.side = "long" THEN 1 ELSE -1)
        * (((p[t.to] - p[t.from]) * t.size) \div p[t.from]
           - t.size * FoldLeft(LAMBDA acc, k : acc + (IF k \in t.from + 1..t.to THEN bars[k].rate ELSE 0), 0,
                               [k \in DOMAIN bars |-> k]))
      - Cost

\* The books of a backtest balance: equity is the capital plus the results of
\* the trades, every trade earned what its bars say it earned, trades follow one
\* another, and once the last position is closed the curve ends at the equity.
\* A trade left open, an exit booked twice, funding carried into the next
\* position or charged in the wrong bar would break it.
BooksBalance ==
  /\ equity = Capital + SumOf(LAMBDA t : t.pnl, trades)
  /\ \A k \in DOMAIN trades :
       /\ trades[k].pnl = Earned(trades[k])
       /\ trades[k].from <= trades[k].to
       /\ k > 1 => trades[k - 1].to < trades[k].from
  /\ pass \in {"closed", "done"} => pos = Flat /\ Last(curve) = equity

\* For a strategy without exit rules the backtest never holds what the paper
\* runner would not hold in the same bar: it lags, as it leaves in one bar and
\* enters in the next, but it is not on another side.  (With exit rules it is:
\* run_backtest asks get_signal, which does not look at them.)
HoldsOnlyWhatPaperHolds ==
  pass = "full" /\ strategy.exitLong = {} /\ strategy.exitShort = {} /\ pos # Flat
    => pos.side = paper

\* The drawdown computed in one pass with a running peak is the largest fall
\* from any point of the curve to any later one, relative to where it began.
DrawdownIsTheLargest ==
  LET later == {<<0, 1>>} \cup UNION {{<<curve[i] - curve[j], curve[i]>> : j \in i..Len(curve)} :
                                      i \in DOMAIN curve}
      worst == MaxDrawdown(curve)
  IN  /\ \A f \in later : ~Below(worst, f)
      /\ \E f \in later : ~Below(f, worst)

\* A walk forward tests on bars it has not trained on, in windows of five bars
\* or more, and no bar is tested twice.
TestsAreUnseen ==
  LET r == walk.results
  IN  \A k \in DOMAIN r :
        /\ Cardinality(r[k].test) >= 5
        /\ r[k].train # {} /\ r[k].train \cup r[k].test \subseteq 0..walk.len-1
        /\ \A i \in r[k].train, j \in r[k].test : i < j
        /\ \A n \in DOMAIN r : n # k => r[n].test \cap r[k].test = {}
=============================================================================
