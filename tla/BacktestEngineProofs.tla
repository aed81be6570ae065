------------------------- MODULE BacktestEngineProofs -------------------------
(* The backtest engine for any strategies, prices, rates, sizes and frames.   *)
EXTENDS BacktestEngine, FiniteSetTheorems, WellFoundedInduction, TLAPS

Bar == [value : Values, price : Prices, rate : Rates]
Positions == [side : Sides \cup {"flat"}, price : Nat, bar : Nat, size : Nat]
Trades == [side : Sides, from : Nat, to : Nat, size : Nat,
           reason : {"signal", "end_of_backtest"}, pnl : Int]
Windows == [train : SUBSET Int, test : SUBSET Int]
Walks == [len : Nat, windows : Nat, index : Nat, results : Seq(Windows)]

EngineTypeOK ==
  /\ pass \in {"idle", "full", "closed", "oos", "walk", "done"}
  /\ bars \in Seq(Bar)
  /\ at \in 0..Len(bars)
  /\ pos \in Positions
  /\ accrued \in Int /\ equity \in Int
  /\ curve \in Seq(Int)
  /\ trades \in Seq(Trades)
  /\ paper \in Sides \cup {"flat"}
  /\ walk \in Walks

\* An open position was entered at the close of a bar of the frame.
Entered == /\ pos.side \in Sides
           /\ pos.bar \in 1..at /\ pos.size \in Sizes
           /\ pos.price = bars[pos.bar].price

\* How far the passes have come.
PassInv ==
  /\ pos = Flat \/ Entered
  /\ pass \in {"idle", "walk"} => /\ bars = <<>> /\ pos = Flat /\ trades = <<>>
                                  /\ curve = <<>> /\ equity = Capital
  /\ pass = "full" => at = Len(bars) /\ Len(curve) = at
  /\ pass \in {"closed", "done"} => pos = Flat /\ curve # <<>>
  /\ pass = "oos" => /\ Len(bars) >= 2
                     /\ at >= Split(Len(bars)) /\ Len(curve) = at - Split(Len(bars))
  /\ IF pass = "walk"
     THEN /\ walk.len >= 60 /\ walk.len >= 12 * walk.windows /\ walk.windows # 0
          /\ walk.index <= walk.windows
     ELSE walk = NoWalk

-----------------------------------------------------------------------------
(* What the steps are built from.                                             *)

\* The signal is one of three.
LEMMA SignalTyped ==
  ASSUME NEW bs, NEW i
  PROVE  Signal(bs, i) \in {"long", "short", "flat"}
<1> DEFINE F == AllHold(strategy.filters, bs, i)
           L == Fires(strategy.long, bs, i)
<1>1. F \in BOOLEAN /\ L \in BOOLEAN
  BY DEF AllHold, Fires
<1>2. Signal(bs, i) = CASE ~F -> "flat"
                        [] F /\ L -> "long"
                        [] F /\ ~L -> IF Fires(strategy.short, bs, i) THEN "short" ELSE "flat"
  BY Zenon DEF Signal
<1> HIDE DEF F, L
<1>3. QED
  BY <1>1, <1>2

LEMMA FundingTyped ==
  ASSUME NEW side, NEW size \in Int, NEW rate \in Int
  PROVE  Funding(side, size, rate) \in Int
BY DEF Funding

LEMMA ProfitTyped ==
  ASSUME NEW side, NEW size \in Nat, NEW from \in Nat \ {0}, NEW to \in Nat
  PROVE  Profit(side, size, from, to) \in Int
<1>1. (to - from) * size \in Int
  OBVIOUS
<1>2. ((to - from) * size) \div from \in Int
  BY <1>1
<1>3. QED
  BY <1>2 DEF Profit

\* The out-of-sample part of a frame of two bars or more is neither nothing nor
\* everything.
LEMMA SplitInside ==
  ASSUME NEW n \in Nat, n >= 2
  PROVE  Split(n) \in 1..n-1
<1> DEFINE cut == (7 * n) \div 10
<1>1. cut \in 1..n-1
  OBVIOUS
<1>2. \A x \in 1..n-1 : (cut - cut) * (cut - cut) <= (x - cut) * (x - cut)
  <2> HIDE DEF cut
  <2>1. \A y \in Int : 0 <= y * y
    OBVIOUS
  <2>2. cut \in Int /\ \A x \in 1..n-1 : x - cut \in Int
    BY <1>1
  <2>3. (cut - cut) * (cut - cut) = 0
    BY <2>2
  <2>4. QED
    BY <2>1, <2>2, <2>3
<1>3. \E s \in 1..n-1 : \A x \in 1..n-1 : (s - cut) * (s - cut) <= (x - cut) * (x - cut)
  BY <1>1, <1>2
<1>4. Split(n) = CHOOSE s \in 1..n-1 :
                   \A x \in 1..n-1 : (s - cut) * (s - cut) <= (x - cut) * (x - cut)
  BY DEF Split
<1> HIDE DEF cut
<1>5. QED
  BY <1>3, <1>4

-----------------------------------------------------------------------------
(* What a bar does: it ends the position, begins one, or carries on.          *)

Paid(bs, i) == accrued + Funding(pos.side, pos.size, bs[i].rate)

Exits(bs, i) ==
  /\ pos.side \in Sides
  /\ trades' = Append(trades, Trade(bs[i].price, i, Paid(bs, i), "signal"))
  /\ equity' = equity + Trade(bs[i].price, i, Paid(bs, i), "signal").pnl
  /\ pos' = Flat /\ accrued' = 0

Enters(bs, i) ==
  /\ pos.side = "flat" /\ Signal(bs, i) \in Sides
  /\ \E size \in Sizes :
       pos' = [side |-> Signal(bs, i), price |-> bs[i].price, bar |-> i, size |-> size]
  /\ accrued' = 0 /\ trades' = trades /\ equity' = equity

Carries(bs, i) ==
  /\ pos.side = Signal(bs, i) /\ pos' = pos
  /\ accrued' = IF pos.side = "flat" THEN 0 ELSE Paid(bs, i)
  /\ trades' = trades /\ equity' = equity

LEMMA ProcessEffects ==
  ASSUME NEW bs, NEW i, pos.side \in Sides \cup {"flat"}, Process(bs, i)
  PROVE  /\ at' = i /\ curve' = Append(curve, equity')
         /\ Exits(bs, i) \/ Enters(bs, i) \/ Carries(bs, i)
<1> DEFINE signal == Signal(bs, i)
           funding == Accrue(bs, i, signal)
           trade == Trade(bs[i].price, i, funding, "signal")
<1>1. signal \in Sides \cup {"flat"} /\ "flat" \notin Sides
  BY SignalTyped DEF Sides
<1>2. funding = IF pos.side = "flat" THEN 0 ELSE Paid(bs, i)
  BY DEF Accrue, Paid
<1>3. /\ at' = i /\ curve' = Append(curve, equity')
      /\ CASE Leaves(signal) ->
                /\ trades' = Append(trades, trade)
                /\ equity' = equity + trade.pnl
                /\ pos' = Flat
                /\ accrued' = 0
           [] pos.side = "flat" /\ signal \in Sides ->
                /\ \E size \in Sizes :
                     pos' = [side |-> signal, price |-> bs[i].price, bar |-> i, size |-> size]
                /\ accrued' = 0
                /\ UNCHANGED <<trades, equity>>
           [] OTHER ->
                /\ accrued' = funding
                /\ UNCHANGED <<pos, trades, equity>>
  BY DEF Process
<1>4. CASE Leaves(signal)
  <2>1. pos.side \in Sides /\ pos.side # "flat"
    BY <1>1, <1>4 DEF Leaves
  <2>2. funding = Paid(bs, i)
    BY <1>2, <2>1
  <2>3. /\ trades' = Append(trades, trade) /\ equity' = equity + trade.pnl
        /\ pos' = Flat /\ accrued' = 0
    <3> HIDE DEF signal, trade
    <3>1. QED
      BY <1>1, <1>3, <1>4, <2>1
  <2>4. QED
    BY <1>3, <2>1, <2>2, <2>3 DEF Exits
<1>5. CASE ~ Leaves(signal) /\ pos.side = "flat" /\ signal \in Sides
  BY <1>1, <1>3, <1>5 DEF Enters
<1>6. CASE ~ Leaves(signal) /\ ~ (pos.side = "flat" /\ signal \in Sides)
  <2>1. pos.side = signal
    BY <1>1, <1>6 DEF Leaves
  <2>2. accrued' = funding /\ pos' = pos /\ trades' = trades /\ equity' = equity
    <3> HIDE DEF signal, trade, funding
    <3>1. QED
      BY <1>3, <1>6
  <2>3. QED
    BY <1>2, <1>3, <2>1, <2>2 DEF Carries
<1>7. QED
  BY <1>4, <1>5, <1>6

Ends(bs, last) ==
  \/ pos.side = "flat" /\ UNCHANGED <<pos, accrued, equity, curve, trades>>
  \/ /\ pos.side # "flat"
     /\ trades' = Append(trades, Trade(bs[last].price, last, accrued, "end_of_backtest"))
     /\ equity' = equity + Trade(bs[last].price, last, accrued, "end_of_backtest").pnl
     /\ curve' = [curve EXCEPT ![Len(curve)] = equity']
     /\ pos' = Flat /\ accrued' = accrued

LEMMA CloseEffects == CloseLast => Ends(bars, Len(bars))
BY DEF CloseLast, Ends

(* A trade of an open position is a trade.                                    *)
LEMMA TradeTyped ==
  ASSUME pos \in Positions, pos.side \in Sides, pos.price # 0,
         NEW price \in Nat, NEW bar \in Nat, NEW funding \in Int,
         NEW reason \in {"signal", "end_of_backtest"}
  PROVE  /\ Trade(price, bar, funding, reason) \in Trades
         /\ Trade(price, bar, funding, reason).pnl
              = Profit(pos.side, pos.size, pos.price, price) - Cost + funding
         /\ Trade(price, bar, funding, reason).side = pos.side
         /\ Trade(price, bar, funding, reason).from = pos.bar
         /\ Trade(price, bar, funding, reason).to = bar
         /\ Trade(price, bar, funding, reason).size = pos.size
<1>1. Profit(pos.side, pos.size, pos.price, price) \in Int
  BY ProfitTyped DEF Positions
<1>2. Profit(pos.side, pos.size, pos.price, price) - Cost + funding \in Int
  BY <1>1, EngineAssumption
<1>3. QED
  BY <1>2 DEF Trade, Trades, Positions

LEMMA BarTyped ==
  ASSUME NEW bs \in Seq(Bar), NEW i \in 1..Len(bs)
  PROVE  /\ bs[i] \in Bar /\ bs[i].price \in Prices /\ bs[i].price \in Nat /\ bs[i].price # 0
         /\ bs[i].rate \in Int
<1>1. bs[i] \in Bar
  OBVIOUS
<1>2. QED
  BY <1>1, EngineAssumption DEF Bar

(* A bar keeps the types of the books.                                        *)
LEMMA ProcessTyped ==
  ASSUME EngineTypeOK, pos = Flat \/ Entered,
         NEW bs \in Seq(Bar), NEW i \in 1..Len(bs), Process(bs, i),
         \A k \in 1..at : bs[k] = bars[k], at <= i
  PROVE  /\ pos' \in Positions /\ accrued' \in Int /\ equity' \in Int /\ curve' \in Seq(Int)
         /\ trades' \in Seq(Trades) /\ at' = i
         /\ Len(curve') = Len(curve) + 1
         /\ \/ pos' = Flat
            \/ /\ pos'.side \in Sides /\ pos'.bar \in 1..at' /\ pos'.size \in Sizes
               /\ pos'.price = bs[pos'.bar].price
<1>1. /\ at' = i /\ curve' = Append(curve, equity')
      /\ Exits(bs, i) \/ Enters(bs, i) \/ Carries(bs, i)
  BY ProcessEffects DEF EngineTypeOK, Positions
<1>2. /\ bs[i].price \in Prices /\ bs[i].price \in Nat /\ bs[i].rate \in Int
  BY BarTyped
<1>3. Paid(bs, i) \in Int
  BY <1>2, FundingTyped DEF Paid, EngineTypeOK, Positions
<1>4. Flat \in Positions
  BY DEF Flat, Positions
<1>5. CASE Exits(bs, i)
  <2>1. pos.price # 0
    <3>1. Entered /\ pos.bar \in 1..Len(bars)
      BY <1>5 DEF Exits, Flat, Sides, Entered, EngineTypeOK
    <3>2. QED
      BY <3>1, BarTyped DEF EngineTypeOK, Entered
  <2> DEFINE t == Trade(bs[i].price, i, Paid(bs, i), "signal")
  <2>2. t \in Trades
    <3>1. pos \in Positions /\ pos.side \in Sides /\ i \in Nat
      BY <1>5 DEF EngineTypeOK, Exits
    <3>2. QED
      BY <1>2, <1>3, <2>1, <3>1, TradeTyped
  <2>3. t.pnl \in Int
    BY <2>2 DEF Trades
  <2> HIDE DEF t
  <2>4. trades' = Append(trades, t) /\ equity' = equity + t.pnl /\ pos' = Flat /\ accrued' = 0
    BY <1>5 DEF Exits, t
  <2>5. trades' \in Seq(Trades) /\ equity' \in Int
    BY <2>2, <2>3, <2>4 DEF EngineTypeOK
  <2>6. QED
    BY <1>1, <1>4, <2>4, <2>5 DEF EngineTypeOK
<1>6. CASE Enters(bs, i)
  <2>1. PICK size \in Sizes :
          pos' = [side |-> Signal(bs, i), price |-> bs[i].price, bar |-> i, size |-> size]
    BY <1>6 DEF Enters
  <2>2. Signal(bs, i) \in Sides /\ size \in Nat
    BY <1>6, EngineAssumption DEF Enters
  <2>3. pos' \in Positions /\ pos'.side \in Sides /\ pos'.bar = i /\ pos'.size \in Sizes
        /\ pos'.price = bs[i].price
    BY <1>2, <2>1, <2>2 DEF Positions
  <2>4. accrued' = 0 /\ trades' = trades /\ equity' = equity
    BY <1>6 DEF Enters
  <2>5. QED
    BY <1>1, <2>3, <2>4 DEF EngineTypeOK
<1>7. CASE Carries(bs, i)
  <2>1. pos' = pos /\ trades' = trades /\ equity' = equity /\ accrued' \in Int
    BY <1>3, <1>7 DEF Carries
  <2>2. pos = Flat \/ (pos.side \in Sides /\ pos.bar \in 1..i
                         /\ pos.size \in Sizes /\ pos.price = bs[pos.bar].price)
    BY DEF Entered, EngineTypeOK
  <2>3. QED
    BY <1>1, <2>1, <2>2 DEF EngineTypeOK
<1>8. QED
  BY <1>1, <1>5, <1>6, <1>7

(* The end of a pass keeps the types of the books.                            *)
LEMMA CloseTyped ==
  ASSUME EngineTypeOK, pos = Flat \/ Entered, Len(curve) >= 1, at >= 1, CloseLast
  PROVE  /\ pos' = Flat /\ accrued' \in Int /\ equity' \in Int /\ curve' \in Seq(Int)
         /\ trades' \in Seq(Trades) /\ Len(curve') = Len(curve)
<1>1. Ends(bars, Len(bars))
  BY CloseEffects
<1>2. CASE pos.side = "flat"
  <2>1. pos = Flat
    BY <1>2 DEF Entered, Sides
  <2>2. QED
    BY <1>1, <1>2, <2>1 DEF Ends, EngineTypeOK
<1>3. CASE pos.side # "flat"
  <2>1. Entered /\ pos.bar \in 1..Len(bars) /\ Len(bars) \in 1..Len(bars) /\ Len(bars) \in Nat
    BY <1>3 DEF Flat, Entered, EngineTypeOK
  <2>2. /\ pos.price # 0 /\ bars[Len(bars)].price \in Nat
        /\ pos \in Positions /\ pos.side \in Sides /\ accrued \in Int
    BY <2>1, BarTyped DEF EngineTypeOK, Entered
  <2> DEFINE t == Trade(bars[Len(bars)].price, Len(bars), accrued, "end_of_backtest")
  <2>3. t \in Trades
    BY <2>1, <2>2, TradeTyped
  <2>4. t.pnl \in Int
    BY <2>3 DEF Trades
  <2> HIDE DEF t
  <2>5. /\ trades' = Append(trades, t) /\ equity' = equity + t.pnl
        /\ curve' = [curve EXCEPT ![Len(curve)] = equity']
        /\ pos' = Flat /\ accrued' = accrued
    BY <1>1, <1>3 DEF Ends, t
  <2>6. equity' \in Int /\ trades' \in Seq(Trades)
    BY <2>3, <2>4, <2>5 DEF EngineTypeOK
  <2>7. curve' \in Seq(Int) /\ Len(curve') = Len(curve)
    BY <2>5, <2>6 DEF EngineTypeOK
  <2>8. QED
    BY <2>2, <2>5, <2>6, <2>7
<1>4. QED
  BY <1>2, <1>3

(* The books are left alone.                                                  *)
Books == <<bars, at, pos, accrued, equity, curve, trades, paper>>

-----------------------------------------------------------------------------
(* Types.                                                                     *)

LEMMA StrideTyped ==
  ASSUME EngineTypeOK, PassInv, pass = "walk"
  PROVE  /\ Stride \in Nat /\ Stride >= 12
         /\ Stride = walk.len \div walk.windows
         /\ walk.windows * Stride <= walk.len
<1> DEFINE n == walk.len
           w == walk.windows
           q == n \div w
<1>1. n \in Nat /\ w \in Nat /\ w >= 1 /\ n >= 12 * w
  BY DEF EngineTypeOK, Walks, PassInv
<1>2. q \in Nat /\ w * q <= n /\ q >= 12
  <2> HIDE DEF n, w
  <2>1. q \in Int /\ w * q <= n /\ n < w * (q + 1)
    BY <1>1
  <2> HIDE DEF q
  <2>2. ASSUME q < 12 PROVE FALSE
    <3>1. q + 1 <= 12
      BY <2>1, <2>2
    <3>2. \A a, b, c \in Int : c >= 1 /\ a <= b => c * a <= c * b
      OBVIOUS
    <3>3. w * (q + 1) <= w * 12
      BY <1>1, <2>1, <3>1, <3>2
    <3>4. w * (q + 1) \in Int /\ w * 12 = 12 * w
      BY <1>1, <2>1
    <3>5. QED
      BY <1>1, <2>1, <3>3, <3>4
  <2>3. QED
    BY <2>1, <2>2
<1>3. Stride = q
  <2>1. Stride = IF q < 10 THEN 10 ELSE q
    BY DEF Stride
  <2> HIDE DEF q
  <2>2. QED
    BY <1>2, <2>1
<1>4. QED
  BY <1>2, <1>3

LEMMA WindowTyped ==
  ASSUME EngineTypeOK, PassInv, pass = "walk"
  PROVE  Window(walk.index) \in Windows
<1> DEFINE from == walk.index * Stride
           cut == Least(from + Stride, walk.len - 1)
<1>1. from \in Int /\ Stride \in Int /\ walk.len \in Int
  BY StrideTyped DEF EngineTypeOK, Walks
<1>2. cut \in Int
  BY <1>1 DEF Least
<1>3. Window(walk.index) = [train |-> from..cut-1, test |-> cut..Least(cut + Stride, walk.len)-1]
  BY DEF Window
<1> HIDE DEF from, cut
<1>4. QED
  BY <1>1, <1>2, <1>3 DEF Windows, Least

LEMMA EngineStarts == EngineInit => EngineTypeOK /\ PassInv
<1> SUFFICES ASSUME EngineInit PROVE EngineTypeOK /\ PassInv
  OBVIOUS
<1>1. walk \in Walks /\ pos \in Positions
  BY DEF EngineInit, NoWalk, Walks, Flat, Positions
<1>2. QED
  BY <1>1, EngineAssumption DEF EngineInit, EngineTypeOK, PassInv

LEMMA NextBarTypes ==
  ASSUME EngineTypeOK, PassInv, NextBar
  PROVE  EngineTypeOK' /\ PassInv' /\ at' = Len(bars) + 1 /\ at = Len(bars)
         /\ \E b \in Bar : bars' = Append(bars, b)
         /\ Process(bars', at')
<1>1. pass = "full" /\ at = Len(bars) /\ Len(curve) = at
  BY DEF NextBar, PassInv
<1>2. PICK b \in Bar : bars' = Append(bars, b)
  BY DEF NextBar, Bar
<1>3. /\ bars' \in Seq(Bar) /\ Len(bars') = Len(bars) + 1 /\ Len(bars) \in Nat
      /\ \A k \in 1..Len(bars) : bars'[k] = bars[k]
  BY <1>2 DEF EngineTypeOK
<1>4. Process(bars', Len(bars'))
  BY DEF NextBar
<1>5. /\ pos' \in Positions /\ accrued' \in Int /\ equity' \in Int /\ curve' \in Seq(Int)
      /\ trades' \in Seq(Trades) /\ at' = Len(bars')
      /\ Len(curve') = Len(curve) + 1
      /\ \/ pos' = Flat
         \/ /\ pos'.side \in Sides /\ pos'.bar \in 1..at' /\ pos'.size \in Sizes
            /\ pos'.price = bars'[pos'.bar].price
  <2>1. Len(bars') \in 1..Len(bars') /\ at <= Len(bars') /\ \A k \in 1..at : bars'[k] = bars[k]
    BY <1>1, <1>3
  <2>2. pos = Flat \/ Entered
    BY DEF PassInv
  <2>3. QED
    BY <1>3, <1>4, <2>1, <2>2, ProcessTyped
<1>6. paper' \in Sides \cup {"flat"}
  BY SignalTyped DEF NextBar, SignalWithPosition, Sides
<1>7. EngineTypeOK'
  BY <1>1, <1>3, <1>5, <1>6 DEF EngineTypeOK, NextBar
<1>8. PassInv'
  BY <1>1, <1>3, <1>5 DEF PassInv, NextBar, Entered, EngineTypeOK
<1>9. QED
  BY <1>1, <1>2, <1>3, <1>4, <1>5, <1>7, <1>8

LEMMA OutOfSampleTypes ==
  ASSUME EngineTypeOK, PassInv, NextOutOfSample
  PROVE  EngineTypeOK' /\ PassInv' /\ at' = at + 1 /\ at + 1 \in 1..Len(bars)
<1>1. pass = "oos" /\ at + 1 \in 1..Len(bars) /\ at \in Nat /\ Process(bars, at + 1)
  BY DEF NextOutOfSample, EngineTypeOK
<1>2. /\ pos' \in Positions /\ accrued' \in Int /\ equity' \in Int /\ curve' \in Seq(Int)
      /\ trades' \in Seq(Trades) /\ at' = at + 1
      /\ Len(curve') = Len(curve) + 1
      /\ \/ pos' = Flat
         \/ /\ pos'.side \in Sides /\ pos'.bar \in 1..at' /\ pos'.size \in Sizes
            /\ pos'.price = bars[pos'.bar].price
  <2>1. pos = Flat \/ Entered
    BY DEF PassInv
  <2>2. bars \in Seq(Bar) /\ at <= at + 1
    BY <1>1 DEF EngineTypeOK
  <2>3. QED
    BY <1>1, <2>1, <2>2, ProcessTyped
<1>3. Len(bars) >= 2 /\ at >= Split(Len(bars)) /\ Len(curve) = at - Split(Len(bars))
      /\ Split(Len(bars)) \in Nat
  BY <1>1, SplitInside DEF PassInv, EngineTypeOK
<1>4. EngineTypeOK'
  BY <1>1, <1>2 DEF EngineTypeOK, NextOutOfSample
<1>5. Len(curve') = at' - Split(Len(bars')) /\ at' >= Split(Len(bars')) /\ Len(bars') >= 2
  BY <1>1, <1>2, <1>3 DEF NextOutOfSample, EngineTypeOK
<1>6. PassInv'
  BY <1>1, <1>2, <1>5 DEF PassInv, NextOutOfSample, Entered
<1>7. QED
  BY <1>1, <1>2, <1>4, <1>6

\* The end of the full pass and of the one out of sample.
LEMMA FinishTypes ==
  ASSUME EngineTypeOK, PassInv, FinishFull \/ FinishOutOfSample
  PROVE  EngineTypeOK' /\ PassInv' /\ CloseLast /\ at = Len(bars) /\ Len(curve) >= 1
         /\ bars' = bars /\ at' = at
<1>1. at = Len(bars) /\ Len(curve) >= 1 /\ Len(bars) \in Nat /\ at >= 1
  <2>1. CASE FinishFull
    BY <2>1 DEF FinishFull, PassInv, EngineTypeOK
  <2>2. CASE FinishOutOfSample
    <3>1. at = Len(bars) /\ Len(bars) >= 2 /\ Len(curve) = at - Split(Len(bars))
          /\ Len(bars) \in Nat
      BY <2>2 DEF FinishOutOfSample, PassInv, EngineTypeOK
    <3>2. Split(Len(bars)) \in 1..Len(bars)-1
      BY <3>1, SplitInside
    <3>3. QED
      BY <3>1, <3>2
  <2>3. QED
    BY <2>1, <2>2
<1>2. CloseLast
  BY DEF FinishFull, FinishOutOfSample
<1>3. /\ pos' = Flat /\ accrued' \in Int /\ equity' \in Int /\ curve' \in Seq(Int)
      /\ trades' \in Seq(Trades) /\ Len(curve') = Len(curve)
  <2>1. pos = Flat \/ Entered
    BY DEF PassInv
  <2>2. QED
    BY <1>1, <1>2, <2>1, CloseTyped
<1>4. Flat \in Positions /\ curve' # <<>>
  BY <1>1, <1>3 DEF Flat, Positions
<1>5. EngineTypeOK'
  BY <1>3, <1>4 DEF EngineTypeOK, FinishFull, FinishOutOfSample
<1>6. walk' = NoWalk /\ pass' \in {"closed", "done"}
  BY DEF FinishFull, FinishOutOfSample, PassInv
<1>7. PassInv'
  BY <1>3, <1>4, <1>6 DEF PassInv
<1>8. bars' = bars /\ at' = at
  BY DEF FinishFull, FinishOutOfSample
<1>9. QED
  BY <1>1, <1>2, <1>5, <1>7, <1>8

LEMMA NextWindowTypes ==
  ASSUME EngineTypeOK, PassInv, NextWindow
  PROVE  EngineTypeOK' /\ PassInv'
<1>1. pass = "walk" /\ walk.index < walk.windows /\ walk \in Walks /\ walk.index + 1 \in Nat
  BY DEF NextWindow, EngineTypeOK, Walks
<1>2. Window(walk.index) \in Windows
  BY <1>1, WindowTyped
<1>3. PICK r \in Seq(Windows) : walk' = [walk EXCEPT !.index = @ + 1, !.results = r]
  <2>1. walk.results \in Seq(Windows)
    BY <1>1 DEF Walks
  <2> DEFINE w == Window(walk.index)
  <2>2. Append(walk.results, w) \in Seq(Windows)
    <3> HIDE DEF w
    <3>1. QED
      BY <1>2, <2>1 DEF w
  <2>3. QED
    BY <2>1, <2>2 DEF NextWindow
<1>4. walk' \in Walks /\ walk'.len = walk.len /\ walk'.windows = walk.windows
      /\ walk'.index = walk.index + 1
  BY <1>1, <1>3 DEF Walks
<1>5. EngineTypeOK'
  BY <1>4 DEF EngineTypeOK, NextWindow
<1>6. walk'.index <= walk'.windows
  BY <1>1, <1>4 DEF Walks
<1>7. PassInv'
  BY <1>1, <1>4, <1>6 DEF PassInv, NextWindow, Entered
<1>8. QED
  BY <1>5, <1>7

LEMMA EngineKept ==
  ASSUME EngineTypeOK, PassInv, [EngineNext]_engineVars
  PROVE  EngineTypeOK' /\ PassInv'
<1>1. CASE StartBacktest
  BY <1>1 DEF StartBacktest, EngineTypeOK, PassInv, Entered
<1>2. CASE NextBar
  BY <1>2, NextBarTypes
<1>3. CASE FinishFull \/ FinishOutOfSample
  BY <1>3, FinishTypes
<1>4. CASE StartOutOfSample
  <2>1. Split(Len(bars)) \in 1..Len(bars)-1 /\ Len(bars) \in Nat /\ Len(bars) >= 2
    BY <1>4, SplitInside DEF StartOutOfSample, EngineTypeOK
  <2>2. Flat \in Positions
    BY DEF Flat, Positions
  <2>3. EngineTypeOK'
    BY <1>4, <2>1, <2>2, EngineAssumption DEF StartOutOfSample, EngineTypeOK
  <2>4. Len(curve') = at' - Split(Len(bars')) /\ at' >= Split(Len(bars'))
    BY <1>4, <2>1 DEF StartOutOfSample
  <2>5. PassInv'
    BY <1>4, <2>1, <2>4 DEF StartOutOfSample, PassInv
  <2>6. QED
    BY <2>3, <2>5
<1>5. CASE NextOutOfSample
  BY <1>5, OutOfSampleTypes
<1>6. ASSUME NEW f \in Frames, StartWalk(f[1], f[2]) PROVE EngineTypeOK' /\ PassInv'
  <2>1. f[1] \in Nat /\ f[2] \in Nat \ {0}
    BY EngineAssumption
  <2>2. walk' = [len |-> f[1], windows |-> f[2], index |-> 0, results |-> <<>>]
        /\ f[1] >= 60 /\ f[1] >= 12 * f[2]
    BY <1>6 DEF StartWalk
  <2>3. walk' \in Walks /\ walk'.len = f[1] /\ walk'.windows = f[2] /\ walk'.index = 0
    BY <2>1, <2>2 DEF Walks
  <2>4. EngineTypeOK'
    BY <1>6, <2>3 DEF StartWalk, EngineTypeOK
  <2>5. walk'.len >= 60 /\ walk'.len >= 12 * walk'.windows /\ walk'.windows # 0
        /\ walk'.index <= walk'.windows
    BY <2>1, <2>2, <2>3
  <2>6. PassInv'
    BY <1>6, <2>5 DEF StartWalk, PassInv
  <2>7. QED
    BY <2>4, <2>6
<1>7. CASE NextWindow
  BY <1>7, NextWindowTypes
<1>8. CASE UNCHANGED engineVars
  BY <1>8 DEF engineVars, EngineTypeOK, PassInv, Entered
<1>9. QED
  BY <1>1, <1>2, <1>3, <1>4, <1>5, <1>6, <1>7, <1>8 DEF EngineNext

(* For any strategies, prices, rates, sizes and frames, the frame, the books  *)
(* and the windows keep their types, and an open position was entered at the  *)
(* close of a bar of the frame.                                               *)
THEOREM EngineTypeCorrect == EngineSpec => [](EngineTypeOK /\ PassInv)
BY EngineStarts, EngineKept, PTL DEF EngineSpec

-----------------------------------------------------------------------------
(* The backtest and the paper runner.                                         *)

\* The invariant: without exit rules both look at the same signal, and the
\* position of the backtest, if it has one after the bar, is on its side.
LEMMA PaperAgrees ==
  ASSUME EngineTypeOK, PassInv, HoldsOnlyWhatPaperHolds, [EngineNext]_engineVars
  PROVE  HoldsOnlyWhatPaperHolds'
<1>1. CASE NextBar
  <2> SUFFICES ASSUME strategy.exitLong = {}, strategy.exitShort = {}, pos' # Flat
               PROVE  pos'.side = paper'
    BY <1>1 DEF HoldsOnlyWhatPaperHolds, NextBar
  <2>1. paper' = Signal(bars', Len(bars'))
    BY <1>1 DEF NextBar, SignalWithPosition, Fires
  <2>2. Exits(bars', Len(bars')) \/ Enters(bars', Len(bars')) \/ Carries(bars', Len(bars'))
    BY <1>1, ProcessEffects DEF NextBar, EngineTypeOK, Positions
  <2>3. pos'.side = Signal(bars', Len(bars'))
    BY <2>2 DEF Exits, Enters, Carries
  <2>4. QED
    BY <2>1, <2>3
<1>2. CASE StartBacktest
  BY <1>2 DEF StartBacktest, HoldsOnlyWhatPaperHolds, PassInv
<1>3. CASE FinishFull
  BY <1>3 DEF FinishFull, HoldsOnlyWhatPaperHolds
<1>4. CASE StartOutOfSample
  BY <1>4 DEF StartOutOfSample, HoldsOnlyWhatPaperHolds
<1>5. CASE NextOutOfSample
  BY <1>5 DEF NextOutOfSample, HoldsOnlyWhatPaperHolds
<1>6. CASE FinishOutOfSample
  BY <1>6 DEF FinishOutOfSample, HoldsOnlyWhatPaperHolds
<1>7. CASE NextWindow
  BY <1>7 DEF NextWindow, HoldsOnlyWhatPaperHolds
<1>8. ASSUME NEW f \in Frames, StartWalk(f[1], f[2]) PROVE HoldsOnlyWhatPaperHolds'
  BY <1>8 DEF StartWalk, HoldsOnlyWhatPaperHolds
<1>9. CASE UNCHANGED engineVars
  BY <1>9 DEF engineVars, HoldsOnlyWhatPaperHolds
<1>10. QED
  BY <1>1, <1>2, <1>3, <1>4, <1>5, <1>6, <1>7, <1>8, <1>9 DEF EngineNext

(* For any strategy without exit rules and any frame, the backtest never      *)
(* holds what the paper runner, given the same bars, would not hold.          *)
THEOREM HoldingsAgree == EngineSpec => []HoldsOnlyWhatPaperHolds
<1>1. EngineInit => HoldsOnlyWhatPaperHolds
  BY DEF EngineInit, HoldsOnlyWhatPaperHolds
<1>2. (EngineTypeOK /\ PassInv) /\ HoldsOnlyWhatPaperHolds /\ [EngineNext]_engineVars
        => HoldsOnlyWhatPaperHolds'
  BY PaperAgrees
<1>3. QED
  BY <1>1, <1>2, EngineTypeCorrect, PTL DEF EngineSpec

-----------------------------------------------------------------------------
(* The windows of a walk forward.                                             *)

\* The invariant: what has been tested lies before the next window's test.
WalkInv ==
  /\ TestsAreUnseen
  /\ pass = "walk" =>
       \A k \in DOMAIN walk.results : \A j \in walk.results[k].test :
         j < (walk.index + 1) * Stride

\* The window at hand, if it has five rows to test.
LEMMA WindowUnseen ==
  ASSUME EngineTypeOK, PassInv, pass = "walk", walk.index < walk.windows,
         NEW w, w = Window(walk.index), Cardinality(w.test) >= 5
  PROVE  /\ w.train # {} /\ w.train \cup w.test \subseteq 0..walk.len-1
         /\ \A i \in w.train, j \in w.test : i < j
         /\ \A j \in w.test : /\ (walk.index + 1) * Stride <= j
                              /\ j < (walk.index + 1 + 1) * Stride
<1> DEFINE n == walk.len
           s == Stride
           from == walk.index * s
           cut == Least(from + s, n - 1)
           until == Least(cut + s, n)
<1>1. n \in Nat /\ s \in Nat /\ s >= 12 /\ from \in Nat
  BY StrideTyped DEF EngineTypeOK, Walks
<1>2. from + s <= n /\ (walk.index + 1) * s = from + s
      /\ (walk.index + 1 + 1) * s = from + s + s
  <2> DEFINE k == walk.index
             m == walk.windows
  <2>1. k \in Nat /\ m \in Nat /\ k + 1 <= m /\ m * s <= n
    BY StrideTyped DEF EngineTypeOK, Walks
  <2> HIDE DEF k, m, s, n
  <2>2. \A a, b, c \in Nat : a <= b => a * c <= b * c
    OBVIOUS
  <2>3. (k + 1) * s <= m * s
    BY <1>1, <2>1, <2>2
  <2>4. (k + 1) * s = k * s + s /\ (k + 1 + 1) * s = k * s + s + s /\ k * s \in Nat
    BY <1>1, <2>1
  <2>5. m * s \in Nat
    BY <1>1, <2>1
  <2>6. k * s + s <= n
    BY <1>1, <2>1, <2>3, <2>4, <2>5
  <2>7. QED
    BY <2>4, <2>6 DEF k
<1>3. w = [train |-> from..cut-1, test |-> cut..until-1]
  BY DEF Window
<1>4. (walk.index + 1) * Stride = from + s /\ (walk.index + 1 + 1) * Stride = from + s + s
  BY <1>2
<1>5. cut = (IF from + s <= n - 1 THEN from + s ELSE n - 1)
      /\ until = (IF cut + s <= n THEN cut + s ELSE n)
  BY DEF Least
<1> HIDE DEF n, s, from, cut, until
<1>6. cut \in Nat /\ until \in Nat /\ from < cut /\ until <= n /\ until <= cut + s
  BY <1>1, <1>2, <1>5
<1>7. cut = from + s
  <2> SUFFICES ASSUME cut # from + s PROVE FALSE
    OBVIOUS
  <2>1. cut = n - 1
    BY <1>1, <1>2, <1>5
  <2>2. w.test \subseteq {cut}
    BY <1>1, <1>3, <1>6, <2>1
  <2>3. Cardinality({cut}) <= 1 /\ IsFiniteSet({cut}) /\ Cardinality({cut}) \in Nat
    BY FS_Singleton
  <2>4. Cardinality(w.test) <= 1 /\ Cardinality(w.test) \in Nat
    BY <2>2, <2>3, FS_Subset, FS_CardinalityType
  <2>5. QED
    BY <2>4
<1>8. w.train = from..cut-1 /\ w.test = cut..until-1
  BY <1>3
<1>9. w.train # {} /\ w.train \cup w.test \subseteq 0..n-1
  <2>1. from \in w.train
    BY <1>1, <1>6, <1>8
  <2>2. w.train \cup w.test \subseteq 0..n-1
    BY <1>1, <1>2, <1>6, <1>7, <1>8
  <2>3. QED
    BY <2>1, <2>2
<1>10. \A i \in w.train, j \in w.test : i < j
  BY <1>1, <1>6, <1>8
<1>11. \A j \in w.test : from + s <= j /\ j < from + s + s
  BY <1>1, <1>6, <1>7, <1>8
<1>12. QED
  BY <1>4, <1>9, <1>10, <1>11 DEF n

LEMMA WalkKept ==
  ASSUME EngineTypeOK, PassInv, WalkInv, [EngineNext]_engineVars
  PROVE  WalkInv'
<1>1. CASE NextWindow
  <2> DEFINE w == Window(walk.index)
             r == walk.results
             r2 == walk'.results
             s == Stride
  <2>1. /\ pass = "walk" /\ walk.index < walk.windows /\ walk \in Walks
        /\ walk.index \in Nat /\ r \in Seq(Windows) /\ s \in Nat
    BY <1>1, StrideTyped DEF NextWindow, EngineTypeOK, Walks
  <2>2. /\ walk'.len = walk.len /\ walk'.windows = walk.windows
        /\ walk'.index = walk.index + 1
        /\ r2 = IF Cardinality(w.test) < 5 THEN r ELSE Append(r, w)
    BY <1>1, <2>1 DEF NextWindow, Walks
  <2>3. Stride' = s
    BY <2>2 DEF Stride
  <2>4. \A k \in DOMAIN r : \A j \in r[k].test : j < (walk.index + 1) * s
    BY <2>1 DEF WalkInv
  <2>5. (walk.index + 1) * s <= (walk.index + 1 + 1) * s
        /\ (walk.index + 1) * s \in Nat /\ (walk.index + 1 + 1) * s \in Nat
    <3> DEFINE k == walk.index
    <3> HIDE DEF k, s
    <3>1. k \in Nat /\ s \in Nat
      BY <2>1 DEF k
    <3>2. (k + 1) * s \in Nat /\ (k + 1 + 1) * s = (k + 1) * s + s
      BY <3>1
    <3>3. QED
      BY <3>1, <3>2 DEF k
  <2>6. \A k \in DOMAIN r : \A j \in r[k].test : j \in Int
    <3> HIDE DEF r
    <3>1. \A k \in DOMAIN r : r[k] \in Windows
      BY <2>1
    <3>2. QED
      BY <3>1 DEF Windows
  <2>7. CASE Cardinality(w.test) < 5
    <3>1. r2 = r
      BY <2>2, <2>7
    <3>2. TestsAreUnseen'
      BY <2>2, <3>1 DEF WalkInv, TestsAreUnseen
    <3>3. \A k \in DOMAIN r : \A j \in r[k].test : j < (walk.index + 1 + 1) * s
      <4> HIDE DEF r, s
      <4>1. QED
        BY <2>4, <2>5, <2>6
    <3>4. QED
      BY <2>2, <2>3, <3>1, <3>2, <3>3 DEF WalkInv
  <2>8. CASE ~ (Cardinality(w.test) < 5)
    <3>1. r2 = Append(r, w)
      BY <2>2, <2>8
    <3>2. Cardinality(w.test) >= 5
      <4>1. w \in Windows
        BY <2>1, WindowTyped
      <4>2. IsFiniteSet(w.test)
        <5>1. \E a, b \in Int : w.test = a..b
          <6> DEFINE from == walk.index * Stride
                     cut == Least(from + Stride, walk.len - 1)
          <6>1. w.test = cut..Least(cut + Stride, walk.len)-1
            BY DEF Window
          <6>2. from \in Int /\ Stride \in Int /\ walk.len \in Int
            BY <2>1 DEF Walks
          <6>3. cut \in Int
            BY <6>2 DEF Least
          <6> HIDE DEF cut, from, w
          <6>4. Least(cut + Stride, walk.len)-1 \in Int
            BY <6>2, <6>3 DEF Least
          <6>5. QED
            BY <6>1, <6>3, <6>4
        <5>2. QED
          BY <5>1, FS_Interval
      <4>3. Cardinality(w.test) \in Nat
        BY <4>2, FS_CardinalityType
      <4> HIDE DEF w
      <4>4. QED
        BY <2>8, <4>3
    <3>3. /\ w.train # {} /\ w.train \cup w.test \subseteq 0..walk.len-1
          /\ \A i \in w.train, j \in w.test : i < j
          /\ \A j \in w.test : (walk.index + 1) * s <= j /\ j < (walk.index + 1 + 1) * s
      <4> HIDE DEF w
      <4>1. w = Window(walk.index)
        BY DEF w
      <4>2. QED
        BY <2>1, <3>2, <4>1, WindowUnseen
    <3>4. /\ DOMAIN r = 1..Len(r) /\ Len(r) \in Nat /\ DOMAIN r2 = 1..Len(r) + 1
          /\ r2[Len(r) + 1] = w /\ \A k \in 1..Len(r) : r2[k] = r[k]
      <4>1. w \in Windows
        BY <2>1, WindowTyped
      <4> HIDE DEF w, r
      <4>2. QED
        BY <2>1, <3>1, <4>1
    <3> HIDE DEF w, r2
    <3>5. \A k \in DOMAIN r2 : k \in DOMAIN r \/ r2[k] = w
      BY <3>4
    <3>6. \A k \in DOMAIN r2 :
            /\ Cardinality(r2[k].test) >= 5
            /\ r2[k].train # {} /\ r2[k].train \cup r2[k].test \subseteq 0..walk.len-1
            /\ \A i \in r2[k].train, j \in r2[k].test : i < j
      <4>1. TAKE k \in DOMAIN r2
      <4>2. CASE k \in DOMAIN r
        BY <3>4, <4>2 DEF WalkInv, TestsAreUnseen
      <4>3. CASE r2[k] = w
        BY <3>2, <3>3, <4>3
      <4>4. QED
        BY <3>5, <4>2, <4>3
    <3>7. \A k \in DOMAIN r : r[k].test \cap w.test = {}
      <4> SUFFICES ASSUME NEW k \in DOMAIN r, NEW j \in r[k].test, j \in w.test PROVE FALSE
        OBVIOUS
      <4>1. j \in Int /\ j < (walk.index + 1) * s /\ (walk.index + 1) * s <= j
        BY <2>4, <2>6, <3>3
      <4> HIDE DEF s
      <4>2. QED
        BY <2>5, <4>1
    <3>8. \A k, n \in DOMAIN r2 : n # k => r2[n].test \cap r2[k].test = {}
      <4>1. TAKE k, n \in DOMAIN r2
      <4>2. CASE k \in DOMAIN r /\ n \in DOMAIN r
        BY <3>4, <4>2 DEF WalkInv, TestsAreUnseen
      <4>3. CASE k \in DOMAIN r /\ n \notin DOMAIN r
        <5>1. r2[n] = w /\ r2[k] = r[k]
          BY <3>4, <3>5, <4>3
        <5>2. QED
          BY <3>7, <4>3, <5>1
      <4>4. CASE k \notin DOMAIN r /\ n \in DOMAIN r
        <5>1. r2[k] = w /\ r2[n] = r[n]
          BY <3>4, <3>5, <4>4
        <5>2. QED
          BY <3>7, <4>4, <5>1
      <4>5. CASE k \notin DOMAIN r /\ n \notin DOMAIN r
        BY <3>4, <4>5
      <4>6. QED
        BY <4>2, <4>3, <4>4, <4>5
    <3>9. TestsAreUnseen'
      BY <2>2, <3>6, <3>8 DEF TestsAreUnseen, r2
    <3>10. \A k \in DOMAIN r2 : \A j \in r2[k].test : j < (walk.index + 1 + 1) * s
      <4>1. TAKE k \in DOMAIN r2
      <4>2. CASE k \in DOMAIN r
        <5>1. r2[k] = r[k]
          BY <3>4, <4>2
        <5>2. \A j \in r[k].test : j \in Int /\ j < (walk.index + 1) * s
          BY <2>4, <2>6, <4>2
        <5> HIDE DEF r, s
        <5>3. QED
          BY <2>5, <5>1, <5>2
      <4>3. CASE r2[k] = w
        BY <3>3, <4>3
      <4>4. QED
        BY <3>5, <4>2, <4>3
    <3>11. QED
      BY <2>2, <2>3, <3>9, <3>10 DEF WalkInv, r2
  <2>9. QED
    BY <2>7, <2>8
<1>2. ASSUME NEW f \in Frames, StartWalk(f[1], f[2]) PROVE WalkInv'
  <2>1. walk'.results = <<>>
    BY <1>2 DEF StartWalk
  <2>2. QED
    BY <2>1 DEF WalkInv, TestsAreUnseen
<1>3. ASSUME walk' = walk, pass' = "walk" => pass = "walk" PROVE WalkInv'
  BY <1>3 DEF WalkInv, TestsAreUnseen, Stride
<1>4. CASE StartBacktest \/ NextBar \/ FinishFull
  BY <1>3, <1>4 DEF StartBacktest, NextBar, FinishFull
<1>5. CASE StartOutOfSample \/ NextOutOfSample \/ FinishOutOfSample
  BY <1>3, <1>5 DEF StartOutOfSample, NextOutOfSample, FinishOutOfSample
<1>6. CASE UNCHANGED engineVars
  BY <1>3, <1>6 DEF engineVars
<1>7. QED
  BY <1>1, <1>2, <1>4, <1>5, <1>6 DEF EngineNext

(* For any frame and number of windows that walk_forward_analysis accepts, it *)
(* tests on rows it has not trained on, in windows of five rows or more, and  *)
(* no row is tested twice.                                                    *)
THEOREM TestsStayUnseen == EngineSpec => []TestsAreUnseen
<1>1. EngineInit => WalkInv
  BY DEF EngineInit, NoWalk, WalkInv, TestsAreUnseen
<1>2. (EngineTypeOK /\ PassInv) /\ WalkInv /\ [EngineNext]_engineVars => WalkInv'
  BY WalkKept
<1>3. WalkInv => TestsAreUnseen
  BY DEF WalkInv
<1>4. QED
  BY <1>1, <1>2, <1>3, EngineTypeCorrect, PTL DEF EngineSpec

-----------------------------------------------------------------------------
(* Folds over sequences.  A fold takes the largest index away again and       *)
(* again, so what it computes is a function on the subsets of the indices.    *)

\* The two operators that are folded: a sum, and the running drawdown.
Folded(how, acc, x) == IF how = "sum" THEN acc + x ELSE Deepen(acc, x)

\* The indices of a sequence of length n.
Upto(n) == 1..n

FoldUp(g, how, base, w, S) ==
  g = [s \in SUBSET S |-> IF s = {} THEN base
                          ELSE Folded(how, g[s \ {Max(s)}], w[Max(s)])]

\* The fold of the first n members of w.
Folder(how, base, w, S) == CHOOSE g : FoldUp(g, how, base, w, S)
Fold(how, base, w, n) == Folder(how, base, w, Upto(n))[Upto(n)]

Smallest(T, B) == T \in B /\ \A U \in B : U \subseteq T => U = T

LEMMA SmallestSubset ==
  ASSUME NEW S, IsFiniteSet(S), NEW B \in SUBSET (SUBSET S), B # {}
  PROVE  \E T : Smallest(T, B)
<1>1. IsWellFoundedOn(StrictSubsetOrdering(S), SUBSET S)
  BY FS_StrictSubsetOrderingWellFounded, FS_FiniteSubsetsOfFinite
<1>2. PICK T \in B : \A U \in B : ~ (<<U, T>> \in StrictSubsetOrdering(S))
  BY <1>1, WFMin
<1>3. QED
  BY <1>2 DEF StrictSubsetOrdering, Smallest

\* A finite set of numbers without a largest or a smallest one would have a
\* smallest nonempty subset without it.
LEMMA EndsExist ==
  ASSUME NEW S \in SUBSET Nat, IsFiniteSet(S), S # {}
  PROVE  /\ Max(S) \in S /\ \A y \in S : Max(S) >= y
         /\ \E x \in S : \A y \in S : x =< y
<1> DEFINE Top(T) == \E x \in T : \A y \in T : x >= y
           Bottom(T) == \E x \in T : \A y \in T : x =< y
           Bad == {T \in SUBSET S : T # {} /\ ~ (Top(T) /\ Bottom(T))}
<1>1. Bad = {}
  <2>1. SUFFICES ASSUME Bad # {} PROVE FALSE
    OBVIOUS
  <2>2. PICK T : Smallest(T, Bad)
    <3>1. Bad \in SUBSET (SUBSET S)
      OBVIOUS
    <3> HIDE DEF Bad
    <3>2. QED
      BY <2>1, <3>1, SmallestSubset
  <2>3. T \in SUBSET S /\ T # {} /\ ~ (Top(T) /\ Bottom(T))
    BY <2>2 DEF Smallest
  <2>4. PICK x \in T : TRUE
    BY <2>3
  <2>5. T \ {x} \notin Bad
    BY <2>2, <2>3, <2>4 DEF Smallest
  <2>6. CASE T \ {x} = {}
    BY <2>3, <2>4, <2>6
  <2>7. CASE T \ {x} # {}
    <3>1. Top(T \ {x}) /\ Bottom(T \ {x})
      BY <2>3, <2>5, <2>7
    <3>2. x \in Nat /\ \A m \in T : m \in Nat
      BY <2>3, <2>4
    <3>3. Top(T)
      <4>1. PICK y \in T \ {x} : \A m \in T \ {x} : y >= m
        BY <3>1
      <4>2. x >= y => \A m \in T : x >= m
        BY <2>4, <3>2, <4>1
      <4>3. y >= x => \A m \in T : y >= m
        BY <2>4, <3>2, <4>1
      <4>4. QED
        BY <2>4, <3>2, <4>1, <4>2, <4>3
    <3>4. Bottom(T)
      <4>1. PICK y \in T \ {x} : \A m \in T \ {x} : y =< m
        BY <3>1
      <4>2. x =< y => \A m \in T : x =< m
        BY <2>4, <3>2, <4>1
      <4>3. y =< x => \A m \in T : y =< m
        BY <2>4, <3>2, <4>1
      <4>4. QED
        BY <2>4, <3>2, <4>1, <4>2, <4>3
    <3>5. QED
      BY <2>3, <3>3, <3>4
  <2>8. QED
    BY <2>6, <2>7
<1>2. Top(S) /\ Bottom(S)
  BY <1>1
<1>3. QED
  BY <1>2 DEF Max

\* What fails for some number up to n fails for a first one.
LEMMA FirstFailure ==
  ASSUME NEW n \in Nat, NEW Bad \in SUBSET (0..n), Bad # {}
  PROVE  \E m \in Bad : m = 0 \/ (m - 1 \in 0..n /\ m - 1 \notin Bad)
<1>1. Bad \in SUBSET Nat /\ IsFiniteSet(Bad)
  <2>1. 0 \in Int /\ n \in Int
    OBVIOUS
  <2>2. IsFiniteSet(0..n)
    BY <2>1, FS_Interval
  <2>3. IsFiniteSet(Bad)
    BY <2>2, FS_Subset, Zenon
  <2>4. Bad \in SUBSET Nat
    OBVIOUS
  <2>5. QED
    BY <2>3, <2>4
<1>2. PICK m \in Bad : \A y \in Bad : m =< y
  BY <1>1, EndsExist
<1>3. QED
  BY <1>1, <1>2

LEMMA MaxIsIn ==
  ASSUME NEW S \in SUBSET Nat, IsFiniteSet(S), NEW s \in SUBSET S, s # {}
  PROVE  Max(s) \in s
BY EndsExist, FS_Subset

LEMMA FoldUpAt ==
  ASSUME NEW g, NEW how, NEW base, NEW w, NEW S, FoldUp(g, how, base, w, S)
  PROVE  \A s \in SUBSET S :
           g[s] = IF s = {} THEN base ELSE Folded(how, g[s \ {Max(s)}], w[Max(s)])
BY DEF FoldUp

\* Folds made for larger sets agree where what they fold agrees.
LEMMA FoldsAgree ==
  ASSUME NEW how, NEW base,
         NEW g, NEW v, NEW A, FoldUp(g, how, base, v, A),
         NEW h, NEW w, NEW B, FoldUp(h, how, base, w, B),
         NEW S \in SUBSET Nat, IsFiniteSet(S), S \subseteq A, S \subseteq B,
         \A x \in S : v[x] = w[x]
  PROVE  g[S] = h[S]
<1>g. \A s \in SUBSET A :
        g[s] = IF s = {} THEN base ELSE Folded(how, g[s \ {Max(s)}], v[Max(s)])
  BY DEF FoldUp
<1>h. \A s \in SUBSET B :
        h[s] = IF s = {} THEN base ELSE Folded(how, h[s \ {Max(s)}], w[Max(s)])
  BY DEF FoldUp
<1> DEFINE Bad == { T \in SUBSET S : g[T] # h[T] }
<1>1. SUFFICES ASSUME Bad # {} PROVE FALSE
  OBVIOUS
<1>2. PICK T : Smallest(T, Bad)
  <2>1. Bad \in SUBSET (SUBSET S)
    OBVIOUS
  <2> HIDE DEF Bad
  <2>2. QED
    BY <1>1, <2>1, SmallestSubset
<1>3. T \in SUBSET A /\ T \in SUBSET B /\ T \in SUBSET S /\ g[T] # h[T]
  BY <1>2 DEF Smallest
<1>4. T # {}
  BY <1>g, <1>h, <1>3
<1> DEFINE U == T \ {Max(T)}
<1>5. Max(T) \in T
  BY <1>3, <1>4, MaxIsIn
<1>6. U \in SUBSET S /\ U \subseteq T /\ U # T
  BY <1>3, <1>5
<1>7. g[U] = h[U]
  BY <1>2, <1>6 DEF Smallest
<1>8. g[T] = Folded(how, g[U], v[Max(T)])
  BY <1>g, <1>3, <1>4
<1>9. h[T] = Folded(how, h[U], w[Max(T)])
  BY <1>h, <1>3, <1>4
<1>10. v[Max(T)] = w[Max(T)]
  BY <1>3, <1>5
<1>11. QED
  BY <1>3, <1>7, <1>8, <1>9, <1>10

\* The fold over a finite set of numbers exists.
LEMMA FoldExists ==
  ASSUME NEW how, NEW base, NEW w, NEW S \in SUBSET Nat, IsFiniteSet(S)
  PROVE  \E g : FoldUp(g, how, base, w, S)
<1> DEFINE G(T) == CHOOSE g : FoldUp(g, how, base, w, T)
           Bad == { T \in SUBSET S : ~ FoldUp(G(T), how, base, w, T) }
<1>0. SUFFICES ASSUME Bad # {} PROVE FALSE
  <2>1. S \in SUBSET S
    OBVIOUS
  <2>2. QED
    BY <1>0, <2>1
<1>1. PICK T : Smallest(T, Bad)
  <2> HIDE DEF G
  <2>1. Bad \in SUBSET (SUBSET S)
    OBVIOUS
  <2> HIDE DEF Bad
  <2>2. QED
    BY <1>0, <2>1, SmallestSubset
<1>2. T \in SUBSET S /\ ~ FoldUp(G(T), how, base, w, T)
  <2> HIDE DEF G
  <2>1. QED
    BY <1>1 DEF Smallest
<1>3. ASSUME NEW U, U \subseteq T, U # T PROVE FoldUp(G(U), how, base, w, U)
  <2> HIDE DEF G
  <2>1. QED
    BY <1>1, <1>2, <1>3 DEF Smallest
<1>f. \A U \in SUBSET S : IsFiniteSet(U) /\ U \in SUBSET Nat
  BY FS_Subset
<1>m. \A U \in SUBSET S : U # {} => Max(U) \in U
  BY MaxIsIn
<1> DEFINE h == [s \in SUBSET T |->
                   IF s = {} THEN base
                   ELSE Folded(how, G(s \ {Max(s)})[s \ {Max(s)}], w[Max(s)])]
<1>h. ~ \E g : FoldUp(g, how, base, w, T)
  BY <1>2
<1> HIDE DEF G
<1>4. ASSUME NEW U, U \subseteq T, U # T PROVE h[U] = G(U)[U]
  <2>1. FoldUp(G(U), how, base, w, U) /\ U \in SUBSET U
    BY <1>3, <1>4
  <2>2. CASE U = {}
    <3>1. G(U)[U] = base
      BY <2>1, <2>2, FoldUpAt
    <3>2. QED
      BY <1>4, <2>2, <3>1
  <2>3. CASE U # {}
    <3> DEFINE V == U \ {Max(U)}
    <3>1. Max(U) \in U
      BY <1>2, <1>4, <1>m, <2>3
    <3>2. V \subseteq U /\ V \subseteq T /\ V # T /\ V \subseteq V
      BY <1>4, <3>1
    <3>3. FoldUp(G(V), how, base, w, V)
      BY <1>3, <3>2
    <3>4. IsFiniteSet(V) /\ V \in SUBSET Nat
      BY <1>2, <1>f, <3>2
    <3>5. G(V)[V] = G(U)[V]
      <4> HIDE DEF V
      <4>1. QED
        BY <2>1, <3>2, <3>3, <3>4, FoldsAgree
    <3>6. G(U)[U] = Folded(how, G(U)[V], w[Max(U)])
      BY <2>1, <2>3, FoldUpAt
    <3>7. h[U] = Folded(how, G(V)[V], w[Max(U)])
      BY <1>4, <2>3
    <3>8. QED
      BY <3>5, <3>6, <3>7
  <2>4. QED
    BY <2>2, <2>3
<1>5. ASSUME NEW s \in SUBSET T, s # {}
      PROVE  h[s \ {Max(s)}] = G(s \ {Max(s)})[s \ {Max(s)}]
  <2>1. Max(s) \in s
    BY <1>2, <1>5, <1>m
  <2>2. s \ {Max(s)} \subseteq T /\ s \ {Max(s)} # T
    BY <2>1
  <2> HIDE DEF h
  <2>3. QED
    BY <1>4, <2>2
<1>6. \A s \in SUBSET T :
        h[s] = IF s = {} THEN base ELSE Folded(how, h[s \ {Max(s)}], w[Max(s)])
  BY <1>5
<1>7. h = [s \in SUBSET T |-> h[s]]
  OBVIOUS
<1> HIDE DEF h
<1>8. h = [s \in SUBSET T |->
             IF s = {} THEN base ELSE Folded(how, h[s \ {Max(s)}], w[Max(s)])]
  BY <1>6, <1>7
<1>9. FoldUp(h, how, base, w, T)
  BY <1>8 DEF FoldUp
<1>10. QED
  BY <1>h, <1>9

LEMMA UptoNat ==
  ASSUME NEW n \in Nat
  PROVE  Upto(n) \in SUBSET Nat
BY DEF Upto

LEMMA UptoFinite ==
  ASSUME NEW n \in Nat
  PROVE  IsFiniteSet(Upto(n))
<1>1. 1 \in Int /\ n \in Int
  OBVIOUS
<1>2. IsFiniteSet(1..n)
  BY <1>1, FS_Interval
<1>3. QED
  BY <1>2 DEF Upto

LEMMA FolderFolds ==
  ASSUME NEW S, NEW how, NEW base, NEW w, \E g : FoldUp(g, how, base, w, S)
  PROVE  FoldUp(Folder(how, base, w, S), how, base, w, S)
BY DEF Folder

FoldsTo(g, how, base, w, n) ==
  FoldUp(g, how, base, w, Upto(n)) /\ Fold(how, base, w, n) = g[Upto(n)]

LEMMA PrefixFolds ==
  ASSUME NEW how, NEW base, NEW w, NEW n \in Nat
  PROVE  \E g : FoldsTo(g, how, base, w, n)
<1>1. Upto(n) \in SUBSET Nat /\ IsFiniteSet(Upto(n))
  BY UptoNat, UptoFinite
<1>2. \E g : FoldUp(g, how, base, w, Upto(n))
  BY <1>1, FoldExists
<1>3. FoldUp(Folder(how, base, w, Upto(n)), how, base, w, Upto(n))
  BY <1>2, FolderFolds
<1>4. Fold(how, base, w, n) = Folder(how, base, w, Upto(n))[Upto(n)]
  BY DEF Fold
<1>5. QED
  BY <1>1, <1>3, <1>4 DEF FoldsTo

\* Nothing is folded, one more is folded, and what is folded is all that counts.
LEMMA FoldNone ==
  ASSUME NEW how, NEW base, NEW w
  PROVE  Fold(how, base, w, 0) = base
<1>1. PICK g : FoldsTo(g, how, base, w, 0)
  BY PrefixFolds
<1>2. Upto(0) = {} /\ {} \in SUBSET Upto(0)
  BY DEF Upto
<1>3. QED
  BY <1>1, <1>2, FoldUpAt DEF FoldsTo

LEMMA FoldSame ==
  ASSUME NEW how, NEW base, NEW v, NEW w, NEW n \in Nat
  PROVE  (\A k \in Upto(n) : v[k] = w[k]) => Fold(how, base, v, n) = Fold(how, base, w, n)
<1>1. PICK g : FoldsTo(g, how, base, v, n)
  BY PrefixFolds
<1>2. PICK h : FoldsTo(h, how, base, w, n)
  BY PrefixFolds
<1>3. Upto(n) \in SUBSET Nat /\ IsFiniteSet(Upto(n))
  BY UptoNat, UptoFinite
<1> DEFINE S == Upto(n)
<1>4. FoldUp(g, how, base, v, S) /\ FoldUp(h, how, base, w, S)
  BY <1>1, <1>2 DEF FoldsTo
<1>5. (\A k \in S : v[k] = w[k]) => g[S] = h[S]
  <2> HIDE DEF S
  <2>1. S \in SUBSET Nat /\ IsFiniteSet(S) /\ S \subseteq S
    BY <1>3 DEF S
  <2>2. QED
    BY <1>4, <2>1, FoldsAgree
<1>6. QED
  BY <1>1, <1>2, <1>5 DEF FoldsTo

LEMMA FoldMore ==
  ASSUME NEW how, NEW base, NEW w, NEW n \in Nat
  PROVE  Fold(how, base, w, n + 1) = Folded(how, Fold(how, base, w, n), w[n + 1])
<1> DEFINE S == Upto(n + 1)
           R == Upto(n)
<1>1. PICK g : FoldsTo(g, how, base, w, n + 1)
  BY PrefixFolds
<1>2. PICK h : FoldsTo(h, how, base, w, n)
  BY PrefixFolds
<1>3. S \in SUBSET Nat /\ IsFiniteSet(S) /\ R \in SUBSET Nat /\ IsFiniteSet(R)
  <2>1. n + 1 \in Nat
    OBVIOUS
  <2>2. R \in SUBSET Nat /\ IsFiniteSet(R)
    BY UptoNat, UptoFinite
  <2>3. S \in SUBSET Nat /\ IsFiniteSet(S)
    BY <2>1, UptoNat, UptoFinite
  <2>4. QED
    BY <2>2, <2>3
<1>4. R \subseteq S /\ S # {} /\ n + 1 \in S /\ \A k \in S : k <= n + 1
  <2>1. n + 1 \in S /\ R \subseteq S /\ \A k \in S : k <= n + 1
    BY DEF Upto
  <2> HIDE DEF S, R
  <2>2. QED
    BY <2>1
<1>5. Max(S) = n + 1
  <2> HIDE DEF S
  <2>1. Max(S) \in S /\ \A y \in S : Max(S) >= y
    BY <1>3, <1>4, EndsExist
  <2> DEFINE m == Max(S)
  <2>2. m \in Nat /\ m >= n + 1 /\ m <= n + 1
    BY <1>3, <1>4, <2>1
  <2> HIDE DEF m
  <2>3. m = n + 1
    BY <2>2
  <2>4. QED
    BY <2>3 DEF m
<1>6. S \ {n + 1} = R
  BY DEF Upto
<1>7. /\ FoldUp(g, how, base, w, S) /\ Fold(how, base, w, n + 1) = g[S]
      /\ FoldUp(h, how, base, w, R) /\ Fold(how, base, w, n) = h[R]
  BY <1>1, <1>2 DEF FoldsTo
<1> HIDE DEF S, R
<1>8. g[R] = h[R]
  <2>1. R \subseteq R /\ \A x \in R : w[x] = w[x]
    OBVIOUS
  <2>2. QED
    BY <1>3, <1>4, <1>7, <2>1, FoldsAgree
<1>9. g[S] = Folded(how, g[R], w[n + 1])
  <2>1. S \in SUBSET S
    OBVIOUS
  <2>2. \A s \in SUBSET S :
          g[s] = IF s = {} THEN base ELSE Folded(how, g[s \ {Max(s)}], w[Max(s)])
    BY <1>7 DEF FoldUp
  <2>3. QED
    BY <1>4, <1>5, <1>6, <2>2
<1>10. QED
  BY <1>7, <1>8, <1>9

-----------------------------------------------------------------------------
(* Sums.                                                                      *)

LEMMA FoldIs ==
  ASSUME NEW how, NEW base, NEW w, NEW n \in Nat,
         NEW g, FoldUp(g, how, base, w, Upto(n))
  PROVE  g[Upto(n)] = Fold(how, base, w, n)
<1>1. PICK h : FoldsTo(h, how, base, w, n)
  BY PrefixFolds
<1>2. FoldUp(h, how, base, w, Upto(n)) /\ Fold(how, base, w, n) = h[Upto(n)]
  BY <1>1 DEF FoldsTo
<1>3. Upto(n) \in SUBSET Nat /\ IsFiniteSet(Upto(n))
  BY UptoNat, UptoFinite
<1> DEFINE S == Upto(n)
<1>4. g[S] = h[S]
  <2>1. /\ FoldUp(g, how, base, w, S) /\ FoldUp(h, how, base, w, S)
        /\ S \in SUBSET Nat /\ IsFiniteSet(S) /\ S \subseteq S /\ \A x \in S : w[x] = w[x]
    BY <1>2, <1>3
  <2> HIDE DEF S
  <2>2. QED
    BY <2>1, FoldsAgree
<1>5. QED
  BY <1>2, <1>4

LEMMA UptoMax ==
  ASSUME NEW n \in Nat, NEW s \in SUBSET Upto(n), s # {}
  PROVE  Max(s) \in Upto(n)
<1>1. Upto(n) \in SUBSET Nat /\ IsFiniteSet(Upto(n))
  BY UptoNat, UptoFinite
<1>2. Max(s) \in s
  BY <1>1, MaxIsIn
<1>3. QED
  BY <1>2

Sum(w, n) == Fold("sum", 0, w, n)

LEMMA SumNone == ASSUME NEW w PROVE Sum(w, 0) = 0
BY FoldNone DEF Sum

LEMMA SumMore == ASSUME NEW w, NEW n \in Nat PROVE Sum(w, n + 1) = Sum(w, n) + w[n + 1]
BY FoldMore DEF Sum, Folded

LEMMA SumSame ==
  ASSUME NEW v, NEW w, NEW n \in Nat
  PROVE  (\A k \in 1..n : v[k] = w[k]) => Sum(v, n) = Sum(w, n)
<1>1. (\A k \in Upto(n) : v[k] = w[k]) => Sum(v, n) = Sum(w, n)
  BY FoldSame DEF Sum
<1>2. QED
  BY <1>1 DEF Upto

LEMMA SumTyped ==
  ASSUME NEW w, NEW n \in Nat, \A k \in 1..n : w[k] \in Int
  PROVE  \A m \in 0..n : Sum(w, m) \in Int
<1> DEFINE Bad == {m \in 0..n : Sum(w, m) \notin Int}
<1>1. SUFFICES ASSUME Bad # {} PROVE FALSE
  OBVIOUS
<1>2. PICK m \in Bad : m = 0 \/ (m - 1 \in 0..n /\ m - 1 \notin Bad)
  <2>1. Bad \in SUBSET (0..n)
    OBVIOUS
  <2> HIDE DEF Bad
  <2>2. QED
    BY <1>1, <2>1, FirstFailure
<1>3. m # 0
  BY SumNone
<1> DEFINE k == m - 1
<1>4. k \in Nat /\ m = k + 1 /\ m \in 1..n /\ Sum(w, k) \in Int /\ Sum(w, m) \notin Int
  BY <1>2, <1>3
<1> HIDE DEF k, Bad
<1>5. Sum(w, m) = Sum(w, k) + w[m]
  BY <1>4, SumMore
<1>6. QED
  BY <1>4, <1>5

\* Zeros at the end do not count.
LEMMA ZerosAfter ==
  ASSUME NEW w, NEW n \in Nat, NEW m \in 0..n, Sum(w, m) \in Int,
         \A k \in m + 1..n : w[k] = 0
  PROVE  Sum(w, n) = Sum(w, m)
<1> DEFINE d == n - m
           Bad == {j \in 0..d : Sum(w, m + j) # Sum(w, m)}
<1>1. d \in Nat /\ n = m + d /\ m \in Nat
  OBVIOUS
<1>2. Bad = {}
  <2>1. SUFFICES ASSUME Bad # {} PROVE FALSE
    OBVIOUS
  <2>2. PICK j \in Bad : j = 0 \/ (j - 1 \in 0..d /\ j - 1 \notin Bad)
    <3>1. Bad \in SUBSET (0..d)
      OBVIOUS
    <3> HIDE DEF Bad, d
    <3>2. QED
      BY <1>1, <2>1, <3>1, FirstFailure
  <2>3. j # 0
    BY <1>1
  <2> DEFINE k == m + (j - 1)
  <2>4. k \in Nat /\ m + j = k + 1 /\ k + 1 \in m + 1..n
        /\ Sum(w, k) = Sum(w, m) /\ Sum(w, k + 1) # Sum(w, m)
    BY <1>1, <2>2, <2>3
  <2> HIDE DEF k, Bad, d
  <2>5. Sum(w, k + 1) = Sum(w, k) + w[k + 1]
    BY <2>4, SumMore
  <2>6. w[k + 1] = 0
    BY <2>4
  <2>7. QED
    BY <2>4, <2>5, <2>6
<1>3. d \in 0..d
  BY <1>1
<1>4. Sum(w, m + d) = Sum(w, m)
  BY <1>2, <1>3
<1>5. QED
  BY <1>1, <1>4

(* The profits of the trades.                                                 *)
Profits(s) == [k \in Upto(Len(s)) |-> s[k].pnl]
Total(s) == Sum(Profits(s), Len(s))

PnlFold(g, s) ==
  g = [S \in SUBSET DOMAIN s |-> IF S = {} THEN 0 ELSE g[S \ {Max(S)}] + s[Max(S)].pnl]

LEMMA SumOfUnfolds ==
  ASSUME NEW s
  PROVE  SumOf(LAMBDA t : t.pnl, s) = (CHOOSE g : PnlFold(g, s))[DOMAIN s]
BY DEF SumOf, FoldLeft, MapThenFoldSet, PnlFold

LEMMA PnlFolds ==
  ASSUME NEW s \in Seq(Trades), NEW g
  PROVE  PnlFold(g, s) <=> FoldUp(g, "sum", 0, Profits(s), Upto(Len(s)))
<1> DEFINE n == Len(s)
           w == Profits(s)
<1>1. n \in Nat /\ DOMAIN s = Upto(n)
  BY DEF Upto
<1>2. ASSUME NEW S \in SUBSET Upto(n), S # {}
      PROVE  w[Max(S)] = s[Max(S)].pnl
  BY <1>1, <1>2, UptoMax DEF Profits
<1>3. [S \in SUBSET Upto(n) |-> IF S = {} THEN 0 ELSE g[S \ {Max(S)}] + s[Max(S)].pnl]
        = [S \in SUBSET Upto(n) |-> IF S = {} THEN 0
                                    ELSE Folded("sum", g[S \ {Max(S)}], w[Max(S)])]
  <2> HIDE DEF n, w
  <2>1. QED
    BY <1>2 DEF Folded
<1>4. QED
  BY <1>1, <1>3 DEF PnlFold, FoldUp

LEMMA SumOfTotal ==
  ASSUME NEW s \in Seq(Trades)
  PROVE  SumOf(LAMBDA t : t.pnl, s) = Total(s)
<1> DEFINE n == Len(s)
<1>1. n \in Nat /\ DOMAIN s = Upto(n) /\ Upto(n) \in SUBSET Nat /\ IsFiniteSet(Upto(n))
  BY UptoNat, UptoFinite DEF Upto
<1>2. \E g : PnlFold(g, s)
  BY <1>1, PnlFolds, FoldExists
<1> DEFINE it == CHOOSE g : PnlFold(g, s)
<1>3. PnlFold(it, s)
  BY <1>2
<1>4. SumOf(LAMBDA t : t.pnl, s) = it[Upto(n)]
  BY <1>1, SumOfUnfolds
<1> HIDE DEF it
<1>5. FoldUp(it, "sum", 0, Profits(s), Upto(n))
  BY <1>3, PnlFolds
<1>6. it[Upto(n)] = Fold("sum", 0, Profits(s), n)
  BY <1>1, <1>5, FoldIs
<1>7. QED
  BY <1>4, <1>6 DEF Total, Sum

LEMMA TotalTyped == ASSUME NEW s \in Seq(Trades) PROVE Total(s) \in Int
<1>1. Len(s) \in Nat /\ Len(s) \in 0..Len(s)
  OBVIOUS
<1>2. \A k \in 1..Len(s) : Profits(s)[k] \in Int
  <2>1. \A k \in 1..Len(s) : s[k] \in Trades
    OBVIOUS
  <2>2. \A t \in Trades : t.pnl \in Int
    BY DEF Trades
  <2>3. \A k \in 1..Len(s) : Profits(s)[k] = s[k].pnl
    BY DEF Profits, Upto
  <2>4. QED
    BY <2>1, <2>2, <2>3
<1>3. QED
  BY <1>1, <1>2, SumTyped DEF Total

LEMMA TotalMore ==
  ASSUME NEW s \in Seq(Trades), NEW t \in Trades
  PROVE  Total(Append(s, t)) = Total(s) + t.pnl
<1> DEFINE n == Len(s)
           r == Append(s, t)
<1>1. n \in Nat /\ Len(r) = n + 1 /\ r[n + 1] = t /\ \A k \in 1..n : r[k] = s[k]
  OBVIOUS
<1>2. Profits(r)[n + 1] = t.pnl /\ \A k \in 1..n : Profits(r)[k] = Profits(s)[k]
  <2> HIDE DEF r
  <2>1. QED
    BY <1>1 DEF Profits, Upto
<1>3. Sum(Profits(r), n + 1) = Sum(Profits(r), n) + t.pnl
  BY <1>1, <1>2, SumMore
<1>4. Sum(Profits(r), n) = Sum(Profits(s), n)
  BY <1>1, <1>2, SumSame
<1>5. QED
  BY <1>1, <1>3, <1>4 DEF Total

LEMMA TotalNone == Total(<<>>) = 0
BY SumNone DEF Total

-----------------------------------------------------------------------------
(* The rates of the bars after an entry, up to a bar.                         *)
Rate(bs, from, to) ==
  [k \in Upto(Len(bs)) |-> IF k \in from + 1..to THEN bs[k].rate ELSE 0]
RateSum(bs, from, to) == Sum(Rate(bs, from, to), Len(bs))

LEMMA RateTyped ==
  ASSUME NEW bs \in Seq(Bar), NEW from \in Nat, NEW to \in Nat
  PROVE  /\ \A k \in 1..Len(bs) : Rate(bs, from, to)[k] \in Int
         /\ \A m \in 0..Len(bs) : Sum(Rate(bs, from, to), m) \in Int
         /\ RateSum(bs, from, to) \in Int
<1>1. \A k \in 1..Len(bs) : bs[k].rate \in Int
  BY BarTyped
<1>2. \A k \in 1..Len(bs) : Rate(bs, from, to)[k] = IF k \in from + 1..to THEN bs[k].rate ELSE 0
  BY DEF Rate, Upto
<1>3. \A k \in 1..Len(bs) : Rate(bs, from, to)[k] \in Int
  BY <1>1, <1>2
<1>4. Len(bs) \in Nat /\ Len(bs) \in 0..Len(bs)
  OBVIOUS
<1>5. \A m \in 0..Len(bs) : Sum(Rate(bs, from, to), m) \in Int
  BY <1>3, <1>4, SumTyped
<1>6. QED
  BY <1>3, <1>4, <1>5 DEF RateSum

LEMMA RatesUpTo ==
  ASSUME NEW bs \in Seq(Bar), NEW from \in Nat, NEW to \in 0..Len(bs)
  PROVE  RateSum(bs, from, to) = Sum(Rate(bs, from, to), to)
<1>1. Len(bs) \in Nat /\ to \in Nat
  OBVIOUS
<1>2. Sum(Rate(bs, from, to), to) \in Int
  BY <1>1, RateTyped
<1>3. \A k \in to + 1..Len(bs) : Rate(bs, from, to)[k] = 0
  BY <1>1 DEF Rate, Upto
<1>4. QED
  BY <1>1, <1>2, <1>3, ZerosAfter DEF RateSum

LEMMA RatesNone ==
  ASSUME NEW bs \in Seq(Bar), NEW from \in 0..Len(bs)
  PROVE  RateSum(bs, from, from) = 0
<1>1. Len(bs) \in Nat /\ from \in Nat /\ 0 \in 0..Len(bs)
  OBVIOUS
<1>2. \A k \in 0 + 1..Len(bs) : Rate(bs, from, from)[k] = 0
  BY <1>1 DEF Rate, Upto
<1>3. Sum(Rate(bs, from, from), 0) = 0
  BY SumNone
<1>4. QED
  BY <1>1, <1>2, <1>3, ZerosAfter DEF RateSum

LEMMA RatesMore ==
  ASSUME NEW bs \in Seq(Bar), NEW from \in Nat, NEW i \in Nat,
         from <= i, i + 1 \in 1..Len(bs)
  PROVE  RateSum(bs, from, i + 1) = RateSum(bs, from, i) + bs[i + 1].rate
<1>1. Len(bs) \in Nat /\ i \in 0..Len(bs) /\ i + 1 \in 0..Len(bs) /\ i + 1 \in Nat
  OBVIOUS
<1>2. RateSum(bs, from, i + 1) = Sum(Rate(bs, from, i + 1), i + 1)
  BY <1>1, RatesUpTo
<1>3. RateSum(bs, from, i) = Sum(Rate(bs, from, i), i)
  BY <1>1, RatesUpTo
<1>4. Sum(Rate(bs, from, i + 1), i + 1)
        = Sum(Rate(bs, from, i + 1), i) + Rate(bs, from, i + 1)[i + 1]
  BY SumMore
<1>5. Rate(bs, from, i + 1)[i + 1] = bs[i + 1].rate
  BY <1>1 DEF Rate, Upto
<1>6. \A k \in 1..i : Rate(bs, from, i + 1)[k] = Rate(bs, from, i)[k]
  BY <1>1 DEF Rate, Upto
<1>7. Sum(Rate(bs, from, i + 1), i) = Sum(Rate(bs, from, i), i)
  BY <1>6, SumSame
<1>8. QED
  BY <1>2, <1>3, <1>4, <1>5, <1>7

\* A later bar changes nothing.
LEMMA RatesLater ==
  ASSUME NEW bs \in Seq(Bar), NEW b \in Bar, NEW from \in Nat, NEW to \in 0..Len(bs)
  PROVE  RateSum(Append(bs, b), from, to) = RateSum(bs, from, to)
<1> DEFINE cs == Append(bs, b)
<1>1. /\ cs \in Seq(Bar) /\ Len(cs) = Len(bs) + 1 /\ Len(bs) \in Nat
      /\ \A k \in 1..Len(bs) : cs[k] = bs[k]
  OBVIOUS
<1> HIDE DEF cs
<1>2. to \in 0..Len(cs) /\ to \in Nat
  BY <1>1
<1>3. RateSum(cs, from, to) = Sum(Rate(cs, from, to), to)
  BY <1>1, <1>2, RatesUpTo
<1>4. RateSum(bs, from, to) = Sum(Rate(bs, from, to), to)
  BY RatesUpTo
<1>5. \A k \in 1..to : Rate(cs, from, to)[k] = Rate(bs, from, to)[k]
  BY <1>1, <1>2 DEF Rate, Upto
<1>6. Sum(Rate(cs, from, to), to) = Sum(Rate(bs, from, to), to)
  BY <1>2, <1>5, SumSame
<1>7. QED
  BY <1>3, <1>4, <1>6 DEF cs

\* The sum of Earned.
RateFold(g, from, to) ==
  g = [S \in SUBSET DOMAIN [k \in DOMAIN bars |-> k] |->
         IF S = {} THEN 0
         ELSE g[S \ {Max(S)}]
                + (IF [k \in DOMAIN bars |-> k][Max(S)] \in from + 1..to
                   THEN bars[[k \in DOMAIN bars |-> k][Max(S)]].rate ELSE 0)]

RatesOfBars(from, to) ==
  FoldLeft(LAMBDA acc, k : acc + (IF k \in from + 1..to THEN bars[k].rate ELSE 0), 0,
           [k \in DOMAIN bars |-> k])

LEMMA RatesUnfold ==
  ASSUME NEW from, NEW to
  PROVE  RatesOfBars(from, to)
           = (CHOOSE g : RateFold(g, from, to))[DOMAIN [k \in DOMAIN bars |-> k]]
BY DEF RatesOfBars, FoldLeft, MapThenFoldSet, RateFold

LEMMA RateFolds ==
  ASSUME bars \in Seq(Bar), NEW from, NEW to, NEW g
  PROVE  RateFold(g, from, to)
           <=> FoldUp(g, "sum", 0, Rate(bars, from, to), Upto(Len(bars)))
<1> DEFINE n == Len(bars)
           w == Rate(bars, from, to)
           v == [k \in DOMAIN bars |-> k]
<1>1. n \in Nat /\ DOMAIN bars = Upto(n) /\ DOMAIN v = Upto(n)
  BY DEF Upto
<1>2. ASSUME NEW S \in SUBSET Upto(n), S # {}
      PROVE  w[Max(S)] = (IF v[Max(S)] \in from + 1..to THEN bars[v[Max(S)]].rate ELSE 0)
  <2>1. Max(S) \in Upto(n)
    BY <1>1, <1>2, UptoMax
  <2> DEFINE m == Max(S)
  <2> HIDE DEF m
  <2>2. m \in Upto(n)
    BY <2>1 DEF m
  <2>3. v[m] = m /\ w[m] = IF m \in from + 1..to THEN bars[m].rate ELSE 0
    BY <1>1, <2>2 DEF Rate
  <2>4. QED
    BY <2>3 DEF m
<1>3. [S \in SUBSET Upto(n) |->
         IF S = {} THEN 0
         ELSE g[S \ {Max(S)}] + (IF v[Max(S)] \in from + 1..to THEN bars[v[Max(S)]].rate ELSE 0)]
        = [S \in SUBSET Upto(n) |-> IF S = {} THEN 0
                                    ELSE Folded("sum", g[S \ {Max(S)}], w[Max(S)])]
  <2> HIDE DEF n, w, v
  <2>1. QED
    BY <1>2 DEF Folded
<1>4. RateFold(g, from, to) <=>
        g = [S \in SUBSET DOMAIN v |->
               IF S = {} THEN 0
               ELSE g[S \ {Max(S)}]
                      + (IF v[Max(S)] \in from + 1..to THEN bars[v[Max(S)]].rate ELSE 0)]
  BY DEF RateFold
<1> HIDE DEF n, w, v
<1>5. RateFold(g, from, to) <=> FoldUp(g, "sum", 0, w, Upto(n))
  BY <1>1, <1>3, <1>4 DEF FoldUp
<1>6. QED
  BY <1>5 DEF n, w

LEMMA RatesAre ==
  ASSUME bars \in Seq(Bar), NEW from, NEW to
  PROVE  RatesOfBars(from, to) = RateSum(bars, from, to)
<1> DEFINE n == Len(bars)
<1>1. /\ n \in Nat /\ Upto(n) \in SUBSET Nat /\ IsFiniteSet(Upto(n))
      /\ DOMAIN [k \in DOMAIN bars |-> k] = Upto(n)
  BY UptoNat, UptoFinite DEF Upto
<1>2. \E g : RateFold(g, from, to)
  BY <1>1, RateFolds, FoldExists
<1> DEFINE it == CHOOSE g : RateFold(g, from, to)
<1>3. RateFold(it, from, to)
  BY <1>2
<1>4. RatesOfBars(from, to) = it[Upto(n)]
  BY <1>1, RatesUnfold
<1> HIDE DEF it
<1>5. FoldUp(it, "sum", 0, Rate(bars, from, to), Upto(n))
  BY <1>3, RateFolds
<1>6. it[Upto(n)] = Fold("sum", 0, Rate(bars, from, to), n)
  BY <1>1, <1>5, FoldIs
<1>7. QED
  BY <1>4, <1>6 DEF RateSum, Sum

-----------------------------------------------------------------------------
(* What a trade earns, and what its position has accrued on the way.          *)
EarnedOn(bs, t) ==
  (IF t.side = "long" THEN 1 ELSE -1)
    * (((bs[t.to].price - bs[t.from].price) * t.size) \div bs[t.from].price
       - t.size * RateSum(bs, t.from, t.to))
  - Cost

AccruedOf(p, bs, n) ==
  IF p.side = "long" THEN -(p.size * RateSum(bs, p.bar, n)) ELSE p.size * RateSum(bs, p.bar, n)

LEMMA EarnedIs ==
  ASSUME bars \in Seq(Bar), NEW t, t.from \in 1..Len(bars), t.to \in 1..Len(bars)
  PROVE  Earned(t) = EarnedOn(bars, t)
<1> DEFINE p == [k \in DOMAIN bars |-> bars[k].price]
           s == RatesOfBars(t.from, t.to)
<1>1. p[t.to] = bars[t.to].price /\ p[t.from] = bars[t.from].price
  OBVIOUS
<1>2. Earned(t) = (IF t.side = "long" THEN 1 ELSE -1)
                    * (((p[t.to] - p[t.from]) * t.size) \div p[t.from] - t.size * s) - Cost
  BY Zenon DEF Earned, RatesOfBars
<1>3. s = RateSum(bars, t.from, t.to)
  BY RatesAre
<1> HIDE DEF p, s
<1>4. QED
  BY <1>1, <1>2, <1>3 DEF EarnedOn

\* A bar accrues its rate, and the bar of the entry none.
LEMMA AccruesMore ==
  ASSUME NEW bs \in Seq(Bar), NEW p \in Positions, p.side \in Sides,
         NEW i \in Nat, p.bar <= i, i + 1 \in 1..Len(bs)
  PROVE  AccruedOf(p, bs, i + 1)
           = AccruedOf(p, bs, i) + Funding(p.side, p.size, bs[i + 1].rate)
<1> DEFINE r == RateSum(bs, p.bar, i)
           q == bs[i + 1].rate
           z == p.size
<1>1. p.bar \in Nat /\ z \in Nat /\ p.side \in {"long", "short"}
  BY DEF Positions, Sides
<1>2. r \in Int /\ q \in Int
  BY <1>1, RateTyped, BarTyped
<1>3. RateSum(bs, p.bar, i + 1) = r + q
  BY <1>1, RatesMore
<1> HIDE DEF r, q
<1>4. z * (r + q) = z * r + z * q /\ z * r \in Int /\ z * q \in Int
  <2> HIDE DEF z
  <2>1. QED
    BY <1>1, <1>2
<1>5. AccruedOf(p, bs, i + 1) = IF p.side = "long" THEN -(z * (r + q)) ELSE z * (r + q)
  BY <1>3 DEF AccruedOf
<1>6. AccruedOf(p, bs, i) = IF p.side = "long" THEN -(z * r) ELSE z * r
  BY DEF AccruedOf, r
<1>7. Funding(p.side, p.size, bs[i + 1].rate) = IF p.side = "long" THEN -(z * q) ELSE z * q
  BY <1>1 DEF Funding, q
<1> HIDE DEF z
<1> DEFINE a == z * r
           b == z * q
<1>8. a \in Int /\ b \in Int /\ z * (r + q) = a + b
  BY <1>4
<1>9. AccruedOf(p, bs, i) = (IF p.side = "long" THEN -a ELSE a)
      /\ Funding(p.side, p.size, bs[i + 1].rate) = (IF p.side = "long" THEN -b ELSE b)
      /\ AccruedOf(p, bs, i + 1) = (IF p.side = "long" THEN -(a + b) ELSE a + b)
  BY <1>5, <1>6, <1>7, <1>8
<1> HIDE DEF a, b
<1>10. QED
  BY <1>8, <1>9

LEMMA AccruesNone ==
  ASSUME NEW bs \in Seq(Bar), NEW p \in Positions, p.bar \in 1..Len(bs)
  PROVE  AccruedOf(p, bs, p.bar) = 0
<1>1. RateSum(bs, p.bar, p.bar) = 0
  BY RatesNone
<1>2. p.size * 0 = 0 /\ p.size \in Nat
  BY DEF Positions
<1>3. QED
  BY <1>1, <1>2 DEF AccruedOf

\* A trade of the position that has accrued its rates earns what it should.
LEMMA PnlIs ==
  ASSUME NEW bs \in Seq(Bar), NEW i \in 1..Len(bs), pos \in Positions, pos.side \in Sides,
         pos.bar \in 1..i, pos.price = bs[pos.bar].price,
         NEW reason \in {"signal", "end_of_backtest"}, NEW t,
         t = Trade(bs[i].price, i, AccruedOf(pos, bs, i), reason)
  PROVE  /\ t \in Trades /\ t.pnl = EarnedOn(bs, t)
         /\ t.from = pos.bar /\ t.to = i
<1>1. pos.bar \in 1..Len(bs) /\ pos.bar \in Nat /\ i \in Nat /\ pos.size \in Nat
  BY DEF Positions
<1>2. pos.price \in Nat \ {0} /\ bs[i].price \in Nat
  BY <1>1, BarTyped
<1> DEFINE r == RateSum(bs, pos.bar, i)
           m == pos.size * r
           raw == ((bs[i].price - pos.price) * pos.size) \div pos.price
<1>3. r \in Int
  BY <1>1, RateTyped
<1>4. m \in Int
  <2> HIDE DEF r
  <2>1. QED
    BY <1>1, <1>3
<1>5. raw \in Int
  <2>1. (bs[i].price - pos.price) * pos.size \in Int
    BY <1>1, <1>2
  <2>2. QED
    BY <1>2, <2>1
<1>6. AccruedOf(pos, bs, i) = IF pos.side = "long" THEN -m ELSE m
  BY DEF AccruedOf
<1>7. AccruedOf(pos, bs, i) \in Int
  <2> HIDE DEF m
  <2>1. QED
    BY <1>4, <1>6
<1>8. /\ t \in Trades
      /\ t.pnl = Profit(pos.side, pos.size, pos.price, bs[i].price) - Cost + AccruedOf(pos, bs, i)
      /\ t.side = pos.side /\ t.from = pos.bar /\ t.to = i /\ t.size = pos.size
  <2> DEFINE f == AccruedOf(pos, bs, i)
             x == bs[i].price
  <2>1. f \in Int /\ x \in Nat /\ i \in Nat /\ pos.price # 0 /\ t = Trade(x, i, f, reason)
    BY <1>1, <1>2, <1>7
  <2> HIDE DEF f, x
  <2> DEFINE u == Trade(x, i, f, reason)
  <2>2. /\ u \in Trades /\ u.pnl = Profit(pos.side, pos.size, pos.price, x) - Cost + f
        /\ u.side = pos.side /\ u.from = pos.bar /\ u.to = i /\ u.size = pos.size
    BY <2>1, TradeTyped
  <2>3. t = u
    BY <2>1
  <2> HIDE DEF u
  <2>4. QED
    BY <2>2, <2>3 DEF f, x
<1>9. Profit(pos.side, pos.size, pos.price, bs[i].price)
        = IF pos.side = "short" THEN -raw ELSE raw
  BY DEF Profit
<1>10. EarnedOn(bs, t) = (IF pos.side = "long" THEN 1 ELSE -1) * (raw - m) - Cost
  BY <1>8 DEF EarnedOn
<1>11. Cost \in Nat /\ pos.side \in {"long", "short"}
  BY EngineAssumption DEF Sides
<1> HIDE DEF raw, m
<1>12. CASE pos.side = "long"
  <2>1. t.pnl = raw - Cost + (-m)
    BY <1>6, <1>8, <1>9, <1>12
  <2>2. EarnedOn(bs, t) = (raw - m) - Cost
    BY <1>4, <1>5, <1>10, <1>12
  <2>3. QED
    BY <1>4, <1>5, <1>8, <1>11, <2>1, <2>2
<1>13. CASE pos.side = "short"
  <2>1. t.pnl = (-raw) - Cost + m
    BY <1>6, <1>8, <1>9, <1>13
  <2>2. EarnedOn(bs, t) = (-(raw - m)) - Cost
    BY <1>4, <1>5, <1>10, <1>13
  <2>3. QED
    BY <1>4, <1>5, <1>8, <1>11, <2>1, <2>2
<1>14. QED
  BY <1>11, <1>12, <1>13

-----------------------------------------------------------------------------
(* The books balance.                                                         *)

TradeOk(bs, n, t) ==
  t.from \in 1..n /\ t.to \in 1..n /\ t.from <= t.to /\ t.pnl = EarnedOn(bs, t)

Booked(bs, n, ts) ==
  /\ \A k \in 1..Len(ts) : TradeOk(bs, n, ts[k])
  /\ \A k \in 2..Len(ts) : ts[k - 1].to < ts[k].from

\* An open position has accrued the rates of the bars since its entry, and was
\* entered after the last trade.
Running(bs, n, p, acc, ts) ==
  p # Flat => acc = AccruedOf(p, bs, n) /\ \A k \in 1..Len(ts) : ts[k].to < p.bar

BooksOn(bs, n, e, c, ts, p, acc) ==
  /\ e = Capital + Total(ts)
  /\ c # <<>> => Last(c) = e
  /\ Booked(bs, n, ts)
  /\ Running(bs, n, p, acc, ts)

\* The invariant: the books balance after every bar, with what the open position
\* has accrued so far.
BooksInv == BooksOn(bars, at, equity, curve, trades, pos, accrued)

LEMMA BookedMore ==
  ASSUME NEW bs, NEW n \in Nat, NEW ts \in Seq(Trades), NEW t \in Trades,
         Booked(bs, n, ts), TradeOk(bs, n, t), \A k \in 1..Len(ts) : ts[k].to < t.from
  PROVE  Booked(bs, n, Append(ts, t))
<1> DEFINE r == Append(ts, t)
           m == Len(ts)
<1>1. m \in Nat /\ Len(r) = m + 1 /\ r[m + 1] = t /\ \A k \in 1..m : r[k] = ts[k]
  OBVIOUS
<1> HIDE DEF r
<1>2. \A k \in 1..Len(r) : TradeOk(bs, n, r[k])
  <2>1. \A k \in 1..m : TradeOk(bs, n, r[k])
    BY <1>1 DEF Booked
  <2>2. \A k \in 1..m + 1 : k = m + 1 \/ k \in 1..m
    BY <1>1
  <2>3. QED
    BY <1>1, <2>1, <2>2
<1>3. ASSUME NEW k \in 2..Len(r) PROVE r[k - 1].to < r[k].from
  <2>1. CASE k = m + 1
    <3>1. k - 1 = m /\ m \in 1..m /\ r[k] = t /\ r[k - 1] = ts[m]
      BY <1>1, <1>3, <2>1
    <3>2. QED
      BY <3>1
  <2>2. CASE k # m + 1
    <3>1. k \in 2..m /\ r[k] = ts[k] /\ r[k - 1] = ts[k - 1]
      BY <1>1, <1>3, <2>2
    <3>2. QED
      BY <3>1 DEF Booked
  <2>3. QED
    BY <2>1, <2>2
<1>4. QED
  BY <1>2, <1>3 DEF Booked, r

\* Another bar of the frame, and another bar looked at, leave the books as
\* they are.
LEMMA BooksGrow ==
  ASSUME NEW bs \in Seq(Bar), NEW b \in Bar, NEW n \in 0..Len(bs), NEW ts \in Seq(Trades),
         NEW p, p = Flat \/ p.bar \in 1..n, NEW e, NEW c, NEW acc,
         BooksOn(bs, n, e, c, ts, p, acc)
  PROVE  BooksOn(Append(bs, b), n, e, c, ts, p, acc)
<1> DEFINE cs == Append(bs, b)
<1>1. Len(bs) \in Nat /\ \A k \in 1..Len(bs) : cs[k] = bs[k]
  OBVIOUS
<1>2. \A from \in Nat, to \in 0..Len(bs) : RateSum(cs, from, to) = RateSum(bs, from, to)
  BY RatesLater
<1> HIDE DEF cs
<1>3. \A t : TradeOk(bs, n, t) => TradeOk(cs, n, t)
  <2> SUFFICES ASSUME NEW t, TradeOk(bs, n, t) PROVE TradeOk(cs, n, t)
    OBVIOUS
  <2>1. t.from \in 1..Len(bs) /\ t.to \in 0..Len(bs) /\ t.to \in 1..Len(bs) /\ t.from \in Nat
    BY <1>1 DEF TradeOk
  <2>2. cs[t.to] = bs[t.to] /\ cs[t.from] = bs[t.from]
        /\ RateSum(cs, t.from, t.to) = RateSum(bs, t.from, t.to)
    BY <1>1, <1>2, <2>1
  <2>3. EarnedOn(cs, t) = EarnedOn(bs, t)
    BY <2>2 DEF EarnedOn
  <2>4. QED
    BY <2>3 DEF TradeOk
<1>4. Booked(cs, n, ts)
  BY <1>3 DEF BooksOn, Booked
<1>5. Running(cs, n, p, acc, ts)
  <2>1. CASE p # Flat
    <3>1. RateSum(cs, p.bar, n) = RateSum(bs, p.bar, n)
      BY <1>1, <1>2, <2>1
    <3>2. AccruedOf(p, cs, n) = AccruedOf(p, bs, n)
      BY <3>1 DEF AccruedOf
    <3>3. QED
      BY <3>2 DEF BooksOn, Running
  <2>2. QED
    BY <2>1 DEF Running
<1>6. QED
  BY <1>4, <1>5 DEF BooksOn, cs

\* The books with one more trade.
LEMMA BooksTrade ==
  ASSUME NEW bs \in Seq(Bar), NEW n \in 1..Len(bs), pos \in Positions, pos.side \in Sides,
         pos.bar \in 1..n, pos.price = bs[pos.bar].price,
         NEW reason \in {"signal", "end_of_backtest"}, NEW t,
         t = Trade(bs[n].price, n, AccruedOf(pos, bs, n), reason),
         NEW ts \in Seq(Trades), NEW e, e = Capital + Total(ts),
         NEW m \in 0..n, Booked(bs, m, ts), \A k \in 1..Len(ts) : ts[k].to < pos.bar,
         NEW c, c # <<>> => Last(c) = e + t.pnl, NEW acc
  PROVE  BooksOn(bs, n, e + t.pnl, c, Append(ts, t), Flat, acc)
<1>1. t \in Trades /\ t.pnl = EarnedOn(bs, t) /\ t.from = pos.bar /\ t.to = n
  BY PnlIs
<1>2. TradeOk(bs, n, t)
  BY <1>1 DEF TradeOk
<1>3. Booked(bs, n, ts)
  BY DEF Booked, TradeOk
<1>4. Booked(bs, n, Append(ts, t))
  <2>1. n \in Nat /\ \A k \in 1..Len(ts) : ts[k].to < t.from
    BY <1>1
  <2>2. QED
    BY <1>1, <1>2, <1>3, <2>1, BookedMore
<1>5. e + t.pnl = Capital + Total(Append(ts, t))
  <2>1. Total(Append(ts, t)) = Total(ts) + t.pnl
    BY <1>1, TotalMore
  <2>2. \A u \in Trades : u.pnl \in Int
    BY DEF Trades
  <2>3. Total(ts) \in Int /\ Capital \in Int /\ t.pnl \in Int
    BY <1>1, <2>2, TotalTyped, EngineAssumption
  <2>4. QED
    BY <2>1, <2>3
<1>6. QED
  BY <1>4, <1>5 DEF BooksOn, Running

LEMMA ProcessBooks ==
  ASSUME EngineTypeOK, PassInv, NEW bs \in Seq(Bar), NEW i \in 1..Len(bs), i = at + 1,
         Process(bs, i), \A k \in 1..at : bs[k] = bars[k],
         BooksOn(bs, at, equity, curve, trades, pos, accrued)
  PROVE  BooksOn(bs, i, equity', curve', trades', pos', accrued')
<1>1. /\ curve' = Append(curve, equity')
      /\ Exits(bs, i) \/ Enters(bs, i) \/ Carries(bs, i)
  BY ProcessEffects DEF EngineTypeOK, Positions
<1>2. /\ pos \in Positions /\ trades \in Seq(Trades) /\ at \in Nat /\ curve \in Seq(Int)
      /\ at \in 0..i /\ i \in Nat
  BY DEF EngineTypeOK
<1>3. Last(curve') = equity'
  BY <1>1, <1>2 DEF Last
<1>4. /\ equity = Capital + Total(trades) /\ Booked(bs, at, trades)
      /\ Running(bs, at, pos, accrued, trades)
  BY DEF BooksOn
<1>5. Booked(bs, i, trades)
  BY <1>2, <1>4 DEF Booked, TradeOk
<1>6. pos # Flat => /\ pos.side \in Sides /\ pos.bar \in 1..at /\ pos.bar \in 1..i
                    /\ pos.bar <= at /\ pos.price = bs[pos.bar].price
  BY <1>2 DEF PassInv, Entered
<1>7. ASSUME pos # Flat PROVE Paid(bs, i) = AccruedOf(pos, bs, i)
  <2>1. AccruedOf(pos, bs, at + 1)
          = AccruedOf(pos, bs, at) + Funding(pos.side, pos.size, bs[at + 1].rate)
    BY <1>2, <1>6, <1>7, AccruesMore
  <2>2. accrued = AccruedOf(pos, bs, at)
    BY <1>4, <1>7 DEF Running
  <2>3. QED
    BY <2>1, <2>2 DEF Paid
<1>8. CASE Exits(bs, i)
  <2>1. pos # Flat
    BY <1>8 DEF Exits, Flat, Sides
  <2> DEFINE t == Trade(bs[i].price, i, AccruedOf(pos, bs, i), "signal")
  <2>2. trades' = Append(trades, t) /\ equity' = equity + t.pnl /\ pos' = Flat
    BY <1>7, <1>8, <2>1 DEF Exits
  <2>3. t = Trade(bs[i].price, i, AccruedOf(pos, bs, i), "signal")
    OBVIOUS
  <2> HIDE DEF t
  <2>4. \A k \in 1..Len(trades) : trades[k].to < pos.bar
    BY <1>4, <2>1 DEF Running
  <2>5. curve' # <<>> => Last(curve') = equity + t.pnl
    BY <1>3, <2>2
  <2>6. BooksOn(bs, i, equity + t.pnl, curve', Append(trades, t), Flat, accrued')
    BY <1>2, <1>4, <1>6, <2>1, <2>3, <2>4, <2>5, BooksTrade
  <2>7. QED
    BY <2>2, <2>6
<1>9. CASE Enters(bs, i)
  <2>1. PICK size \in Sizes :
          pos' = [side |-> Signal(bs, i), price |-> bs[i].price, bar |-> i, size |-> size]
    BY <1>9 DEF Enters
  <2>2. Signal(bs, i) \in Sides /\ accrued' = 0 /\ trades' = trades /\ equity' = equity
    BY <1>9 DEF Enters
  <2>3. pos' \in Positions /\ pos'.bar = i
    BY <2>1, <2>2, BarTyped, EngineAssumption DEF Positions
  <2>4. AccruedOf(pos', bs, i) = 0
    BY <2>3, AccruesNone
  <2>5. \A k \in 1..Len(trades) : trades[k].to < i
    <3>1. \A k \in 1..Len(trades) : trades[k].to \in 1..at
      BY <1>4 DEF Booked, TradeOk
    <3>2. \A x \in 1..at : x < i
      BY <1>2
    <3>3. QED
      BY <3>1, <3>2
  <2>6. Running(bs, i, pos', accrued', trades')
    BY <2>2, <2>3, <2>4, <2>5 DEF Running
  <2>7. QED
    BY <1>3, <1>4, <1>5, <2>2, <2>6 DEF BooksOn
<1>10. CASE Carries(bs, i)
  <2>1. pos' = pos /\ trades' = trades /\ equity' = equity
    BY <1>10 DEF Carries
  <2>2. ASSUME pos # Flat PROVE accrued' = AccruedOf(pos, bs, i)
    BY <1>6, <1>7, <1>10, <2>2 DEF Carries, Sides
  <2>3. Running(bs, i, pos', accrued', trades')
    BY <1>4, <2>1, <2>2 DEF Running
  <2>4. QED
    BY <1>3, <1>4, <1>5, <2>1, <2>3 DEF BooksOn
<1>11. QED
  BY <1>1, <1>8, <1>9, <1>10

LEMMA CloseBooks ==
  ASSUME EngineTypeOK, PassInv, BooksInv, CloseLast, at = Len(bars), Len(curve) >= 1
  PROVE  BooksOn(bars, at, equity', curve', trades', pos', accrued')
<1>1. Ends(bars, Len(bars))
  BY CloseEffects
<1>2. /\ pos \in Positions /\ trades \in Seq(Trades) /\ at \in Nat /\ curve \in Seq(Int)
      /\ bars \in Seq(Bar) /\ equity \in Int
  BY DEF EngineTypeOK
<1>3. CASE pos.side = "flat"
  <2>1. UNCHANGED <<pos, accrued, equity, curve, trades>>
    BY <1>1, <1>3 DEF Ends
  <2>2. QED
    BY <2>1 DEF BooksInv
<1>4. CASE pos.side # "flat"
  <2>1. /\ pos # Flat /\ pos.side \in Sides /\ pos.bar \in 1..at
        /\ pos.price = bars[pos.bar].price
    BY <1>4 DEF Flat, PassInv, Entered
  <2>2. /\ equity = Capital + Total(trades) /\ Booked(bars, at, trades)
        /\ accrued = AccruedOf(pos, bars, at)
        /\ \A k \in 1..Len(trades) : trades[k].to < pos.bar
    BY <2>1 DEF BooksInv, BooksOn, Running
  <2> DEFINE t == Trade(bars[at].price, at, AccruedOf(pos, bars, at), "end_of_backtest")
  <2>3. /\ trades' = Append(trades, t) /\ equity' = equity + t.pnl /\ pos' = Flat
        /\ curve' = [curve EXCEPT ![Len(curve)] = equity']
    BY <1>1, <1>4, <2>2 DEF Ends
  <2>4. t = Trade(bars[at].price, at, AccruedOf(pos, bars, at), "end_of_backtest")
    OBVIOUS
  <2> HIDE DEF t
  <2>5. Last(curve') = equity'
    BY <1>2, <2>3 DEF Last
  <2>6. curve' # <<>> => Last(curve') = equity + t.pnl
    BY <2>3, <2>5
  <2>7. at \in 1..Len(bars) /\ at \in 0..at
    BY <1>2, <2>1
  <2>8. BooksOn(bars, at, equity + t.pnl, curve', Append(trades, t), Flat, accrued')
    BY <1>2, <2>1, <2>2, <2>4, <2>6, <2>7, BooksTrade
  <2>9. QED
    BY <2>3, <2>8
<1>5. QED
  BY <1>3, <1>4

\* Nothing is booked yet.
LEMMA BooksFresh ==
  ASSUME NEW bs, NEW n, NEW acc
  PROVE  BooksOn(bs, n, Capital, <<>>, <<>>, Flat, acc)
<1>1. Capital = Capital + Total(<<>>)
  BY TotalNone, EngineAssumption
<1>2. QED
  BY <1>1 DEF BooksOn, Booked, Running

LEMMA BooksKept ==
  ASSUME EngineTypeOK, PassInv, BooksInv, [EngineNext]_engineVars
  PROVE  BooksInv'
<1>1. CASE StartBacktest
  BY <1>1 DEF StartBacktest, BooksInv
<1>2. CASE NextBar
  <2>1. PICK b \in Bar : bars' = Append(bars, b)
    BY <1>2, NextBarTypes
  <2>2. /\ at' = Len(bars) + 1 /\ at = Len(bars) /\ Process(bars', at')
        /\ at' \in 1..Len(bars') /\ bars' \in Seq(Bar) /\ at' = at + 1
        /\ \A k \in 1..at : bars'[k] = bars[k]
    BY <1>2, <2>1, NextBarTypes DEF EngineTypeOK
  <2>3. BooksOn(bars', at, equity, curve, trades, pos, accrued)
    <3>1. /\ bars \in Seq(Bar) /\ at \in 0..Len(bars) /\ trades \in Seq(Trades)
          /\ pos = Flat \/ pos.bar \in 1..at
          /\ BooksOn(bars, at, equity, curve, trades, pos, accrued)
      BY DEF EngineTypeOK, PassInv, Entered, BooksInv
    <3>2. BooksOn(Append(bars, b), at, equity, curve, trades, pos, accrued)
      BY <3>1, BooksGrow
    <3>3. QED
      BY <2>1, <3>2
  <2>4. BooksOn(bars', at', equity', curve', trades', pos', accrued')
    BY <2>2, <2>3, ProcessBooks
  <2>5. QED
    BY <2>4 DEF BooksInv
<1>3. CASE FinishFull \/ FinishOutOfSample
  <2>1. CloseLast /\ at = Len(bars) /\ Len(curve) >= 1 /\ bars' = bars /\ at' = at
    BY <1>3, FinishTypes
  <2>2. BooksOn(bars, at, equity', curve', trades', pos', accrued')
    BY <2>1, CloseBooks
  <2>3. QED
    BY <2>1, <2>2 DEF BooksInv
<1>4. CASE StartOutOfSample
  BY <1>4, BooksFresh DEF StartOutOfSample, BooksInv
<1>5. CASE NextOutOfSample
  <2>1. at' = at + 1 /\ at + 1 \in 1..Len(bars) /\ bars' = bars /\ bars \in Seq(Bar)
        /\ Process(bars, at + 1)
    BY <1>5, OutOfSampleTypes DEF NextOutOfSample, EngineTypeOK
  <2>2. BooksOn(bars, at + 1, equity', curve', trades', pos', accrued')
    BY <2>1, ProcessBooks DEF BooksInv
  <2>3. QED
    BY <2>1, <2>2 DEF BooksInv
<1>6. ASSUME NEW f \in Frames, StartWalk(f[1], f[2]) PROVE BooksInv'
  BY <1>6 DEF StartWalk, BooksInv
<1>7. CASE NextWindow
  BY <1>7 DEF NextWindow, BooksInv
<1>8. CASE UNCHANGED engineVars
  BY <1>8 DEF engineVars, BooksInv
<1>9. QED
  BY <1>1, <1>2, <1>3, <1>4, <1>5, <1>6, <1>7, <1>8 DEF EngineNext

LEMMA BooksAreBalanced == EngineTypeOK /\ PassInv /\ BooksInv => BooksBalance
<1> SUFFICES ASSUME EngineTypeOK, PassInv, BooksInv PROVE BooksBalance
  OBVIOUS
<1>1. trades \in Seq(Trades) /\ bars \in Seq(Bar) /\ at \in 0..Len(bars)
  BY DEF EngineTypeOK
<1>2. /\ equity = Capital + Total(trades)
      /\ curve # <<>> => Last(curve) = equity
      /\ Booked(bars, at, trades)
  BY DEF BooksInv, BooksOn
<1>3. equity = Capital + SumOf(LAMBDA t : t.pnl, trades)
  <2>1. SumOf(LAMBDA t : t.pnl, trades) = Total(trades)
    BY <1>1, SumOfTotal
  <2>2. QED
    BY <1>2, <2>1
<1>4. DOMAIN trades = 1..Len(trades) /\ Len(trades) \in Nat
  BY <1>1
<1>5. ASSUME NEW k \in DOMAIN trades
      PROVE  /\ trades[k].pnl = Earned(trades[k]) /\ trades[k].from <= trades[k].to
             /\ k > 1 => trades[k - 1].to < trades[k].from
  <2>1. TradeOk(bars, at, trades[k])
    BY <1>2, <1>4 DEF Booked
  <2>2. trades[k].from \in 1..Len(bars) /\ trades[k].to \in 1..Len(bars)
    BY <1>1, <2>1 DEF TradeOk
  <2>3. Earned(trades[k]) = EarnedOn(bars, trades[k])
    BY <1>1, <2>2, EarnedIs
  <2>4. k > 1 => k \in 2..Len(trades)
    BY <1>4
  <2>5. QED
    BY <1>2, <2>1, <2>3, <2>4 DEF TradeOk, Booked
<1>6. pass \in {"closed", "done"} => pos = Flat /\ Last(curve) = equity
  <2>1. pass \in {"closed", "done"} => pos = Flat /\ curve # <<>>
    BY DEF PassInv
  <2>2. QED
    BY <1>2, <2>1
<1>7. QED
  BY <1>3, <1>5, <1>6 DEF BooksBalance

(* For any strategies, prices, rates and sizes and however long the frame,    *)
(* equity is the capital plus the results of the trades, every trade earned   *)
(* what its bars say, trades follow one another, and once the last position   *)
(* is closed the curve ends at the equity.                                    *)
THEOREM BooksAlwaysBalance == EngineSpec => []BooksBalance
<1>1. EngineInit => BooksInv
  <2> SUFFICES ASSUME EngineInit PROVE BooksInv
    OBVIOUS
  <2>1. equity = Capital /\ curve = <<>> /\ trades = <<>> /\ pos = Flat
    BY DEF EngineInit
  <2>2. QED
    BY <2>1, BooksFresh DEF BooksInv
<1>2. (EngineTypeOK /\ PassInv) /\ BooksInv /\ [EngineNext]_engineVars => BooksInv'
  BY BooksKept
<1>3. (EngineTypeOK /\ PassInv) /\ BooksInv => BooksBalance
  BY BooksAreBalanced
<1>4. QED
  BY <1>1, <1>2, <1>3, EngineTypeCorrect, PTL DEF EngineSpec

-----------------------------------------------------------------------------
(* The drawdown.                                                              *)

DeepFold(g, a, s) ==
  g = [S \in SUBSET DOMAIN s |-> IF S = {} THEN a ELSE Deepen(g[S \ {Max(S)}], s[Max(S)])]

LEMMA DeepenUnfolds ==
  ASSUME NEW s, NEW a
  PROVE  FoldLeft(Deepen, a, s) = (CHOOSE g : DeepFold(g, a, s))[DOMAIN s]
BY DEF FoldLeft, MapThenFoldSet, DeepFold

LEMMA DeepenFolds ==
  ASSUME NEW s \in Seq(Int), NEW a
  PROVE  FoldLeft(Deepen, a, s) = Fold("deepen", a, s, Len(s))
<1> DEFINE n == Len(s)
<1>1. n \in Nat /\ DOMAIN s = Upto(n) /\ Upto(n) \in SUBSET Nat /\ IsFiniteSet(Upto(n))
  BY UptoNat, UptoFinite DEF Upto
<1>2. \A g : DeepFold(g, a, s) <=> FoldUp(g, "deepen", a, s, Upto(n))
  BY <1>1 DEF DeepFold, FoldUp, Folded
<1>3. \E g : DeepFold(g, a, s)
  <2>1. \E g : FoldUp(g, "deepen", a, s, Upto(n))
    BY <1>1, FoldExists
  <2>2. QED
    BY <1>2, <2>1
<1> DEFINE it == CHOOSE g : DeepFold(g, a, s)
<1>4. DeepFold(it, a, s)
  BY <1>3
<1>5. FoldLeft(Deepen, a, s) = it[Upto(n)]
  BY <1>1, DeepenUnfolds
<1> HIDE DEF it
<1>6. FoldUp(it, "deepen", a, s, Upto(n))
  BY <1>2, <1>4
<1>7. it[Upto(n)] = Fold("deepen", a, s, n)
  BY <1>1, <1>6, FoldIs
<1>8. QED
  BY <1>5, <1>7

\* Ratios with positive denominators are compared by cross multiplication.
Ratios == {r \in Int \X Int : r[2] > 0}

LEMMA BelowOrders ==
  ASSUME NEW x \in Ratios, NEW y \in Ratios, NEW z \in Ratios,
         ~ Below(x, y), ~ Below(y, z)
  PROVE  ~ Below(x, z)
<1> DEFINE p == x[1]  a == x[2]  q == y[1]  b == y[2]  r == z[1]  c == z[2]
<1>1. /\ p \in Int /\ q \in Int /\ r \in Int /\ a \in Nat \ {0} /\ b \in Nat \ {0}
      /\ c \in Nat \ {0}
  BY DEF Ratios
<1>2. ~ (p * b < q * a) /\ ~ (q * c < r * b)
  BY DEF Below
<1>3. Below(x, z) <=> p * c < r * a
  BY DEF Below
<1> HIDE DEF p, q, r, a, b, c
<1>m. \A i, j \in Int, k \in Nat \ {0} : i <= j => k * i <= k * j
  OBVIOUS
<1>l. \A i, j \in Int, k \in Nat \ {0} : i < j => k * i < k * j
  OBVIOUS
<1>t. p * b \in Int /\ q * a \in Int /\ q * c \in Int /\ r * b \in Int /\ p * c \in Int
      /\ r * a \in Int
  BY <1>1
<1>4. q * a <= p * b /\ r * b <= q * c
  BY <1>2, <1>t
<1>5. c * (q * a) <= c * (p * b) /\ a * (r * b) <= a * (q * c)
  BY <1>1, <1>4, <1>m, <1>t
<1>6. ASSUME p * c < r * a PROVE FALSE
  <2>1. b * (p * c) < b * (r * a)
    BY <1>1, <1>6, <1>l, <1>t
  <2>2. b * (p * c) = c * (p * b) /\ b * (r * a) = a * (r * b) /\ c * (q * a) = a * (q * c)
    BY <1>1
  <2>3. c * (p * b) \in Int /\ a * (r * b) \in Int /\ a * (q * c) \in Int
    BY <1>1, <1>t
  <2>4. QED
    BY <1>5, <2>1, <2>2, <2>3
<1>7. QED
  BY <1>3, <1>6

LEMMA BelowNotSelf ==
  ASSUME NEW x \in Ratios PROVE ~ Below(x, x)
<1>1. x[1] * x[2] \in Int
  BY DEF Ratios
<1>2. QED
  BY <1>1 DEF Below

\* From a higher point the fall to a value is no smaller.
LEMMA HigherFallsFurther ==
  ASSUME NEW v \in Nat, NEW p \in Nat \ {0}, NEW q \in Nat \ {0}, q <= p
  PROVE  ~ Below(<<p - v, p>>, <<q - v, q>>)
<1>1. (p - v) * q = p * q - v * q /\ (q - v) * p = p * q - v * p
      /\ v * q \in Int /\ v * p \in Int /\ p * q \in Int
  OBVIOUS
<1>2. \A i, j, k \in Nat : i <= j => k * i <= k * j
  OBVIOUS
<1>3. v * q <= v * p
  BY <1>2
<1>4. ~ ((p - v) * q < (q - v) * p)
  BY <1>1, <1>3
<1>5. QED
  BY <1>4 DEF Below

Begin(s) == [peak |-> s[1], worst |-> <<0, 1>>]
FallAt(s, i, j) == <<s[i] - s[j], s[i]>>

\* What has been computed after n points: the highest of them, and the largest
\* fall between any two of them.
DeepestAt(s, n, acc) ==
  /\ acc.peak = s[1] \/ \E i \in 1..n : acc.peak = s[i]
  /\ \A i \in 1..n : s[i] <= acc.peak
  /\ acc.worst \in Ratios /\ ~ Below(acc.worst, <<0, 1>>)
  /\ \A i, j \in 1..n : i <= j => ~ Below(acc.worst, FallAt(s, i, j))
  /\ acc.worst = <<0, 1>> \/ \E i, j \in 1..n : i <= j /\ acc.worst = FallAt(s, i, j)

LEMMA FallTyped ==
  ASSUME NEW s \in Seq(Nat \ {0}), NEW i \in 1..Len(s), NEW j \in 1..Len(s)
  PROVE  FallAt(s, i, j) \in Ratios
BY DEF FallAt, Ratios

LEMMA DeepestStep ==
  ASSUME NEW s \in Seq(Nat \ {0}), NEW n \in Nat, n + 1 \in 1..Len(s),
         NEW acc, DeepestAt(s, n, acc)
  PROVE  DeepestAt(s, n + 1, Deepen(acc, s[n + 1]))
<1> DEFINE v == s[n + 1]
           p == IF v >= acc.peak THEN v ELSE acc.peak
           f == <<p - v, p>>
           w == IF Below(acc.worst, f) THEN f ELSE acc.worst
           new == Deepen(acc, v)
<1>0. \A k \in 1..Len(s) : s[k] \in Nat \ {0}
  OBVIOUS
<1>i. \A k \in 1..n : k \in 1..n + 1 /\ k \in 1..Len(s)
  OBVIOUS
<1>1. acc.peak \in Nat \ {0} /\ v \in Nat \ {0} /\ 1 \in 1..Len(s)
  BY <1>0, <1>i DEF DeepestAt
<1>2. new.peak = p /\ new.worst = w
  BY DEF Deepen
<1>3. p \in Nat \ {0} /\ v <= p /\ acc.peak <= p
  BY <1>1
<1>4. f \in Ratios /\ w \in Ratios
  BY <1>1, <1>3 DEF Ratios, DeepestAt
<1>5. \E i \in 1..n + 1 : p = s[i]
  <2>1. acc.peak = s[1] \/ \E i \in 1..n : acc.peak = s[i]
    BY DEF DeepestAt
  <2>2. 1 \in 1..n + 1 /\ n + 1 \in 1..n + 1
    OBVIOUS
  <2>3. QED
    BY <1>i, <2>1, <2>2
<1>6. \A i \in 1..n + 1 : s[i] <= p
  <2>1. \A i \in 1..n : s[i] <= acc.peak /\ s[i] \in Nat
    BY <1>0, <1>i DEF DeepestAt
  <2>2. \A i \in 1..n + 1 : i \in 1..n \/ i = n + 1
    OBVIOUS
  <2> HIDE DEF p
  <2>3. QED
    BY <1>1, <1>3, <2>1, <2>2
<1>7. ~ Below(w, f) /\ ~ Below(w, acc.worst)
  <2>1. acc.worst \in Ratios
    BY DEF DeepestAt
  <2>2. CASE Below(acc.worst, f)
    <3>1. ~ Below(f, f)
      BY <1>4, BelowNotSelf
    <3>2. ~ Below(f, acc.worst)
      <4>1. \A x \in Ratios : x[1] \in Int /\ x[2] \in Int
        BY DEF Ratios
      <4> DEFINE a == acc.worst
      <4> HIDE DEF f, a
      <4>2. a[1] * f[2] \in Int /\ f[1] * a[2] \in Int
        BY <1>4, <2>1, <4>1 DEF a
      <4>3. a[1] * f[2] < f[1] * a[2]
        BY <2>2 DEF Below, a
      <4>4. ~ (f[1] * a[2] < a[1] * f[2])
        BY <4>2, <4>3
      <4>5. QED
        BY <4>4 DEF Below, a
    <3>3. w = f
      BY <2>2
    <3> HIDE DEF w, f
    <3>4. QED
      BY <3>1, <3>2, <3>3
  <2>3. CASE ~ Below(acc.worst, f)
    <3>1. ~ Below(acc.worst, acc.worst)
      BY <2>1, BelowNotSelf
    <3>2. w = acc.worst
      BY <2>3
    <3> HIDE DEF w, f
    <3>3. QED
      BY <2>3, <3>1, <3>2
  <2>4. QED
    BY <2>2, <2>3
<1>8. ~ Below(w, <<0, 1>>)
  <2>1. <<0, 1>> \in Ratios /\ acc.worst \in Ratios /\ ~ Below(acc.worst, <<0, 1>>)
    BY DEF Ratios, DeepestAt
  <2> HIDE DEF w
  <2>2. QED
    BY <1>4, <1>7, <2>1, BelowOrders
<1>9. ASSUME NEW i \in 1..n + 1, NEW j \in 1..n + 1, i <= j
      PROVE  ~ Below(w, FallAt(s, i, j))
  <2>1. FallAt(s, i, j) \in Ratios
    BY FallTyped
  <2>2. CASE j = n + 1
    <3>1. s[i] \in Nat \ {0} /\ s[i] <= p /\ v \in Nat
      BY <1>0, <1>1, <1>6
    <3>2. ~ Below(f, <<s[i] - v, s[i]>>)
      <4> HIDE DEF p, v
      <4>1. QED
        BY <1>3, <3>1, HigherFallsFurther
    <3>3. ~ Below(f, FallAt(s, i, j))
      BY <2>2, <3>2 DEF FallAt
    <3> HIDE DEF w, f
    <3>4. QED
      BY <1>4, <1>7, <2>1, <3>3, BelowOrders
  <2>3. CASE j # n + 1
    <3>1. i \in 1..n /\ j \in 1..n
      BY <1>9, <2>3
    <3>2. ~ Below(acc.worst, FallAt(s, i, j)) /\ acc.worst \in Ratios
      BY <1>9, <3>1 DEF DeepestAt
    <3> HIDE DEF w
    <3>3. QED
      BY <1>4, <1>7, <2>1, <3>2, BelowOrders
  <2>4. QED
    BY <2>2, <2>3
<1>10. w = <<0, 1>> \/ \E i, j \in 1..n + 1 : i <= j /\ w = FallAt(s, i, j)
  <2>1. CASE w = f
    <3>1. PICK i \in 1..n + 1 : p = s[i]
      BY <1>5
    <3>2. f = FallAt(s, i, n + 1)
      BY <3>1 DEF FallAt
    <3>3. n + 1 \in 1..n + 1 /\ i <= n + 1
      OBVIOUS
    <3> HIDE DEF w, f
    <3>4. QED
      BY <2>1, <3>2, <3>3
  <2>2. CASE w = acc.worst
    <3>1. acc.worst = <<0, 1>> \/ \E i, j \in 1..n : i <= j /\ acc.worst = FallAt(s, i, j)
      BY DEF DeepestAt
    <3> HIDE DEF w
    <3>2. QED
      BY <1>i, <2>2, <3>1
  <2>3. w = f \/ w = acc.worst
    OBVIOUS
  <2>4. QED
    BY <2>1, <2>2, <2>3
<1> HIDE DEF p, w, f, new
<1>11. DeepestAt(s, n + 1, new)
  BY <1>2, <1>4, <1>5, <1>6, <1>8, <1>9, <1>10 DEF DeepestAt
<1>12. QED
  BY <1>11 DEF new

LEMMA DeepestFound ==
  ASSUME NEW s \in Seq(Nat \ {0})
  PROVE  DeepestAt(s, Len(s), Fold("deepen", Begin(s), s, Len(s)))
<1> DEFINE n == Len(s)
           acc(m) == Fold("deepen", Begin(s), s, m)
           Bad == {m \in 0..n : ~ DeepestAt(s, m, acc(m))}
<1>1. n \in Nat /\ n \in 0..n
  OBVIOUS
<1>2. SUFFICES ASSUME Bad # {} PROVE FALSE
  BY <1>1
<1>3. PICK m \in Bad : m = 0 \/ (m - 1 \in 0..n /\ m - 1 \notin Bad)
  <2>1. Bad \in SUBSET (0..n)
    OBVIOUS
  <2> HIDE DEF Bad, n
  <2>2. QED
    BY <1>1, <1>2, <2>1, FirstFailure
<1>4. CASE m = 0
  <2>1. acc(0) = Begin(s)
    BY FoldNone
  <2>2. ~ Below(<<0, 1>>, <<0, 1>>) /\ <<0, 1>> \in Ratios
    BY DEF Below, Ratios
  <2>3. DeepestAt(s, 0, Begin(s))
    BY <2>2 DEF DeepestAt, Begin
  <2>4. QED
    BY <1>3, <1>4, <2>1, <2>3
<1>5. CASE m # 0
  <2> DEFINE k == m - 1
  <2>1. k \in Nat /\ m = k + 1 /\ k + 1 \in 1..n /\ DeepestAt(s, k, acc(k))
        /\ ~ DeepestAt(s, m, acc(m))
    BY <1>3, <1>5
  <2> HIDE DEF k, Bad
  <2>2. acc(k + 1) = Deepen(acc(k), s[k + 1])
    BY <2>1, FoldMore DEF Folded
  <2> HIDE DEF acc
  <2>3. DeepestAt(s, k + 1, Deepen(acc(k), s[k + 1]))
    BY <2>1, DeepestStep
  <2>4. QED
    BY <2>1, <2>2, <2>3
<1>6. QED
  BY <1>4, <1>5

LEMMA DrawdownFound == curve \in Seq(Nat \ {0}) => DrawdownIsTheLargest
<1> SUFFICES ASSUME curve \in Seq(Nat \ {0}) PROVE DrawdownIsTheLargest
  OBVIOUS
<1> DEFINE later == {<<0, 1>>} \cup
                    UNION {{<<curve[i] - curve[j], curve[i]>> : j \in i..Len(curve)} :
                           i \in DOMAIN curve}
           worst == MaxDrawdown(curve)
           n == Len(curve)
<1>1. n \in Nat /\ DOMAIN curve = 1..n /\ curve \in Seq(Int)
  OBVIOUS
<1>2. \A f \in later : f = <<0, 1>> \/ \E i, j \in 1..n : i <= j /\ f = FallAt(curve, i, j)
  BY <1>1 DEF FallAt
<1>3. /\ <<0, 1>> \in later
      /\ \A i, j \in 1..n : i <= j => FallAt(curve, i, j) \in later
  <2>1. ASSUME NEW i \in 1..n, NEW j \in 1..n, i <= j PROVE FallAt(curve, i, j) \in later
    <3>1. i \in DOMAIN curve /\ j \in i..Len(curve)
      BY <1>1, <2>1
    <3>2. FallAt(curve, i, j)
            \in {<<curve[i] - curve[k], curve[i]>> : k \in i..Len(curve)}
      BY <3>1 DEF FallAt
    <3>3. QED
      BY <3>1, <3>2
  <2>2. QED
    BY <2>1
<1>4. /\ worst \in Ratios /\ ~ Below(worst, <<0, 1>>)
      /\ \A i, j \in 1..n : i <= j => ~ Below(worst, FallAt(curve, i, j))
      /\ worst = <<0, 1>> \/ \E i, j \in 1..n : i <= j /\ worst = FallAt(curve, i, j)
  <2>1. CASE curve = <<>>
    <3>1. worst = <<0, 1>> /\ n = 0
      BY <2>1 DEF MaxDrawdown
    <3>2. ~ Below(<<0, 1>>, <<0, 1>>) /\ <<0, 1>> \in Ratios
      BY DEF Below, Ratios
    <3> HIDE DEF worst, n
    <3>3. QED
      BY <3>1, <3>2
  <2>2. CASE curve # <<>>
    <3>1. worst = FoldLeft(Deepen, Begin(curve), curve).worst
      BY <2>2 DEF MaxDrawdown, Begin
    <3>2. FoldLeft(Deepen, Begin(curve), curve) = Fold("deepen", Begin(curve), curve, n)
      BY <1>1, DeepenFolds
    <3>3. worst = Fold("deepen", Begin(curve), curve, n).worst
      BY <3>1, <3>2
    <3>4. DeepestAt(curve, n, Fold("deepen", Begin(curve), curve, n))
      BY DeepestFound
    <3> HIDE DEF worst, n
    <3>5. QED
      BY <3>3, <3>4 DEF DeepestAt
  <2>3. QED
    BY <2>1, <2>2
<1> HIDE DEF later, worst, n
<1>5. \A f \in later : ~ Below(worst, f)
  BY <1>2, <1>4
<1>6. worst \in later
  BY <1>3, <1>4
<1>7. \E f \in later : ~ Below(f, worst)
  BY <1>4, <1>6, BelowNotSelf
<1>8. QED
  BY <1>5, <1>7 DEF DrawdownIsTheLargest, later, worst

(* However long the curve, as long as its equity is positive, the drawdown    *)
(* computed with a running peak is the largest fall from any point to any     *)
(* later one, relative to where it began.                                     *)
THEOREM DrawdownsAreLargest ==
  EngineSpec => [](curve \in Seq(Nat \ {0}) => DrawdownIsTheLargest)
<1>1. EngineTypeOK /\ PassInv => (curve \in Seq(Nat \ {0}) => DrawdownIsTheLargest)
  BY DrawdownFound
<1>2. QED
  BY <1>1, EngineTypeCorrect, PTL

==============================================================================
