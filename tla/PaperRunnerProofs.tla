-------------------------- MODULE PaperRunnerProofs -------------------------
(***************************************************************************)
(* Theorems about PaperRunner for any number of processes, targets and      *)
(* instruments, any limits and any bounds.                                  *)
(***************************************************************************)
EXTENDS PaperRunner, FiniteSetTheorems, WellFoundedInduction, TLAPS

-----------------------------------------------------------------------------
(* Type correctness *)

(* The fixed rows and the idle runner are what their names say.             *)
LEMMA FixedValues ==
  /\ NoOrder \in Orders
  /\ NoPosition \in Positions
  /\ IdleRun \in Runs
BY DEF NoOrder, Orders, NoPosition, Positions, IdleRun, Runs, Stages, Directions

LEMMA TypeInit == PaperInit => PaperTypeOK
BY FixedValues DEF PaperInit, PaperTypeOK

(* A runner that moves on is a runner again.                                *)
LEMMA RunUpdates ==
  ASSUME NEW x \in Runs
  PROVE  /\ \A s \in Stages : [x EXCEPT !.pc = s] \in Runs
         /\ \A s \in Stages, T \in SUBSET Targets :
              [x EXCEPT !.pc = s, !.todo = T] \in Runs
         /\ \A s \in Stages, k \in TradeIds :
              [x EXCEPT !.pc = s, !.trade = k] \in Runs
         /\ \A H \in SUBSET TradeIds : [x EXCEPT !.held = H] \in Runs
         /\ \A H \in SUBSET TradeIds :
              [x EXCEPT !.held = H, !.kept = TRUE] \in Runs
BY DEF Runs

LEMMA PassedTyped ==
  ASSUME PaperTypeOK, NEW r \in Runners, NEW t
  PROVE  Passed(r, t) \in Runs
<1>1. run[r] \in Runs
  BY DEF PaperTypeOK
<1>2. /\ run[r].inst \in Instruments \cup {"none"}
      /\ run[r].ts \in Nat
      /\ run[r].todo \ {t} \in SUBSET Targets
  BY <1>1 DEF Runs
<1>3. "next" \in Stages
  BY DEF Stages
<1>4. QED
  BY <1>2, <1>3, FixedValues DEF Passed, Runs

(* Most steps of a tick change the runner only.                             *)
LEMMA RunStepTyped ==
  ASSUME PaperTypeOK, NEW r \in Runners, NEW x \in Runs,
         run' = [run EXCEPT ![r] = x]
  PROVE  run' \in [Runners -> Runs]
BY DEF PaperTypeOK

LEMMA LeaveTyped ==
  ASSUME PaperTypeOK, NEW r \in Runners, Leave(r)
  PROVE  run' \in [Runners -> Runs]
BY PassedTyped, RunStepTyped DEF Leave

LEMMA ContinueTyped ==
  ASSUME PaperTypeOK, NEW r \in Runners, NEW s \in Stages, Continue(r, s)
  PROVE  run' \in [Runners -> Runs]
<1>1. [run[r] EXCEPT !.pc = s] \in Runs
  BY RunUpdates DEF PaperTypeOK
<1>2. QED
  BY <1>1, RunStepTyped DEF Continue

(* Every step of a tick keeps the types.                                    *)
LEMMA TickTyped ==
  ASSUME PaperTypeOK, NEW r \in Runners, TickStep(r)
  PROVE  PaperTypeOK'
<1> USE DEF PaperTypeOK
<1>a. run[r] \in Runs
  OBVIOUS
<1>s. Stages = {"idle", "check", "load", "next", "count", "gross",
                "correlation", "loss", "manage", "order", "fill"}
  BY DEF Stages
<1>1. CASE AcceptBar(r)
  BY <1>1, <1>s, ContinueTyped DEF AcceptBar, tradeVars
<1>2. CASE DropBar(r)
  BY <1>2, FixedValues DEF DropBar, tradeVars
<1>3. CASE LoadTargets(r)
  <2>1. { t \in enabled : InstrumentOf[t] = run[r].inst } \in SUBSET Targets
    OBVIOUS
  <2>2. run' \in [Runners -> Runs]
    BY <1>3, <1>a, <1>s, <2>1, RunUpdates DEF LoadTargets
  <2>3. QED
    BY <1>3, <2>2 DEF LoadTargets, tradeVars
<1>4. CASE SkipTarget(r)
  <2>1. run' \in [Runners -> Runs]
    BY <1>4, PassedTyped, RunStepTyped DEF SkipTarget
  <2>2. QED
    BY <1>4, <2>1 DEF SkipTarget, tradeVars
<1>5. CASE TakeTarget(r)
  <2>1. PICK t \in run[r].todo, s \in Directions \cup {"flat"} :
          run' = [run EXCEPT ![r] =
                    [@ EXCEPT !.pc = "count", !.target = t,
                              !.held = OpenOf(t), !.signal = s]]
    BY <1>5 DEF TakeTarget
  <2>2. OpenOf(t) \in SUBSET TradeIds
    BY DEF OpenOf, Open
  <2>3. [run[r] EXCEPT !.pc = "count", !.target = t, !.held = OpenOf(t),
                       !.signal = s] \in Runs
    BY <1>a, <1>s, <2>2 DEF Runs
  <2>4. QED
    BY <1>5, <2>1, <2>3 DEF TakeTarget, tradeVars
<1>6. CASE MarkProcessed(r)
  <2>1. run[r].ts \in Nat
    BY <1>a DEF Runs
  <2>2. QED
    BY <1>6, <2>1, FixedValues DEF MarkProcessed, tradeVars
<1>7. CASE CountCheck(r)
  BY <1>7, <1>s, ContinueTyped, LeaveTyped DEF CountCheck, tradeVars
<1>8. CASE GrossCheck(r)
  BY <1>8, <1>s, ContinueTyped, LeaveTyped DEF GrossCheck, tradeVars
<1>9. CASE CorrelationCheck(r)
  BY <1>9, <1>s, ContinueTyped, LeaveTyped DEF CorrelationCheck, tradeVars
<1>10. CASE LossCheck(r)
  BY <1>10, <1>s, ContinueTyped, LeaveTyped DEF LossCheck, tradeVars
<1>11. CASE ClosePosition(r)
  <2>1. PICK k \in run[r].held, x \in Results :
          /\ positions' = [positions EXCEPT ![k] =
                             [status |-> "closed", result |-> x, day |-> day]]
          /\ closes' = [closes EXCEPT ![k] = @ + 1]
          /\ run' = [run EXCEPT ![r] = [@ EXCEPT !.held = run[r].held \ {k}]]
    BY <1>11 DEF ClosePosition
  <2>2. [status |-> "closed", result |-> x, day |-> day] \in Positions
    BY PaperAssumption DEF Positions
  <2>3. k \in TradeIds /\ run[r].held \ {k} \in SUBSET TradeIds
    BY <1>a DEF Runs
  <2>4. [run[r] EXCEPT !.held = run[r].held \ {k}] \in Runs
    BY <1>a, <2>3, RunUpdates
  <2>5. late' \in Nat
    BY <1>11 DEF ClosePosition
  <2>6. positions' \in [TradeIds -> Positions]
    BY <2>1, <2>2
  <2>7. closes' \in [TradeIds -> Nat]
    BY <2>1, <2>3
  <2>8. run' \in [Runners -> Runs]
    BY <2>1, <2>4, RunStepTyped
  <2>9. UNCHANGED <<orders, processed, enabled, trading, feed, day>>
    BY <1>11 DEF ClosePosition
  <2>10. QED
    BY <2>5, <2>6, <2>7, <2>8, <2>9
<1>12. CASE KeepPosition(r)
  <2>1. PICK k \in run[r].held :
          run' = [run EXCEPT ![r] =
                    [@ EXCEPT !.held = run[r].held \ {k}, !.kept = TRUE]]
    BY <1>12 DEF KeepPosition
  <2>2. run[r].held \ {k} \in SUBSET TradeIds
    BY <1>a DEF Runs
  <2>3. [run[r] EXCEPT !.held = run[r].held \ {k}, !.kept = TRUE] \in Runs
    BY <1>a, <2>2, RunUpdates
  <2>4. QED
    BY <1>12, <2>1, <2>3 DEF KeepPosition, tradeVars
<1>13. CASE StayOut(r)
  BY <1>13, LeaveTyped DEF StayOut, tradeVars
<1>14. CASE SubmitOrder(r)
  <2>1. PICK k \in TradeIds, n \in Sizes :
          /\ orders' = [orders EXCEPT ![k] =
                          [status |-> "pending", target |-> run[r].target,
                           dir |-> run[r].signal, size |-> n]]
          /\ run' = [run EXCEPT ![r] = [@ EXCEPT !.pc = "order", !.trade = k]]
    BY <1>14 DEF SubmitOrder
  <2>2. [status |-> "pending", target |-> run[r].target,
         dir |-> run[r].signal, size |-> n] \in Orders
    BY <1>14, <1>a, PaperAssumption DEF SubmitOrder, Enters, Orders, Runs
  <2>3. [run[r] EXCEPT !.pc = "order", !.trade = k] \in Runs
    BY <1>a, <1>s, RunUpdates
  <2>4. late' \in Nat
    BY <1>14 DEF SubmitOrder
  <2>5. QED
    BY <1>14, <2>1, <2>2, <2>3, <2>4 DEF SubmitOrder
<1>15. CASE FillOrder(r)
  <2>1. \A k \in TradeIds : [orders[k] EXCEPT !.status = "filled"] \in Orders
    BY DEF Orders
  <2>2. run' \in [Runners -> Runs]
    BY <1>15, <1>s, ContinueTyped DEF FillOrder
  <2>3. QED
    BY <1>15, <2>1, <2>2 DEF FillOrder
<1>16. CASE OpenPosition(r)
  <2>1. [status |-> "open", result |-> 0, day |-> 0] \in Positions
    BY DEF Positions
  <2>2. run' \in [Runners -> Runs]
    BY <1>16, LeaveTyped DEF OpenPosition
  <2>3. QED
    BY <1>16, <2>1, <2>2 DEF OpenPosition
<1>17. QED
  BY ONLY TickStep(r), <1>1, <1>2, <1>3, <1>4, <1>5, <1>6, <1>7, <1>8, <1>9, <1>10,
     <1>11, <1>12, <1>13, <1>14, <1>15, <1>16 DEF TickStep

LEMMA TypeStep == PaperTypeOK /\ [PaperNext]_paperVars => PaperTypeOK'
<1> SUFFICES ASSUME PaperTypeOK, [PaperNext]_paperVars PROVE PaperTypeOK'
  OBVIOUS
<1>1. ASSUME NEW i \in Instruments, NewBar(i) PROVE PaperTypeOK'
  BY <1>1 DEF NewBar, PaperTypeOK
<1>2. CASE NewDay
  BY <1>2 DEF NewDay, PaperTypeOK
<1>3. ASSUME NEW t \in Targets, SwitchTarget(t) PROVE PaperTypeOK'
  BY <1>3 DEF SwitchTarget, PaperTypeOK
<1>4. CASE KillSwitch
  <2>1. [status |-> "closed", result |-> 0, day |-> day] \in Positions
    BY DEF PaperTypeOK, Positions
  <2>2. QED
    BY <1>4, <2>1 DEF KillSwitch, PaperTypeOK
<1>5. ASSUME NEW r \in Runners, NEW i \in Instruments, ReadBar(r, i)
      PROVE  PaperTypeOK'
  <2>1. [IdleRun EXCEPT !.pc = "check", !.inst = i, !.ts = feed[i]] \in Runs
    BY FixedValues DEF PaperTypeOK, Runs, Stages
  <2>2. QED
    BY <1>5, <2>1 DEF ReadBar, tradeVars, PaperTypeOK
<1>6. ASSUME NEW r \in Runners, TickStep(r) PROVE PaperTypeOK'
  BY <1>6, TickTyped
<1>7. ASSUME NEW r \in Runners, TickDies(r) PROVE PaperTypeOK'
  BY <1>7, FixedValues DEF TickDies, tradeVars, PaperTypeOK
<1>8. CASE UNCHANGED paperVars
  BY <1>8 DEF paperVars, PaperTypeOK
<1>9. QED
  BY <1>1, <1>2, <1>3, <1>4, <1>5, <1>6, <1>7, <1>8 DEF PaperNext

(* The tables of paper trading and the local state of every runner keep     *)
(* their types, whatever dies and however many processes run bars: no       *)
(* order or position gets a status that the queries do not know.            *)
THEOREM PaperTypeCorrect == PaperSpec => []PaperTypeOK
<1>1. PaperInit => PaperTypeOK
  BY TypeInit
<1>2. PaperTypeOK /\ [PaperNext]_paperVars => PaperTypeOK'
  BY TypeStep
<1>3. QED
  BY <1>1, <1>2, PTL DEF PaperSpec

-----------------------------------------------------------------------------
(* What a step does, field by field *)

(* The runners whose count check is behind them: each may still open one    *)
(* position, whatever the others have opened since.                         *)
Past ==
  { r \in Runners :
      run[r].pc \in {"gross", "correlation", "loss", "manage", "order", "fill"} }

LEMMA FiniteBook ==
  /\ IsFiniteSet(Open) /\ Cardinality(Open) \in Nat
  /\ IsFiniteSet(Past) /\ Cardinality(Past) \in Nat
  /\ Cardinality(Past) <= Cardinality(Runners)
  /\ Cardinality(Runners) \in Nat /\ MaxOpen \in Nat \ {0}
<1>1. IsFiniteSet(TradeIds)
  BY FS_Interval, PaperAssumption DEF TradeIds
<1>2. Open \in SUBSET TradeIds /\ Past \in SUBSET Runners
  BY DEF Open, Past
<1>3. QED
  BY <1>1, <1>2, FS_Subset, FS_CardinalityType, PaperAssumption

LEMMA FiniteNext ==
  /\ IsFiniteSet(Open') /\ Cardinality(Open') \in Nat
  /\ IsFiniteSet(Past') /\ Cardinality(Past') \in Nat
  /\ Cardinality(Past') <= Cardinality(Runners)
<1>1. IsFiniteSet(TradeIds)
  BY FS_Interval, PaperAssumption DEF TradeIds
<1>2. Open' \in SUBSET TradeIds /\ Past' \in SUBSET Runners
  BY DEF Open, Past
<1>3. QED
  BY <1>1, <1>2, FS_Subset, FS_CardinalityType, PaperAssumption


UnchangedBook == UNCHANGED <<orders, positions, closes, late>>

SameBar(r) ==
  /\ run[r].pc # "idle" /\ processed' = processed
  /\ run'[r].inst = run[r].inst /\ run'[r].ts = run[r].ts

SameTarget(r) ==
  /\ run'[r].target = run[r].target /\ run'[r].signal = run[r].signal
  /\ run'[r].trade = run[r].trade

(* The tick is over: the bar was old, or it is marked.                      *)
GoesIdle(r) ==
  /\ UnchangedBook
  /\ run'[r] = IdleRun
  /\ \/ run[r].pc = "check" /\ processed' = processed
     \/ /\ run[r].pc = "next"
        /\ processed' = [processed EXCEPT ![run[r].inst] = run[r].ts]

(* A check is passed.                                                       *)
MovesOn(r) ==
  /\ UnchangedBook /\ SameBar(r) /\ SameTarget(r)
  /\ run'[r].held = run[r].held /\ run'[r].kept = run[r].kept
  /\ \/ run[r].pc = "check" /\ run'[r].pc = "load" /\ IsNew(r)
     \/ run[r].pc = "load" /\ run'[r].pc = "next"
     \/ run[r].pc = "count" /\ run'[r].pc = "gross" /\ OpenCount < MaxOpen
     \/ run[r].pc = "gross" /\ run'[r].pc = "correlation"
        /\ ~ (Gross >= MaxGross)
     \/ run[r].pc = "correlation" /\ run'[r].pc = "loss"
     \/ run[r].pc = "loss" /\ run'[r].pc = "manage" /\ ~ LossReached

Fresh(r) ==
  /\ run'[r].pc = "next" /\ run'[r].target = "none" /\ run'[r].held = {}
  /\ run'[r].kept = FALSE /\ run'[r].trade = 0

(* A target is passed over, or done with.                                   *)
EndsTarget(r) ==
  /\ UnchangedBook /\ SameBar(r) /\ Fresh(r)
  /\ run[r].pc \in {"next", "count", "gross", "correlation", "loss", "manage"}

Takes(r) ==
  /\ UnchangedBook /\ SameBar(r)
  /\ run[r].pc = "next" /\ run'[r].pc = "count"
  /\ run'[r].target \in Targets /\ run'[r].held = OpenOf(run'[r].target)
  /\ run'[r].kept = run[r].kept /\ run'[r].trade = run[r].trade

Manages(r, k) ==
  /\ SameBar(r) /\ SameTarget(r)
  /\ run[r].pc = "manage" /\ run'[r].pc = "manage"
  /\ k \in run[r].held /\ run'[r].held = run[r].held \ {k}

Keeps(r, k) ==
  /\ UnchangedBook /\ Manages(r, k)
  /\ orders[k].dir = run[r].signal /\ run'[r].kept = TRUE

Closes(r, k, x) ==
  /\ Manages(r, k)
  /\ orders' = orders /\ run'[r].kept = run[r].kept
  /\ positions' = [positions EXCEPT ![k] =
                     [status |-> "closed", result |-> x, day |-> day]]
  /\ closes' = [closes EXCEPT ![k] = @ + 1]
  /\ late' = IF LossReached' THEN late ELSE 0

Submits(r, k, n) ==
  /\ SameBar(r)
  /\ run[r].pc = "manage" /\ run'[r].pc = "order"
  /\ run[r].held = {} /\ run'[r].held = {} /\ Enters(r)
  /\ run'[r].target = run[r].target /\ run'[r].trade = k
  /\ run'[r].kept = run[r].kept
  /\ orders[k].status = "absent"
  /\ orders' = [orders EXCEPT ![k] =
                  [status |-> "pending", target |-> run[r].target,
                   dir |-> run[r].signal, size |-> n]]
  /\ late' = IF LossReached THEN late + 1 ELSE late
  /\ UNCHANGED <<positions, closes>>

Fills(r) ==
  /\ SameBar(r) /\ SameTarget(r)
  /\ run[r].pc = "order" /\ run'[r].pc = "fill"
  /\ run'[r].held = run[r].held /\ run'[r].kept = run[r].kept
  /\ orders' = [orders EXCEPT ![run[r].trade] = [@ EXCEPT !.status = "filled"]]
  /\ UNCHANGED <<positions, closes, late>>

Opens(r) ==
  /\ SameBar(r) /\ Fresh(r)
  /\ run[r].pc = "fill"
  /\ positions' = [positions EXCEPT ![run[r].trade] =
                     [status |-> "open", result |-> 0, day |-> 0]]
  /\ UNCHANGED <<orders, closes, late>>

(* The rest of the world waits.                                             *)
TickFrame(r) ==
  /\ \A q \in Runners \ {r} : run'[q] = run[q]
  /\ UNCHANGED <<enabled, trading, feed, day>>

TickEffect(r) ==
  \/ GoesIdle(r) \/ MovesOn(r) \/ EndsTarget(r) \/ Takes(r)
  \/ \E k \in TradeIds : Keeps(r, k)
  \/ \E k \in TradeIds, x \in Results : Closes(r, k, x)
  \/ \E k \in TradeIds, n \in Sizes : Submits(r, k, n)
  \/ Fills(r) \/ Opens(r)

LEMMA LeaveEffect ==
  ASSUME PaperTypeOK, NEW r \in Runners, NEW t,
         run[r].pc # "idle", processed' = processed,
         run' = [run EXCEPT ![r] = Passed(r, t)]
  PROVE  SameBar(r) /\ Fresh(r) /\ \A q \in Runners \ {r} : run'[q] = run[q]
<1>1. /\ Passed(r, t).pc = "next" /\ Passed(r, t).target = "none"
      /\ Passed(r, t).held = {} /\ Passed(r, t).kept = FALSE
      /\ Passed(r, t).trade = 0
      /\ Passed(r, t).inst = run[r].inst /\ Passed(r, t).ts = run[r].ts
  BY DEF Passed, IdleRun
<1>2. run'[r] = Passed(r, t) /\ \A q \in Runners \ {r} : run'[q] = run[q]
  BY DEF PaperTypeOK
<1>3. QED
  BY <1>1, <1>2 DEF SameBar, Fresh

LEMMA ContinueEffect ==
  ASSUME PaperTypeOK, NEW r \in Runners, NEW s \in Stages,
         run[r].pc # "idle", processed' = processed, Continue(r, s)
  PROVE  /\ SameBar(r) /\ SameTarget(r)
         /\ run'[r].pc = s
         /\ run'[r].held = run[r].held /\ run'[r].kept = run[r].kept
         /\ \A q \in Runners \ {r} : run'[q] = run[q]
<1>1. run[r] \in Runs
  BY DEF PaperTypeOK
<1>2. run'[r] = [run[r] EXCEPT !.pc = s] /\ \A q \in Runners \ {r} : run'[q] = run[q]
  BY DEF Continue, PaperTypeOK
<1>3. QED
  BY <1>1, <1>2 DEF SameBar, SameTarget, Runs

LEMMA TickEffects ==
  ASSUME PaperTypeOK, NEW r \in Runners, TickStep(r)
  PROVE  TickFrame(r) /\ TickEffect(r)
<1>a. run[r] \in Runs
  BY DEF PaperTypeOK
<1>u. run = [q \in Runners |-> run[q]]
  BY DEF PaperTypeOK
<1>s. Stages = {"idle", "check", "load", "next", "count", "gross",
                "correlation", "loss", "manage", "order", "fill"}
  BY DEF Stages
<1>n. OpenCount \in Nat /\ MaxOpen \in Nat
  BY FiniteBook DEF OpenCount
<1>1. CASE AcceptBar(r)
  <2>1. MovesOn(r) /\ TickFrame(r)
    BY <1>1, <1>s, ContinueEffect
    DEF AcceptBar, tradeVars, MovesOn, TickFrame, UnchangedBook
  <2>2. QED
    BY <2>1 DEF TickEffect
<1>2. CASE DropBar(r)
  <2>1. GoesIdle(r) /\ TickFrame(r)
    BY <1>2, <1>u DEF DropBar, tradeVars, GoesIdle, TickFrame, UnchangedBook
  <2>2. QED
    BY <2>1 DEF TickEffect
<1>3. CASE LoadTargets(r)
  <2> DEFINE T == { t \in enabled : InstrumentOf[t] = run[r].inst }
             x == [run[r] EXCEPT !.pc = "next", !.todo = T]
  <2>1. /\ x.pc = "next" /\ x.trade = run[r].trade /\ x.held = run[r].held
        /\ x.kept = run[r].kept /\ x.target = run[r].target
        /\ x.signal = run[r].signal /\ x.inst = run[r].inst /\ x.ts = run[r].ts
    BY <1>a DEF Runs
  <2>2. /\ run' = [run EXCEPT ![r] = x] /\ UNCHANGED <<tradeVars, processed>>
        /\ run[r].pc = "load"
    BY <1>3 DEF LoadTargets
  <2> HIDE DEF x
  <2>3. run'[r] = x /\ \A q \in Runners \ {r} : run'[q] = run[q]
    BY <1>u, <2>2
  <2>4. MovesOn(r) /\ TickFrame(r)
    BY <2>1, <2>2, <2>3
    DEF tradeVars, MovesOn, TickFrame, UnchangedBook, SameBar, SameTarget
  <2>5. QED
    BY <2>4 DEF TickEffect
<1>4. CASE SkipTarget(r)
  <2>1. EndsTarget(r) /\ TickFrame(r)
    BY <1>4, LeaveEffect
    DEF SkipTarget, tradeVars, EndsTarget, TickFrame, UnchangedBook
  <2>2. QED
    BY <2>1 DEF TickEffect
<1>5. CASE TakeTarget(r)
  <2>1. PICK t \in run[r].todo, s \in Directions \cup {"flat"} :
          run' = [run EXCEPT ![r] =
                    [@ EXCEPT !.pc = "count", !.target = t,
                              !.held = OpenOf(t), !.signal = s]]
    BY <1>5 DEF TakeTarget
  <2> DEFINE x == [run[r] EXCEPT !.pc = "count", !.target = t,
                                 !.held = OpenOf(t), !.signal = s]
  <2>2. /\ x.pc = "count" /\ x.trade = run[r].trade /\ x.held = OpenOf(t)
        /\ x.kept = run[r].kept /\ x.target = t /\ x.inst = run[r].inst
        /\ x.ts = run[r].ts /\ t \in Targets
    BY <1>a DEF Runs
  <2>3. /\ run' = [run EXCEPT ![r] = x] /\ UNCHANGED <<tradeVars, processed>>
        /\ run[r].pc = "next"
    BY <1>5, <2>1 DEF TakeTarget
  <2> HIDE DEF x
  <2>4. run'[r] = x /\ \A q \in Runners \ {r} : run'[q] = run[q]
    BY <1>u, <2>3
  <2>5. Takes(r) /\ TickFrame(r)
    BY <2>2, <2>3, <2>4
    DEF tradeVars, Takes, TickFrame, UnchangedBook, SameBar
  <2>6. QED
    BY <2>5 DEF TickEffect
<1>6. CASE MarkProcessed(r)
  <2>1. GoesIdle(r) /\ TickFrame(r)
    BY <1>6, <1>u DEF MarkProcessed, tradeVars, GoesIdle, TickFrame, UnchangedBook
  <2>2. QED
    BY <2>1 DEF TickEffect
<1>7. CASE CountCheck(r)
  <2>1. CASE OpenCount >= MaxOpen
    <3>1. EndsTarget(r) /\ TickFrame(r)
      BY <1>7, <2>1, LeaveEffect
      DEF CountCheck, Leave, tradeVars, EndsTarget, TickFrame, UnchangedBook
    <3>2. QED
      BY <3>1 DEF TickEffect
  <2>2. CASE ~ (OpenCount >= MaxOpen)
    <3>1. MovesOn(r) /\ TickFrame(r)
      BY <1>7, <1>s, <1>n, <2>2, ContinueEffect
      DEF CountCheck, tradeVars, MovesOn, TickFrame, UnchangedBook
    <3>2. QED
      BY <3>1 DEF TickEffect
  <2>3. QED
    BY <2>1, <2>2
<1>8. CASE GrossCheck(r)
  <2>1. CASE Gross >= MaxGross
    <3>1. EndsTarget(r) /\ TickFrame(r)
      BY <1>8, <2>1, LeaveEffect
      DEF GrossCheck, Leave, tradeVars, EndsTarget, TickFrame, UnchangedBook
    <3>2. QED
      BY <3>1 DEF TickEffect
  <2>2. CASE ~ (Gross >= MaxGross)
    <3>1. MovesOn(r) /\ TickFrame(r)
      BY <1>8, <1>s, <2>2, ContinueEffect
      DEF GrossCheck, tradeVars, MovesOn, TickFrame, UnchangedBook
    <3>2. QED
      BY <3>1 DEF TickEffect
  <2>3. QED
    BY <2>1, <2>2
<1>9. CASE CorrelationCheck(r)
  <2>1. CASE Leave(r)
    <3>1. EndsTarget(r) /\ TickFrame(r)
      BY <1>9, <2>1, LeaveEffect
      DEF CorrelationCheck, Leave, tradeVars, EndsTarget, TickFrame, UnchangedBook
    <3>2. QED
      BY <3>1 DEF TickEffect
  <2>2. CASE Continue(r, "loss")
    <3>1. MovesOn(r) /\ TickFrame(r)
      BY <1>9, <1>s, <2>2, ContinueEffect
      DEF CorrelationCheck, tradeVars, MovesOn, TickFrame, UnchangedBook
    <3>2. QED
      BY <3>1 DEF TickEffect
  <2>3. QED
    BY <1>9, <2>1, <2>2 DEF CorrelationCheck
<1>10. CASE LossCheck(r)
  <2>1. CASE LossReached
    <3>1. EndsTarget(r) /\ TickFrame(r)
      BY <1>10, <2>1, LeaveEffect
      DEF LossCheck, Leave, tradeVars, EndsTarget, TickFrame, UnchangedBook
    <3>2. QED
      BY <3>1 DEF TickEffect
  <2>2. CASE ~ LossReached
    <3>1. MovesOn(r) /\ TickFrame(r)
      BY <1>10, <1>s, <2>2, ContinueEffect
      DEF LossCheck, tradeVars, MovesOn, TickFrame, UnchangedBook
    <3>2. QED
      BY <3>1 DEF TickEffect
  <2>3. QED
    BY <2>1, <2>2
<1>11. CASE ClosePosition(r)
  <2>1. PICK k \in run[r].held, x \in Results :
          /\ positions' = [positions EXCEPT ![k] =
                             [status |-> "closed", result |-> x, day |-> day]]
          /\ closes' = [closes EXCEPT ![k] = @ + 1]
          /\ run' = [run EXCEPT ![r] = [@ EXCEPT !.held = run[r].held \ {k}]]
    BY <1>11 DEF ClosePosition
  <2> DEFINE y == [run[r] EXCEPT !.held = run[r].held \ {k}]
  <2>2. /\ y.pc = run[r].pc /\ y.trade = run[r].trade
        /\ y.held = run[r].held \ {k} /\ y.kept = run[r].kept
        /\ y.target = run[r].target /\ y.signal = run[r].signal
        /\ y.inst = run[r].inst /\ y.ts = run[r].ts /\ k \in TradeIds
    BY <1>a DEF Runs
  <2>3. run' = [run EXCEPT ![r] = y] /\ run[r].pc = "manage"
    BY <1>11, <2>1 DEF ClosePosition
  <2> HIDE DEF y
  <2>4. run'[r] = y /\ \A q \in Runners \ {r} : run'[q] = run[q]
    BY <1>u, <2>3
  <2>5. /\ UNCHANGED <<orders, processed, enabled, trading, feed, day>>
        /\ late' = IF LossReached' THEN late ELSE 0
    BY <1>11 DEF ClosePosition
  <2>6. Manages(r, k) /\ run'[r].kept = run[r].kept /\ TickFrame(r)
    BY <2>2, <2>3, <2>4, <2>5 DEF Manages, TickFrame, SameBar, SameTarget
  <2>7. Closes(r, k, x)
    BY <2>1, <2>5, <2>6 DEF Closes
  <2>8. QED
    BY <2>2, <2>6, <2>7 DEF TickEffect
<1>12. CASE KeepPosition(r)
  <2>1. PICK k \in run[r].held :
          /\ orders[k].dir = run[r].signal
          /\ run' = [run EXCEPT ![r] =
                       [@ EXCEPT !.held = run[r].held \ {k}, !.kept = TRUE]]
    BY <1>12 DEF KeepPosition
  <2> DEFINE y == [run[r] EXCEPT !.held = run[r].held \ {k}, !.kept = TRUE]
  <2>2. /\ y.pc = run[r].pc /\ y.trade = run[r].trade
        /\ y.held = run[r].held \ {k} /\ y.kept = TRUE
        /\ y.target = run[r].target /\ y.signal = run[r].signal
        /\ y.inst = run[r].inst /\ y.ts = run[r].ts /\ k \in TradeIds
    BY <1>a DEF Runs
  <2>3. /\ run' = [run EXCEPT ![r] = y] /\ run[r].pc = "manage"
        /\ UNCHANGED <<tradeVars, processed>>
    BY <1>12, <2>1 DEF KeepPosition
  <2> HIDE DEF y
  <2>4. run'[r] = y /\ \A q \in Runners \ {r} : run'[q] = run[q]
    BY <1>u, <2>3
  <2>5. Keeps(r, k) /\ TickFrame(r)
    BY <2>1, <2>2, <2>3, <2>4
    DEF Keeps, Manages, TickFrame, SameBar, SameTarget, UnchangedBook, tradeVars
  <2>6. QED
    BY <2>2, <2>5 DEF TickEffect
<1>13. CASE StayOut(r)
  <2>1. EndsTarget(r) /\ TickFrame(r)
    BY <1>13, LeaveEffect
    DEF StayOut, Leave, tradeVars, EndsTarget, TickFrame, UnchangedBook
  <2>2. QED
    BY <2>1 DEF TickEffect
<1>14. CASE SubmitOrder(r)
  <2>1. PICK k \in TradeIds, n \in Sizes :
          /\ orders[k].status = "absent"
          /\ orders' = [orders EXCEPT ![k] =
                          [status |-> "pending", target |-> run[r].target,
                           dir |-> run[r].signal, size |-> n]]
          /\ run' = [run EXCEPT ![r] = [@ EXCEPT !.pc = "order", !.trade = k]]
    BY <1>14 DEF SubmitOrder
  <2> DEFINE y == [run[r] EXCEPT !.pc = "order", !.trade = k]
  <2>2. /\ y.pc = "order" /\ y.trade = k
        /\ y.held = run[r].held /\ y.kept = run[r].kept
        /\ y.target = run[r].target
        /\ y.inst = run[r].inst /\ y.ts = run[r].ts
    BY <1>a DEF Runs
  <2>3. /\ run' = [run EXCEPT ![r] = y] /\ run[r].pc = "manage"
        /\ run[r].held = {} /\ Enters(r)
        /\ late' = IF LossReached THEN late + 1 ELSE late
        /\ UNCHANGED <<positions, processed, enabled, trading, feed, day, closes>>
    BY <1>14, <2>1 DEF SubmitOrder
  <2> HIDE DEF y
  <2>4. run'[r] = y /\ \A q \in Runners \ {r} : run'[q] = run[q]
    BY <1>u, <2>3
  <2>5. Submits(r, k, n) /\ TickFrame(r)
    BY <2>1, <2>2, <2>3, <2>4 DEF Submits, TickFrame, SameBar
  <2>6. QED
    BY <2>5 DEF TickEffect
<1>15. CASE FillOrder(r)
  <2>1. Fills(r) /\ TickFrame(r)
    BY <1>15, <1>s, ContinueEffect DEF FillOrder, Fills, TickFrame
  <2>2. QED
    BY <2>1 DEF TickEffect
<1>16. CASE OpenPosition(r)
  <2>1. Opens(r) /\ TickFrame(r)
    BY <1>16, LeaveEffect DEF OpenPosition, Leave, Opens, TickFrame
  <2>2. QED
    BY <2>1 DEF TickEffect
<1>17. QED
  BY ONLY TickStep(r), <1>1, <1>2, <1>3, <1>4, <1>5, <1>6, <1>7, <1>8, <1>9,
     <1>10, <1>11, <1>12, <1>13, <1>14, <1>15, <1>16 DEF TickStep

(* A step of people, of the feed or of the calendar, or none at all.        *)
OutsideEffect ==
  /\ UNCHANGED <<orders, positions, processed, run, closes>>
  /\ \/ UNCHANGED <<day, late>>
     \/ NewDay

ReadsBar(r) ==
  /\ UnchangedBook /\ processed' = processed /\ TickFrame(r)
  /\ run[r].pc = "idle" /\ run'[r].pc = "check"
  /\ run'[r].inst \in Instruments /\ run'[r].target = "none"
  /\ run'[r].held = {} /\ run'[r].kept = FALSE /\ run'[r].trade = 0

Dies(r) ==
  /\ UnchangedBook /\ processed' = processed /\ TickFrame(r)
  /\ "die" \in Faults
  /\ run[r].pc # "idle" /\ run'[r] = IdleRun

LEMMA NextEffects ==
  ASSUME PaperTypeOK, [PaperNext]_paperVars
  PROVE  \/ OutsideEffect \/ KillSwitch
         \/ \E r \in Runners :
              ReadsBar(r) \/ (TickFrame(r) /\ TickEffect(r)) \/ Dies(r)
<1>1. ASSUME NEW i \in Instruments, NewBar(i) PROVE OutsideEffect
  BY <1>1 DEF NewBar, OutsideEffect
<1>2. CASE NewDay
  BY <1>2 DEF NewDay, OutsideEffect
<1>3. ASSUME NEW t \in Targets, SwitchTarget(t) PROVE OutsideEffect
  BY <1>3 DEF SwitchTarget, OutsideEffect
<1>4. ASSUME NEW r \in Runners, NEW i \in Instruments, ReadBar(r, i)
      PROVE  ReadsBar(r)
  <2> DEFINE x == [IdleRun EXCEPT !.pc = "check", !.inst = i, !.ts = feed[i]]
  <2>1. /\ x.pc = "check" /\ x.inst = i /\ x.target = "none" /\ x.held = {}
        /\ x.kept = FALSE /\ x.trade = 0
    BY DEF IdleRun
  <2>2. run' = [run EXCEPT ![r] = x]
    BY <1>4 DEF ReadBar
  <2> HIDE DEF x
  <2>3. run'[r] = x /\ \A q \in Runners \ {r} : run'[q] = run[q]
    BY <2>2 DEF PaperTypeOK
  <2>4. QED
    BY <1>4, <2>1, <2>3 DEF ReadBar, ReadsBar, tradeVars, UnchangedBook, TickFrame
<1>5. ASSUME NEW r \in Runners, TickDies(r) PROVE Dies(r)
  BY <1>5 DEF TickDies, Dies, tradeVars, UnchangedBook, TickFrame, PaperTypeOK
<1>6. CASE UNCHANGED paperVars
  BY <1>6 DEF paperVars, OutsideEffect
<1>7. QED
  BY <1>1, <1>2, <1>3, <1>4, <1>5, <1>6, TickEffects DEF PaperNext

(* What the kill switch does to each row.                                   *)
LEMMA KillEffects ==
  ASSUME PaperTypeOK, KillSwitch
  PROVE  /\ UNCHANGED <<orders, processed, day, run, late>>
         /\ \A k \in Open : /\ positions'[k].status = "closed"
                            /\ positions'[k].result = 0
                            /\ closes'[k] = closes[k] + 1
         /\ \A k \in TradeIds \ Open :
              positions'[k] = positions[k] /\ closes'[k] = closes[k]
BY DEF KillSwitch, PaperTypeOK, Open

-----------------------------------------------------------------------------
(* The position cap *)

(* What is open and what may still be opened.                               *)
CapInv == OpenCount + Cardinality(Past) <= MaxOpen - 1 + Cardinality(Runners)

(* A step that opens nothing and passes no count check keeps the bound.     *)
LEMMA CapKept ==
  ASSUME CapInv, Open' \subseteq Open, Past' \subseteq Past
  PROVE  CapInv'
<1>1. Cardinality(Open') <= Cardinality(Open)
  BY FiniteBook, FS_Subset
<1>2. Cardinality(Past') <= Cardinality(Past)
  BY FiniteBook, FS_Subset
<1>3. QED
  BY <1>1, <1>2, FiniteBook, FiniteNext DEF CapInv, OpenCount

LEMMA CapTick ==
  ASSUME PaperTypeOK, CapInv, NEW r \in Runners, TickFrame(r), TickEffect(r)
  PROVE  CapInv'
<1>f. \A q \in Runners \ {r} : run'[q] = run[q]
  BY DEF TickFrame
<1>1. ASSUME Open' \subseteq Open,
             r \in Past \/ run'[r].pc \in {"idle", "check", "load", "next", "count"}
      PROVE  CapInv'
  <2>1. Past' \subseteq Past
    BY <1>f, <1>1 DEF Past
  <2>2. QED
    BY <1>1, <2>1, CapKept
<1>2. CASE UnchangedBook /\ (r \in Past \/ run'[r].pc \in {"idle", "load", "next", "count"})
  <2>1. Open' \subseteq Open
    BY <1>2 DEF UnchangedBook, Open
  <2>2. QED
    BY <1>1, <1>2, <2>1
<1>3. CASE UnchangedBook /\ OpenCount < MaxOpen
  <2>1. Open' = Open
    BY <1>3 DEF UnchangedBook, Open
  <2>2. Cardinality(Open') <= MaxOpen - 1
    BY <1>3, <2>1, FiniteBook DEF OpenCount
  <2>3. QED
    BY <2>2, FiniteBook, FiniteNext DEF CapInv, OpenCount
<1>4. CASE \/ Fills(r)
           \/ \E k \in TradeIds, x \in Results : Closes(r, k, x)
           \/ \E k \in TradeIds, n \in Sizes : Submits(r, k, n)
  <2>1. Open' \subseteq Open
    BY <1>4 DEF Fills, Closes, Submits, Open, PaperTypeOK
  <2>2. r \in Past
    BY <1>4 DEF Fills, Closes, Manages, Submits, Past
  <2>3. QED
    BY <1>1, <2>1, <2>2
<1>5. CASE Opens(r)
  <2>1. Open' \subseteq Open \cup {run[r].trade}
    BY <1>5 DEF Opens, Open, PaperTypeOK
  <2>2. Cardinality(Open') <= Cardinality(Open) + 1
    <3> DEFINE k == run[r].trade
    <3>a. IsFiniteSet(Open) /\ Cardinality(Open) \in Nat
      BY FiniteBook
    <3> HIDE DEF k
    <3>b. /\ IsFiniteSet(Open \cup {k})
          /\ Cardinality(Open \cup {k}) =
               IF k \in Open THEN Cardinality(Open) ELSE Cardinality(Open) + 1
      BY <3>a, FS_AddElement
    <3>1. /\ IsFiniteSet(Open \cup {run[r].trade})
          /\ Cardinality(Open \cup {run[r].trade}) \in Nat
          /\ Cardinality(Open \cup {run[r].trade}) <= Cardinality(Open) + 1
      BY <3>a, <3>b DEF k
    <3>2. Cardinality(Open') <= Cardinality(Open \cup {run[r].trade})
      BY <2>1, <3>1, FS_Subset
    <3>3. QED
      BY <3>1, <3>2, FiniteBook, FiniteNext
  <2>3. r \in Past
    BY <1>5 DEF Opens, Past
  <2>4. Past' \subseteq Past \ {r}
    BY <1>5, <1>f DEF Opens, Fresh, Past
  <2>5. Cardinality(Past') <= Cardinality(Past) - 1
    <3>1. /\ IsFiniteSet(Past \ {r})
          /\ Cardinality(Past \ {r}) = Cardinality(Past) - 1
      BY <2>3, FiniteBook, FS_RemoveElement
    <3>2. Cardinality(Past') <= Cardinality(Past \ {r})
      BY <2>4, <3>1, FS_Subset
    <3>3. QED
      BY <3>1, <3>2
  <2>6. QED
    BY <2>2, <2>5, FiniteBook, FiniteNext DEF CapInv, OpenCount
<1>6. QED
  BY <1>2, <1>3, <1>4, <1>5
  DEF TickEffect, GoesIdle, MovesOn, EndsTarget, Takes, Keeps, Manages, Fresh,
      IdleRun, Past

LEMMA CapStep ==
  ASSUME PaperTypeOK, CapInv, [PaperNext]_paperVars
  PROVE  CapInv'
<1>1. CASE OutsideEffect
  <2>1. Open' = Open /\ Past' = Past
    BY <1>1 DEF OutsideEffect, Open, Past
  <2>2. QED
    BY <2>1, CapKept
<1>2. CASE KillSwitch
  <2>1. Open' \subseteq Open /\ Past' = Past
    BY <1>2, KillEffects DEF Open, Past
  <2>2. QED
    BY <2>1, CapKept
<1>3. ASSUME NEW r \in Runners, ReadsBar(r) \/ Dies(r) PROVE CapInv'
  <2>1. Open' = Open
    BY <1>3 DEF ReadsBar, Dies, UnchangedBook, Open
  <2>2. Past' \subseteq Past
    BY <1>3 DEF ReadsBar, Dies, TickFrame, IdleRun, Past
  <2>3. QED
    BY <2>1, <2>2, CapKept
<1>4. QED
  BY <1>1, <1>2, <1>3, CapTick, NextEffects

(* However many processes run bars at the same time, and wherever their     *)
(* ticks die, at most one position per further process is opened beyond the *)
(* cap of settings.paper_max_open_positions.                                *)
THEOREM CapIsKept == PaperSpec => []CapOvershoot
<1>1. PaperInit => CapInv
  <2> SUFFICES ASSUME PaperInit PROVE CapInv
    OBVIOUS
  <2>1. Open = {} /\ Past = {}
    BY DEF PaperInit, Open, Past, NoPosition, IdleRun
  <2>2. QED
    BY <2>1, FS_EmptySet, FiniteBook DEF CapInv, OpenCount
<1>2. PaperTypeOK /\ CapInv /\ [PaperNext]_paperVars => CapInv'
  BY CapStep
<1>3. CapInv => CapOvershoot
  BY FiniteBook DEF CapInv, CapOvershoot, OpenCount
<1>4. QED
  BY <1>1, <1>2, <1>3, PaperTypeCorrect, PTL DEF PaperSpec

-----------------------------------------------------------------------------
(* Orders and their positions *)

(* Each runner carries an order of its own from its submission to its       *)
(* position, and the positions it holds were opened at some time.           *)
Carried(r) ==
  LET k == run[r].trade IN
  /\ k # 0 <=> run[r].pc \in {"order", "fill"}
  /\ k # 0 => /\ positions[k].status = "absent"
              /\ run[r].pc = "order" => orders[k].status = "pending"
              /\ run[r].pc = "fill" => orders[k].status = "filled"
  /\ \A h \in run[r].held : positions[h].status # "absent"

HoldInv ==
  /\ \A k \in TradeIds :
       /\ positions[k].status # "absent" => orders[k].status = "filled"
       /\ orders[k].status # "absent" => orders[k].size \in Sizes
  /\ \A r \in Runners : Carried(r)
  /\ \A r, q \in Runners :
       r # q /\ run[r].trade # 0 => run[r].trade # run[q].trade

LEMMA HoldInit == PaperInit => HoldInv
BY DEF PaperInit, HoldInv, Carried, IdleRun, NoOrder, NoPosition

(* A step that touches no order and opens nothing, and after which the      *)
(* runner carries what it carried, or nothing.                              *)
LEMMA HoldKept ==
  ASSUME PaperTypeOK, HoldInv, NEW r \in Runners,
         \A q \in Runners \ {r} : run'[q] = run[q], orders' = orders,
         \A k \in TradeIds :
           positions'[k].status = "absent" <=> positions[k].status = "absent",
         \/ /\ run'[r].trade = run[r].trade
            /\ \/ run'[r].pc = run[r].pc
               \/ {run[r].pc, run'[r].pc} \cap {"order", "fill"} = {}
         \/ run'[r].trade = 0 /\ run'[r].pc \notin {"order", "fill"},
         \A h \in run'[r].held : h \in TradeIds /\ positions[h].status # "absent"
  PROVE  HoldInv'
<1>1. \A q \in Runners : /\ run[q].held \subseteq TradeIds
                         /\ run[q].trade \in TradeIds \cup {0}
  BY DEF PaperTypeOK, Runs
<1>2. \A k \in TradeIds : k # 0
  BY DEF TradeIds
<1>3. \A q \in Runners \ {r} : Carried(q)'
  BY <1>1, <1>2 DEF HoldInv, Carried
<1>4. Carried(r)'
  BY <1>1, <1>2 DEF HoldInv, Carried
<1>5. \A q \in Runners : run'[q].trade = run[q].trade \/ run'[q].trade = 0
  OBVIOUS
<1>6. QED
  BY <1>3, <1>4, <1>5 DEF HoldInv

LEMMA HoldTick ==
  ASSUME PaperTypeOK, HoldInv, NEW r \in Runners, TickFrame(r), TickEffect(r)
  PROVE  HoldInv'
<1>a. /\ run[r].held \subseteq TradeIds /\ run[r].trade \in TradeIds \cup {0}
      /\ Carried(r)
  BY DEF PaperTypeOK, Runs, HoldInv
<1>f. \A q \in Runners \ {r} : run'[q] = run[q]
  BY DEF TickFrame
<1>t. \A q \in Runners : /\ run[q].held \subseteq TradeIds
                         /\ run[q].trade \in TradeIds \cup {0}
  BY DEF PaperTypeOK, Runs
<1>z. \A k \in TradeIds : k # 0
  BY DEF TradeIds
<1>1. CASE GoesIdle(r)
  BY <1>1, <1>f, HoldKept DEF GoesIdle, UnchangedBook, IdleRun
<1>2. CASE MovesOn(r)
  BY <1>2, <1>f, <1>a, HoldKept
  DEF MovesOn, UnchangedBook, SameTarget, Carried
<1>3. CASE EndsTarget(r)
  BY <1>3, <1>f, HoldKept DEF EndsTarget, UnchangedBook, Fresh
<1>4. CASE Takes(r)
  <2>1. \A h \in run'[r].held : h \in TradeIds /\ positions[h].status # "absent"
    BY <1>4 DEF Takes, OpenOf, Open
  <2>2. QED
    BY <1>4, <2>1, <1>f, HoldKept DEF Takes, UnchangedBook
<1>5. ASSUME NEW k \in TradeIds, Keeps(r, k) PROVE HoldInv'
  BY <1>5, <1>f, <1>a, HoldKept
  DEF Keeps, Manages, UnchangedBook, SameTarget, Carried
<1>6. ASSUME NEW k \in TradeIds, NEW x \in Results, Closes(r, k, x)
      PROVE  HoldInv'
  <2>1. /\ k \in run[r].held /\ positions[k].status # "absent"
        /\ positions' = [positions EXCEPT ![k] =
                           [status |-> "closed", result |-> x, day |-> day]]
    BY <1>6, <1>a DEF Closes, Manages, Carried
  <2>2. \A h \in TradeIds :
          positions'[h].status = "absent" <=> positions[h].status = "absent"
    BY <2>1 DEF PaperTypeOK
  <2>3. QED
    BY <1>6, <2>2, <1>f, <1>a, HoldKept DEF Closes, Manages, SameTarget, Carried
<1>7. ASSUME NEW k \in TradeIds, NEW n \in Sizes, Submits(r, k, n)
      PROVE  HoldInv'
  <2>1. /\ orders[k].status = "absent" /\ positions' = positions
        /\ orders'[k].status = "pending" /\ orders'[k].size = n
        /\ \A l \in TradeIds \ {k} : orders'[l] = orders[l]
        /\ run'[r].pc = "order" /\ run'[r].trade = k /\ run'[r].held = {}
        /\ run[r].pc = "manage" /\ run[r].trade = 0
    BY <1>7, <1>a DEF Submits, Carried, PaperTypeOK
  <2>2. positions[k].status = "absent"
    BY <2>1 DEF HoldInv
  <2>3. \A q \in Runners : run[q].trade # k
    BY <2>1, <1>z DEF HoldInv, Carried
  <2>4. Carried(r)'
    BY <2>1, <2>2, <1>z DEF Carried
  <2>5. ASSUME NEW q \in Runners \ {r} PROVE Carried(q)'
    BY <2>1, <2>3, <1>f, <1>t, <1>z DEF HoldInv, Carried
  <2>6. \A l \in TradeIds :
          /\ positions'[l].status # "absent" => orders'[l].status = "filled"
          /\ orders'[l].status # "absent" => orders'[l].size \in Sizes
    BY <2>1, <2>2 DEF HoldInv
  <2>7. \A p, q \in Runners :
          p # q /\ run'[p].trade # 0 => run'[p].trade # run'[q].trade
    BY <2>1, <2>3, <1>f DEF HoldInv
  <2>8. QED
    BY <2>4, <2>5, <2>6, <2>7 DEF HoldInv
<1>8. CASE Fills(r)
  <2>1. PICK k \in TradeIds : k = run[r].trade
    BY <1>8, <1>a DEF Fills, Carried
  <2>2. /\ run[r].pc = "order" /\ positions' = positions
        /\ positions[k].status = "absent" /\ orders[k].status = "pending"
        /\ run'[r].pc = "fill" /\ run'[r].trade = k
        /\ run'[r].held = run[r].held
    BY <1>8, <1>a, <2>1, <1>z DEF Fills, SameTarget, Carried
  <2>3. /\ orders'[k].status = "filled" /\ orders'[k].size = orders[k].size
        /\ \A l \in TradeIds \ {k} : orders'[l] = orders[l]
    BY <1>8, <2>1 DEF Fills, PaperTypeOK, Orders
  <2>4. \A q \in Runners \ {r} : run[q].trade # k
    BY <2>1, <1>z DEF HoldInv
  <2>5. Carried(r)'
    BY <1>a, <2>2, <2>3, <1>z DEF Carried
  <2>6. ASSUME NEW q \in Runners \ {r} PROVE Carried(q)'
    BY <2>2, <2>3, <2>4, <1>f, <1>t, <1>z DEF HoldInv, Carried
  <2>7. \A l \in TradeIds :
          /\ positions'[l].status # "absent" => orders'[l].status = "filled"
          /\ orders'[l].status # "absent" => orders'[l].size \in Sizes
    BY <2>2, <2>3 DEF HoldInv
  <2>8. \A p, q \in Runners :
          p # q /\ run'[p].trade # 0 => run'[p].trade # run'[q].trade
    BY <2>1, <2>2, <2>4, <1>f DEF HoldInv
  <2>9. QED
    BY <2>5, <2>6, <2>7, <2>8 DEF HoldInv
<1>9. CASE Opens(r)
  <2>1. PICK k \in TradeIds : k = run[r].trade
    BY <1>9, <1>a DEF Opens, Carried
  <2>2. /\ run[r].pc = "fill" /\ orders' = orders
        /\ positions[k].status = "absent" /\ orders[k].status = "filled"
        /\ run'[r].pc = "next" /\ run'[r].trade = 0 /\ run'[r].held = {}
    BY <1>9, <1>a, <2>1, <1>z DEF Opens, Fresh, Carried
  <2>3. /\ positions'[k].status = "open"
        /\ \A l \in TradeIds \ {k} : positions'[l] = positions[l]
    BY <1>9, <2>1 DEF Opens, PaperTypeOK
  <2>4. \A q \in Runners \ {r} : run[q].trade # k
    BY <2>1, <1>z DEF HoldInv
  <2>5. Carried(r)'
    BY <2>2 DEF Carried
  <2>6. ASSUME NEW q \in Runners \ {r} PROVE Carried(q)'
    BY <2>2, <2>3, <2>4, <1>f, <1>t, <1>z DEF HoldInv, Carried
  <2>7. \A l \in TradeIds :
          /\ positions'[l].status # "absent" => orders'[l].status = "filled"
          /\ orders'[l].status # "absent" => orders'[l].size \in Sizes
    BY <2>2, <2>3 DEF HoldInv
  <2>8. \A p, q \in Runners :
          p # q /\ run'[p].trade # 0 => run'[p].trade # run'[q].trade
    BY <2>1, <2>2, <2>4, <1>f DEF HoldInv
  <2>9. QED
    BY <2>5, <2>6, <2>7, <2>8 DEF HoldInv
<1>10. QED
  BY <1>1, <1>2, <1>3, <1>4, <1>5, <1>6, <1>7, <1>8, <1>9 DEF TickEffect

LEMMA HoldStep ==
  ASSUME PaperTypeOK, HoldInv, [PaperNext]_paperVars
  PROVE  HoldInv'
<1>1. CASE OutsideEffect
  BY <1>1 DEF OutsideEffect, HoldInv, Carried
<1>2. CASE KillSwitch
  <2>1. \A k \in TradeIds :
          positions'[k].status = "absent" <=> positions[k].status = "absent"
    BY <1>2, KillEffects DEF Open
  <2>2. UNCHANGED <<orders, run>>
    BY <1>2, KillEffects
  <2>3. \A r \in Runners : run[r].held \subseteq TradeIds /\ run[r].trade \in TradeIds \cup {0}
    BY DEF PaperTypeOK, Runs
  <2>4. \A r \in Runners : Carried(r)'
    BY <2>1, <2>2, <2>3 DEF HoldInv, Carried
  <2>5. QED
    BY <2>1, <2>2, <2>4 DEF HoldInv
<1>3. ASSUME NEW r \in Runners, ReadsBar(r) \/ Dies(r) PROVE HoldInv'
  BY <1>3, HoldKept DEF ReadsBar, Dies, UnchangedBook, TickFrame, IdleRun
<1>4. QED
  BY <1>1, <1>2, <1>3, HoldTick, NextEffects

LEMMA Holds == PaperSpec => []HoldInv
<1>1. PaperTypeOK /\ HoldInv /\ [PaperNext]_paperVars => HoldInv'
  BY HoldStep
<1>2. QED
  BY <1>1, HoldInit, PaperTypeCorrect, PTL DEF PaperSpec

LEMMA FiniteRunners ==
  /\ IsFiniteSet(Runners) /\ Cardinality(Runners) \in Nat
  /\ \A S \in SUBSET Runners : /\ IsFiniteSet(S) /\ Cardinality(S) \in Nat
                               /\ Cardinality(S) <= Cardinality(Runners)
                               /\ \A r \in S : Cardinality(S \ {r}) = Cardinality(S) - 1
BY PaperAssumption, FS_Subset, FS_CardinalityType, FS_RemoveElement

LEMMA FewerRunners ==
  ASSUME NEW S \in SUBSET Runners, NEW T \in SUBSET S
  PROVE  Cardinality(T) <= Cardinality(S)
BY FiniteRunners, FS_Subset

LEMMA OneRunnerFewer ==
  ASSUME NEW S \in SUBSET Runners, NEW r \in S, NEW T \in SUBSET (S \ {r})
  PROVE  Cardinality(T) <= Cardinality(S) - 1
<1>1. Cardinality(T) <= Cardinality(S \ {r})
  BY FewerRunners
<1>2. QED
  BY <1>1, FiniteRunners

(* As long as no tick dies, an order without its position is in the hands   *)
(* of a runner.                                                             *)
Followed ==
  \A k \in TradeIds :
    orders[k].status # "absent" /\ positions[k].status = "absent" =>
      \E r \in Runners : run[r].trade = k

LEMMA FollowKept ==
  ASSUME Followed,
         \A k \in TradeIds :
           /\ orders'[k].status # "absent" => orders[k].status # "absent"
           /\ positions'[k].status = "absent" => positions[k].status = "absent",
         \A k \in TradeIds, r \in Runners : run[r].trade = k => run'[r].trade = k
  PROVE  Followed'
BY DEF Followed

LEMMA FollowTick ==
  ASSUME PaperTypeOK, HoldInv, Followed, NEW r \in Runners,
         TickFrame(r), TickEffect(r)
  PROVE  Followed'
<1>a. /\ Carried(r) /\ run[r].held \subseteq TradeIds
      /\ run[r].trade \in TradeIds \cup {0} /\ \A k \in TradeIds : k # 0
  BY DEF HoldInv, PaperTypeOK, Runs, TradeIds
<1>f. \A q \in Runners \ {r} : run'[q] = run[q]
  BY DEF TickFrame
<1>1. ASSUME UNCHANGED <<orders, positions>>,
             run[r].trade = 0 \/ run'[r].trade = run[r].trade
      PROVE  Followed'
  BY <1>1, <1>a, <1>f, FollowKept
<1>2. ASSUME NEW k \in TradeIds, NEW x \in Results, Closes(r, k, x)
      PROVE  Followed'
  <2>1. /\ orders' = orders /\ run'[r].trade = run[r].trade
        /\ positions'[k].status = "closed"
        /\ \A l \in TradeIds \ {k} : positions'[l] = positions[l]
    BY <1>2 DEF Closes, Manages, SameTarget, PaperTypeOK
  <2>2. QED
    BY <1>f, <2>1, FollowKept
<1>3. ASSUME NEW k \in TradeIds, NEW n \in Sizes, Submits(r, k, n)
      PROVE  Followed'
  <2>1. /\ positions' = positions /\ run'[r].trade = k /\ run[r].trade = 0
        /\ \A l \in TradeIds \ {k} : orders'[l] = orders[l]
    BY <1>3, <1>a DEF Submits, Carried, PaperTypeOK
  <2>2. QED
    BY <1>a, <1>f, <2>1 DEF Followed
<1>4. CASE Fills(r)
  <2>1. PICK k \in TradeIds : k = run[r].trade
    BY <1>4, <1>a DEF Fills, Carried
  <2>2. /\ positions' = positions /\ run'[r].trade = run[r].trade
        /\ orders[k].status = "pending"
        /\ \A l \in TradeIds \ {k} : orders'[l] = orders[l]
    BY <1>4, <1>a, <2>1 DEF Fills, SameTarget, Carried, PaperTypeOK
  <2>3. QED
    BY <1>f, <2>2, FollowKept
<1>5. CASE Opens(r)
  <2>1. PICK k \in TradeIds : k = run[r].trade
    BY <1>5, <1>a DEF Opens, Carried
  <2>2. /\ positions'[k].status = "open" /\ orders' = orders
        /\ \A l \in TradeIds \ {k} : positions'[l] = positions[l]
    BY <1>5, <2>1 DEF Opens, PaperTypeOK
  <2>3. QED
    BY <1>f, <2>1, <2>2 DEF Followed
<1>6. QED
  BY <1>1, <1>2, <1>3, <1>4, <1>5, <1>a
  DEF TickEffect, GoesIdle, MovesOn, EndsTarget, Takes, Keeps, Manages,
      SameTarget, UnchangedBook, Carried

LEMMA FollowStep ==
  ASSUME Faults = {}, PaperTypeOK, HoldInv, Followed, [PaperNext]_paperVars
  PROVE  Followed'
<1>1. CASE OutsideEffect
  BY <1>1 DEF OutsideEffect, Followed
<1>2. CASE KillSwitch
  <2>1. \A k \in TradeIds :
          positions'[k].status = "absent" <=> positions[k].status = "absent"
    BY <1>2, KillEffects DEF Open
  <2>2. UNCHANGED <<orders, run>>
    BY <1>2, KillEffects
  <2>3. QED
    BY <2>1, <2>2, FollowKept
<1>3. ASSUME NEW r \in Runners, ReadsBar(r) PROVE Followed'
  <2>1. run[r].trade = 0 /\ \A k \in TradeIds : k # 0
    BY <1>3 DEF ReadsBar, HoldInv, Carried, TradeIds
  <2>2. /\ UNCHANGED <<orders, positions>>
        /\ \A q \in Runners \ {r} : run'[q] = run[q]
    BY <1>3 DEF ReadsBar, UnchangedBook, TickFrame
  <2>3. QED
    BY <2>1, <2>2, FollowKept
<1>4. ASSUME NEW r \in Runners PROVE ~ Dies(r)
  BY DEF Dies
<1>5. QED
  BY <1>1, <1>2, <1>3, <1>4, FollowTick, NextEffects

(* An order, its fill and its position are three commits.  With any number  *)
(* of processes a position never appears without its filled order, and as   *)
(* long as no tick dies, an order that has no position yet is in the hands  *)
(* of a runner that is about to open it.                                    *)
THEOREM OrdersStayFollowed ==
  ASSUME Faults = {}
  PROVE  PaperSpec => []OrdersAreFollowed
<1>1. PaperInit => Followed
  BY DEF PaperInit, Followed, NoOrder
<1>2. PaperTypeOK /\ HoldInv /\ Followed /\ [PaperNext]_paperVars => Followed'
  BY FollowStep
<1>3. HoldInv /\ Followed => OrdersAreFollowed
  BY DEF HoldInv, Followed, OrdersAreFollowed
<1>4. QED
  BY <1>1, <1>2, <1>3, Holds, PaperTypeCorrect, PTL DEF PaperSpec

-----------------------------------------------------------------------------
(* Bars move forward *)

SoleRunner == \A r, q \in Runners : r = q

(* The bar of a tick that was let through is newer than the mark, which     *)
(* nobody else moves.                                                       *)
BarsInv ==
  \A r \in Runners :
    /\ run[r].pc # "idle" => run[r].inst \in Instruments
    /\ run[r].pc \notin {"idle", "check"} => processed[run[r].inst] < run[r].ts

LEMMA BarsStep ==
  ASSUME SoleRunner, PaperTypeOK, BarsInv, [PaperNext]_paperVars
  PROVE  BarsInv'
<1>i. IdleRun.pc = "idle"
  BY DEF IdleRun
<1>1. CASE OutsideEffect
  BY <1>1 DEF OutsideEffect, BarsInv
<1>2. CASE KillSwitch
  BY <1>2 DEF KillSwitch, BarsInv
<1>3. ASSUME NEW r \in Runners, ReadsBar(r) PROVE BarsInv'
  BY <1>3 DEF ReadsBar, BarsInv, SoleRunner
<1>4. ASSUME NEW r \in Runners, Dies(r) PROVE BarsInv'
  BY <1>4, <1>i DEF Dies, BarsInv, SoleRunner
<1>5. ASSUME NEW r \in Runners, TickEffect(r) PROVE BarsInv'
  <2>1. CASE GoesIdle(r)
    BY <1>i, <2>1 DEF GoesIdle, BarsInv, SoleRunner
  <2>2. ASSUME SameBar(r), IsNew(r) \/ run[r].pc # "check" PROVE BarsInv'
    BY <2>2 DEF SameBar, BarsInv, SoleRunner, IsNew
  <2>3. QED
    BY <1>5, <2>1, <2>2
    DEF TickEffect, MovesOn, EndsTarget, Takes, Keeps, Closes, Manages,
        Submits, Fills, Opens
<1>6. QED
  BY <1>1, <1>2, <1>3, <1>4, <1>5, NextEffects

ForwardStep ==
  \A i \in Instruments :
    /\ processed'[i] >= processed[i]
    /\ \A r \in Runners :
         run[r].inst = i /\ (orders' # orders \/ (positions' # positions /\ run' # run))
           => processed[i] < run[r].ts

LEMMA ForwardKept ==
  ASSUME SoleRunner, PaperTypeOK, BarsInv, [PaperNext]_paperVars
  PROVE  ForwardStep
<1>t. \A i \in Instruments : processed[i] \in Nat
  BY DEF PaperTypeOK
<1>0. ASSUME processed' = processed, orders' = orders,
             positions' = positions \/ run' = run
      PROVE  ForwardStep
  BY <1>0, <1>t DEF ForwardStep
<1>1. CASE OutsideEffect
  BY <1>0, <1>1 DEF OutsideEffect
<1>2. CASE KillSwitch
  BY <1>0, <1>2 DEF KillSwitch
<1>3. ASSUME NEW r \in Runners, ReadsBar(r) \/ Dies(r) PROVE ForwardStep
  BY <1>0, <1>3 DEF ReadsBar, Dies, UnchangedBook
<1>4. ASSUME NEW r \in Runners, TickEffect(r) PROVE ForwardStep
  <2>1. CASE UnchangedBook /\ processed' = processed
    BY <1>0, <2>1 DEF UnchangedBook
  <2>2. CASE GoesIdle(r) /\ processed' # processed
    <3>1. /\ run[r].inst \in Instruments /\ processed[run[r].inst] < run[r].ts
          /\ processed' = [processed EXCEPT ![run[r].inst] = run[r].ts]
          /\ run[r].ts \in Nat
      BY <2>2 DEF GoesIdle, BarsInv, PaperTypeOK, Runs
    <3>2. \A i \in Instruments : processed'[i] >= processed[i]
      BY <1>t, <3>1 DEF PaperTypeOK
    <3>3. QED
      BY <2>2, <3>2 DEF ForwardStep, GoesIdle, UnchangedBook
  <2>3. ASSUME SameBar(r), run[r].pc \in {"manage", "order", "fill"}
        PROVE  ForwardStep
    <3>1. \A q \in Runners : processed[run[q].inst] < run[q].ts
      BY <2>3 DEF BarsInv, SoleRunner
    <3>2. processed' = processed
      BY <2>3 DEF SameBar
    <3>3. QED
      BY <1>t, <3>1, <3>2 DEF ForwardStep
  <2>4. QED
    BY <1>4, <2>1, <2>2, <2>3
    DEF TickEffect, MovesOn, EndsTarget, Takes, Keeps, Closes, Manages,
        Submits, Fills, Opens, SameBar, GoesIdle
<1>5. QED
  BY <1>1, <1>2, <1>3, <1>4, NextEffects

(* While one process runs the bars, a bar that was marked as processed is   *)
(* not acted on again, and the mark never moves back: should_process_bar,   *)
(* which is asked once and long before mark_processed, is enough then,      *)
(* wherever a tick dies in between.                                         *)
THEOREM MarksMoveForward ==
  ASSUME SoleRunner
  PROVE  PaperSpec => BarsMoveForward
<1>1. PaperInit => BarsInv
  BY DEF PaperInit, BarsInv, IdleRun
<1>2. PaperTypeOK /\ BarsInv /\ [PaperNext]_paperVars => BarsInv'
  BY BarsStep
<1>3. PaperTypeOK /\ BarsInv /\ [PaperNext]_paperVars => ForwardStep
  BY ForwardKept
<1>4. PaperTypeOK /\ BarsInv /\ [PaperNext]_paperVars => [ForwardStep]_paperVars
  BY <1>3
<1>5. PaperSpec => [][ForwardStep]_paperVars
  BY <1>1, <1>2, <1>4, PaperTypeCorrect, PTL DEF PaperSpec
<1>6. QED
  BY <1>5 DEF BarsMoveForward, ForwardStep

-----------------------------------------------------------------------------
(* Sums over finite sets: MapThenSumSet takes some element away again and   *)
(* again, so what it computes is a function on the subsets of its set.      *)

AnyOf(s) == CHOOSE x \in s : TRUE

SumUp(g, w, S) ==
  g = [s \in SUBSET S |->
         IF s = {} THEN 0
         ELSE w[CHOOSE x \in s : TRUE] + g[s \ {CHOOSE x \in s : TRUE}]]

Total(w, S) == (CHOOSE g : SumUp(g, w, S))[S]

(* What fails for some subset of a finite set fails for a smallest one.     *)
LEMMA SmallestSubset ==
  ASSUME NEW S, IsFiniteSet(S), NEW B \in SUBSET (SUBSET S), B # {}
  PROVE  \E T \in B : \A U \in B : U \subseteq T => U = T
<1>1. IsWellFoundedOn(StrictSubsetOrdering(S), SUBSET S)
  BY FS_StrictSubsetOrderingWellFounded, FS_FiniteSubsetsOfFinite
<1>2. PICK T \in B : \A U \in B : ~ (<<U, T>> \in StrictSubsetOrdering(S))
  BY <1>1, WFMin
<1>3. ASSUME NEW U \in B, U \subseteq T, U # T PROVE FALSE
  <2>1. <<U, T>> \in StrictSubsetOrdering(S)
    BY <1>3 DEF StrictSubsetOrdering
  <2>2. QED
    BY <1>2, <2>1
<1>4. QED
  BY <1>3

LEMMA AnyOfIn ==
  ASSUME NEW s, s # {}
  PROVE  AnyOf(s) \in s
BY DEF AnyOf

LEMMA SumUpAt ==
  ASSUME NEW g, NEW w, NEW S, SumUp(g, w, S), NEW s \in SUBSET S
  PROVE  g[s] = IF s = {} THEN 0 ELSE w[AnyOf(s)] + g[s \ {AnyOf(s)}]
BY DEF SumUp, AnyOf

(* Whatever larger sets two sums were made for, and whatever their weights  *)
(* are elsewhere, they agree where the weights agree.                       *)
LEMMA SumsAgree ==
  ASSUME NEW g, NEW v, NEW A, SumUp(g, v, A),
         NEW h, NEW w, NEW B, SumUp(h, w, B),
         NEW S, IsFiniteSet(S), S \subseteq A, S \subseteq B,
         \A x \in S : v[x] = w[x]
  PROVE  g[S] = h[S]
<1> DEFINE Bad == { T \in SUBSET S : g[T] # h[T] }
<1>1. SUFFICES ASSUME Bad # {} PROVE FALSE
  OBVIOUS
<1>2. PICK T \in Bad : \A U \in Bad : U \subseteq T => U = T
  <2>1. Bad \in SUBSET (SUBSET S)
    OBVIOUS
  <2> HIDE DEF Bad
  <2>2. QED
    BY <1>1, <2>1, SmallestSubset
<1>3. T \in SUBSET A /\ T \in SUBSET B /\ T \in SUBSET S /\ g[T] # h[T]
  BY <1>2
<1>4. T # {}
  BY <1>3, SumUpAt
<1> DEFINE U == T \ {AnyOf(T)}
<1>5. AnyOf(T) \in T
  BY <1>4, AnyOfIn
<1>6. U \in SUBSET S /\ U \subseteq T /\ U # T
  BY <1>3, <1>5
<1>7. U \notin Bad
  BY <1>2, <1>6
<1>8. g[U] = h[U]
  BY <1>6, <1>7
<1>9. g[T] = v[AnyOf(T)] + g[U]
  <2>1. g[T] = IF T = {} THEN 0 ELSE v[AnyOf(T)] + g[T \ {AnyOf(T)}]
    BY <1>3, SumUpAt
  <2>2. QED
    BY <1>4, <2>1
<1>10. h[T] = w[AnyOf(T)] + h[U]
  BY <1>3, <1>4, SumUpAt
<1>11. v[AnyOf(T)] = w[AnyOf(T)]
  BY <1>3, <1>5
<1>12. QED
  BY <1>3, <1>8, <1>9, <1>10, <1>11

(* The sum over a finite set exists.                                        *)
LEMMA SumExists ==
  ASSUME NEW w, NEW S, IsFiniteSet(S)
  PROVE  \E g : SumUp(g, w, S)
<1> DEFINE G(T) == CHOOSE g : SumUp(g, w, T)
           Bad == { T \in SUBSET S : ~ SumUp(G(T), w, T) }
<1>0. SUFFICES ASSUME Bad # {} PROVE FALSE
  <2>1. S \in SUBSET S
    OBVIOUS
  <2>2. QED
    BY <1>0, <2>1
<1>1. PICK T \in Bad : \A U \in Bad : U \subseteq T => U = T
  <2> HIDE DEF G
  <2>1. Bad \in SUBSET (SUBSET S)
    OBVIOUS
  <2> HIDE DEF Bad
  <2>2. QED
    BY <1>0, <2>1, SmallestSubset
<1>2. T \in SUBSET S /\ ~ SumUp(G(T), w, T)
  <2> HIDE DEF G
  <2>1. QED
    BY <1>1
<1>3. ASSUME NEW U, U \subseteq T, U # T PROVE SumUp(G(U), w, U)
  <2> HIDE DEF G
  <2>1. QED
    BY <1>1, <1>2, <1>3
<1>f. \A U \in SUBSET S : IsFiniteSet(U)
  BY FS_Subset
<1> DEFINE h == [s \in SUBSET T |->
                   IF s = {} THEN 0
                   ELSE w[AnyOf(s)] + G(s \ {AnyOf(s)})[s \ {AnyOf(s)}]]
<1>h. ~ \E g : SumUp(g, w, T)
  BY <1>2
<1> HIDE DEF G
<1>4. ASSUME NEW U, U \subseteq T, U # T PROVE h[U] = G(U)[U]
  <2>1. SumUp(G(U), w, U) /\ U \in SUBSET U
    BY <1>3, <1>4
  <2>2. CASE U = {}
    <3>1. G(U)[U] = 0
      BY <2>1, <2>2, SumUpAt
    <3>2. QED
      BY <1>4, <2>2, <3>1
  <2>3. CASE U # {}
    <3> DEFINE V == U \ {AnyOf(U)}
    <3>1. AnyOf(U) \in U
      BY <2>3, AnyOfIn
    <3>2. V \subseteq U /\ V \subseteq T /\ V # T /\ V \subseteq V
      BY <1>4, <3>1
    <3>3. SumUp(G(V), w, V)
      BY <1>3, <3>2
    <3>4. IsFiniteSet(V)
      BY <1>2, <1>f, <3>2
    <3>5. G(V)[V] = G(U)[V]
      <4> HIDE DEF V
      <4>1. QED
        BY <2>1, <3>2, <3>3, <3>4, SumsAgree
    <3>6. G(U)[U] = w[AnyOf(U)] + G(U)[V]
      BY <2>1, <2>3, SumUpAt
    <3>7. h[U] = w[AnyOf(U)] + G(V)[V]
      BY <1>4, <2>3
    <3>8. QED
      BY <3>5, <3>6, <3>7
  <2>4. QED
    BY <2>2, <2>3
<1>5. ASSUME NEW s \in SUBSET T, s # {}
      PROVE  h[s \ {AnyOf(s)}] = G(s \ {AnyOf(s)})[s \ {AnyOf(s)}]
  <2>1. AnyOf(s) \in s
    BY <1>5, AnyOfIn
  <2>2. s \ {AnyOf(s)} \subseteq T /\ s \ {AnyOf(s)} # T
    BY <2>1
  <2> HIDE DEF h
  <2>3. QED
    BY <1>4, <2>2
<1>6. \A s \in SUBSET T :
        h[s] = IF s = {} THEN 0 ELSE w[AnyOf(s)] + h[s \ {AnyOf(s)}]
  BY <1>5
<1>7. h = [s \in SUBSET T |-> h[s]]
  OBVIOUS
<1> HIDE DEF h
<1>8. h = [s \in SUBSET T |->
             IF s = {} THEN 0 ELSE w[AnyOf(s)] + h[s \ {AnyOf(s)}]]
  BY <1>6, <1>7
<1>9. SumUp(h, w, T)
  BY <1>8 DEF SumUp, AnyOf
<1>10. QED
  BY <1>h, <1>9

LEMMA TotalSumsUp ==
  ASSUME NEW w, NEW S, IsFiniteSet(S)
  PROVE  \E g : SumUp(g, w, S) /\ Total(w, S) = g[S]
<1> DEFINE it == CHOOSE g : SumUp(g, w, S)
<1>1. SumUp(it, w, S)
  BY SumExists
<1>2. Total(w, S) = it[S]
  BY DEF Total
<1>3. QED
  BY <1>1, <1>2

LEMMA TotalAgrees ==
  ASSUME NEW v, NEW w, NEW S, IsFiniteSet(S), \A x \in S : v[x] = w[x]
  PROVE  Total(v, S) = Total(w, S)
<1>1. PICK g : SumUp(g, v, S) /\ Total(v, S) = g[S]
  BY TotalSumsUp
<1>2. PICK h : SumUp(h, w, S) /\ Total(w, S) = h[S]
  BY TotalSumsUp
<1>3. QED
  BY <1>1, <1>2, SumsAgree

LEMMA TotalEmpty ==
  ASSUME NEW w
  PROVE  Total(w, {}) = 0
<1>1. PICK g : SumUp(g, w, {}) /\ Total(w, {}) = g[{}]
  BY TotalSumsUp, FS_EmptySet
<1>2. QED
  BY <1>1, SumUpAt

LEMMA TotalSplit ==
  ASSUME NEW w, NEW S, IsFiniteSet(S), S # {}
  PROVE  Total(w, S) = w[AnyOf(S)] + Total(w, S \ {AnyOf(S)})
<1> DEFINE U == S \ {AnyOf(S)}
<1>1. PICK g : SumUp(g, w, S) /\ Total(w, S) = g[S]
  BY TotalSumsUp
<1>2. IsFiniteSet(U) /\ U \subseteq S
  BY FS_Subset
<1>3. PICK h : SumUp(h, w, U) /\ Total(w, U) = h[U]
  BY <1>2, TotalSumsUp
<1>4. g[U] = h[U]
  <2> HIDE DEF U
  <2>1. QED
    BY <1>1, <1>2, <1>3, SumsAgree
<1>5. g[S] = w[AnyOf(S)] + g[U]
  BY <1>1, SumUpAt
<1>6. QED
  BY <1>1, <1>3, <1>4, <1>5

LEMMA TotalTyped ==
  ASSUME NEW S, IsFiniteSet(S), NEW w, \A x \in S : w[x] \in Int
  PROVE  Total(w, S) \in Int
<1> DEFINE Bad == { T \in SUBSET S : Total(w, T) \notin Int }
<1>1. SUFFICES ASSUME Bad # {} PROVE FALSE
  OBVIOUS
<1>2. PICK T \in Bad : \A U \in Bad : U \subseteq T => U = T
  <2>1. Bad \in SUBSET (SUBSET S)
    OBVIOUS
  <2> HIDE DEF Bad
  <2>2. QED
    BY <1>1, <2>1, SmallestSubset
<1>3. T \in SUBSET S /\ Total(w, T) \notin Int /\ IsFiniteSet(T)
  BY <1>2, FS_Subset
<1>4. T # {}
  BY <1>3, TotalEmpty
<1> DEFINE U == T \ {AnyOf(T)}
<1>5. AnyOf(T) \in T
  BY <1>4, AnyOfIn
<1>6. Total(w, U) \in Int
  BY <1>2, <1>3, <1>5
<1>7. Total(w, T) = w[AnyOf(T)] + Total(w, U)
  BY <1>3, <1>4, TotalSplit
<1>8. QED
  BY <1>3, <1>5, <1>6, <1>7

(* Any element can be taken out of the sum.                                 *)
LEMMA TotalWithout ==
  ASSUME NEW S, IsFiniteSet(S), NEW w, \A x \in S : w[x] \in Int, NEW y \in S
  PROVE  Total(w, S) = w[y] + Total(w, S \ {y})
<1> DEFINE Wrong(T) == \E x \in T : Total(w, T) # w[x] + Total(w, T \ {x})
           Bad == { T \in SUBSET S : Wrong(T) }
<1>1. SUFFICES ASSUME Bad # {} PROVE FALSE
  OBVIOUS
<1>2. PICK T \in Bad : \A U \in Bad : U \subseteq T => U = T
  <2>1. Bad \in SUBSET (SUBSET S)
    OBVIOUS
  <2> HIDE DEF Bad
  <2>2. QED
    BY <1>1, <2>1, SmallestSubset
<1>3. T \in SUBSET S /\ IsFiniteSet(T) /\ Wrong(T)
  BY <1>2, FS_Subset
<1>4. PICK x \in T : Total(w, T) # w[x] + Total(w, T \ {x})
  BY <1>3
<1> DEFINE c == AnyOf(T)
<1>5. c \in T /\ Total(w, T) = w[c] + Total(w, T \ {c})
  BY <1>3, AnyOfIn, TotalSplit
<1>6. x # c
  BY <1>4, <1>5
<1> HIDE DEF c
<1>7. ~ Wrong(T \ {c}) /\ ~ Wrong(T \ {x})
  BY <1>2, <1>3, <1>4, <1>5
<1>8. Total(w, T \ {c}) = w[x] + Total(w, (T \ {c}) \ {x})
  BY <1>4, <1>6, <1>7
<1>9. Total(w, T \ {x}) = w[c] + Total(w, (T \ {x}) \ {c})
  BY <1>5, <1>6, <1>7
<1>10. (T \ {c}) \ {x} = (T \ {x}) \ {c}
  OBVIOUS
<1>11. Total(w, (T \ {x}) \ {c}) \in Int
  <2>1. IsFiniteSet((T \ {x}) \ {c})
    BY <1>3, FS_Subset
  <2>2. \A z \in (T \ {x}) \ {c} : w[z] \in Int
    BY <1>3
  <2>3. QED
    BY <2>1, <2>2, TotalTyped
<1>12. w[x] \in Int /\ w[c] \in Int
  BY <1>3, <1>4, <1>5
<1>13. Total(w, T) = w[x] + Total(w, T \ {x})
  <2> DEFINE rest == Total(w, (T \ {x}) \ {c})
             a == Total(w, T \ {c})
             b == Total(w, T \ {x})
             m == w[x]
             n == w[c]
  <2>1. /\ a = m + rest /\ b = n + rest /\ Total(w, T) = n + a
        /\ rest \in Int /\ m \in Int /\ n \in Int
    BY <1>5, <1>8, <1>9, <1>10, <1>11, <1>12
  <2> HIDE DEF rest, a, b, m, n
  <2>2. Total(w, T) = m + b
    BY <2>1
  <2>3. QED
    BY <2>2 DEF m, b
<1>14. QED
  BY <1>4, <1>13

SizeOf == [k \in TradeIds |-> orders[k].size]
ResultOf == [k \in TradeIds |-> positions[k].result]

LEMMA FiniteTrades ==
  /\ IsFiniteSet(TradeIds)
  /\ \A S \in SUBSET TradeIds : IsFiniteSet(S)
<1>1. IsFiniteSet(TradeIds)
  BY FS_Interval, PaperAssumption DEF TradeIds
<1>2. QED
  BY <1>1, FS_Subset

(* The exposure that the gross check reads is the sum over the open         *)
(* positions of the sizes of their orders.                                  *)
LEMMA GrossIsTotal == Gross = Total(SizeOf, Open)
<1> DEFINE Solves(g) == g = [s \in SUBSET Open |->
             IF s = {} THEN 0
             ELSE orders[CHOOSE x \in s : TRUE].size
                    + g[s \ {CHOOSE x \in s : TRUE}]]
           it == CHOOSE g : Solves(g)
<1>1. Open \subseteq TradeIds /\ IsFiniteSet(Open)
  BY FiniteTrades DEF Open
<1>2. ASSUME NEW g PROVE SumUp(g, SizeOf, Open) <=> Solves(g)
  <2>1. \A s \in SUBSET Open : s # {} =>
          SizeOf[CHOOSE x \in s : TRUE] = orders[CHOOSE x \in s : TRUE].size
    <3>1. \A s \in SUBSET Open : s # {} => AnyOf(s) \in TradeIds
      BY <1>1, AnyOfIn
    <3>2. QED
      BY <3>1 DEF SizeOf, AnyOf
  <2> DEFINE f == [s \in SUBSET Open |->
                     IF s = {} THEN 0
                     ELSE SizeOf[CHOOSE x \in s : TRUE]
                            + g[s \ {CHOOSE x \in s : TRUE}]]
             h == [s \in SUBSET Open |->
                     IF s = {} THEN 0
                     ELSE orders[CHOOSE x \in s : TRUE].size
                            + g[s \ {CHOOSE x \in s : TRUE}]]
  <2>2. f = h
    BY <2>1
  <2>3. QED
    BY <2>2 DEF SumUp
<1>3. Gross = it[Open]
  BY DEF Gross, MapThenSumSet, MapThenFoldSet
<1>4. \E g : Solves(g)
  <2> HIDE DEF Solves
  <2>1. QED
    BY <1>1, <1>2, SumExists
<1>5. Solves(it)
  <2> HIDE DEF Solves
  <2>1. QED
    BY <1>4
<1>6. SumUp(it, SizeOf, Open)
  <2> HIDE DEF it, Solves
  <2>1. QED
    BY <1>2, <1>5
<1>7. PICK g : SumUp(g, SizeOf, Open) /\ Total(SizeOf, Open) = g[Open]
  BY <1>1, TotalSumsUp
<1>8. it[Open] = g[Open]
  <2> HIDE DEF it
  <2>1. QED
    BY <1>1, <1>6, <1>7, SumsAgree
<1>9. QED
  BY <1>3, <1>7, <1>8

LEMMA RealizedIsTotal == RealizedToday = Total(ResultOf, ClosedToday)
<1> DEFINE Solves(g) == g = [s \in SUBSET ClosedToday |->
             IF s = {} THEN 0
             ELSE positions[CHOOSE x \in s : TRUE].result
                    + g[s \ {CHOOSE x \in s : TRUE}]]
           it == CHOOSE g : Solves(g)
<1>1. ClosedToday \subseteq TradeIds /\ IsFiniteSet(ClosedToday)
  BY FiniteTrades DEF ClosedToday
<1>2. ASSUME NEW g PROVE SumUp(g, ResultOf, ClosedToday) <=> Solves(g)
  <2>1. \A s \in SUBSET ClosedToday : s # {} =>
          ResultOf[CHOOSE x \in s : TRUE] = positions[CHOOSE x \in s : TRUE].result
    <3>1. \A s \in SUBSET ClosedToday : s # {} => AnyOf(s) \in TradeIds
      BY <1>1, AnyOfIn
    <3>2. QED
      BY <3>1 DEF ResultOf, AnyOf
  <2> DEFINE f == [s \in SUBSET ClosedToday |->
                     IF s = {} THEN 0
                     ELSE ResultOf[CHOOSE x \in s : TRUE]
                            + g[s \ {CHOOSE x \in s : TRUE}]]
             h == [s \in SUBSET ClosedToday |->
                     IF s = {} THEN 0
                     ELSE positions[CHOOSE x \in s : TRUE].result
                            + g[s \ {CHOOSE x \in s : TRUE}]]
  <2>2. f = h
    BY <2>1
  <2>3. QED
    BY <2>2 DEF SumUp
<1>3. RealizedToday = it[ClosedToday]
  BY DEF RealizedToday, MapThenSumSet, MapThenFoldSet
<1>4. \E g : Solves(g)
  <2> HIDE DEF Solves
  <2>1. QED
    BY <1>1, <1>2, SumExists
<1>5. Solves(it)
  <2> HIDE DEF Solves
  <2>1. QED
    BY <1>4
<1>6. SumUp(it, ResultOf, ClosedToday)
  <2> HIDE DEF it, Solves
  <2>1. QED
    BY <1>2, <1>5
<1>7. PICK g : SumUp(g, ResultOf, ClosedToday) /\ Total(ResultOf, ClosedToday) = g[ClosedToday]
  BY <1>1, TotalSumsUp
<1>8. it[ClosedToday] = g[ClosedToday]
  <2> HIDE DEF it
  <2>1. QED
    BY <1>1, <1>6, <1>7, SumsAgree
<1>9. QED
  BY <1>3, <1>7, <1>8

SumsAreTotals ==
  /\ Gross = Total(SizeOf, Open)
  /\ RealizedToday = Total(ResultOf, ClosedToday)

LEMMA SumsAre == SumsAreTotals
BY GrossIsTotal, RealizedIsTotal DEF SumsAreTotals

LEMMA SumsAreNext == SumsAreTotals'
BY SumsAre, PTL

(* What was realized today depends on the positions closed today only.      *)
LEMMA LossUnchanged ==
  ASSUME ClosedToday' = ClosedToday,
         \A k \in ClosedToday : positions'[k].result = positions[k].result
  PROVE  LossReached' = LossReached
<1>1. ClosedToday \subseteq TradeIds /\ IsFiniteSet(ClosedToday)
  BY FiniteTrades DEF ClosedToday
<1>2. \A k \in ClosedToday : ResultOf'[k] = ResultOf[k]
  BY <1>1 DEF ResultOf
<1>3. Total(ResultOf', ClosedToday) = Total(ResultOf, ClosedToday)
  BY <1>1, <1>2, TotalAgrees
<1>4. RealizedToday' = Total(ResultOf', ClosedToday')
  BY SumsAreNext DEF SumsAreTotals
<1>5. RealizedToday' = RealizedToday
  BY <1>3, <1>4, SumsAre DEF SumsAreTotals
<1>6. QED
  BY <1>5 DEF LossReached

LEMMA LossOfPositions ==
  ASSUME UNCHANGED <<positions, day>>
  PROVE  LossReached' = LossReached
<1>1. ClosedToday' = ClosedToday
  BY DEF ClosedToday
<1>2. QED
  BY <1>1, LossUnchanged

-----------------------------------------------------------------------------
(* The limits freeze the book *)

CapFreezes == AtCap => (AtCap' /\ positions' = positions) \/ KillSwitch

LossFreezes == AtLoss => (AtLoss' /\ positions' = positions) \/ KillSwitch \/ NewDay

FreezeStep ==
  /\ AtCap => (AtCap' /\ positions' = positions) \/ KillSwitch
  /\ AtLoss => (AtLoss' /\ positions' = positions) \/ KillSwitch \/ NewDay

LEMMA CapFreezesStep ==
  ASSUME PaperTypeOK, [PaperNext]_paperVars
  PROVE  CapFreezes
<1> SUFFICES ASSUME AtCap, ~ KillSwitch
             PROVE  AtCap' /\ positions' = positions
  BY DEF CapFreezes
<1> DEFINE Early == {"idle", "check", "load", "next", "count"}
<1>1. /\ OpenCount >= MaxOpen
      /\ \A r \in Runners : run[r].pc \in Early
  BY DEF AtCap
<1>2. ~ (OpenCount < MaxOpen)
  BY <1>1, FiniteBook DEF OpenCount
<1>3. ASSUME positions' = positions, \A r \in Runners : run'[r].pc \in Early
      PROVE  AtCap'
  <2>1. OpenCount' = OpenCount
    BY <1>3 DEF OpenCount, Open
  <2>2. QED
    BY <1>1, <1>3, <2>1 DEF AtCap
<1>4. CASE OutsideEffect
  BY <1>1, <1>3, <1>4 DEF OutsideEffect
<1>5. ASSUME NEW r \in Runners, TickFrame(r), positions' = positions,
             run'[r].pc \in Early
      PROVE  AtCap' /\ positions' = positions
  BY <1>1, <1>3, <1>5 DEF TickFrame
<1>6. ASSUME NEW r \in Runners, ReadsBar(r) \/ Dies(r)
      PROVE  AtCap' /\ positions' = positions
  BY <1>5, <1>6 DEF ReadsBar, Dies, UnchangedBook, IdleRun
<1>7. ASSUME NEW r \in Runners, TickFrame(r), TickEffect(r)
      PROVE  AtCap' /\ positions' = positions
  <2>1. positions' = positions /\ run'[r].pc \in Early
    BY <1>1, <1>2, <1>7
    DEF TickEffect, GoesIdle, MovesOn, EndsTarget, Takes, Keeps, Closes,
        Manages, Submits, Fills, Opens, UnchangedBook, IdleRun, Fresh
  <2>2. QED
    BY <1>5, <1>7, <2>1
<1>8. QED
  BY <1>4, <1>6, <1>7, NextEffects

LEMMA LossFreezesStep ==
  ASSUME PaperTypeOK, [PaperNext]_paperVars
  PROVE  LossFreezes
<1> SUFFICES ASSUME AtLoss, ~ KillSwitch, ~ NewDay
             PROVE  AtLoss' /\ positions' = positions
  BY DEF LossFreezes
<1> DEFINE Late == {"manage", "order", "fill"}
<1>1. /\ LossReached
      /\ \A r \in Runners : run[r].pc \notin Late
  BY DEF AtLoss
<1>3. ASSUME positions' = positions, day' = day,
             \A r \in Runners : run'[r].pc \notin Late
      PROVE  AtLoss'
  <2>1. LossReached'
    BY <1>1, <1>3, LossOfPositions
  <2>2. QED
    BY <1>3, <2>1 DEF AtLoss
<1>4. CASE OutsideEffect
  BY <1>1, <1>3, <1>4 DEF OutsideEffect
<1>5. ASSUME NEW r \in Runners, TickFrame(r), positions' = positions,
             run'[r].pc \notin Late
      PROVE  AtLoss' /\ positions' = positions
  BY <1>1, <1>3, <1>5 DEF TickFrame
<1>6. ASSUME NEW r \in Runners, ReadsBar(r) \/ Dies(r)
      PROVE  AtLoss' /\ positions' = positions
  BY <1>5, <1>6 DEF ReadsBar, Dies, UnchangedBook, IdleRun
<1>7. ASSUME NEW r \in Runners, TickFrame(r), TickEffect(r)
      PROVE  AtLoss' /\ positions' = positions
  <2>1. positions' = positions /\ run'[r].pc \notin Late
    BY <1>1, <1>7
    DEF TickEffect, GoesIdle, MovesOn, EndsTarget, Takes, Keeps, Closes,
        Manages, Submits, Fills, Opens, UnchangedBook, IdleRun, Fresh
  <2>2. QED
    BY <1>5, <1>7, <2>1
<1>8. QED
  BY <1>4, <1>6, <1>7, NextEffects

(* At the position cap, and once the loss limit is reached, the risk checks *)
(* end every target before its positions are looked at, so no stop, take or *)
(* flip is executed any more: nothing but the kill switch changes a         *)
(* position, or, for the loss, the next day, with any number of processes.  *)
THEOREM LimitsFreeze == PaperSpec => LimitsFreezeTheBook
<1>1. PaperTypeOK /\ [PaperNext]_paperVars => [FreezeStep]_paperVars
  BY CapFreezesStep, LossFreezesStep DEF FreezeStep, CapFreezes, LossFreezes
<1>2. PaperSpec => [][FreezeStep]_paperVars
  BY <1>1, PaperTypeCorrect, PTL DEF PaperSpec
<1>3. QED
  BY <1>2 DEF LimitsFreezeTheBook, FreezeStep

-----------------------------------------------------------------------------
(* Closes *)

(* The runners that may still close position k.                             *)
Holders(k) == { r \in Runners : k \in run[r].held }

(* A runner takes a position into its hands only while it is open, and lets *)
(* it go when it closes it.                                                 *)
ClosesInv ==
  \A k \in TradeIds :
    /\ positions[k].status # "closed" => closes[k] = 0
    /\ closes[k] + Cardinality(Holders(k)) <= Cardinality(Runners) + 1

LEMMA HoldersFinite ==
  ASSUME NEW k
  PROVE  /\ Holders(k) \in SUBSET Runners /\ Holders(k)' \in SUBSET Runners
         /\ Cardinality(Holders(k)) \in Nat
         /\ Cardinality(Holders(k)') \in Nat
         /\ Cardinality(Holders(k)) <= Cardinality(Runners)
         /\ Cardinality(Holders(k)') <= Cardinality(Runners)
         /\ Cardinality(Runners) \in Nat
<1>1. Holders(k) \in SUBSET Runners /\ Holders(k)' \in SUBSET Runners
  BY DEF Holders
<1>2. QED
  BY <1>1, FiniteRunners

(* A position that nobody closes, and that no runner takes, unless it was   *)
(* never closed.                                                            *)
LEMMA ClosesKept ==
  ASSUME PaperTypeOK, ClosesInv, NEW k \in TradeIds,
         closes'[k] = closes[k],
         positions'[k].status # "closed" => closes[k] = 0,
         Holders(k)' \subseteq Holders(k) \/ closes[k] = 0
  PROVE  /\ positions'[k].status # "closed" => closes'[k] = 0
         /\ closes'[k] + Cardinality(Holders(k)') <= Cardinality(Runners) + 1
<1>1. CASE closes[k] = 0
  BY <1>1, HoldersFinite
<1>2. CASE Holders(k)' \subseteq Holders(k)
  <2>1. Cardinality(Holders(k)') <= Cardinality(Holders(k))
    BY <1>2, HoldersFinite, FewerRunners
  <2>2. closes[k] \in Nat
    BY DEF PaperTypeOK
  <2>3. closes[k] + Cardinality(Holders(k)) <= Cardinality(Runners) + 1
    BY DEF ClosesInv
  <2>4. QED
    BY <2>1, <2>2, <2>3, HoldersFinite
<1>3. QED
  BY <1>1, <1>2

LEMMA ClosesStep ==
  ASSUME PaperTypeOK, HoldInv, ClosesInv, [PaperNext]_paperVars
  PROVE  ClosesInv'
<1> DEFINE Good(k) == /\ positions'[k].status # "closed" => closes'[k] = 0
                      /\ closes'[k] + Cardinality(Holders(k)') <= Cardinality(Runners) + 1
<1>g. ASSUME \A k \in TradeIds : Good(k) PROVE ClosesInv'
  BY <1>g DEF ClosesInv
<1>i. \A k \in TradeIds : positions[k].status # "closed" => closes[k] = 0
  BY DEF ClosesInv
<1>c. \A k \in TradeIds : closes[k] \in Nat
  BY DEF PaperTypeOK
<1>1. ASSUME NEW r \in Runners, \A q \in Runners \ {r} : run'[q] = run[q],
             UNCHANGED <<positions, closes>>, run'[r].held \subseteq run[r].held
      PROVE  ClosesInv'
  <2>1. \A k \in TradeIds : Holders(k)' \subseteq Holders(k)
    BY <1>1 DEF Holders
  <2>2. \A k \in TradeIds : Good(k)
    BY <1>1, <1>i, <2>1, ClosesKept
  <2>3. QED
    BY <1>g, <2>2
<1>2. CASE OutsideEffect
  <2>1. \A k \in TradeIds : Holders(k)' = Holders(k)
    BY <1>2 DEF OutsideEffect, Holders
  <2>2. \A k \in TradeIds : Good(k)
    BY <1>2, <1>i, <2>1, ClosesKept DEF OutsideEffect
  <2>3. QED
    BY <1>g, <2>2
<1>3. CASE KillSwitch
  <2>1. \A k \in TradeIds : Holders(k)' = Holders(k)
    BY <1>3, KillEffects DEF Holders
  <2>2. ASSUME NEW k \in Open PROVE Good(k)
    <3>1. k \in TradeIds /\ closes[k] = 0
      BY <1>i DEF Open
    <3>2. closes'[k] = 1 /\ positions'[k].status = "closed"
      BY <1>3, <3>1, KillEffects
    <3>3. QED
      BY <3>2, HoldersFinite
  <2>3. ASSUME NEW k \in TradeIds \ Open PROVE Good(k)
    <3>1. positions'[k] = positions[k] /\ closes'[k] = closes[k]
      BY <1>3, KillEffects
    <3>2. QED
      BY <1>i, <2>1, <3>1, ClosesKept
  <2>4. QED
    BY <1>g, <2>2, <2>3
<1>4. ASSUME NEW r \in Runners, ReadsBar(r) \/ Dies(r) PROVE ClosesInv'
  BY <1>1, <1>4 DEF ReadsBar, Dies, UnchangedBook, TickFrame, IdleRun
<1>5. ASSUME NEW r \in Runners, TickFrame(r), TickEffect(r) PROVE ClosesInv'
  <2>f. \A q \in Runners \ {r} : run'[q] = run[q]
    BY <1>5 DEF TickFrame
  <2>1. CASE GoesIdle(r) \/ MovesOn(r) \/ EndsTarget(r)
    BY <1>1, <2>1, <2>f
    DEF GoesIdle, MovesOn, EndsTarget, Fresh, UnchangedBook, IdleRun
  <2>2. CASE Takes(r)
    <3>1. \A k \in TradeIds : k \in run'[r].held => positions[k].status = "open"
      BY <2>2 DEF Takes, OpenOf, Open
    <3>2. UNCHANGED <<positions, closes>>
      BY <2>2 DEF Takes, UnchangedBook
    <3>3. ASSUME NEW k \in TradeIds PROVE Good(k)
      <4>1. Holders(k)' \subseteq Holders(k) \/ closes[k] = 0
        BY <2>f, <3>1, <1>i DEF Holders
      <4>2. QED
        BY <1>i, <3>2, <4>1, ClosesKept
    <3>4. QED
      BY <1>g, <3>3
  <2>3. ASSUME NEW k \in TradeIds, Keeps(r, k) PROVE ClosesInv'
    BY <1>1, <2>3, <2>f DEF Keeps, Manages, UnchangedBook
  <2>4. ASSUME NEW k \in TradeIds, NEW x \in Results, Closes(r, k, x)
        PROVE  ClosesInv'
    <3>1. /\ k \in run[r].held /\ run'[r].held = run[r].held \ {k}
          /\ positions'[k].status = "closed" /\ closes'[k] = closes[k] + 1
          /\ \A l \in TradeIds \ {k} :
               positions'[l] = positions[l] /\ closes'[l] = closes[l]
      BY <2>4 DEF Closes, Manages, PaperTypeOK
    <3>2. Good(k)
      <4>1. r \in Holders(k) /\ Holders(k)' \in SUBSET (Holders(k) \ {r})
        BY <2>f, <3>1 DEF Holders
      <4>2. Cardinality(Holders(k)') <= Cardinality(Holders(k)) - 1
        BY <4>1, HoldersFinite, OneRunnerFewer
      <4>3. closes[k] + Cardinality(Holders(k)) <= Cardinality(Runners) + 1
        BY DEF ClosesInv
      <4>4. QED
        BY <3>1, <4>2, <4>3, <1>c, HoldersFinite
    <3>3. ASSUME NEW l \in TradeIds \ {k} PROVE Good(l)
      <4>1. Holders(l)' \subseteq Holders(l)
        BY <2>f, <3>1 DEF Holders
      <4>2. QED
        BY <1>i, <3>1, <4>1, ClosesKept
    <3>4. QED
      BY <1>g, <3>2, <3>3
  <2>5. CASE Fills(r) \/ \E k \in TradeIds, n \in Sizes : Submits(r, k, n)
    BY <1>1, <2>5, <2>f DEF Fills, Submits
  <2>6. CASE Opens(r)
    <3>1. PICK k \in TradeIds : k = run[r].trade
      BY <2>6 DEF Opens, HoldInv, Carried, PaperTypeOK, Runs
    <3>2. positions[k].status = "absent"
      BY <2>6, <3>1 DEF Opens, HoldInv, Carried, TradeIds
    <3>3. /\ positions'[k].status = "open" /\ closes' = closes
          /\ \A l \in TradeIds \ {k} : positions'[l] = positions[l]
          /\ run'[r].held = {}
      BY <2>6, <3>1 DEF Opens, Fresh, PaperTypeOK
    <3>4. ASSUME NEW l \in TradeIds PROVE Good(l)
      <4>1. Holders(l)' \subseteq Holders(l)
        BY <2>f, <3>3 DEF Holders
      <4>2. QED
        BY <1>i, <3>2, <3>3, <4>1, ClosesKept
    <3>5. QED
      BY <1>g, <3>4
  <2>7. QED
    BY <1>5, <2>1, <2>2, <2>3, <2>4, <2>5, <2>6 DEF TickEffect
<1>6. QED
  BY <1>2, <1>3, <1>4, <1>5, NextEffects

(* close_position updates a position by its id and does not look at         *)
(* closed_at.  Still no position is closed more often than once by each     *)
(* process and once by the kill switch, wherever ticks die and start again: *)
(* the position was open when a runner read it, and is read by nobody once  *)
(* it is closed.                                                            *)
THEOREM ClosesStayBounded == PaperSpec => []ClosesBounded
<1>1. PaperInit => ClosesInv
  <2> SUFFICES ASSUME PaperInit PROVE ClosesInv
    OBVIOUS
  <2>1. \A k \in TradeIds : closes[k] = 0
    BY DEF PaperInit
  <2>2. QED
    BY <2>1, HoldersFinite DEF ClosesInv
<1>2. PaperTypeOK /\ HoldInv /\ ClosesInv /\ [PaperNext]_paperVars => ClosesInv'
  BY ClosesStep
<1>3. PaperTypeOK /\ ClosesInv => ClosesBounded
  <2> SUFFICES ASSUME PaperTypeOK, ClosesInv, NEW k \in TradeIds
               PROVE  closes[k] <= Cardinality(Runners) + 1
    BY DEF ClosesBounded
  <2>1. closes[k] + Cardinality(Holders(k)) <= Cardinality(Runners) + 1
    BY DEF ClosesInv
  <2>2. closes[k] \in Nat
    BY DEF PaperTypeOK
  <2>3. QED
    BY <2>1, <2>2, HoldersFinite
<1>4. QED
  BY <1>1, <1>2, <1>3, Holds, PaperTypeCorrect, PTL DEF PaperSpec

-----------------------------------------------------------------------------
(* Orders after the loss limit *)

(* The runners whose loss check is behind them, and who have not submitted. *)
Managing == { r \in Runners : run[r].pc = "manage" }

LateInv ==
  /\ ~ LossReached => late = 0
  /\ late + Cardinality(Managing) <= Cardinality(Runners)

LEMMA ManagingFinite ==
  /\ Managing \in SUBSET Runners /\ Managing' \in SUBSET Runners
  /\ Cardinality(Managing) \in Nat /\ Cardinality(Managing') \in Nat
  /\ Cardinality(Managing) <= Cardinality(Runners)
  /\ Cardinality(Managing') <= Cardinality(Runners)
  /\ Cardinality(Runners) \in Nat
<1>1. Managing \in SUBSET Runners /\ Managing' \in SUBSET Runners
  BY DEF Managing
<1>2. QED
  BY <1>1, FiniteRunners

(* Positions closed at zero do not change what was realized.                *)
LEMMA TotalOfZeros ==
  ASSUME NEW w, NEW S, NEW Z, IsFiniteSet(S \cup Z),
         \A x \in S : w[x] \in Int, \A x \in Z \ S : w[x] = 0
  PROVE  Total(w, S \cup Z) = Total(w, S)
<1> DEFINE Bad == { U \in SUBSET (Z \ S) : Total(w, S \cup U) # Total(w, S) }
<1>f. IsFiniteSet(Z \ S) /\ \A U \in SUBSET (Z \ S) : IsFiniteSet(S \cup U)
  <2>1. (Z \ S) \in SUBSET (S \cup Z) /\ \A U \in SUBSET (Z \ S) : (S \cup U) \in SUBSET (S \cup Z)
    OBVIOUS
  <2>2. QED
    BY <2>1, FS_Subset
<1>1. SUFFICES ASSUME Bad # {} PROVE FALSE
  <2>1. (Z \ S) \notin Bad => Total(w, S \cup (Z \ S)) = Total(w, S)
    OBVIOUS
  <2>2. S \cup (Z \ S) = S \cup Z
    OBVIOUS
  <2> HIDE DEF Bad
  <2>3. QED
    BY <1>1, <2>1, <2>2
<1>2. PICK U \in Bad : \A V \in Bad : V \subseteq U => V = U
  <2>1. Bad \in SUBSET (SUBSET (Z \ S))
    OBVIOUS
  <2> HIDE DEF Bad
  <2>2. QED
    BY <1>1, <1>f, <2>1, SmallestSubset
<1>3. U \in SUBSET (Z \ S) /\ Total(w, S \cup U) # Total(w, S)
  BY <1>2
<1>4. U # {}
  <2>1. S \cup {} = S
    OBVIOUS
  <2>2. QED
    BY <1>3, <2>1
<1>5. PICK x \in U : TRUE
  BY <1>4
<1>6. U \ {x} \notin Bad
  BY <1>2, <1>5
<1>7. Total(w, S \cup (U \ {x})) = Total(w, S)
  BY <1>3, <1>6
<1>8. (S \cup U) \ {x} = S \cup (U \ {x})
  BY <1>3, <1>5
<1>9. \A y \in S \cup U : w[y] \in Int
  BY <1>3
<1>10. x \in S \cup U /\ IsFiniteSet(S \cup U)
  BY <1>3, <1>5, <1>f
<1>11. Total(w, S \cup U) = w[x] + Total(w, (S \cup U) \ {x})
  BY <1>9, <1>10, TotalWithout
<1>12. Total(w, S) \in Int
  <2>1. IsFiniteSet(S)
    BY <1>f, FS_Subset
  <2>2. QED
    BY <2>1, TotalTyped
<1>13. w[x] = 0
  BY <1>3, <1>5
<1>14. Total(w, S \cup U) = 0 + Total(w, S)
  BY <1>7, <1>8, <1>11, <1>13
<1>15. QED
  <2> DEFINE t == Total(w, S)
  <2>1. t \in Int /\ Total(w, S \cup U) = 0 + t
    BY <1>12, <1>14
  <2> HIDE DEF t
  <2>2. Total(w, S \cup U) = t
    BY <2>1
  <2>3. QED
    BY <1>3, <2>2 DEF t

(* The kill switch realizes nothing.                                        *)
LEMMA KillRealizesNothing ==
  ASSUME PaperTypeOK, KillSwitch
  PROVE  LossReached' = LossReached
<1>1. /\ day' = day
      /\ \A k \in Open : positions'[k].status = "closed" /\ positions'[k].result = 0
      /\ \A k \in TradeIds \ Open : positions'[k] = positions[k]
  BY KillEffects
<1>d. \A k \in Open : positions'[k].day = day
  BY DEF KillSwitch, Open
<1>2. ClosedToday' = ClosedToday \cup Open
  BY <1>1, <1>d DEF ClosedToday, Open
<1>3. /\ ClosedToday \subseteq TradeIds /\ Open \subseteq TradeIds
      /\ ClosedToday \cap Open = {}
  BY DEF ClosedToday, Open
<1>4. /\ IsFiniteSet(ClosedToday) /\ IsFiniteSet(ClosedToday \cup Open)
  <2>1. ClosedToday \cup Open \in SUBSET TradeIds
    BY <1>3
  <2>2. QED
    BY <1>3, <2>1, FiniteTrades
<1>5. \A k \in ClosedToday : /\ ResultOf'[k] = ResultOf[k]
                             /\ ResultOf'[k] \in Int
  BY <1>1, <1>3 DEF ResultOf, PaperTypeOK, Positions
<1>6. \A k \in Open \ ClosedToday : ResultOf'[k] = 0
  BY <1>1, <1>3 DEF ResultOf
<1>7. Total(ResultOf', ClosedToday \cup Open) = Total(ResultOf', ClosedToday)
  BY <1>4, <1>5, <1>6, TotalOfZeros
<1>8. Total(ResultOf', ClosedToday) = Total(ResultOf, ClosedToday)
  BY <1>4, <1>5, TotalAgrees
<1>9. RealizedToday' = RealizedToday
  BY <1>2, <1>7, <1>8, SumsAre, SumsAreNext DEF SumsAreTotals
<1>10. QED
  BY <1>9 DEF LossReached

LEMMA LateKept ==
  ASSUME PaperTypeOK, LateInv, LossReached' = LossReached, late' = late,
         Managing' \subseteq Managing \/ ~ LossReached
  PROVE  LateInv'
<1>1. CASE ~ LossReached
  BY <1>1, ManagingFinite DEF LateInv
<1>2. CASE Managing' \subseteq Managing
  <2>1. Cardinality(Managing') <= Cardinality(Managing)
    BY <1>2, ManagingFinite, FewerRunners
  <2>2. late \in Nat
    BY DEF PaperTypeOK
  <2>3. QED
    BY <2>1, <2>2, ManagingFinite DEF LateInv
<1>3. QED
  BY <1>1, <1>2

LEMMA LateStep ==
  ASSUME PaperTypeOK, HoldInv, LateInv, [PaperNext]_paperVars
  PROVE  LateInv'
<1>0. ASSUME late' = 0 PROVE LateInv'
  BY <1>0, ManagingFinite DEF LateInv
<1>1. CASE OutsideEffect
  <2>1. CASE NewDay
    BY <1>0, <2>1 DEF NewDay
  <2>2. CASE UNCHANGED <<positions, day, late, run>>
    <3>1. Managing' = Managing
      BY <2>2 DEF Managing
    <3>2. LossReached' = LossReached
      BY <2>2, LossOfPositions
    <3>3. QED
      BY <2>2, <3>1, <3>2, LateKept
  <2>3. QED
    BY <1>1, <2>1, <2>2 DEF OutsideEffect
<1>2. CASE KillSwitch
  <2>1. Managing' = Managing /\ late' = late
    BY <1>2, KillEffects DEF Managing
  <2>2. QED
    BY <1>2, <2>1, KillRealizesNothing, LateKept
<1>3. ASSUME NEW r \in Runners, \A q \in Runners \ {r} : run'[q] = run[q],
             UNCHANGED <<positions, day, late>>,
             run'[r].pc # "manage" \/ run[r].pc = "manage" \/ ~ LossReached
      PROVE  LateInv'
  <2>1. LossReached' = LossReached
    BY <1>3, LossOfPositions
  <2>2. Managing' \subseteq Managing \/ ~ LossReached
    BY <1>3 DEF Managing
  <2>3. QED
    BY <1>3, <2>1, <2>2, LateKept
<1>4. ASSUME NEW r \in Runners, ReadsBar(r) \/ Dies(r) PROVE LateInv'
  BY <1>3, <1>4 DEF ReadsBar, Dies, UnchangedBook, TickFrame, IdleRun
<1>5. ASSUME NEW r \in Runners, TickFrame(r), TickEffect(r) PROVE LateInv'
  <2>f. day' = day /\ \A q \in Runners \ {r} : run'[q] = run[q]
    BY <1>5 DEF TickFrame
  <2>1. CASE GoesIdle(r) \/ MovesOn(r) \/ EndsTarget(r) \/ Takes(r) \/ Fills(r)
             \/ \E k \in TradeIds : Keeps(r, k)
    BY <1>3, <2>1, <2>f
    DEF GoesIdle, MovesOn, EndsTarget, Takes, Fills, Keeps, Manages, Fresh,
        UnchangedBook, IdleRun
  <2>2. ASSUME NEW k \in TradeIds, NEW x \in Results, Closes(r, k, x)
        PROVE  LateInv'
    <3>1. /\ late' = IF LossReached' THEN late ELSE 0
          /\ run[r].pc = "manage" /\ run'[r].pc = "manage"
      BY <2>2 DEF Closes, Manages
    <3>2. Managing' = Managing
      BY <2>f, <3>1 DEF Managing
    <3>3. CASE LossReached' /\ late' = late
      BY <3>2, <3>3 DEF LateInv
    <3>4. QED
      BY <1>0, <3>1, <3>3
  <2>3. ASSUME NEW k \in TradeIds, NEW n \in Sizes, Submits(r, k, n)
        PROVE  LateInv'
    <3>1. /\ late' = IF LossReached THEN late + 1 ELSE late
          /\ run[r].pc = "manage" /\ run'[r].pc = "order" /\ positions' = positions
      BY <2>3 DEF Submits
    <3>2. r \in Managing /\ Managing' \in SUBSET (Managing \ {r})
      BY <2>f, <3>1 DEF Managing
    <3>3. Cardinality(Managing') <= Cardinality(Managing) - 1
      BY <3>2, ManagingFinite, OneRunnerFewer
    <3>4. LossReached' = LossReached
      BY <2>f, <3>1, LossOfPositions
    <3>5. late \in Nat
      BY DEF PaperTypeOK
    <3>6. QED
      BY <3>1, <3>3, <3>4, <3>5, ManagingFinite DEF LateInv
  <2>4. CASE Opens(r)
    <3>1. PICK k \in TradeIds : k = run[r].trade
      BY <2>4 DEF Opens, HoldInv, Carried, PaperTypeOK, Runs
    <3>2. positions[k].status = "absent"
      BY <2>4, <3>1 DEF Opens, HoldInv, Carried, TradeIds
    <3>3. /\ positions'[k].status = "open" /\ late' = late
          /\ \A l \in TradeIds \ {k} : positions'[l] = positions[l]
          /\ run'[r].pc = "next"
      BY <2>4, <3>1 DEF Opens, Fresh, PaperTypeOK
    <3>4. ClosedToday' = ClosedToday
      BY <2>f, <3>2, <3>3 DEF ClosedToday
    <3>5. \A l \in ClosedToday : positions'[l].result = positions[l].result
      BY <3>2, <3>3 DEF ClosedToday
    <3>6. LossReached' = LossReached
      BY <3>4, <3>5, LossUnchanged
    <3>7. Managing' \subseteq Managing
      BY <2>f, <3>3 DEF Managing
    <3>8. QED
      BY <3>3, <3>6, <3>7, LateKept
  <2>5. QED
    BY <1>5, <2>1, <2>2, <2>3, <2>4 DEF TickEffect
<1>6. QED
  BY <1>1, <1>2, <1>4, <1>5, NextEffects

(* The loss limit is read once, before the order is made.  Once it is       *)
(* reached each process submits one more order at most, the one its check   *)
(* came too early for, until the day ends or a close lifts the loss: dying  *)
(* and starting again does not give a process another one, and the kill     *)
(* switch, which realizes nothing, does not either.                         *)
THEOREM LateOrdersStayBounded == PaperSpec => []LateOrdersBounded
<1>1. PaperInit => LateInv
  BY ManagingFinite DEF PaperInit, LateInv
<1>2. PaperTypeOK /\ HoldInv /\ LateInv /\ [PaperNext]_paperVars => LateInv'
  BY LateStep
<1>3. PaperTypeOK /\ LateInv => LateOrdersBounded
  BY ManagingFinite DEF PaperTypeOK, LateInv, LateOrdersBounded
<1>4. QED
  BY <1>1, <1>2, <1>3, Holds, PaperTypeCorrect, PTL DEF PaperSpec

-----------------------------------------------------------------------------
(* The exposure limit *)

LEMMA LargestIsLargest ==
  ASSUME IsFiniteSet(Sizes), Sizes # {}
  PROVE  LargestSize \in Sizes /\ \A m \in Sizes : m <= LargestSize
<1> DEFINE Tops(T) == { n \in T : \A m \in T : m <= n }
           Bad == { T \in SUBSET Sizes : T # {} /\ Tops(T) = {} }
<1>1. Bad = {}
  <2> SUFFICES ASSUME Bad # {} PROVE FALSE
    OBVIOUS
  <2>1. PICK T \in Bad : \A U \in Bad : U \subseteq T => U = T
    <3>1. Bad \in SUBSET (SUBSET Sizes)
      OBVIOUS
    <3> HIDE DEF Bad
    <3>2. QED
      BY <3>1, SmallestSubset
  <2>2. T \in SUBSET Sizes /\ T # {} /\ Tops(T) = {}
    BY <2>1
  <2>3. T \subseteq Nat
    BY <2>2, PaperAssumption
  <2>4. PICK x \in T : TRUE
    BY <2>2
  <2>5. T \ {x} \notin Bad
    BY <2>1, <2>4
  <2>6. CASE T \ {x} = {}
    <3>1. x \in Tops(T)
      BY <2>3, <2>4, <2>6
    <3>2. QED
      BY <2>2, <3>1
  <2>7. CASE T \ {x} # {}
    <3>1. PICK y \in T \ {x} : \A m \in T \ {x} : m <= y
      BY <2>2, <2>5, <2>7
    <3>2. x \in Nat /\ y \in Nat /\ \A m \in T : m \in Nat
      BY <2>3, <2>4, <3>1
    <3>3. y <= x => x \in Tops(T)
      BY <2>4, <3>1, <3>2
    <3>4. x <= y => y \in Tops(T)
      BY <2>4, <3>1, <3>2
    <3>5. QED
      BY <2>2, <3>2, <3>3, <3>4
  <2>8. QED
    BY <2>6, <2>7
<1>2. Sizes \notin Bad /\ Sizes \in SUBSET Sizes
  BY <1>1
<1>3. \E n \in Sizes : \A m \in Sizes : m <= n
  BY <1>2
<1>4. QED
  BY <1>3 DEF LargestSize

LEMMA Scaled ==
  ASSUME NEW L \in Nat, NEW a \in Nat, NEW b \in Nat
  PROVE  /\ a * L \in Nat
         /\ a <= b => a * L <= b * L
         /\ a <= b - 1 => a * L + L <= b * L
<1>1. a * L \in Nat /\ b * L \in Nat
  OBVIOUS
<1>2. \A c \in Nat : (a + c) * L = a * L + c * L /\ c * L \in Nat
  OBVIOUS
<1>3. ASSUME a <= b PROVE a * L <= b * L
  <2>1. b - a \in Nat /\ b = a + (b - a)
    BY <1>3
  <2>2. b * L = a * L + (b - a) * L /\ (b - a) * L \in Nat
    BY <1>2, <2>1
  <2>3. QED
    BY <1>1, <2>2
<1>4. ASSUME a <= b - 1 PROVE a * L + L <= b * L
  <2>1. (b - a) - 1 \in Nat /\ b = (a + 1) + ((b - a) - 1)
    BY <1>4
  <2>2. \A c \in Nat : ((a + 1) + c) * L = a * L + L + c * L
    OBVIOUS
  <2>3. b * L = a * L + L + ((b - a) - 1) * L /\ ((b - a) - 1) * L \in Nat
    BY <1>2, <2>1, <2>2
  <2>4. QED
    BY <1>1, <2>3
<1>5. QED
  BY <1>1, <1>3, <1>4

(* The runners whose gross check is behind them.                            *)
PastGross ==
  { r \in Runners :
      run[r].pc \in {"correlation", "loss", "manage", "order", "fill"} }

GrossInv ==
  Gross + Cardinality(PastGross) * LargestSize
    <= MaxGross - 1 + Cardinality(Runners) * LargestSize

LEMMA PastGrossFinite ==
  /\ PastGross \in SUBSET Runners /\ PastGross' \in SUBSET Runners
  /\ Cardinality(PastGross) \in Nat /\ Cardinality(PastGross') \in Nat
  /\ Cardinality(PastGross) <= Cardinality(Runners)
  /\ Cardinality(PastGross') <= Cardinality(Runners)
  /\ Cardinality(Runners) \in Nat
<1>1. PastGross \in SUBSET Runners /\ PastGross' \in SUBSET Runners
  BY DEF PastGross
<1>2. QED
  BY <1>1, FiniteRunners

LEMMA OpenIn ==
  /\ Open \in SUBSET TradeIds /\ IsFiniteSet(Open)
  /\ Open' \in SUBSET TradeIds /\ IsFiniteSet(Open')
<1>1. Open \in SUBSET TradeIds /\ Open' \in SUBSET TradeIds
  BY DEF Open
<1>2. QED
  BY <1>1, FiniteTrades

LEMMA GrossTyped ==
  ASSUME PaperTypeOK
  PROVE  Gross \in Int
<1>1. \A k \in Open : SizeOf[k] \in Int
  BY OpenIn DEF SizeOf, PaperTypeOK, Orders
<1>2. Total(SizeOf, Open) \in Int
  BY <1>1, OpenIn, TotalTyped
<1>3. QED
  BY <1>2, SumsAre DEF SumsAreTotals

(* A sum of sizes over fewer positions is no larger.                        *)
LEMMA TotalOfFewer ==
  ASSUME NEW S, IsFiniteSet(S), NEW w, \A x \in S : w[x] \in Nat, NEW R \in SUBSET S
  PROVE  Total(w, R) <= Total(w, S)
<1> DEFINE Bad == { U \in SUBSET (S \ R) : ~ (Total(w, R) <= Total(w, R \cup U)) }
<1>f. /\ IsFiniteSet(S \ R)
      /\ \A U \in SUBSET (S \ R) : /\ IsFiniteSet(R \cup U)
                                   /\ Total(w, R \cup U) \in Int
  <2>1. /\ (S \ R) \in SUBSET S
        /\ \A U \in SUBSET (S \ R) : (R \cup U) \in SUBSET S
    OBVIOUS
  <2>2. \A V \in SUBSET S : IsFiniteSet(V)
    BY FS_Subset
  <2>3. ASSUME NEW V \in SUBSET S PROVE Total(w, V) \in Int
    <3>1. \A x \in V : w[x] \in Int
      OBVIOUS
    <3>2. QED
      BY <2>2, <3>1, TotalTyped
  <2>4. QED
    BY <2>1, <2>2, <2>3
<1>1. SUFFICES ASSUME Bad # {} PROVE FALSE
  <2>1. (S \ R) \notin Bad => Total(w, R) <= Total(w, R \cup (S \ R))
    OBVIOUS
  <2>2. R \cup (S \ R) = S
    OBVIOUS
  <2> HIDE DEF Bad
  <2>3. QED
    BY <1>1, <2>1, <2>2
<1>2. PICK U \in Bad : \A V \in Bad : V \subseteq U => V = U
  <2>1. Bad \in SUBSET (SUBSET (S \ R))
    OBVIOUS
  <2> HIDE DEF Bad
  <2>2. QED
    BY <1>1, <1>f, <2>1, SmallestSubset
<1>3. U \in SUBSET (S \ R) /\ ~ (Total(w, R) <= Total(w, R \cup U))
  BY <1>2
<1>r. Total(w, R) \in Int
  <2>1. R \cup {} = R /\ {} \in SUBSET (S \ R)
    OBVIOUS
  <2>2. QED
    BY <1>f, <2>1
<1>4. U # {}
  <2>1. R \cup {} = R
    OBVIOUS
  <2> DEFINE t == Total(w, R)
  <2>2. t <= t
    <3>1. t \in Int
      BY <1>r
    <3> HIDE DEF t
    <3>2. QED
      BY <3>1
  <2>3. QED
    BY <1>3, <2>1, <2>2
<1>5. PICK x \in U : TRUE
  BY <1>4
<1>6. U \ {x} \in SUBSET (S \ R) /\ U \ {x} \notin Bad
  BY <1>2, <1>3, <1>5
<1>7. Total(w, R) <= Total(w, R \cup (U \ {x}))
  BY <1>6
<1>8. (R \cup U) \ {x} = R \cup (U \ {x})
  BY <1>3, <1>5
<1>9. Total(w, R \cup U) = w[x] + Total(w, (R \cup U) \ {x})
  <2>1. x \in R \cup U /\ IsFiniteSet(R \cup U)
    BY <1>3, <1>5, <1>f
  <2>2. \A y \in R \cup U : w[y] \in Int
    BY <1>3
  <2>3. QED
    BY <2>1, <2>2, TotalWithout
<1>10. w[x] \in Nat
  BY <1>3, <1>5
<1>11. QED
  <2> DEFINE t == Total(w, R)
             a == Total(w, R \cup U)
             b == Total(w, R \cup (U \ {x}))
             m == w[x]
  <2>1. /\ t \in Int /\ a \in Int /\ b \in Int /\ m \in Nat
        /\ t <= b /\ a = m + b /\ ~ (t <= a)
    BY <1>3, <1>6, <1>7, <1>8, <1>9, <1>10, <1>f, <1>r
  <2> HIDE DEF t, a, b, m
  <2>2. QED
    BY <2>1

(* Positions that are closed or kept, and sizes that do not change, leave   *)
(* the exposure no larger.                                                  *)
LEMMA GrossShrinks ==
  ASSUME PaperTypeOK, Open' \subseteq Open,
         \A k \in Open : orders'[k].size = orders[k].size
  PROVE  Gross' <= Gross /\ Gross' \in Int
<1>1. \A k \in Open : SizeOf'[k] = SizeOf[k] /\ SizeOf[k] \in Nat
  BY OpenIn DEF SizeOf, PaperTypeOK, Orders
<1>2. Total(SizeOf', Open') = Total(SizeOf, Open')
  BY <1>1, OpenIn, TotalAgrees
<1>3. Total(SizeOf, Open') <= Total(SizeOf, Open)
  BY <1>1, OpenIn, TotalOfFewer
<1>4. Total(SizeOf, Open') \in Int
  BY <1>1, OpenIn, TotalTyped
<1>5. QED
  BY <1>2, <1>3, <1>4, SumsAre, SumsAreNext DEF SumsAreTotals

LEMMA SizesMeasure ==
  ASSUME IsFiniteSet(Sizes), Sizes # {}
  PROVE  LargestSize \in Nat /\ MaxGross \in Nat
BY LargestIsLargest, PaperAssumption

LEMMA GrossKept ==
  ASSUME IsFiniteSet(Sizes), Sizes # {}, PaperTypeOK, GrossInv,
         Open' \subseteq Open,
         \A k \in Open : orders'[k].size = orders[k].size,
         PastGross' \subseteq PastGross \/ ~ (Gross >= MaxGross)
  PROVE  GrossInv'
<1> DEFINE L == LargestSize
           a == Cardinality(PastGross')
           b == Cardinality(PastGross)
           n == Cardinality(Runners)
<1>1. /\ L \in Nat /\ MaxGross \in Nat /\ a \in Nat /\ b \in Nat /\ n \in Nat
      /\ a <= n
  BY SizesMeasure, PastGrossFinite
<1>2. /\ a * L \in Nat /\ b * L \in Nat /\ n * L \in Nat
      /\ a <= b => a * L <= b * L
      /\ a * L <= n * L
  <2> HIDE DEF L, a, b, n
  <2>1. QED
    BY <1>1, Scaled
<1>3. Gross' <= Gross /\ Gross' \in Int /\ Gross \in Int
  BY GrossShrinks, GrossTyped
<1>4. Gross + b * L <= MaxGross - 1 + n * L
  BY DEF GrossInv
<1>5. PastGross' \subseteq PastGross => a <= b
  BY PastGrossFinite, FewerRunners
<1>6. Gross' + a * L <= MaxGross - 1 + n * L
  <2> DEFINE u == a * L
             v == b * L
             t == n * L
             g == Gross
             h == Gross'
             m == MaxGross
  <2>1. /\ u \in Nat /\ v \in Nat /\ t \in Nat /\ u <= t /\ m \in Nat
        /\ g + v <= m - 1 + t /\ h <= g /\ h \in Int /\ g \in Int
        /\ u <= v \/ ~ (g >= m)
    BY <1>1, <1>2, <1>3, <1>4, <1>5
  <2> HIDE DEF u, v, t, g, h, m
  <2>2. h + u <= m - 1 + t
    BY <2>1
  <2>3. QED
    BY <2>2 DEF u, t, h, m
<1>7. QED
  BY <1>6 DEF GrossInv

LEMMA GrossStep ==
  ASSUME IsFiniteSet(Sizes), Sizes # {},
         PaperTypeOK, HoldInv, GrossInv, [PaperNext]_paperVars
  PROVE  GrossInv'
<1>1. CASE OutsideEffect
  <2>1. Open' = Open /\ PastGross' = PastGross /\ orders' = orders
    BY <1>1 DEF OutsideEffect, Open, PastGross
  <2>2. QED
    BY <2>1, GrossKept
<1>2. CASE KillSwitch
  <2>1. Open' \subseteq Open /\ PastGross' = PastGross /\ orders' = orders
    BY <1>2, KillEffects DEF Open, PastGross
  <2>2. QED
    BY <2>1, GrossKept
<1>3. ASSUME NEW r \in Runners, \A q \in Runners \ {r} : run'[q] = run[q],
             UNCHANGED <<positions, orders>>,
             \/ r \in PastGross
             \/ run'[r].pc \notin {"correlation", "loss", "manage", "order", "fill"}
             \/ ~ (Gross >= MaxGross)
      PROVE  GrossInv'
  <2>1. Open' = Open
    BY <1>3 DEF Open
  <2>2. PastGross' \subseteq PastGross \/ ~ (Gross >= MaxGross)
    BY <1>3 DEF PastGross
  <2>3. QED
    BY <1>3, <2>1, <2>2, GrossKept
<1>4. ASSUME NEW r \in Runners, ReadsBar(r) \/ Dies(r) PROVE GrossInv'
  BY <1>3, <1>4 DEF ReadsBar, Dies, UnchangedBook, TickFrame, IdleRun
<1>5. ASSUME NEW r \in Runners, TickFrame(r), TickEffect(r) PROVE GrossInv'
  <2>f. \A q \in Runners \ {r} : run'[q] = run[q]
    BY <1>5 DEF TickFrame
  <2>1. CASE GoesIdle(r) \/ MovesOn(r) \/ EndsTarget(r) \/ Takes(r)
             \/ \E k \in TradeIds : Keeps(r, k)
    BY <1>3, <2>1, <2>f
    DEF GoesIdle, MovesOn, EndsTarget, Takes, Keeps, Manages, Fresh,
        UnchangedBook, IdleRun, PastGross
  <2>2. ASSUME NEW k \in TradeIds, NEW x \in Results, Closes(r, k, x)
        PROVE  GrossInv'
    <3>1. /\ positions'[k].status = "closed" /\ orders' = orders
          /\ \A l \in TradeIds \ {k} : positions'[l] = positions[l]
          /\ run[r].pc = "manage"
      BY <2>2 DEF Closes, Manages, PaperTypeOK
    <3>2. Open' \subseteq Open
      BY <3>1 DEF Open
    <3>3. PastGross' \subseteq PastGross
      BY <2>f, <3>1 DEF PastGross
    <3>4. QED
      BY <3>1, <3>2, <3>3, GrossKept
  <2>3. ASSUME NEW k \in TradeIds, NEW n \in Sizes, Submits(r, k, n)
        PROVE  GrossInv'
    <3>1. /\ orders[k].status = "absent" /\ positions' = positions
          /\ \A l \in TradeIds \ {k} : orders'[l] = orders[l]
          /\ run[r].pc = "manage"
      BY <2>3 DEF Submits, PaperTypeOK
    <3>2. Open' = Open /\ k \notin Open
      BY <3>1 DEF Open, HoldInv
    <3>3. PastGross' \subseteq PastGross
      BY <2>f, <3>1 DEF PastGross
    <3>4. \A l \in Open : orders'[l].size = orders[l].size
      BY <3>1, <3>2, OpenIn
    <3>5. QED
      BY <3>2, <3>3, <3>4, GrossKept
  <2>4. CASE Fills(r)
    <3>1. /\ positions' = positions /\ run[r].pc = "order"
          /\ \A l \in TradeIds : orders'[l].size = orders[l].size
      BY <2>4 DEF Fills, PaperTypeOK, Orders
    <3>2. Open' = Open
      BY <3>1 DEF Open
    <3>3. PastGross' \subseteq PastGross
      BY <2>f, <3>1 DEF PastGross
    <3>4. QED
      BY <3>1, <3>2, <3>3, OpenIn, GrossKept
  <2>5. CASE Opens(r)
    <3>1. PICK k \in TradeIds : k = run[r].trade
      BY <2>5 DEF Opens, HoldInv, Carried, PaperTypeOK, Runs
    <3>2. /\ positions[k].status = "absent" /\ run[r].pc = "fill"
          /\ orders[k].status = "filled"
      BY <2>5, <3>1 DEF Opens, HoldInv, Carried, TradeIds
    <3>3. /\ positions'[k].status = "open" /\ orders' = orders
          /\ \A l \in TradeIds \ {k} : positions'[l] = positions[l]
          /\ run'[r].pc = "next"
      BY <2>5, <3>1 DEF Opens, Fresh, PaperTypeOK
    <3>4. /\ Open' = Open \cup {k} /\ k \notin Open
          /\ (Open \cup {k}) \ {k} = Open
      BY <3>2, <3>3 DEF Open
    <3>5. orders[k].size \in Sizes /\ SizeOf[k] = orders[k].size
      BY <3>2 DEF HoldInv, SizeOf
    <3>6. Gross' = SizeOf[k] + Gross
      <4>1. SizeOf' = SizeOf
        BY <3>3 DEF SizeOf
      <4>2. \A l \in Open' : SizeOf[l] \in Int
        BY OpenIn DEF SizeOf, PaperTypeOK, Orders
      <4>3. k \in Open' /\ Open' \ {k} = Open
        BY <3>4
      <4>4. Total(SizeOf, Open') = SizeOf[k] + Total(SizeOf, Open' \ {k})
        BY <4>2, <4>3, OpenIn, TotalWithout
      <4>5. QED
        BY <4>1, <4>3, <4>4, SumsAre, SumsAreNext DEF SumsAreTotals
    <3>7. Gross' <= Gross + LargestSize /\ Gross \in Int /\ Gross' \in Int
      <4> DEFINE g == Gross
                 h == Gross'
                 z == SizeOf[k]
      <4>1. /\ h = z + g /\ g \in Int /\ z \in Nat /\ z <= LargestSize
            /\ LargestSize \in Nat
        BY <3>5, <3>6, LargestIsLargest, SizesMeasure, GrossTyped, PaperAssumption
      <4> HIDE DEF g, h, z
      <4>2. h <= g + LargestSize /\ h \in Int
        BY <4>1
      <4>3. QED
        BY <4>1, <4>2 DEF g, h
    <3>8. r \in PastGross /\ PastGross' \in SUBSET (PastGross \ {r})
      BY <2>f, <3>2, <3>3 DEF PastGross
    <3>9. Cardinality(PastGross') <= Cardinality(PastGross) - 1
      BY <3>8, PastGrossFinite, OneRunnerFewer
    <3> DEFINE L == LargestSize
               u == Cardinality(PastGross') * L
               v == Cardinality(PastGross) * L
               t == Cardinality(Runners) * L
    <3>10. u \in Nat /\ v \in Nat /\ t \in Nat /\ u + L <= v
      <4>1. L \in Nat
        BY SizesMeasure
      <4> HIDE DEF L
      <4>2. QED
        BY <3>9, <4>1, PastGrossFinite, Scaled
    <3>11. Gross + v <= MaxGross - 1 + t /\ L \in Nat /\ MaxGross \in Nat
      BY SizesMeasure DEF GrossInv
    <3>12. Gross' + u <= MaxGross - 1 + t
      <4> DEFINE g == Gross
                 h == Gross'
                 m == MaxGross
      <4>1. /\ h <= g + L /\ g \in Int /\ h \in Int /\ g + v <= m - 1 + t
            /\ L \in Nat /\ m \in Nat
        BY <3>7, <3>11
      <4> HIDE DEF u, v, t, L, g, h, m
      <4>2. h + u <= m - 1 + t
        BY <3>10, <4>1
      <4>3. QED
        BY <4>2 DEF h, m
    <3>13. QED
      BY <3>12 DEF GrossInv
  <2>6. QED
    BY <1>5, <2>1, <2>2, <2>3, <2>4, <2>5 DEF TickEffect
<1>6. QED
  BY <1>1, <1>2, <1>4, <1>5, NextEffects

(* The exposure is read before the order is made and not again: however     *)
(* many processes run bars, and wherever their ticks die, the open          *)
(* positions together exceed settings.paper_max_gross_exposure_usd by less  *)
(* than one position of the largest size for each process.                  *)
THEOREM GrossIsKept ==
  ASSUME IsFiniteSet(Sizes), Sizes # {}
  PROVE  PaperSpec => []GrossOvershoot
<1>1. PaperInit => GrossInv
  <2> SUFFICES ASSUME PaperInit PROVE GrossInv
    OBVIOUS
  <2>1. Open = {} /\ PastGross = {}
    BY DEF PaperInit, Open, PastGross, NoPosition, IdleRun
  <2>2. Gross = 0
    BY <2>1, TotalEmpty, SumsAre DEF SumsAreTotals
  <2>3. Cardinality(PastGross) = 0
    BY <2>1, FS_EmptySet
  <2> DEFINE L == LargestSize
             t == Cardinality(Runners) * L
  <2>4. t \in Nat /\ 0 * L = 0 /\ MaxGross \in Nat \ {0}
    <3>1. L \in Nat
      BY SizesMeasure
    <3> HIDE DEF L
    <3>2. QED
      BY <3>1, PastGrossFinite, Scaled, PaperAssumption
  <2>5. 0 <= MaxGross - 1 + t
    <3> HIDE DEF t
    <3>1. QED
      BY <2>4
  <2>6. QED
    BY <2>2, <2>3, <2>4, <2>5 DEF GrossInv
<1>2. PaperTypeOK /\ HoldInv /\ GrossInv /\ [PaperNext]_paperVars => GrossInv'
  BY GrossStep
<1>3. PaperTypeOK /\ GrossInv => GrossOvershoot
  <2> SUFFICES ASSUME PaperTypeOK, GrossInv PROVE GrossOvershoot
    OBVIOUS
  <2> DEFINE L == LargestSize
             u == Cardinality(PastGross) * L
             t == Cardinality(Runners) * L
  <2>1. u \in Nat /\ t \in Nat /\ L \in Nat
    <3>1. L \in Nat
      BY SizesMeasure
    <3> HIDE DEF L
    <3>2. QED
      BY <3>1, PastGrossFinite, Scaled
  <2>2. Gross + u <= MaxGross - 1 + t /\ Gross \in Int /\ MaxGross \in Nat
    BY GrossTyped, SizesMeasure DEF GrossInv
  <2>3. Gross <= MaxGross - 1 + t
    <3> HIDE DEF u, t
    <3>1. QED
      BY <2>1, <2>2
  <2>4. QED
    BY <2>3 DEF GrossOvershoot
<1>4. QED
  BY <1>1, <1>2, <1>3, Holds, PaperTypeCorrect, PTL DEF PaperSpec

-----------------------------------------------------------------------------
(* One process implements the abstract book *)

OneOpen == \A k, l \in Open : orders[k].target = orders[l].target => k = l

OrdersNamed ==
  \A k \in TradeIds :
    orders[k].status # "absent" =>
      orders[k].target \in Targets /\ orders[k].dir \in Directions

(* A runner past the count check is below the cap until it opens, and what  *)
(* is open for its target is in its hands or was kept.                      *)
AtTarget(r) ==
  /\ run[r].pc \in {"idle", "check", "load", "next", "order", "fill"} =>
       run[r].held = {} /\ run[r].kept = FALSE
  /\ run[r].pc \in {"count", "gross", "correlation", "loss"} => run[r].kept = FALSE
  /\ run[r].pc \notin {"idle", "check", "load", "next"} =>
       /\ run[r].target \in Targets
       /\ run[r].kept = FALSE => OpenOf(run[r].target) \subseteq run[r].held
  /\ run[r].pc \in {"gross", "correlation", "loss", "manage", "order", "fill"} =>
       OpenCount < MaxOpen
  /\ run[r].pc \in {"order", "fill"} =>
       orders[run[r].trade].target = run[r].target

BookInv == OneOpen /\ OrdersNamed /\ \A r \in Runners : AtTarget(r)

LEMMA OpenCountShrinks ==
  ASSUME Open' \subseteq Open
  PROVE  /\ OpenCount' <= OpenCount /\ OpenCount \in Nat /\ OpenCount' \in Nat
         /\ OpenCount < MaxOpen => OpenCount' < MaxOpen
<1>1. Cardinality(Open') <= Cardinality(Open)
  BY OpenIn, FS_Subset
<1>2. QED
  BY <1>1, FiniteBook, FiniteNext DEF OpenCount

(* A step that opens nothing, touches no order and moves no runner.         *)
LEMMA BookKeptByWorld ==
  ASSUME PaperTypeOK, BookInv, Open' \subseteq Open, UNCHANGED <<orders, run>>
  PROVE  BookInv'
<1>1. \A t : OpenOf(t)' \subseteq OpenOf(t)
  BY DEF OpenOf
<1>2. OneOpen' /\ OrdersNamed'
  BY DEF BookInv, OneOpen, OrdersNamed
<1>3. ASSUME NEW r \in Runners PROVE AtTarget(r)'
  <2>1. AtTarget(r) /\ run' = run /\ orders' = orders
    BY DEF BookInv
  <2>2. PICK w : w = run[r].target
    OBVIOUS
  <2>3. OpenOf(w)' \subseteq OpenOf(w)
    BY <1>1
  <2>4. OpenOf(run[r].target)' = OpenOf(w)'
    BY <2>1, <2>2 DEF OpenOf
  <2>5. QED
    BY <2>1, <2>2, <2>3, <2>4, OpenCountShrinks DEF AtTarget
<1>4. QED
  BY <1>2, <1>3 DEF BookInv

LEMMA BookTick ==
  ASSUME SoleRunner, PaperTypeOK, HoldInv, BookInv, NEW r \in Runners,
         TickFrame(r), TickEffect(r)
  PROVE  BookInv'
<1>a. /\ AtTarget(r) /\ OneOpen /\ OrdersNamed /\ Carried(r)
      /\ run[r].held \subseteq TradeIds /\ run[r].trade \in TradeIds \cup {0}
  BY DEF BookInv, HoldInv, PaperTypeOK, Runs
<1>g. ASSUME OneOpen', OrdersNamed', AtTarget(r)' PROVE BookInv'
  BY <1>g DEF BookInv, SoleRunner
<1>u. PICK t : t = run'[r].target
  OBVIOUS
<1>v. OpenOf(run[r].target)' = OpenOf(t)'
  BY <1>u DEF OpenOf
<1>1. ASSUME UnchangedBook PROVE /\ OneOpen' /\ OrdersNamed'
                                 /\ OpenCount' = OpenCount
                                 /\ OpenOf(t)' = OpenOf(t)
                                 /\ orders' = orders
  <2>1. Open' = Open /\ orders' = orders
    BY <1>1 DEF UnchangedBook, Open
  <2>2. QED
    BY <1>a, <2>1 DEF OneOpen, OrdersNamed, OpenCount, OpenOf
<1>2. CASE GoesIdle(r)
  <2>1. AtTarget(r)'
    BY <1>2 DEF GoesIdle, AtTarget, IdleRun
  <2>2. QED
    BY <1>1, <1>2, <1>g, <2>1 DEF GoesIdle
<1>3. CASE EndsTarget(r)
  <2>1. AtTarget(r)'
    BY <1>3 DEF EndsTarget, Fresh, AtTarget
  <2>2. QED
    BY <1>1, <1>3, <1>g, <2>1 DEF EndsTarget
<1>4. CASE MovesOn(r)
  <2>1. AtTarget(r)'
    BY <1>1, <1>4, <1>a, <1>u, <1>v DEF MovesOn, SameTarget, AtTarget
  <2>2. QED
    BY <1>1, <1>4, <1>g, <2>1 DEF MovesOn
<1>5. CASE Takes(r)
  <2>1. run'[r].held = OpenOf(t) /\ t \in Targets /\ run'[r].pc = "count"
        /\ run'[r].kept = FALSE
    BY <1>5, <1>a, <1>u DEF Takes, AtTarget
  <2>2. AtTarget(r)'
    BY <1>1, <1>5, <1>u, <1>v, <2>1 DEF Takes, AtTarget
  <2>3. QED
    BY <1>1, <1>5, <1>g, <2>2 DEF Takes
<1>6. ASSUME NEW k \in TradeIds, Keeps(r, k) PROVE BookInv'
  <2>1. AtTarget(r)'
    BY <1>1, <1>6, <1>a, <1>u, <1>v DEF Keeps, Manages, SameTarget, AtTarget
  <2>2. QED
    BY <1>1, <1>6, <1>g, <2>1 DEF Keeps
<1>7. ASSUME NEW k \in TradeIds, NEW x \in Results, Closes(r, k, x)
      PROVE  BookInv'
  <2>1. /\ positions'[k].status = "closed" /\ orders' = orders
        /\ \A l \in TradeIds \ {k} : positions'[l] = positions[l]
        /\ run'[r].held = run[r].held \ {k} /\ run'[r].kept = run[r].kept
        /\ run'[r].target = run[r].target
        /\ run[r].pc = "manage" /\ run'[r].pc = "manage"
    BY <1>7 DEF Closes, Manages, SameTarget, PaperTypeOK
  <2>2. Open' = Open \ {k}
    BY <2>1 DEF Open
  <2>3. OpenOf(t)' = OpenOf(t) \ {k}
    BY <2>1, <2>2 DEF OpenOf
  <2>4. OneOpen' /\ OrdersNamed'
    BY <1>a, <2>1, <2>2 DEF OneOpen, OrdersNamed
  <2>5. OpenCount < MaxOpen => OpenCount' < MaxOpen
    BY <2>2, OpenCountShrinks
  <2>6. AtTarget(r)'
    BY <1>a, <1>u, <1>v, <2>1, <2>3, <2>5 DEF AtTarget
  <2>7. QED
    BY <1>g, <2>4, <2>6
<1>8. ASSUME NEW k \in TradeIds, NEW n \in Sizes, Submits(r, k, n)
      PROVE  BookInv'
  <2>1. /\ orders[k].status = "absent" /\ positions' = positions
        /\ orders'[k].target = run[r].target /\ orders'[k].dir = run[r].signal
        /\ orders'[k].status = "pending"
        /\ \A l \in TradeIds \ {k} : orders'[l] = orders[l]
        /\ run'[r].pc = "order" /\ run'[r].trade = k /\ run'[r].held = {}
        /\ run[r].pc = "manage" /\ run[r].held = {} /\ run[r].kept = FALSE
        /\ run'[r].target = run[r].target /\ run[r].signal \in Directions
        /\ run'[r].kept = run[r].kept
    <3>1. run[r].kept \in BOOLEAN /\ ~ run[r].kept
      BY <1>8 DEF Submits, Enters, PaperTypeOK, Runs
    <3>2. run[r].kept = FALSE
      BY <3>1
    <3>3. QED
      BY <1>8, <3>2 DEF Submits, Enters, PaperTypeOK
  <2>2. Open' = Open /\ k \notin Open
    BY <2>1 DEF Open, HoldInv
  <2>3. \A l \in Open : orders'[l] = orders[l]
    BY <2>1, <2>2, OpenIn
  <2>4. OneOpen'
    BY <1>a, <2>2, <2>3 DEF OneOpen
  <2>5. OrdersNamed'
    BY <1>a, <2>1 DEF OrdersNamed, AtTarget
  <2>6. OpenCount' = OpenCount
    BY <2>2 DEF OpenCount
  <2>7. OpenOf(t)' = OpenOf(t)
    BY <2>2, <2>3 DEF OpenOf
  <2>8. AtTarget(r)'
    BY <1>a, <1>u, <1>v, <2>1, <2>6, <2>7 DEF AtTarget
  <2>9. QED
    BY <1>g, <2>4, <2>5, <2>8
<1>9. CASE Fills(r)
  <2>1. PICK k \in TradeIds : k = run[r].trade
    BY <1>9, <1>a DEF Fills, Carried
  <2>2. /\ \A l \in TradeIds : orders'[l].target = orders[l].target
                               /\ orders'[l].dir = orders[l].dir
        /\ \A l \in TradeIds \ {k} : orders'[l] = orders[l]
        /\ orders[k].status = "pending"
        /\ positions' = positions
        /\ run[r].pc = "order" /\ run'[r].pc = "fill"
        /\ run'[r].target = run[r].target /\ run'[r].trade = k
        /\ run'[r].held = run[r].held /\ run'[r].kept = run[r].kept
    BY <1>9, <1>a, <2>1 DEF Fills, SameTarget, PaperTypeOK, Orders, Carried, TradeIds
  <2>3. Open' = Open
    BY <2>2 DEF Open
  <2>4. OneOpen'
    BY <1>a, <2>2, <2>3, OpenIn DEF OneOpen
  <2>5. OrdersNamed'
    BY <1>a, <2>2 DEF OrdersNamed
  <2>6. OpenCount' = OpenCount
    BY <2>3 DEF OpenCount
  <2>7. OpenOf(t)' = OpenOf(t)
    BY <2>2, <2>3, OpenIn DEF OpenOf
  <2>8. AtTarget(r)'
    BY <1>a, <1>u, <1>v, <2>1, <2>2, <2>6, <2>7 DEF AtTarget
  <2>9. QED
    BY <1>g, <2>4, <2>5, <2>8
<1>10. CASE Opens(r)
  <2>1. PICK k \in TradeIds : k = run[r].trade
    BY <1>10, <1>a DEF Opens, Carried
  <2>2. /\ positions'[k].status = "open" /\ orders' = orders
        /\ \A l \in TradeIds \ {k} : positions'[l] = positions[l]
        /\ run'[r].pc = "next" /\ run'[r].held = {} /\ run'[r].kept = FALSE
        /\ run[r].pc = "fill"
    BY <1>10, <2>1 DEF Opens, Fresh, PaperTypeOK
  <2>3. Open' = Open \cup {k}
    BY <2>2 DEF Open
  <2>4. /\ orders[k].target = run[r].target
        /\ OpenOf(run[r].target) = {}
    BY <1>a, <2>1, <2>2 DEF AtTarget
  <2>5. \A l \in Open : orders[l].target # orders[k].target
    BY <2>4 DEF OpenOf
  <2>6. OneOpen'
    BY <1>a, <2>2, <2>3, <2>5 DEF OneOpen
  <2>7. OrdersNamed'
    BY <1>a, <2>2 DEF OrdersNamed
  <2>8. AtTarget(r)'
    BY <2>2 DEF AtTarget
  <2>9. QED
    BY <1>g, <2>6, <2>7, <2>8
<1>11. QED
  BY <1>2, <1>3, <1>4, <1>5, <1>6, <1>7, <1>8, <1>9, <1>10 DEF TickEffect

LEMMA BookStep ==
  ASSUME SoleRunner, PaperTypeOK, HoldInv, BookInv, [PaperNext]_paperVars
  PROVE  BookInv'
<1>1. CASE OutsideEffect
  <2>1. Open' \subseteq Open
    BY <1>1 DEF OutsideEffect, Open
  <2>2. QED
    BY <1>1, <2>1, BookKeptByWorld DEF OutsideEffect
<1>2. CASE KillSwitch
  <2>1. Open' \subseteq Open /\ UNCHANGED <<orders, run>>
    BY <1>2, KillEffects DEF Open
  <2>2. QED
    BY <2>1, BookKeptByWorld
<1>3. ASSUME NEW r \in Runners, ReadsBar(r) \/ Dies(r) PROVE BookInv'
  <2>1. /\ orders' = orders /\ positions' = positions
        /\ run'[r].pc \in {"idle", "check"}
        /\ run'[r].held = {} /\ run'[r].kept = FALSE
    BY <1>3 DEF ReadsBar, Dies, UnchangedBook, IdleRun
  <2>2. Open' = Open
    BY <2>1 DEF Open
  <2>3. OneOpen' /\ OrdersNamed'
    BY <2>1, <2>2 DEF BookInv, OneOpen, OrdersNamed
  <2>4. AtTarget(r)'
    BY <2>1 DEF AtTarget
  <2>5. QED
    BY <2>3, <2>4 DEF BookInv, SoleRunner
<1>4. QED
  BY <1>1, <1>2, <1>3, BookTick, NextEffects

LEMMA BookHolds ==
  ASSUME SoleRunner
  PROVE  PaperSpec => []BookInv
<1>1. PaperInit => BookInv
  BY DEF PaperInit, BookInv, OneOpen, OrdersNamed, AtTarget, Open, OpenOf,
         IdleRun, NoOrder, NoPosition
<1>2. PaperTypeOK /\ HoldInv /\ BookInv /\ [PaperNext]_paperVars => BookInv'
  BY BookStep
<1>3. QED
  BY <1>1, <1>2, Holds, PaperTypeCorrect, PTL DEF PaperSpec

-----------------------------------------------------------------------------
(* What a target's entry of the book is *)

BookEntries ==
  \A t \in Targets :
    /\ OpenOf(t) = {} => BookOf(t) = "flat"
    /\ \A k \in TradeIds : OpenOf(t) = {k} => BookOf(t) = orders[k].dir

LEMMA BookEntriesHold == BookEntries
<1> SUFFICES ASSUME NEW t \in Targets
             PROVE  /\ OpenOf(t) = {} => BookOf(t) = "flat"
                    /\ \A k \in TradeIds : OpenOf(t) = {k} => BookOf(t) = orders[k].dir
  BY DEF BookEntries
<1>1. ASSUME OpenOf(t) = {} PROVE BookOf(t) = "flat"
  BY <1>1 DEF BookOf
<1>2. ASSUME NEW k \in TradeIds, OpenOf(t) = {k}
      PROVE  BookOf(t) = orders[k].dir
  <2> DEFINE c == CHOOSE l \in TradeIds : OpenOf(t) = {l}
  <2>1. c = k
    <3>1. c \in TradeIds /\ OpenOf(t) = {c}
      BY <1>2
    <3>2. QED
      BY <1>2, <3>1
  <2>2. OpenOf(t) # {} /\ \E l \in TradeIds : OpenOf(t) = {l}
    BY <1>2
  <2>3. BookOf(t) = orders[c].dir
    BY <2>2 DEF BookOf
  <2>4. QED
    BY <2>1, <2>3
<1>3. QED
  BY <1>1, <1>2

LEMMA BookEntriesNext == BookEntries'
BY BookEntriesHold, PTL

BookNow == [t \in Targets |-> BookOf(t)]

(* With one position at most, an entry is flat or the direction of that     *)
(* position's order.                                                        *)
LEMMA EntryCases ==
  ASSUME PaperTypeOK, HoldInv, BookInv, NEW t \in Targets
  PROVE  \/ OpenOf(t) = {} /\ BookOf(t) = "flat"
         \/ \E k \in Open : /\ OpenOf(t) = {k} /\ orders[k].target = t
                            /\ BookOf(t) = orders[k].dir
                            /\ BookOf(t) \in {"long", "short"}
<1>1. CASE OpenOf(t) = {}
  BY <1>1, BookEntriesHold DEF BookEntries
<1>2. ASSUME NEW k \in OpenOf(t) PROVE OpenOf(t) = {k} /\ BookOf(t) \in {"long", "short"}
  <2>1. OpenOf(t) = {k} /\ k \in TradeIds
    BY DEF OpenOf, BookInv, OneOpen, Open
  <2>2. positions[k].status = "open"
    BY DEF OpenOf, Open
  <2>3. orders[k].dir \in Directions
    BY <2>1, <2>2 DEF HoldInv, BookInv, OrdersNamed
  <2>4. QED
    BY <2>1, <2>3, BookEntriesHold DEF BookEntries, Directions
<1>3. QED
  <2>1. CASE OpenOf(t) # {}
    <3>1. PICK k \in OpenOf(t) : TRUE
      BY <2>1
    <3>2. k \in Open /\ orders[k].target = t /\ k \in TradeIds
      BY <3>1 DEF OpenOf, Open
    <3>3. OpenOf(t) = {k} /\ BookOf(t) \in {"long", "short"}
      BY <1>2
    <3>4. BookOf(t) = orders[k].dir
      BY <3>2, <3>3, BookEntriesHold DEF BookEntries
    <3>5. QED
      BY <3>2, <3>3, <3>4
  <2>2. QED
    BY <1>1, <2>1

(* An entry changes only with its positions.                                *)
LEMMA EntryKept ==
  ASSUME PaperTypeOK, HoldInv, BookInv, NEW t \in Targets,
         OpenOf(t)' = OpenOf(t),
         \A k \in OpenOf(t) : orders'[k].dir = orders[k].dir
  PROVE  BookOf(t)' = BookOf(t)
<1>1. CASE OpenOf(t) = {}
  BY <1>1, EntryCases, BookEntriesNext DEF BookEntries
<1>2. ASSUME NEW k \in Open, OpenOf(t) = {k}, BookOf(t) = orders[k].dir
      PROVE  BookOf(t)' = BookOf(t)
  <2>1. k \in TradeIds
    BY OpenIn
  <2>2. OpenOf(t)' = {k}
    BY <1>2
  <2>3. BookOf(t)' = orders'[k].dir
    BY <2>1, <2>2, BookEntriesNext DEF BookEntries
  <2>4. QED
    BY <1>2, <2>3
<1>3. QED
  BY <1>1, <1>2, EntryCases

LEMMA BookUnchanged ==
  ASSUME PaperTypeOK, HoldInv, BookInv, Open' = Open,
         \A k \in Open : /\ orders'[k].dir = orders[k].dir
                         /\ orders'[k].target = orders[k].target
  PROVE  BookNow' = BookNow
<1>1. ASSUME NEW t \in Targets PROVE BookOf(t)' = BookOf(t)
  <2>1. OpenOf(t)' = OpenOf(t) /\ OpenOf(t) \subseteq Open
    BY DEF OpenOf
  <2>2. QED
    BY <2>1, EntryKept
<1>2. QED
  BY <1>1 DEF BookNow

LEMMA BookNowIs ==
  ASSUME NEW t \in Targets
  PROVE  BookNow[t] = BookOf(t) /\ BookNow'[t] = BookOf(t)'
BY DEF BookNow

(* No more targets are taken than positions are open.                       *)
LEMMA TakenIsOpen ==
  ASSUME PaperTypeOK, HoldInv, BookInv
  PROVE  /\ Cardinality({ t \in Targets : BookNow[t] # "flat" }) <= OpenCount
         /\ Cardinality({ t \in Targets : BookNow[t] # "flat" }) \in Nat
<1> DEFINE T == { t \in Targets : BookNow[t] # "flat" }
           f == [t \in T |-> CHOOSE k \in Open : orders[k].target = t]
<1>1. ASSUME NEW t \in T
      PROVE  f[t] \in Open /\ orders[f[t]].target = t
  <2>1. t \in Targets /\ BookOf(t) # "flat"
    BY BookNowIs
  <2>2. \E k \in Open : orders[k].target = t
    BY <2>1, EntryCases
  <2>3. QED
    BY <2>2
<1>2. f \in [T -> Open]
  <2>1. f = [t \in T |-> f[t]]
    OBVIOUS
  <2> HIDE DEF f
  <2>2. QED
    BY <1>1, <2>1
<1>3. f \in Injection(T, Open)
  <2> HIDE DEF f, T
  <2>1. QED
    BY <1>1, <1>2 DEF Injection, IsInjective
<1>4. IsFiniteSet(T) /\ Cardinality(T) <= Cardinality(Open)
  <2> HIDE DEF f, T
  <2>1. QED
    BY <1>3, OpenIn, FS_Injection
<1>5. Cardinality(T) \in Nat
  BY <1>4, FS_CardinalityType
<1>6. QED
  BY <1>4, <1>5 DEF OpenCount

LEMMA BookRefined ==
  ASSUME SoleRunner, PaperTypeOK, HoldInv, BookInv, [PaperNext]_paperVars
  PROVE  [Book!BookNext]_BookNow
<1>0. ASSUME Open' = Open,
             \A k \in Open : /\ orders'[k].dir = orders[k].dir
                             /\ orders'[k].target = orders[k].target
      PROVE  BookNow' = BookNow
  BY <1>0, BookUnchanged
<1>1. CASE OutsideEffect
  <2>1. Open' = Open /\ orders' = orders
    BY <1>1 DEF OutsideEffect, Open
  <2>2. QED
    BY <1>0, <2>1
<1>2. CASE KillSwitch
  <2>1. Open' = {}
    BY <1>2, KillEffects DEF Open
  <2>2. ASSUME NEW t \in Targets PROVE BookOf(t)' = "flat"
    <3>1. OpenOf(t)' = {}
      BY <2>1 DEF OpenOf
    <3>2. QED
      BY <3>1, BookEntriesNext DEF BookEntries
  <2>3. BookNow' = [t \in Targets |-> "flat"]
    BY <2>2 DEF BookNow
  <2>4. Book!Liquidate
    BY <2>3 DEF Book!Liquidate, BookNow
  <2>5. QED
    BY <2>4 DEF Book!BookNext
<1>3. ASSUME NEW r \in Runners, ReadsBar(r) \/ Dies(r) PROVE BookNow' = BookNow
  <2>1. Open' = Open /\ orders' = orders
    BY <1>3 DEF ReadsBar, Dies, UnchangedBook, Open
  <2>2. QED
    BY <1>0, <2>1
<1>4. ASSUME NEW r \in Runners, TickFrame(r), TickEffect(r)
      PROVE  [Book!BookNext]_BookNow
  <2>a. AtTarget(r) /\ Carried(r) /\ run[r].trade \in TradeIds \cup {0}
    BY DEF BookInv, HoldInv, PaperTypeOK, Runs
  <2>1. CASE UnchangedBook
    <3>1. Open' = Open /\ orders' = orders
      BY <2>1 DEF UnchangedBook, Open
    <3>2. QED
      BY <1>0, <3>1
  <2>2. ASSUME NEW k \in TradeIds, NEW x \in Results, Closes(r, k, x)
        PROVE  [Book!BookNext]_BookNow
    <3>1. /\ positions'[k].status = "closed" /\ orders' = orders
          /\ \A l \in TradeIds \ {k} : positions'[l] = positions[l]
      BY <2>2 DEF Closes, PaperTypeOK
    <3>2. Open' = Open \ {k}
      BY <3>1 DEF Open
    <3>3. CASE k \notin Open
      BY <1>0, <3>1, <3>2, <3>3
    <3>4. CASE k \in Open
      <4>1. PICK t \in Targets : t = orders[k].target
        BY <3>4 DEF Open, HoldInv, BookInv, OrdersNamed
      <4>2. OpenOf(t) # {} /\ k \in OpenOf(t)
        BY <3>4, <4>1 DEF OpenOf
      <4>3. OpenOf(t) = {k} /\ BookOf(t) # "flat"
        <5>1. OpenOf(t) = {k}
          BY <4>1, <4>2 DEF OpenOf, BookInv, OneOpen
        <5>2. BookOf(t) # "flat"
          BY <4>2, EntryCases
        <5>3. QED
          BY <5>1, <5>2
      <4>4. OpenOf(t)' = {}
        BY <3>1, <3>2, <4>3 DEF OpenOf
      <4>5. BookOf(t)' = "flat"
        BY <4>4, BookEntriesNext DEF BookEntries
      <4>6. ASSUME NEW u \in Targets \ {t} PROVE BookOf(u)' = BookOf(u)
        <5>1. OpenOf(u)' = OpenOf(u)
          BY <3>1, <3>2, <4>1 DEF OpenOf
        <5>2. QED
          BY <3>1, <5>1, EntryKept
      <4>7. BookNow' = [BookNow EXCEPT ![t] = "flat"]
        BY <4>5, <4>6 DEF BookNow
      <4>8. Book!Exit(t)
        BY <4>3, <4>7, BookNowIs DEF Book!Exit, BookNow
      <4>9. QED
        BY <4>8 DEF Book!BookNext
    <3>5. QED
      BY <3>3, <3>4
  <2>3. ASSUME NEW k \in TradeIds, NEW n \in Sizes, Submits(r, k, n)
        PROVE  BookNow' = BookNow
    <3>1. /\ orders[k].status = "absent" /\ positions' = positions
          /\ \A l \in TradeIds \ {k} : orders'[l] = orders[l]
      BY <2>3 DEF Submits, PaperTypeOK
    <3>2. Open' = Open /\ k \notin Open
      BY <3>1 DEF Open, HoldInv
    <3>3. QED
      BY <1>0, <3>1, <3>2, OpenIn
  <2>4. ASSUME Fills(r) PROVE BookNow' = BookNow
    <3>1. /\ positions' = positions
          /\ \A l \in TradeIds : orders'[l].target = orders[l].target
                                 /\ orders'[l].dir = orders[l].dir
      BY <2>4 DEF Fills, PaperTypeOK, Orders
    <3>2. Open' = Open
      BY <3>1 DEF Open
    <3>3. QED
      BY <1>0, <3>1, <3>2, OpenIn
  <2>5. CASE Opens(r)
    <3>1. PICK k \in TradeIds : k = run[r].trade
      BY <2>5, <2>a DEF Opens, Carried
    <3>2. /\ positions'[k].status = "open" /\ orders' = orders
          /\ \A l \in TradeIds \ {k} : positions'[l] = positions[l]
          /\ run[r].pc = "fill" /\ orders[k].status = "filled"
      BY <2>5, <2>a, <3>1 DEF Opens, Carried, PaperTypeOK, TradeIds
    <3>3. Open' = Open \cup {k}
      BY <3>2 DEF Open
    <3>4. PICK t \in Targets : t = run[r].target
      BY <2>a, <3>2 DEF AtTarget
    <3>5. /\ orders[k].target = t /\ OpenOf(t) = {} /\ OpenCount < MaxOpen
          /\ orders[k].dir \in {"long", "short"}
      BY <2>a, <3>1, <3>2, <3>4 DEF AtTarget, BookInv, OrdersNamed, Directions
    <3>6. OpenOf(t)' = {k}
      BY <3>2, <3>3, <3>5 DEF OpenOf
    <3>7. BookOf(t) = "flat" /\ BookOf(t)' = orders[k].dir
      <4>1. BookOf(t)' = orders'[k].dir
        BY <3>6, BookEntriesNext DEF BookEntries
      <4>2. QED
        BY <3>2, <3>5, <4>1, BookEntriesHold DEF BookEntries
    <3>8. ASSUME NEW u \in Targets \ {t} PROVE BookOf(u)' = BookOf(u)
      <4>1. OpenOf(u)' = OpenOf(u)
        BY <3>2, <3>3, <3>5 DEF OpenOf
      <4>2. QED
        BY <3>2, <4>1, EntryKept
    <3>9. BookNow' = [BookNow EXCEPT ![t] = orders[k].dir]
      BY <3>7, <3>8 DEF BookNow
    <3>10. Cardinality({ u \in Targets : BookNow[u] # "flat" }) < MaxOpen
      BY <3>5, TakenIsOpen, FiniteBook DEF OpenCount
    <3>11. Book!Enter(t, orders[k].dir)
      <4>1. PICK d : d = orders[k].dir
        OBVIOUS
      <4>2. BookNow[t] = "flat" /\ BookNow' = [BookNow EXCEPT ![t] = d]
        BY <3>7, <3>9, <4>1, BookNowIs
      <4>3. Cardinality(Book!Taken) < MaxOpen
        BY <3>10 DEF Book!Taken, BookNow
      <4>4. Book!Enter(t, d)
        <5>1. Book!Cardinality(Book!Taken) = Cardinality(Book!Taken)
          BY DEF Book!Cardinality, Cardinality, Book!IsFiniteSet, IsFiniteSet
        <5>2. QED
          BY <4>2, <4>3, <5>1 DEF Book!Enter, BookNow
      <4>5. QED
        BY <4>1, <4>4
    <3>12. QED
      BY <3>5, <3>11 DEF Book!BookNext
  <2>6. QED
    BY <1>4, <2>1, <2>2, <2>3, <2>4, <2>5
    DEF TickEffect, GoesIdle, MovesOn, EndsTarget, Takes, Keeps
<1>5. QED
  BY <1>1, <1>2, <1>3, <1>4, NextEffects

(* While one process runs the bars, paper trading is the abstract book: a   *)
(* target is entered only from flat and only below the position cap, is     *)
(* left whole, and the kill switch flattens everything, although every      *)
(* check and every commit is a step, ticks die between any two of them, and *)
(* a bar whose tick died is run again.                                      *)
THEOREM PaperImplementsBook ==
  ASSUME SoleRunner
  PROVE  PaperSpec => ImplementsBook
<1>1. PaperInit => Book!BookInit
  <2> SUFFICES ASSUME PaperInit PROVE Book!BookInit
    OBVIOUS
  <2>1. \A t \in Targets : OpenOf(t) = {}
    BY DEF PaperInit, OpenOf, Open, NoPosition
  <2>2. \A t \in Targets : BookOf(t) = "flat"
    BY <2>1, BookEntriesHold DEF BookEntries
  <2>3. QED
    BY <2>2 DEF Book!BookInit
<1>2. PaperTypeOK /\ HoldInv /\ BookInv /\ [PaperNext]_paperVars
        => [Book!BookNext]_BookNow
  BY BookRefined
<1>3. PaperTypeOK /\ HoldInv /\ BookInv /\ [PaperNext]_paperVars
        => [Book!BookNext]_([t \in Targets |-> BookOf(t)])
  BY <1>2 DEF BookNow
<1>4. PaperSpec => [][Book!BookNext]_([t \in Targets |-> BookOf(t)])
  BY <1>3, Holds, BookHolds, PaperTypeCorrect, PTL DEF PaperSpec
<1>5. QED
  BY <1>1, <1>4, PTL DEF ImplementsBook, Book!BookSpec, PaperSpec

-----------------------------------------------------------------------------
(* Several processes on one target *)

(* run_bar reads the open positions of a target once, so two processes can  *)
(* both find none and enter.  A process can not do so twice: what it opened *)
(* itself is among the positions it read, and it enters only once they are  *)
(* all closed.                                                             *)
OnePerProcess ==
  \A t \in Targets : Cardinality(OpenOf(t)) <= Cardinality(Runners)

AtWork(r) ==
  /\ run[r].pc \in {"idle", "check", "load", "next"} =>
       run[r].held = {} /\ run[r].kept = FALSE
  /\ run[r].pc \in {"count", "gross", "correlation", "loss"} => run[r].kept = FALSE
  /\ run[r].pc \in {"order", "fill"} =>
       /\ run[r].held = {} /\ run[r].kept = FALSE
       /\ orders[run[r].trade].target = run[r].target

(* f names the process that opened each position: no two of a target are    *)
(* one process's, and one that is at the target and kept nothing has its    *)
(* own position in its hands.                                               *)
OpenedBy(f, t) ==
  /\ \A k \in OpenOf(t) : f[k] \in Runners
  /\ \A k, l \in OpenOf(t) : f[k] = f[l] => k = l
  /\ \A r \in Runners :
       run[r].target = t /\ run[r].kept = FALSE =>
         \A k \in OpenOf(t) : f[k] = r => k \in run[r].held

OpenerInv ==
  /\ \A r \in Runners : AtWork(r)
  /\ \A t \in Targets : \E f : OpenedBy(f, t)

(* An opener for each position bounds their number.                         *)
LEMMA OpenersBound == OpenerInv => OnePerProcess
<1> SUFFICES ASSUME OpenerInv, NEW t \in Targets
             PROVE  Cardinality(OpenOf(t)) <= Cardinality(Runners)
  BY DEF OnePerProcess
<1>1. PICK f : OpenedBy(f, t)
  BY DEF OpenerInv
<1> DEFINE g == [k \in OpenOf(t) |-> f[k]]
<1>2. g \in Injection(OpenOf(t), Runners)
  BY <1>1 DEF OpenedBy, Injection, IsInjective
<1>3. QED
  BY <1>2, FiniteRunners, FS_Injection

(* A step that opens no position of the target and moves one runner, which  *)
(* is elsewhere, kept a position, or holds on to what is still open.        *)
LEMMA OpenersKept ==
  ASSUME NEW t \in Targets, NEW r \in Runners, \E f : OpenedBy(f, t),
         \A q \in Runners \ {r} : run'[q] = run[q],
         OpenOf(t)' \subseteq OpenOf(t),
         \/ run'[r].target # t
         \/ run'[r].kept # FALSE
         \/ OpenOf(t)' \subseteq run'[r].held
         \/ /\ run'[r].target = run[r].target /\ run'[r].kept = run[r].kept
            /\ \A k \in OpenOf(t)' : k \in run[r].held => k \in run'[r].held
  PROVE  \E f : OpenedBy(f, t)'
<1>1. PICK f : OpenedBy(f, t)
  OBVIOUS
<1>2. ASSUME NEW q \in Runners, run'[q].target = t, run'[q].kept = FALSE,
             NEW k \in OpenOf(t)', f[k] = q
      PROVE  k \in run'[q].held
  <2>1. CASE q = r
    BY <1>1, <1>2, <2>1 DEF OpenedBy
  <2>2. CASE q # r
    BY <1>1, <1>2, <2>2 DEF OpenedBy
  <2>3. QED
    BY <2>1, <2>2
<1>3. OpenedBy(f, t)'
  BY <1>1, <1>2 DEF OpenedBy
<1>4. QED
  BY <1>3

(* A step that touches neither the orders nor the runners.                  *)
LEMMA OpenersKeptByWorld ==
  ASSUME OpenerInv, Open' \subseteq Open, UNCHANGED <<orders, run>>
  PROVE  OpenerInv'
<1>1. \A r \in Runners : AtWork(r)'
  BY DEF OpenerInv, AtWork
<1>2. ASSUME NEW t \in Targets PROVE \E f : OpenedBy(f, t)'
  <2>1. PICK f : OpenedBy(f, t)
    BY DEF OpenerInv
  <2>2. OpenOf(t)' \subseteq OpenOf(t)
    BY DEF OpenOf
  <2>3. OpenedBy(f, t)'
    BY <2>1, <2>2 DEF OpenedBy
  <2>4. QED
    BY <2>3
<1>3. QED
  BY <1>1, <1>2 DEF OpenerInv

(* A tick keeps every order on its target.                                  *)
LEMMA TargetsStay ==
  ASSUME PaperTypeOK, HoldInv, NEW r \in Runners, TickEffect(r),
         NEW k \in TradeIds, orders[k].status # "absent"
  PROVE  orders'[k].target = orders[k].target
<1>1. CASE orders' = orders
  BY <1>1
<1>2. ASSUME NEW j \in TradeIds, NEW n \in Sizes, Submits(r, j, n)
      PROVE  orders'[k].target = orders[k].target
  <2>1. orders[j].status = "absent" /\ \A l \in TradeIds \ {j} : orders'[l] = orders[l]
    BY <1>2 DEF Submits, PaperTypeOK
  <2>2. QED
    BY <2>1
<1>3. CASE Fills(r)
  <2>1. run[r].trade \in TradeIds \cup {0}
    BY DEF PaperTypeOK, Runs
  <2>2. orders' = [orders EXCEPT ![run[r].trade] = [@ EXCEPT !.status = "filled"]]
    BY <1>3 DEF Fills
  <2>3. \A l \in TradeIds : orders[l] \in Orders
    BY DEF PaperTypeOK
  <2>4. QED
    BY <2>1, <2>2, <2>3 DEF PaperTypeOK, Orders
<1>4. QED
  BY <1>1, <1>2, <1>3
  DEF TickEffect, GoesIdle, MovesOn, EndsTarget, Takes, Keeps, Closes, Opens, UnchangedBook

LEMMA AtWorkTick ==
  ASSUME PaperTypeOK, HoldInv, OpenerInv, NEW r \in Runners,
         TickFrame(r), TickEffect(r), NEW q \in Runners
  PROVE  AtWork(q)'
<1>a. /\ AtWork(r) /\ AtWork(q) /\ Carried(r) /\ Carried(q)
      /\ \A p \in Runners : run[p].trade \in TradeIds \cup {0}
  BY DEF OpenerInv, HoldInv, PaperTypeOK, Runs
<1>b. \A k \in TradeIds : k # 0
  BY DEF TradeIds
<1>1. CASE q # r
  <2>1. run'[q] = run[q]
    BY <1>1 DEF TickFrame
  <2>2. ASSUME run[q].pc \in {"order", "fill"}
        PROVE  orders'[run[q].trade].target = run[q].target
    <3>1. run[q].trade \in TradeIds /\ orders[run[q].trade].status # "absent"
      BY <1>a, <1>b, <2>2 DEF Carried
    <3>2. orders'[run[q].trade].target = orders[run[q].trade].target
      BY <3>1, TargetsStay
    <3>3. QED
      BY <1>a, <2>2, <3>2 DEF AtWork
  <2>3. QED
    BY <1>a, <2>1, <2>2 DEF AtWork
<1>2. CASE q = r
  <2>1. CASE GoesIdle(r)
    BY <1>2, <2>1 DEF GoesIdle, IdleRun, AtWork
  <2>2. CASE EndsTarget(r)
    BY <1>2, <2>2 DEF EndsTarget, Fresh, AtWork
  <2>3. CASE MovesOn(r)
    BY <1>2, <1>a, <2>3 DEF MovesOn, SameTarget, AtWork
  <2>4. CASE Takes(r)
    BY <1>2, <1>a, <2>4 DEF Takes, AtWork
  <2>5. ASSUME NEW k \in TradeIds, Keeps(r, k) PROVE AtWork(r)'
    BY <2>5 DEF Keeps, Manages, AtWork
  <2>6. ASSUME NEW k \in TradeIds, NEW x \in Results, Closes(r, k, x) PROVE AtWork(r)'
    BY <2>6 DEF Closes, Manages, AtWork
  <2>7. ASSUME NEW k \in TradeIds, NEW n \in Sizes, Submits(r, k, n) PROVE AtWork(r)'
    <3>1. run[r].kept = FALSE
      <4>1. run[r].kept \in BOOLEAN /\ ~ run[r].kept
        BY <2>7 DEF Submits, Enters, PaperTypeOK, Runs
      <4>2. QED
        BY <4>1
    <3>2. orders'[k].target = run[r].target
      BY <2>7 DEF Submits, PaperTypeOK
    <3>3. QED
      BY <2>7, <3>1, <3>2 DEF Submits, AtWork
  <2>8. CASE Fills(r)
    <3>1. /\ run[r].pc = "order" /\ run'[r].pc = "fill"
          /\ run'[r].trade = run[r].trade /\ run'[r].target = run[r].target
          /\ run'[r].held = run[r].held /\ run'[r].kept = run[r].kept
      BY <2>8 DEF Fills, SameTarget
    <3>2. run[r].trade \in TradeIds /\ orders[run[r].trade].status # "absent"
      BY <1>a, <1>b, <3>1 DEF Carried
    <3>3. orders'[run[r].trade].target = orders[run[r].trade].target
      BY <3>2, TargetsStay
    <3>4. QED
      BY <1>a, <1>2, <3>1, <3>3 DEF AtWork
  <2>9. CASE Opens(r)
    BY <1>2, <2>9 DEF Opens, Fresh, AtWork
  <2>10. QED
    BY <1>2, <2>1, <2>2, <2>3, <2>4, <2>5, <2>6, <2>7, <2>8, <2>9 DEF TickEffect
<1>3. QED
  BY <1>1, <1>2

(* The step that opens a position makes its process the opener.             *)
LEMMA OpenerOpens ==
  ASSUME PaperTypeOK, HoldInv, OpenerInv, NEW r \in Runners, TickFrame(r),
         Opens(r), NEW t \in Targets
  PROVE  \E f : OpenedBy(f, t)'
<1>a. /\ AtWork(r) /\ Carried(r) /\ run[r].trade \in TradeIds \cup {0}
      /\ \A k \in TradeIds : k # 0
  BY DEF OpenerInv, HoldInv, PaperTypeOK, Runs, TradeIds
<1>1. PICK k \in TradeIds : k = run[r].trade
  BY <1>a DEF Opens, Carried
<1>2. /\ positions'[k].status = "open" /\ orders' = orders
      /\ positions[k].status = "absent"
      /\ \A l \in TradeIds \ {k} : positions'[l] = positions[l]
      /\ run'[r].target = "none"
      /\ run[r].held = {} /\ run[r].kept = FALSE
      /\ orders[k].target = run[r].target
  BY <1>1, <1>a DEF Opens, Fresh, PaperTypeOK, Carried, AtWork
<1>3. Open' = Open \cup {k} /\ k \notin Open
  BY <1>2 DEF Open
<1>4. PICK f : OpenedBy(f, t)
  BY DEF OpenerInv
<1>n. t # "none"
  BY PaperAssumption
<1>5. CASE run[r].target # t
  <2>1. OpenOf(t)' = OpenOf(t)
    BY <1>2, <1>3, <1>5 DEF OpenOf
  <2>2. QED
    BY <1>2, <1>4, <1>n, <2>1, OpenersKept DEF TickFrame
<1>6. CASE run[r].target = t
  <2>1. OpenOf(t)' = OpenOf(t) \cup {k} /\ k \notin OpenOf(t)
    BY <1>2, <1>3, <1>6 DEF OpenOf
  <2>2. \A l \in OpenOf(t) : f[l] \in Runners /\ f[l] # r
    BY <1>2, <1>4, <1>6 DEF OpenedBy
  <2> DEFINE g == [l \in TradeIds |-> IF l = k THEN r ELSE f[l]]
  <2>3. g[k] = r /\ \A l \in OpenOf(t) : g[l] = f[l]
    BY <2>1 DEF OpenOf, Open
  <2> HIDE DEF g
  <2>4. /\ \A l \in OpenOf(t)' : g[l] \in Runners
        /\ \A l, m \in OpenOf(t)' : g[l] = g[m] => l = m
    BY <1>4, <2>1, <2>2, <2>3 DEF OpenedBy
  <2>5. ASSUME NEW q \in Runners, run'[q].target = t, run'[q].kept = FALSE,
               NEW l \in OpenOf(t)', g[l] = q
        PROVE  l \in run'[q].held
    <3>1. q # r
      BY <1>2, <1>n, <2>5
    <3>2. run'[q] = run[q] /\ l \in OpenOf(t) /\ f[l] = q
      BY <2>1, <2>3, <2>5, <3>1 DEF TickFrame
    <3>3. QED
      BY <1>4, <2>5, <3>2 DEF OpenedBy
  <2>6. OpenedBy(g, t)'
    BY <2>4, <2>5 DEF OpenedBy
  <2>7. QED
    BY <2>6
<1>7. QED
  BY <1>5, <1>6

LEMMA OpenersTick ==
  ASSUME PaperTypeOK, HoldInv, OpenerInv, NEW r \in Runners,
         TickFrame(r), TickEffect(r), NEW t \in Targets
  PROVE  \E f : OpenedBy(f, t)'
<1>a. /\ AtWork(r) /\ Carried(r) /\ \E f : OpenedBy(f, t)
      /\ run[r].trade \in TradeIds \cup {0} /\ t # "none"
  BY PaperAssumption DEF OpenerInv, HoldInv, PaperTypeOK, Runs
<1>f. \A q \in Runners \ {r} : run'[q] = run[q]
  BY DEF TickFrame
<1>1. ASSUME UnchangedBook PROVE OpenOf(t)' = OpenOf(t)
  BY <1>1 DEF UnchangedBook, OpenOf, Open
<1>2. CASE GoesIdle(r) \/ EndsTarget(r)
  <2>1. run'[r].target = "none" /\ UnchangedBook
    BY <1>2 DEF GoesIdle, EndsTarget, Fresh, IdleRun
  <2>2. QED
    BY <1>1, <1>a, <1>f, <2>1, OpenersKept
<1>3. CASE MovesOn(r)
  BY <1>1, <1>3, <1>a, <1>f, OpenersKept DEF MovesOn, SameTarget
<1>4. CASE Takes(r)
  <2>1. OpenOf(t)' = OpenOf(t)
    BY <1>1, <1>4 DEF Takes
  <2>2. run'[r].target = t => run'[r].held = OpenOf(t)
    BY <1>4 DEF Takes
  <2>3. QED
    BY <1>a, <1>f, <2>1, <2>2, OpenersKept
<1>5. ASSUME NEW k \in TradeIds, Keeps(r, k) PROVE \E f : OpenedBy(f, t)'
  <2>1. OpenOf(t)' = OpenOf(t) /\ run'[r].kept # FALSE
    BY <1>1, <1>5 DEF Keeps
  <2>2. QED
    BY <1>a, <1>f, <2>1, OpenersKept
<1>6. ASSUME NEW k \in TradeIds, NEW x \in Results, Closes(r, k, x)
      PROVE  \E f : OpenedBy(f, t)'
  <2>1. /\ positions'[k].status = "closed" /\ orders' = orders
        /\ \A l \in TradeIds \ {k} : positions'[l] = positions[l]
        /\ run'[r].held = run[r].held \ {k} /\ run'[r].kept = run[r].kept
        /\ run'[r].target = run[r].target
    BY <1>6 DEF Closes, Manages, SameTarget, PaperTypeOK
  <2>2. OpenOf(t)' = OpenOf(t) \ {k}
    BY <2>1 DEF Open, OpenOf
  <2>3. QED
    BY <1>a, <1>f, <2>1, <2>2, OpenersKept
<1>7. ASSUME NEW k \in TradeIds, NEW n \in Sizes, Submits(r, k, n)
      PROVE  \E f : OpenedBy(f, t)'
  <2>1. /\ orders[k].status = "absent" /\ positions' = positions
        /\ \A l \in TradeIds \ {k} : orders'[l] = orders[l]
        /\ run'[r].held = run[r].held /\ run'[r].kept = run[r].kept
        /\ run'[r].target = run[r].target
    BY <1>7 DEF Submits, PaperTypeOK
  <2>2. Open' = Open /\ k \notin Open
    BY <2>1 DEF Open, HoldInv
  <2>3. OpenOf(t)' = OpenOf(t)
    BY <2>1, <2>2, OpenIn DEF OpenOf
  <2>4. QED
    BY <1>a, <1>f, <2>1, <2>3, OpenersKept
<1>8. CASE Fills(r)
  <2>1. /\ positions' = positions
        /\ run'[r].held = run[r].held /\ run'[r].kept = run[r].kept
        /\ run'[r].target = run[r].target
    BY <1>8 DEF Fills, SameTarget
  <2>2. Open' = Open
    BY <2>1 DEF Open
  <2>3. \A l \in Open : orders'[l].target = orders[l].target
    <3>1. \A l \in Open : l \in TradeIds /\ orders[l].status # "absent"
      BY DEF Open, HoldInv
    <3>2. QED
      BY <3>1, TargetsStay
  <2>4. OpenOf(t)' = OpenOf(t)
    BY <2>2, <2>3 DEF OpenOf
  <2>5. QED
    BY <1>a, <1>f, <2>1, <2>4, OpenersKept
<1>9. CASE Opens(r)
  BY <1>9, OpenerOpens
<1>10. QED
  BY <1>2, <1>3, <1>4, <1>5, <1>6, <1>7, <1>8, <1>9 DEF TickEffect

LEMMA OpenerStep ==
  ASSUME PaperTypeOK, HoldInv, OpenerInv, [PaperNext]_paperVars
  PROVE  OpenerInv'
<1>1. CASE OutsideEffect
  <2>1. Open' \subseteq Open
    BY <1>1 DEF OutsideEffect, Open
  <2>2. QED
    BY <1>1, <2>1, OpenersKeptByWorld DEF OutsideEffect
<1>2. CASE KillSwitch
  <2>1. Open' \subseteq Open /\ UNCHANGED <<orders, run>>
    BY <1>2, KillEffects DEF Open
  <2>2. QED
    BY <2>1, OpenersKeptByWorld
<1>3. ASSUME NEW r \in Runners, ReadsBar(r) \/ Dies(r) PROVE OpenerInv'
  <2>1. /\ orders' = orders /\ positions' = positions
        /\ \A q \in Runners \ {r} : run'[q] = run[q]
        /\ run'[r].pc \in {"idle", "check"} /\ run'[r].target = "none"
        /\ run'[r].held = {} /\ run'[r].kept = FALSE
    BY <1>3 DEF ReadsBar, Dies, UnchangedBook, TickFrame, IdleRun
  <2>2. \A t \in Targets : OpenOf(t)' = OpenOf(t) /\ t # "none"
    BY <2>1, PaperAssumption DEF OpenOf, Open
  <2>3. \A t \in Targets : \E f : OpenedBy(f, t)'
    BY <2>1, <2>2, OpenersKept DEF OpenerInv
  <2>4. AtWork(r)'
    BY <2>1 DEF AtWork
  <2>5. \A q \in Runners \ {r} : AtWork(q)'
    BY <2>1 DEF OpenerInv, AtWork
  <2>6. QED
    BY <2>3, <2>4, <2>5 DEF OpenerInv
<1>4. ASSUME NEW r \in Runners, TickFrame(r), TickEffect(r) PROVE OpenerInv'
  BY <1>4, AtWorkTick, OpenersTick DEF OpenerInv
<1>5. QED
  BY <1>1, <1>2, <1>3, <1>4, NextEffects

(* However many processes run bars at the same time, and wherever their     *)
(* ticks die, a target has at most one open position for each of them: no   *)
(* process ever opens a second position of a target beside its own.         *)
THEOREM TargetsHoldOnePerProcess == PaperSpec => []OnePerProcess
<1>1. PaperInit => OpenerInv
  <2> SUFFICES ASSUME PaperInit PROVE OpenerInv
    OBVIOUS
  <2>1. \A r \in Runners : AtWork(r) /\ run[r].target = "none"
    BY DEF PaperInit, AtWork, IdleRun
  <2>2. \A t \in Targets : OpenOf(t) = {}
    BY DEF PaperInit, OpenOf, Open, NoPosition
  <2>3. \A t \in Targets : OpenedBy(run, t)
    BY <2>1, <2>2 DEF OpenedBy
  <2>4. QED
    BY <2>1, <2>3 DEF OpenerInv
<1>2. PaperTypeOK /\ HoldInv /\ OpenerInv /\ [PaperNext]_paperVars => OpenerInv'
  BY OpenerStep
<1>3. QED
  BY <1>1, <1>2, OpenersBound, Holds, PaperTypeCorrect, PTL DEF PaperSpec
=============================================================================
