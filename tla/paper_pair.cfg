\* The scheduler and an API request over one target; ticks may die.
SPECIFICATION FairPaperSpec
CONSTANTS
  w1 = w1
  w2 = w2
  t1 = t1
  t2 = t2
  i1 = i1
  i2 = i2
  Runners <- TwoRunners
  Schedulers <- OneRunner
  Targets <- OneTarget
  Instruments <- OneInstrument
  InstrumentOf <- OnlyOne
  Sizes <- OneSize
  Results <- OnlyLoss
  MaxOpen = 2
  MaxGross = 2
  LossLimit = 1
  Faults <- TicksDie
  MaxTrades = 1
  MaxBars <- TwoBars
  MaxDays = 2
INVARIANTS ClosesBounded
PROPERTIES BarsGetProcessed
CHECK_DEADLOCK FALSE
