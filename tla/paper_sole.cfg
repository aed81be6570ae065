\* One process runs the bars of two instruments; its ticks may die anywhere.
SPECIFICATION PaperSpec
CONSTANTS
  w1 = w1
  w2 = w2
  t1 = t1
  t2 = t2
  i1 = i1
  i2 = i2
  Runners <- OneRunner
  Schedulers <- OneRunner
  Targets <- TwoTargets
  Instruments <- TwoInstruments
  InstrumentOf <- OneEach
  Sizes <- OneSize
  Results <- OnlyLoss
  MaxOpen = 2
  MaxGross = 3
  LossLimit = 1
  Faults <- TicksDie
  MaxTrades = 2
  MaxBars <- TwoAndOneBar
  MaxDays = 1
INVARIANTS PaperTypeOK
PROPERTIES ImplementsBook BarsMoveForward
CHECK_DEADLOCK FALSE
