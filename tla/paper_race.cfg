\* The worker's scheduler and an API request run the same bars.
SPECIFICATION PaperSpec
CONSTANTS
  w1 = w1
  w2 = w2
  t1 = t1
  t2 = t2
  i1 = i1
  i2 = i2
  Runners <- TwoRunners
  Schedulers <- OneRunner
  Targets <- TwoTargets
  Instruments <- TwoInstruments
  InstrumentOf <- OneEach
  Sizes <- OneOrThree
  Results <- OnlyLoss
  MaxOpen = 2
  MaxGross = 3
  LossLimit = 1
  Faults <- NoFault
  MaxTrades = 4
  MaxBars <- OneBarEach
  MaxDays = 1
INVARIANTS CapOvershoot GrossOvershoot LateOrdersBounded OrdersAreFollowed
PROPERTIES LimitsFreezeTheBook
SYMMETRY RunnerSymmetry
CHECK_DEADLOCK FALSE
