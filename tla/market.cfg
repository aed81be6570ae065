\* Bars: two jobs of the worker, or one and a request or a health check; one failure.
\* Marks: three prices, one older answer, one bar run, one restart.
SPECIFICATION Spec
CONSTANTS
  tick = tick
  repair = repair
  request = request
  thread = thread
  Crons <- TwoCrons
  Requests <- OneRequest
  Threads <- OneThread
  TicksPerBar = 2
  BarsPerMonth = 2
  PageLimit = 2
  Lookbacks = {0, 2}
  StaleBars = 2
  MaxClock = 5
  MaxRequests = 1
  MaxFaults = 1
  MaxPrice = 3
  MaxOld = 1
  MaxBarRuns = 1
  MaxRestarts = 1
INVARIANTS HealthyIsTrue
PROPERTIES BarsOnlyImprove IngestedBarsBecomeFinal MarksCatchUp
CHECK_DEADLOCK FALSE
