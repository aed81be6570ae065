\* Targets: two requests, one target, two backtests, two edits by people.
\* Engine: up to four bars, two strategies, two sizes.
\* Rate limiter: two callers, two requests in a window of three seconds.
\* Vault: two writers, two names, two passphrases, three changes.
SPECIFICATION Spec
CONSTANTS
  r1 = r1
  r2 = r2
  t1 = t1
  c1 = c1
  c2 = c2
  w1 = w1
  w2 = w2
  n1 = n1
  n2 = n2
  s1 = s1
  p1 = p1
  p2 = p2
  Requests <- TwoRequests
  Targets <- OneTarget
  Seeded <- OneTarget
  Results <- SomeResults
  Patches <- SomePatches
  MaxRuns = 2
  MaxEdits = 2
  Strategies <- SomeStrategies
  Values <- AroundZero
  Prices = {2, 3}
  Rates = {0, 1}
  Sizes = {6, 12}
  Capital = 100
  Cost = 1
  MaxBars = 4
  Frames <- SomeFrames
  Callers <- TwoCallers
  Limit = 2
  WindowSeconds = 3
  MaxClock = 9
  MaxAdmitted = 6
  Writers <- TwoWriters
  Names <- TwoNames
  Secrets <- OneSecret
  Passphrases <- TwoPassphrases
  MaxChanges = 3
INVARIANTS StatusHasGrounds EnabledByPeople BooksBalance HoldsOnlyWhatPaperHolds DrawdownIsTheLargest TestsAreUnseen WindowBound KeysKept
CHECK_DEADLOCK FALSE
