\* Two requests at once against the worker; requests and the worker may die.
SPECIFICATION LiveSpec
CONSTANTS
  w1 = w1
  w2 = w2
  a1 = a1
  a2 = a2
  t1 = t1
  t2 = t2
  Processors <- OneWorker
  Workers <- OneWorker
  Kinds <- ExecutionOnly
  Priorities <- TicketPriority
  MaxRetries = 1
  Faults <- RacingFailures
  MaxJobs = 2
  MaxLetters = 1
  Tickets <- TwoTickets
  Traded <- OneVenue
  Switches <- OnlyOn
  Admins <- TwoRequests
  PostAttempts = 1
INVARIANTS LiveTypeOK RefsAreTheirOwn
SYMMETRY RaceSymmetry
CHECK_DEADLOCK FALSE
