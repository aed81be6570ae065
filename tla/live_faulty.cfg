\* One worker against a venue and a database that fail at the worst moment.
SPECIFICATION LiveSpec
CONSTANTS
  w1 = w1
  w2 = w2
  a1 = a1
  a2 = a2
  t1 = t1
  t2 = t2
  Processors <- OneWorker
  Workers <- OneWorker
  Kinds <- ExecutionOnly
  Priorities <- TicketPriority
  MaxRetries = 3
  Faults <- AmbiguousFailures
  MaxJobs = 2
  MaxLetters = 1
  Tickets <- OneTicket
  Traded <- TwoVenues
  Switches <- OnAndOff
  Admins <- OneRequest
  PostAttempts = 3
INVARIANTS OrdersBounded
PROPERTIES OrdersWithinGates
CHECK_DEADLOCK FALSE
