\* One request and one worker; the worker may die, the venue may refuse.
SPECIFICATION FairLiveSpec
CONSTANTS
  w1 = w1
  w2 = w2
  a1 = a1
  a2 = a2
  t1 = t1
  t2 = t2
  Processors <- OneWorker
  Workers <- OneWorker
  Kinds <- ExecutionOnly
  Priorities <- TicketPriority
  MaxRetries = 3
  Faults <- CleanFailures
  MaxJobs = 2
  MaxLetters = 1
  Tickets <- OneTicket
  Traded <- TwoVenues
  Switches <- OnAndOff
  Admins <- OneRequest
  PostAttempts = 3
INVARIANTS OneOrderPerTicket OpenTicketHasNoJob
PROPERTIES RejectionHolds QueuedTicketIsActedOn ImplementsQueue
CHECK_DEADLOCK FALSE
