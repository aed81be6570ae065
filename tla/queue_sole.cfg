\* One worker drains the queue, may die anywhere, and any statement may raise.
SPECIFICATION FairQueueSpec
CONSTANTS
  w1 = w1
  w2 = w2
  Processors <- OneWorker
  Workers <- OneWorker
  Kinds <- ExecutionOnly
  Priorities <- TwoPriorities
  MaxRetries = 3
  Faults <- CrashesAndErrors
  MaxJobs = 2
  MaxLetters = 3
INVARIANTS QueueTypeOK RunsBounded LettersMatchFailures
PROPERTIES ImplementsLifecycle JobsSettle
CHECK_DEADLOCK FALSE
