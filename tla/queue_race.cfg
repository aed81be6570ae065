\* The worker and an API request process jobs of any type at the same time.
SPECIFICATION QueueSpec
CONSTANTS
  w1 = w1
  w2 = w2
  Processors <- WorkerAndApi
  Workers <- OneWorker
  Kinds <- AnyKind
  Priorities <- OnePriority
  MaxRetries = 2
  Faults <- ErrorsOnly
  MaxJobs = 2
  MaxLetters = 2
INVARIANTS ClaimedIsOwned
CHECK_DEADLOCK FALSE
