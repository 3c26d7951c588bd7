SPECIFICATION Spec
CONSTANTS
  Threads = {t1, t2, t3}
  PersistentQueue = PersistentQueue
  MaxConcurrency = 2
  AppServer = TRUE
  Origins = {"api", "schedule"}
  Modes = {"enqueue"}
  Requests = {"cancel", "steer"}
  Failures = {"beforeSpawn", "preparation"}
  MaxRuns = 3
  MaxRestarts = 0
SYMMETRY ThreadSymmetry
CHECK_DEADLOCK FALSE
INVARIANTS ThreadExclusive OneOwner MemoryMatchesRows NoMissedWakeUp DoneMatchesRow CancelReachesProcess
