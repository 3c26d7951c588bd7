SPECIFICATION FairSpec
CONSTANTS
  Threads = {t1, t2}
  PersistentQueue = PersistentQueue
  MaxConcurrency = 1
  AppServer = TRUE
  Origins = {"api", "schedule"}
  Modes = {"enqueue", "interrupt_and_enqueue"}
  Requests = {}
  Failures = {"resumeMissing"}
  MaxRuns = 3
  MaxRestarts = 0
CHECK_DEADLOCK FALSE
PROPERTY EveryRunEnds
