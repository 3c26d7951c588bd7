SPECIFICATION Spec
CONSTANTS
  Threads = {t1, t2}
  PersistentQueue = PersistentQueue
  MaxConcurrency = 1
  AppServer = TRUE
  Origins = {"api"}
  Modes = {"enqueue"}
  Requests = {"cancel", "close", "signOut"}
  Failures = {"resumeMissing", "turn"}
  MaxRuns = 3
  MaxRestarts = 1
SYMMETRY ThreadSymmetry
CHECK_DEADLOCK FALSE
INVARIANT AtMostOneDone
PROPERTIES ThreadFifo ImplementsLifecycle
