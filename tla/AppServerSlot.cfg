SPECIFICATION FairSpec
CONSTANTS
  Configurations = {c1, c2}
  MaxRuns = 4
CHECK_DEADLOCK FALSE
INVARIANT OneProcess
PROPERTIES NoRunOnOutdatedHost OutdatedHostGoes CloseEnds
