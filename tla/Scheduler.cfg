SPECIFICATION Spec
CONSTANTS
  Schedules = {s1, s2}
  Nobody = Nobody
  MaxUserRuns = 1
  MaxRestarts = 1
  MaxFailures = 1
SYMMETRY ScheduleSymmetry
INVARIANTS TimerArmed PollArmedUnlessResumed
PROPERTY StartsAlone
