SPECIFICATION FairSpec
CONSTANTS
  Schedules = {s1}
  Nobody = Nobody
  MaxUserRuns = 2
  MaxRestarts = 1
  MaxFailures = 1
PROPERTIES DueIsHandled PendingIsServed
