SPECIFICATION FairSpec
CONSTANTS
  Approvals = {a1, a2}
  MaxRuns = 2
  MaxRestarts = 1
CHECK_DEADLOCK FALSE
INVARIANTS PendingIsArmed AnswerMatchesRow
PROPERTIES ToldInItsTurn EveryRequestEnds
