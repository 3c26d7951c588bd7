SPECIFICATION FairSpec
CONSTANTS
  Keys = {k1, k2}
  NoKey = NoKey
  MaxJobs = 2
CHECK_DEADLOCK FALSE
INVARIANTS NoTurnLeftBehind OutcomeIsOwn TurnHasItsManifest
PROPERTIES ImplementsTurnHost CancelSettles HostGoes
