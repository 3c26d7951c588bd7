SPECIFICATION Spec
CONSTANTS
    MaxOps = 4
    MaxTokens = 2
INVARIANTS NoTokenLeaks SignOutStands CheckingIsAnswered
PROPERTY OnlyTheLatestSpeaks
CONSTRAINT Explored
CHECK_DEADLOCK FALSE
