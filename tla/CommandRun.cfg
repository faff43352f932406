SPECIFICATION FairSpec
CONSTANTS
    TailBytes = 2
    Text <- MCText
INVARIANTS
    TextSurvives
PROPERTIES
    NothingBelowMark
    SignalsOwnGroup
    AbortReturns
CHECK_DEADLOCK FALSE
