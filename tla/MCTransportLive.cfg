CONSTANTS
    Calls = {c1, c2}
    MaxAttempts = 1
    NoCall = NoCall
SPECIFICATION FairSpec
PROPERTIES
    EveryCallEnds
    CloseReturns
CHECK_DEADLOCK FALSE
