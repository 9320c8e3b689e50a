CONSTANTS
    Calls = {c1, c2}
    MaxAttempts = 1
    NoCall = NoCall
SPECIFICATION Spec
INVARIANT
    CallsFailCleanly
CHECK_DEADLOCK FALSE
