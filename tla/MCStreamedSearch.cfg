SPECIFICATION Spec
CONSTANTS
    None = None
    MaxClauses = 2
INVARIANT StreamedSearchIsRefusedOrAnswered
CHECK_DEADLOCK FALSE
