CONSTANTS
    Singles = {w}
    Bulks = {b}
    BulkChunks = 2
    Nodes = {n1, n2}
    MaxRedirects = 1
    MaxAttempts = 1
    MaxBackends = 3
    MaxElections = 1
    MaxTimeouts = 0
SPECIFICATION Spec
INVARIANT
    TransactionStaysOnItsNode
CHECK_DEADLOCK FALSE
