CONSTANTS
    Singles = {w}
    Bulks = {b}
    BulkChunks = 2
    Nodes = {n1, n2}
    MaxRedirects = 1
    MaxAttempts = 2
    MaxBackends = 3
    MaxElections = 1
    MaxTimeouts = 1
SPECIFICATION FairSpec
INVARIANTS
    TypeOK
    RedirectAddsNoWrite
    SuccessMeansApplied
    NotLeaderAddsNoWrite
    CurrentNotClosedByRedirect
PROPERTY
    OperationEnds
CHECK_DEADLOCK FALSE
