CONSTANTS
    Txs = {t1}
    Writes = {w1}
    Streams = {}
    Pages = 1
    NoTask = NoTask
SPECIFICATION Spec
INVARIANT UncommittedStaysInvisible
CHECK_DEADLOCK FALSE
