CONSTANTS
    Keys = {k1, k2}
    Txs = {t1, t2}
    Streams = {}
    BatchSize = 1
    MaxWrites = 2
    Autonomous = Autonomous
    NoStore = NoStore
SPECIFICATION Spec
SYMMETRY Symmetry
INVARIANT
    FirstCommitterWins
CHECK_DEADLOCK FALSE
