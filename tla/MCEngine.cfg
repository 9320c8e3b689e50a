CONSTANTS
    Keys = {k1, k2, k3}
    Txs = {t1, t2}
    Streams = {s1, s2}
    BatchSize = 1
    MaxWrites = 3
    Autonomous = Autonomous
    NoStore = NoStore
    None = None
    MaxClauses = 2
    RowIds = {1, 2, 3}
    FirstField = "grp"
    Words = {"x", "y"}
    Contents <- SampleContents
    FirstTables <- SampleTables
    RankedSearches <- SampleSearches
    PageSizes = {1, 2}
    Sorts <- SampleSorts
    RowWrites = 2
SPECIFICATION MCSpec
SYMMETRY Symmetry
INVARIANTS
    TypeOK
    SnapshotPlusOwnWrites
    UncommittedNeverVisible
    StreamIsSnapshot
    CursorsReleased
    QueriesAnswerRight
    FiltersMeanTheSame
    AskedIsAnswered
CHECK_DEADLOCK FALSE
