CONSTANTS
    Txs = {t1}
    Writes = {w1}
    Streams = {s1}
    Pages = 2
    NoTask = NoTask
SPECIFICATION FairSpec
INVARIANTS
    TypeOK
    StreamInStep
    CommittedByCommit
    TransactionsEnded
    StreamsReadToTheEnd
PROPERTY TasksEnd
CHECK_DEADLOCK FALSE
