SPECIFICATION MCSpec
CONSTANTS
    Txs = {t1, t2}
    Upserts = {u1, u2}
    Keys = {k1, k2}
    Oids = {o1, o2}
    None = None
    Schemas <- SampleSchemas
    RowIds = {1, 2, 3}
    MaxWrites = 1
    Offsets = {0, 1}
    Limits = {0, 2, 3}
    Batches = {1, 2}
    MaxPayload = 2
    MaxFrames = 2
    MaxConns = 2
    Contents = {1, 2}
    Lists <- SampleLists
SYMMETRY Symmetric
INVARIANTS
    TypeOK
    DoneUpsertIsStored
    CommitKeeps
    RollbackDiscards
    FlagTellsTransaction
    RedisKeepsRows
    MongoKeepsRows
    StreamsAndInserts
    ModelsRoundTrip
    MigrationsAreSafe
    FramesAreSafe
CHECK_DEADLOCK FALSE
