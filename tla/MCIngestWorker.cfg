CONSTANTS
    p1 = p1
    p2 = p2
    x1 = x1
    x2 = x2
    Workers = {k1, k2}
    Partitions = {p1, p2}
    Contents = {x1, x2}
    Document <- OneChunk
    EarlierLogs <- BusyTopic
    Poison = Poison
    NoWorker = NoWorker
    MaxRetries = 2
    MaxFaults = 2
SPECIFICATION FairSpec
INVARIANTS
    WorkerTypeOK
    SentOrReported
    OnlyFailuresAreSkipped
    MarkedIsPersisted
    PoisonBlocks
PROPERTY EveryChunkTried
