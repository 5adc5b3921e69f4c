CONSTANTS
    p1 = p1
    p2 = p2
    x1 = x1
    x2 = x2
    Workers = {k1}
    Partitions = {p1}
    Contents = {x1, x2}
    Document <- RepeatedChunks
    EarlierLogs <- EmptyTopic
    Poison = Poison
    NoWorker = NoWorker
    MaxRetries = 2
    MaxFaults = 0
SPECIFICATION Spec
INVARIANT CommittedIsPersisted
