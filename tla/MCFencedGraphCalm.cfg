CONSTANTS
    w1 = w1
    w2 = w2
    a1 = a1
    a2 = a2
    Company = Company
    Clients = {w1, w2, a1}
    Workers = {w1, w2}
    LockNames = {1, 2, 3}
    GlobalIngest = 3
    NoOwner = NoOwner
    Orphan = Orphan
    MaxToken = 3
    Labels = {Company}
    Dynamic = Dynamic
    Extractions <- TwoExtractions
    MaxAttempts = 2
SYMMETRY WriterSymmetry
SPECIFICATION CalmSpec
INVARIANTS
    ExclusiveBodies
    IngestExclusive
PROPERTY ConflictIsStale

