CONSTANTS
    w1 = w1
    w2 = w2
    a1 = a1
    a2 = a2
    Company = Company
    Clients = {w1, a1}
    Workers = {w1}
    LockNames = {1, 2, 3}
    GlobalIngest = 3
    NoOwner = NoOwner
    Orphan = Orphan
    MaxToken = 2
    Labels = {Company}
    Dynamic = Dynamic
    Extractions <- OneExtraction
    MaxAttempts = 1
SPECIFICATION CalmSpec
PROPERTY StaleIsReported
