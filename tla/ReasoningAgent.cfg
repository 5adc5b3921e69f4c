CONSTANTS
    Runs = {r1, r2}
    MaxIterations = 2
    FailureThreshold = 3
    RecoveryTimeout = 1
    HalfOpenMaxCalls = 2
SPECIFICATION FairSpec
INVARIANTS
    ReasoningTypeOK
    OutageRefusesFew
PROPERTIES
    GuardSpec
    UncheckedOnlyWhenOpen
    RunEnds
