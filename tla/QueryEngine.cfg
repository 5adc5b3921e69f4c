CONSTANTS
    Calls = {q1, q2, q3}
    MaxAttempts = 3
    FailureThreshold = 3
    RecoveryTimeout = 2
    HalfOpenMaxCalls = 2
SPECIFICATION FairSpec
INVARIANTS
    NeverStuck
    EngineTypeOK
PROPERTIES
    TransitionsAreEarned
    RecoveryIsTested
    QueryEnds
