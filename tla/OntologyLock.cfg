CONSTANTS
    Clients = {c1, c2}
    LockNames = {1, 2}
    NoOwner = NoOwner
    Orphan = Orphan
    MaxToken = 3
SPECIFICATION FairLockSpec
INVARIANTS
    LockTypeOK
    OwnerKnows
    FreshTokenOrder
    AscendingWaits
PROPERTIES
    OnlyHolderFrees
    CallsReturn
