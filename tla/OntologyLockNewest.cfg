CONSTANTS
    Clients = {c1, c2}
    LockNames = {1, 2}
    NoOwner = NoOwner
    Orphan = Orphan
    MaxToken = 2
SPECIFICATION LockSpec
INVARIANT OwnerHasNewestToken
