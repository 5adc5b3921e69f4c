CONSTANTS
    s1 = s1
    s2 = s2
    m1 = m1
    h1 = h1
    Requests = {s1, s2, m1, h1}
    Kind <- Kinds
    NoSession = NoSession
    Tools = {"write_graph_edge"}
    Limit = 1
    Window = 2
SPECIFICATION FairSpec
INVARIANTS
    CountExpires
    BoundedOvershoot
    ApiTypeOK
    GaugeIsExact
    WritesAreAdmins
PROPERTIES
    LockoutEnds
    HandledRequestsEnd
