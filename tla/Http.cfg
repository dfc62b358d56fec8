SPECIFICATION Spec
CONSTANTS
    c1 = c1
    c2 = c2
    k1 = k1
    k2 = k2
    Addresses <- SomeAddresses
    Keys = {k1, k2}
    Conns = {c1, c2}
    None = None
    Garbled = Garbled
    PerWindow = 2
    Window = 1
    Second = 2
    Requests <- SomeRequests
    MaxBody = 1
    MaxRequests = 4
    MaxTime = 2
    MaxLag = 1
INVARIANTS
    BurstIsBounded
    IdleClientsAreForgotten
    PoliteConnectionsStayInSync
PROPERTIES
    RetryAfterIsHonoured
    OnlyAStalledPeerBlocks
CHECK_DEADLOCK FALSE
