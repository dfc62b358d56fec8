SPECIFICATION Spec
CONSTANTS
    None = None
    Absent = Absent
    Garbled = Garbled
    NotEd25519 = NotEd25519
    NotPem = NotPem
    g1 = g1
    g2 = g2
    k1 = k1
    k2 = k2
    p1 = p1
    p2 = p2
    t1 = t1
    s1 = s1
    a1 = a1
    a2 = a2
    Threads = {th1, th2}
    Ids = {g1, g2}
    Requests <- SomeRequests
    Configs <- SomeConfigs
    MaxCalls = 3
    MaxCrash = 1
    MaxFaults = 1
INVARIANT VerdictIsRight
INVARIANT OneRedemptionOneRecord
INVARIANT EveryAnswerIsOnRecord
PROPERTY OnlyTheEntitledConsume
CHECK_DEADLOCK FALSE
