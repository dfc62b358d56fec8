SPECIFICATION Spec
CONSTANTS
    t1 = t1
    t2 = t2
    t3 = t3
    serve = serve
    gateway = gateway
    Threads = {t1, t2, t3}
    Processes = {serve, gateway}
    Home <- SomeHomes
    Bodies = {b1, b2}
    None = None
    Tampering = {"edit", "rehash", "remove", "truncate"}
    MaxRecords = 4
    MaxCrash = 1
    MaxFaults = 1
SYMMETRY Symmetry
INVARIANTS
    ChainStaysIntact
    TamperingIsSeen
CHECK_DEADLOCK FALSE
