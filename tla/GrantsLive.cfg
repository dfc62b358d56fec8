SPECIFICATION FairSpec
CONSTANTS
    None = None
    Threads = {t1, t2}
    Principals = {p1}
    Tools = {x1}
    Hashes = {h1}
    GrantIds = {g1}
    TTLs = {1}
    MaxTime = 0
    MaxCalls = 3
    Offered = {"authorize", "redeem", "close", "outcome"}
    MaxCrash = 1
PROPERTIES
    EveryCallReturns
CHECK_DEADLOCK FALSE
