SPECIFICATION Spec
CONSTANTS
    None = None
    Threads = {t1, t2}
    Principals = {p1, p2}
    Tools = {x1}
    Hashes = {h1, h2}
    GrantIds = {g1}
    TTLs = {1}
    MaxTime = 1
    MaxCalls = 3
    Offered = {"authorize", "redeem", "close", "outcome"}
    MaxCrash = 1
SYMMETRY Symmetry
INVARIANTS
    TypeOK
    AuditMatchesGrants
    GrantBoundToItsDecision
    OutcomeCloseIsEarned
    OkReachesOnlyTheHolder
    DenialsAreFinal
PROPERTIES
    CommittedIsForever
    ImplementsLedger
CHECK_DEADLOCK FALSE
