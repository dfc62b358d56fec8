SPECIFICATION Spec
CONSTANTS
    None = None
    a = a
    b = b
    c1 = c1
    c2 = c2
    Threads = {t1, t2}
    Sources = {s1}
    Names = {a, b}
    Claims = {c1, c2}
    Schemas = {"coherent", "broken"}
    CoherentSchemas = {"coherent"}
    Descriptors = {d1, d2}
    Declarations = {{}, {a}}
    Tiers = {"known", "quarantined"}
    InvocableTiers = {"known"}
    Lists <- MCLists
    Offered = {"register", "ingest", "push", "assert"}
    MaxCalls = 4
    MaxCrash = 1
    MaxFaults = 1
SYMMETRY ThreadSymmetry
INVARIANTS
    OnlyVouchedClaimsAreAsserted
    AckedAssertionIsNeverForgotten
    DriftExplainsEveryBlockedTool
    
CHECK_DEADLOCK FALSE
