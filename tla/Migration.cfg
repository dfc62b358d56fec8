SPECIFICATION Spec
CONSTANTS
    StartVersions = {0, 1, 2, 3, 4, 5, 6}
    AuditLengths = {0, 2}
    MaxCrash = 3
INVARIANTS
    Converges
PROPERTIES
    EventuallyOpen
CHECK_DEADLOCK FALSE
