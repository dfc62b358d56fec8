SPECIFICATION Spec
CONSTANTS
    StartVersions = {1}
    AuditLengths = {0, 2}
    MaxCrash = 2
INVARIANTS
    StillOpenable
CHECK_DEADLOCK FALSE
