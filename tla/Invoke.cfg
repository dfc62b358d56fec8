SPECIFICATION Spec
CONSTANTS
    Callers = {k1}
    None = None
    MaxAttempts = 2
INVARIANTS
    JobRunsOnce
    TrailTellsTheTruth
    CallsEndTidily
    OutageSparesTheResult
PROPERTIES
    ExecutionsImplementLedger
    EveryInvokeEnds
CHECK_DEADLOCK FALSE
