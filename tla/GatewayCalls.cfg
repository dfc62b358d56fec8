SPECIFICATION Spec
CONSTANTS
    MaxMsgs = 2
    ClientKinds = {"call", "list"}
    AnswerKinds = {"result", "error", "neither", "bad_code"}
    Pages <- TwoPages
    ChatterKinds = {"note", "not_json", "flood", "request"}
    ServerIds = {s1, 1}
    MaxChatter = 2
    MaxFaults = 1
    PipeCapacity = 4
    MaxListPages = 2
    MaxListTools = 2
INVARIANTS
    OnlyRedeemedCallsRun
    ResultsAreOwn
    TrailMatchesReply
CHECK_DEADLOCK FALSE
