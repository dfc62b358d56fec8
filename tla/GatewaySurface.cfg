SPECIFICATION Spec
CONSTANTS
    MaxMsgs = 2
    ClientKinds = {"oversized", "bad_json", "batch", "not_object", "ping", "list", "call", "bad_call", "not_permitted", "bad_envelope", "initialized", "other_note", "bad_note", "undecodable", "unparseable"}
    AnswerKinds = {"result", "bad_code"}
    Pages <- ManyPages
    ChatterKinds = {"not_utf8", "request"}
    ServerIds = {1}
    MaxChatter = 1
    MaxFaults = 1
    PipeCapacity = 1
    MaxListPages = 3
    MaxListTools = 3
INVARIANTS
    AnsweredOnce
    ListingIsBounded
PROPERTIES
    EveryMessageIsHandled
CHECK_DEADLOCK FALSE
