SPECIFICATION Spec
CONSTANTS
    a = a
    b = b
    Names = {a, b}
    Pages <- MCPages
    AnswerTypes = {"result", "no_proto", "not_object", "error", "bad_error", "neither"}
    ChatterTypes = {"note", "not_json", "not_rpc", "not_utf8"}
    MaxRequests = 4
    MaxChatter = 1
    PipeCapacity = 1
INVARIANTS
    ResultIsComplete
PROPERTIES
    EndsWithoutChild
CHECK_DEADLOCK FALSE
