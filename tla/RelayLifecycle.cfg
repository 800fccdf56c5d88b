SPECIFICATION Spec
CONSTANTS
    Requests = {r1, r2, r3}
    NoRequest = NoRequest
INVARIANTS StopIsClean LostOnlyByStop
PROPERTIES Served JoinReturns
CHECK_DEADLOCK FALSE
