SPECIFICATION Spec
CONSTANTS
    Requests = {r1, r2}
    NoRequest = NoRequest
PROPERTY StopReturns
CHECK_DEADLOCK FALSE
