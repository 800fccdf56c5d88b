SPECIFICATION Spec
CONSTANTS
    Inits = {1, 2}
    Resps = {1, 2}
    Methods = {0, 1, 2, 3, 4}
    NoMsg = NoMsg
    Junk = Junk
INVARIANTS AcceptsOwnOnly MskOfOneRun RatchetKeysExchanged
CHECK_DEADLOCK FALSE
