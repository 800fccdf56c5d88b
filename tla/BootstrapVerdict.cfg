\* What the log says of a contact the UE saw fail.
SPECIFICATION Spec
CONSTANTS
    AaaRuns = {a1, a2}
    UeRuns = {u1, u2}
    SessionIds = {s1}
    Emsks = {e1, e2}
    NoKey = NoKey
    NoId = NoId
    NoUe = NoUe
    NoReply = NoReply
    Expect = 1
    MaxFaults = 1
INVARIANT
    VerdictNeedsUe
CHECK_DEADLOCK FALSE
