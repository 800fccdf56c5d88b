\* Two exports, two contacts, a server that stops after one contact.
SPECIFICATION Spec
CONSTANTS
    AaaRuns = {a1, a2}
    UeRuns = {u1, u2}
    SessionIds = {s1}
    Emsks = {e1, e2}
    NoKey = NoKey
    NoId = NoId
    NoUe = NoUe
    NoReply = NoReply
    Expect = 1
    MaxFaults = 1
INVARIANTS
    SameKey
    RefusedMeansOtherKey
    AckMeansStored
    ExpectHonoured
    OkIsRecorded
PROPERTIES
    RunsEnd
    FirstContactSucceeds
CHECK_DEADLOCK FALSE
