\* Two PDU sessions, nothing lost.
SPECIFICATION Spec
CONSTANTS
    WireMax = 6
    HdrLen = 1
    LenLen = 2
    MaxMsg = 9
    Msg1Len = 5
    Msg2Len = 9
    Msg3Len = 4
    Msg4Len = 4
    Classic1Len = 2
    Classic2Len = 3
    Classic3Len = 3
    HaveCreds03 = TRUE
    NoMsg = NoMsg
    Junk = Junk
    Psis = {p1, p2}
    NoPsi = NoPsi
    NoState = NoState
    NoRsp = NoRsp
    MaxSetups = 2
    MaxSids = 2
    MaxTrips = 50
    MaxFaults = 0
PROPERTY
    RetryAfterReset
CHECK_DEADLOCK FALSE
