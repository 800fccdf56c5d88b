\* One PDU session set up twice, two faults, and a DN-AAA that aborts after four trips.
SPECIFICATION Spec
CONSTANTS
    WireMax = 6
    HdrLen = 1
    LenLen = 2
    MaxMsg = 9
    Msg1Len = 5
    Msg2Len = 9
    Msg3Len = 4
    Msg4Len = 4
    Classic1Len = 2
    Classic2Len = 3
    Classic3Len = 3
    HaveCreds03 = TRUE
    NoMsg = NoMsg
    Junk = Junk
    Psis = {p1}
    NoPsi = NoPsi
    NoState = NoState
    NoRsp = NoRsp
    MaxSetups = 2
    MaxSids = 2
    MaxTrips = 4
    MaxFaults = 2
PROPERTIES
    ExchangeEnds
    FailureReported
CHECK_DEADLOCK FALSE
