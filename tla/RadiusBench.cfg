\* Two handshakes, one of each kind: losses on purpose, and a fault.
SPECIFICATION Spec
CONSTANTS
    WireMax = 6
    HdrLen = 1
    LenLen = 2
    MaxMsg = 9
    Msg1Len = 5
    Msg2Len = 9
    Msg3Len = 4
    Msg4Len = 4
    Classic1Len = 2
    Classic2Len = 4
    Classic3Len = 3
    HaveCreds03 = TRUE
    NoMsg = NoMsg
    Junk = Junk
    NoState = NoState
    NoRsp = NoRsp
    NoKey = NoKey
    MaxSids = 3
    MaxTrips = 50
    MaxRequests = 24
    Methods = {3, 4}
    MaxHandshakes = 2
    MaxRetx = 2
    MaxDrops = 2
    MaxFaults = 1
INVARIANTS OneSessionPerHandshake PassMeansKey
PROPERTIES HandshakesEnd AllPass
CHECK_DEADLOCK FALSE
