\* Three PDU sessions, three setups, two faults, the real message and fragment sizes.
SPECIFICATION Spec
CONSTANTS
    WireMax = 1000
    HdrLen = 1
    LenLen = 2
    MaxMsg = 8192
    Msg1Len = 2354
    Msg2Len = 6000
    Msg3Len = 4975
    Msg4Len = 1232
    Classic1Len = 34
    Classic2Len = 115
    Classic3Len = 83
    HaveCreds03 = TRUE
    NoMsg = NoMsg
    Junk = Junk
    Psis = {p1, p2, p3}
    NoPsi = NoPsi
    NoState = NoState
    NoRsp = NoRsp
    MaxSetups = 3
    MaxSids = 3
    MaxTrips = 50
    MaxFaults = 2
SYMMETRY PsiSymmetry
INVARIANTS
    TypeOK
    KeyAgreement
    TripsToSpare
    OneTurn
    StateIsCurrent
    OrphansArePaidFor
    VerdictIsOwn
PROPERTIES
    StallCauses
CHECK_DEADLOCK FALSE
