\* The constants of edhoc4.h: every message length the buffers can hold.
SPECIFICATION Spec
CONSTANTS
    WireMax = 1000
    HdrLen = 1
    LenLen = 2
    MaxMsg = 8192
    NoMsg = NoMsg
    Junk = Junk
    Msg = Msg
INVARIANTS
    Reassembled
    NeverRejected
    WireFits
    FragmentCount
PROPERTY
    ImplementsTransfer
CHECK_DEADLOCK FALSE
