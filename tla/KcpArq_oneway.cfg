SPECIFICATION Spec
CONSTANTS
    A = A
    B = B
    Senders <- OneWay
    MaxFrag = 2
    SndWnd = 3
    RcvWnd = 2
    RmtWnd = 3
    MaxSegs = 3
    NetCap = 2
    Dup = TRUE
INVARIANTS TypeOK KeptUntilHeld NoneStranded TruthfulNet InOrder FullIsReadable
PROPERTIES ImplementsStream ImplementsWindow
CHECK_DEADLOCK FALSE
