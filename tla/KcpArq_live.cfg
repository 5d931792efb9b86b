SPECIFICATION FairSpec
CONSTANTS
    A = A
    B = B
    Senders <- OneWay
    MaxFrag = 1
    SndWnd = 1
    RcvWnd = 1
    RmtWnd = 1
    MaxSegs = 2
    NetCap = 2
    Dup = FALSE
INVARIANT InFlight
PROPERTY AllDelivered
CHECK_DEADLOCK FALSE
