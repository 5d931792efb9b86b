SPECIFICATION FairSpec
CONSTANTS
    A = A
    B = B
    Senders <- OneWay
    MaxFrag = 2
    SndWnd = 1
    RcvWnd = 1
    RmtWnd = 1
    MaxSegs = 2
    NetCap = 2
    Dup = FALSE
PROPERTY AllDelivered
CHECK_DEADLOCK FALSE
