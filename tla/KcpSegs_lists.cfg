SPECIFICATION FairSpec
CONSTANTS
    Word = 32
    SndWnd = 3
    RcvWnd = 3
    Resend = 1
    Mss = 16
    Block = 1
    Base = 30
    MaxSegs = 3
    Old = 2
    MaxAcks = 2
    NetCap = 1
INVARIANTS RcvList SndList AcksFit IncrTracks
PROPERTIES GrowsEachTime ImplementsWindow AllAcked
CHECK_DEADLOCK FALSE
