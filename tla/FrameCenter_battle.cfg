SPECIFICATION FairSpec
CONSTANTS
    Players = {1, 2, 3}
    Uids <- IndexUids
    FrameRate = 1
    MaxTime = 1
    Ms = 10
    Cs = 1
    MaxLate = 1
    MaxForks = 2
    MaxCmds = 2
INVARIANTS TypeOK OneLoop PackedAsTaken
PROPERTY RunsToEnd
CHECK_DEADLOCK FALSE
