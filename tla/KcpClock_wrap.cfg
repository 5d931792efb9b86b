SPECIFICATION Spec
CONSTANTS
    Word = 64
    Interval = 2
    Slack = 10
    Rto = 8
    Nap = 2
    Late = 1
    Segs = 1
    MaxXmit = 2
    MaxAge = 24
INVARIANT PromptAcrossWrap
CHECK_DEADLOCK FALSE
