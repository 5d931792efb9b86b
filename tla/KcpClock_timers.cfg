SPECIFICATION Spec
CONSTANTS
    Word = 64
    Interval = 2
    Slack = 10
    Rto = 8
    Nap = 2
    Late = 1
    Segs = 2
    MaxXmit = 2
    MaxAge = 24
INVARIANTS TypeOK PromptResend FlushGoesOn
PROPERTY NeverEarly
CHECK_DEADLOCK FALSE
