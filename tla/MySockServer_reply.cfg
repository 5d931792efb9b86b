SPECIFICATION Spec
CONSTANTS
    Uid = {u1, u2}
    From = {f1, f2}
    Times = {1, 2}
    SubidLimit = 6
    Rounds = 6
    MaxShakes = 4
    MaxErrors = 0
INVARIANT ReplyKept
CHECK_DEADLOCK FALSE
