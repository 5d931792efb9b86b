SPECIFICATION FairSpec
CONSTANTS
    Uid = {u1, u2}
    From = {f1, f2}
    Times = {1, 2}
    SubidLimit = 5
    Rounds = 2
    MaxShakes = 3
    MaxErrors = 1
INVARIANTS TypeOK TablesAgree OneUpdater
PROPERTIES EntriesExpire UpdatersEnd
CHECK_DEADLOCK FALSE
