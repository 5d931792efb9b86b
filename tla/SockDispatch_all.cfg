SPECIFICATION FairSpec
CONSTANTS
    Kinds = {"ok", "bad", "empty"}
    MaxBatch = 2
    MaxMsgs = 4
    MaxAsleep = 3
INVARIANTS TypeOK StartedInOrder SomeoneComes
PROPERTIES AllRead
CHECK_DEADLOCK FALSE
