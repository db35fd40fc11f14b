SPECIFICATION FairBatchSpec
CONSTANTS
    p1 = p1
    p2 = p2
    Job = {1, 2}
    Worker = {w1, w2}
    BatchSize = 2
    MaxAttempts = 2
    LostReplies = TRUE
    MaxFaults = 1
    Uid <- MixedUid
    Storable = {1, 12, 21, 22}
    MaxClears = 1
    Post = {p1, p2}
    Items <- MixedItems
INVARIANTS
    BatchTypeOK
    DoneIsStored
    StoredOnce
    OnlyRefusedDies
    AnswerIsHonest
    EachItemLeavesATrace
PROPERTIES
    EventuallyClosed
CHECK_DEADLOCK FALSE
