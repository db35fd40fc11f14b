SPECIFICATION FairSpec
CONSTANTS
    Item = {i1, i2, i3, i4}
    Malformed = {}
    BatchSize = 2
    MaxBuffered = 3
    FlushConcurrency = 1
    LostReplies = FALSE
    MaxWaiting = 2
    MaxFaults = 0
INVARIANTS
    SlotLimit
CHECK_DEADLOCK FALSE
