SPECIFICATION FairSpec
CONSTANTS
    Item = {i1, i2}
    Malformed = {}
    BatchSize = 2
    MaxBuffered = 3
    FlushConcurrency = 1
    LostReplies = TRUE
    MaxWaiting = 2
    MaxFaults = 1
PROPERTIES
    EventuallyQueued
CHECK_DEADLOCK FALSE
