SPECIFICATION FairPipelineSpec
CONSTANTS
    Item = {1, 2}
    Malformed = {}
    BatchSize = 2
    MaxBuffered = 2
    FlushConcurrency = 1
    LostReplies = FALSE
    MaxWaiting = 2
    MaxFaults = 1
    Worker = {w1}
    ClaimSize = 2
    MaxAttempts = 2
    Uid <- OneUid
    Storable = {1, 2}
    MaxClears = 1
PROPERTIES
    ImplementsIntake
    EventuallyStored
CHECK_DEADLOCK FALSE
