SPECIFICATION Spec
CONSTANTS
    Item = {i1, i2, i3}
    Malformed = {i3}
    BatchSize = 2
    MaxBuffered = 3
    FlushConcurrency = 2
    LostReplies = TRUE
    MaxWaiting = 2
    MaxFaults = 2
INVARIANTS
    TypeOK
    SlotsCounted
    NothingStranded
    NothingVanishes
    HeldOnce
    ShutdownSettles
CHECK_DEADLOCK FALSE
