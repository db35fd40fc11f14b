SPECIFICATION FairSpec
CONSTANTS
    Job = {1, 2, 3}
    Worker = {w1, w2}
    BatchSize = 2
    MaxAttempts = 2
    LostReplies = TRUE
    MaxFaults = 2
    EventType <- AllTypes
INVARIANTS
    TypeOK
    ClaimsAreNumbered
    SharedOnlyAfterExpiry
    DoneHasEffect
PROPERTIES
    ClosedIsFinal
    EventuallyClosed
CHECK_DEADLOCK FALSE
