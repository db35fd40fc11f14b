SPECIFICATION FairEndToEndSpec
CONSTANTS
    r1 = r1
    r2 = r2
    r3 = r3
    r4 = r4
    NoTransfer = NoTransfer
    Free = Free
    Request <- EarlyRequest
    Body <- EarlyBody
    Traced <- EarlyRequest
    Account <- EarlyAccount
    AccountCurrency <- EarlyCurrency
    Opening <- EarlyOpening
    MaxBalance = 9
    HashText <- OwnBucket
    Shape = {"bare"}
    MaxFaults = 1
    Worker = {w1, w2}
    BatchSize = 2
    LostReplies = TRUE
    MaxDeliveries = 2
    JobOf <- OneKey
PROPERTIES
    ImplementsDelivery
    EventuallyDelivered
CHECK_DEADLOCK FALSE
