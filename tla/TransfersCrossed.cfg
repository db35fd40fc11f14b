SPECIFICATION FairSpec
CONSTANTS
    r1 = r1
    r2 = r2
    r3 = r3
    r4 = r4
    r5 = r5
    r6 = r6
    r7 = r7
    NoTransfer = NoTransfer
    Free = Free
    Request <- CrossedRequest
    Body <- CrossedBody
    Traced <- CrossedRequest
    Account <- CrossedAccount
    AccountCurrency <- CrossedCurrency
    Opening <- CrossedOpening
    MaxBalance = 9
    HashText <- OwnBucket
    Shape = {"bare", "wrapped"}
    MaxFaults = 3
INVARIANTS
    TypeOK
    BooksBalance
    EventsMatchTransfers
    CompletedIsDurable
    RefusedPostedNothing
    NoWaitCycle
    KeyRaceNeverSurfaces
PROPERTIES
    ImplementsLedger
    EventuallyAnswered
CHECK_DEADLOCK FALSE
