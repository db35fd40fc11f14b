SPECIFICATION Spec
CONSTANTS
    r1 = r1
    r2 = r2
    r3 = r3
    r4 = r4
    r5 = r5
    r6 = r6
    r7 = r7
    NoTransfer = NoTransfer
    Free = Free
    Request <- RulesRequest
    Body <- RulesBody
    Traced <- RulesTraced
    Account <- RulesAccount
    AccountCurrency <- RulesCurrency
    Opening <- RulesOpening
    MaxBalance = 4
    HashText <- SharedBucket
    Shape = {"wrapped"}
    MaxFaults = 0
INVARIANTS
    BalancesInRange
    RefusalsOnRecord
CHECK_DEADLOCK FALSE
