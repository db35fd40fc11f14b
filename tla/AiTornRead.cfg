SPECIFICATION Spec
CONSTANTS
    Row <- AllRows
    Field <- AllFields
    Account <- AllAccounts
    ProductTypes <- Catalog
    Batches <- TwoHistories
    Sample = {}
    Request = {"q1"}
    AccountOf <- OnlyFirst
    LowBalance = {}
    geminiConfigured = FALSE
    GeminiSays = {}
    MaxRuns = 2
    MaxBoots = 1
    MaxFaults = 0
INVARIANTS
    FirmIsGrounded
CHECK_DEADLOCK FALSE
