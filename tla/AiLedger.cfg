SPECIFICATION FairSpec
CONSTANTS
    Row <- AllRows
    Field <- AllFields
    Account <- AllAccounts
    ProductTypes <- Catalog
    Batches <- OneMonthEach
    Sample <- FirstFile
    Request = {"q1"}
    AccountOf <- OnlyFirst
    LowBalance = {"q1"}
    geminiConfigured = TRUE
    GeminiSays = {"CATEGORY_SPIKE"}
    MaxRuns = 2
    MaxBoots = 2
    MaxFaults = 1
INVARIANTS
    TypeOK
    ContextsMatchLedger
    AnsweredIsSaved
    SpikeIsReal
PROPERTIES
    SwitchesWhole
    EventuallyAnswered
CHECK_DEADLOCK FALSE
