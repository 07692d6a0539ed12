SPECIFICATION FairSpec
CONSTANTS
    c1 = c1
    c2 = c2
    None = None
    Consumers <- TwoConsumers
    MaxEntries = 2
    Malformed <- SecondMalformed
    Batch = 2
    MaxAttempts = 2
    MaxCrashes = 1
INVARIANTS
    TypeOK
    NoEntryLost
    BudgetIsNotCutShort
PROPERTIES
    EveryEntrySettles
CHECK_DEADLOCK FALSE
