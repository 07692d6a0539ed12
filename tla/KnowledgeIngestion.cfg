SPECIFICATION FairSpec
CONSTANTS
    w1 = w1
    w2 = w2
    s1 = s1
    s2 = s2
    None = None
    Workers <- TwoWorkers
    Signatures <- TwoSignatures
    Batches = 2
    MaxReindexes = 1
    MaxAttempts = 2
    MaxFaults = 1
    MaxStalls = 1
INVARIANTS
    TypeOK
    SearchableIndexIsWhole
    SourceHasObject
PROPERTIES
    ReadyUntilReindexed
    QueuedIsSettled
CHECK_DEADLOCK FALSE
