SPECIFICATION MCSpec
CONSTANTS
    c1 = c1
    c2 = c2
    a1 = a1
    a2 = a2
    m1 = m1
    m2 = m2
    w1 = w1
    w2 = w2
    x1 = x1
    x2 = x2
    op1 = op1
    op2 = op2
    x = x
    y = y
    e1 = e1
    e2 = e2
    s1 = s1
    s2 = s2
    s3 = s3
    None = None
    Callers <- TwoCallers
    Args <- TwoArgs
    Allowed = 2
    MaxCalls = 4
    MaxFaults = 1
    MaxStalls = 1
    LeaseTicks <- Lease180
    IdleTicks <- Idle30
    MaxAttempts = 9
    MaxWork <- Work60
    GwCallers <- TwoCallers
    Models <- TwoModels
    Unsupported <- NoAdapter
    Profiles <- FallbackRoutes
    Prices = {2}
    Credits = {1}
    Nil = Nil
    MaxGwCalls = 1
    MaxEdits = 4
    VoiceWorkers <- TwoWorkers
    Transcripts <- TwoValues
    Untold = Untold
    MaxDeliveries = 3
    MaxVoiceFaults = 2
    Extractors <- TwoExtractors
    Sources = {1, 2}
    Values <- TwoValues
    NoRow = NoRow
    Operators <- TwoOperators
    Omitted = Omitted
    Payloads <- SomePayloads
    MaxRows = 2
    MaxRuns = 2
    MaxOperations = 2
    PolicyEditors <- TwoEditors
    PolicyWorkers <- OneWorker
    Rules <- PolicyRules
    ToolRules <- DenyRule
    Absent = Absent
    MaxChanges = 2
    MaxJobs = 1
    Transactions <- Sessions
    NoProgram = NoProgram
    MaxCommits = 3
SYMMETRY MemorySymmetry
INVARIANTS
    CallTypesOK
    EffectsBounded
    NothingWithoutApproval
    ExecutedAsRecorded
    ExpiredLeaseIsReclaimed
    WalletIsSound
    VoiceIsTranscribedOnce
    MemoryRespectsOperators
    PolicyIsEnforced
    DeadlocksAreKnown
PROPERTIES
    ResultIsReused
CHECK_DEADLOCK FALSE
