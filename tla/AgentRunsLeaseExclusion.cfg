SPECIFICATION Spec
CONSTANTS
    w1 = w1
    w2 = w2
    r1 = r1
    r2 = r2
    t1 = t1
    t2 = t2
    None = None
    Workers <- TwoWorkers
    Runs <- OneRun
    Texts <- OneText
    MaxHandoffs = 1
    MaxResumes = 2
    MaxAttempts = 2
    MaxFaults = 0
    MaxStalls = 0
INVARIANTS
    LeaseExcludesSecondGeneration
CHECK_DEADLOCK FALSE
