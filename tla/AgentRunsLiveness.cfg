SPECIFICATION FairSpec
CONSTANTS
    w1 = w1
    w2 = w2
    r1 = r1
    r2 = r2
    t1 = t1
    t2 = t2
    None = None
    Workers <- TwoWorkers
    Runs <- OneRun
    Texts <- OneText
    MaxHandoffs = 1
    MaxResumes = 1
    MaxAttempts = 2
    MaxFaults = 1
    MaxStalls = 0
PROPERTIES
    OpenRunsSettle
CHECK_DEADLOCK FALSE
