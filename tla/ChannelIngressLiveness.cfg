SPECIFICATION EdgeSpec
CONSTANTS
    u1 = u1
    u2 = u2
    s1 = s1
    h1 = h1
    h2 = h2
    w1 = w1
    t1 = t1
    e1 = e1
    e2 = e2
    o1 = o1
    o2 = o2
    Updates <- OneUpdate
    Senders <- OneSender
    SenderOf <- Sender1
    Hooks <- TwoHooks
    Workers <- OneWorker
    MaxPosts = 3
    MaxFaults = 1
    Texts <- OneText
    NoSession = NoSession
    MaxSessions = 2
    MaxTries = 2
    MaxSwitches = 1
    OriginEditors <- TwoEditors
    Origins <- TwoOrigins
    MaxPuts = 2
    Limit = 2
    Window = 3
    MaxTime = 7
    MaxOutages = 1
INVARIANTS
    EdgeIsSound
PROPERTIES
    ReceivedIsSettled
CHECK_DEADLOCK FALSE
