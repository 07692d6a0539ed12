SPECIFICATION Spec
CONSTANTS
    u1 = u1
    u2 = u2
    s1 = s1
    h1 = h1
    h2 = h2
    w1 = w1
    Updates <- TwoUpdates
    Senders <- OneSender
    SenderOf <- Sender1
    Hooks <- TwoHooks
    Workers <- OneWorker
    MaxPosts = 2
    MaxFaults = 1
SYMMETRY HookUpdateSymmetry
INVARIANTS
    CanonicalStateIsUnique
    AcceptedMeansQueued
CHECK_DEADLOCK FALSE
