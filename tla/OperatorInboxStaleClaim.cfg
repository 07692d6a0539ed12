SPECIFICATION Spec
CONSTANTS
    agent = agent
    other = other
    supervisor = supervisor
    k1 = k1
    t1 = t1
    t2 = t2
    q1 = q1
    q2 = q2
    None = None
    Operators <- TwoAgents
    Overriders <- NoOverride
    Keys <- OneKey
    Texts <- OneText
    Requests <- TwoRequests
    MaxHandoffs = 1
    MaxReplies = 2
    MaxFaults = 0
PROPERTIES
    OnlyTheClaimantReplies
CHECK_DEADLOCK FALSE
