SPECIFICATION ConsoleSpec
CONSTANTS
    agent = agent
    other = other
    supervisor = supervisor
    k1 = k1
    t1 = t1
    t2 = t2
    q1 = q1
    q2 = q2
    p1 = p1
    g1 = g1
    m1 = m1
    x = x
    y = y
    e1 = e1
    e2 = e2
    w1 = w1
    w2 = w2
    ki = ki
    kr = kr
    None = None
    Operators <- AgentAndSupervisor
    Overriders <- Supervisors
    Keys <- OneKey
    Texts <- TwoTexts
    Requests <- TwoRequests
    MaxHandoffs = 1
    MaxReplies = 4
    MaxFaults = 1
    Null = Null
    Editors <- TwoEditors
    PromptWorkers <- TwoWorkers
    Prompts <- OnePrompt
    Agents <- OneAgent
    Contents <- TwoContents
    Inbounds <- OneInbound
    MaxVersions = 2
    MaxRequests = 8
    Writers <- TwoWorkers
    ApiKeys <- ReplyKey
    ApiAuthors <- OneAuthor
    InboundKeys <- InboundKey
    DispatchKeys <- ReplyKey
    SentAt <- SentAtOne
    Wordings <- TwoTexts
    Keyless = Keyless
    NoWriter = NoWriter
    MaxAt = 2
    MaxMessages = 3
    MaxWrites = 3
INVARIANTS
    ConsoleTypesOK
    DuplicatesOnlyAfterLoss
    ConfirmedReplyIsTheMessage
    MessageIsAudited
    PromptsAreImmutable
    ConversationIsSound
PROPERTIES
    ClaimIsNotStolen
    RepliesEnd
CHECK_DEADLOCK FALSE
