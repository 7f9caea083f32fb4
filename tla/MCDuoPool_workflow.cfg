\* Two identical requests over a pool of one token, and what GitLab may do with each.
SPECIFICATION PoolSpec
CONSTANTS
    c1 = c1
    c2 = c2
    t1 = t1
    g1 = g1
    None = None
    Conversations <- OneConversation
    Holders <- NoHolders
    Horizon = 1
    RefreshWindow = 0
    ExpiringWindow = 0
    DefaultCooldown = 1
    MaxFailures = 1
    Codes = {403, 429}
    MaxLog = 2
    Keys <- Pairs
    Callers <- TwoCallers
    ConversationOf <- SamePair
    Tokens <- OneToken
INVARIANTS PoolTypeOK RefusedTokenLeavesPool
PROPERTIES AnswersKept LastWordDelivered
CHECK_DEADLOCK FALSE
