\* One request walks two pools and an endpoint with a key, which serve it, refuse it
\* for good or have used up their quota.
SPECIFICATION Spec
CONSTANTS
    t1 = t1
    t2 = t2
    t3 = t3
    t4 = t4
    r1 = r1
    r2 = r2
    none = none
    Tokens <- FourTokens
    Holders <- NoneAtAll
    Requests <- OneRequest
    NoToken <- none
    N = 3
    KeyEndpoints <- ThirdOnly
    Pool <- TwoPoolsThenKey
    Horizon = 1
    RefreshWindow = 0
    ExpiringWindow = 0
    DefaultCooldown = 1
    MaxFailures = 1
    Answers <- WalkAnswers
    UsageCooldowns <- OneTick
    Disturbances <- Pinning
    InitialRows <- UsedRows
INVARIANTS TurnedAwayAfterAll
CHECK_DEADLOCK FALSE
