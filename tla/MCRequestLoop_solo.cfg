\* One request, every answer and every disturbance.
SPECIFICATION FairSpec
CONSTANTS
    t1 = t1
    t2 = t2
    t3 = t3
    t4 = t4
    r1 = r1
    r2 = r2
    none = none
    Tokens <- OneToken
    Holders <- NoneAtAll
    Requests <- OneRequest
    NoToken <- none
    N = 2
    KeyEndpoints <- SecondOnly
    Pool <- PoolThenKey
    Horizon = 1
    RefreshWindow = 0
    ExpiringWindow = 0
    DefaultCooldown = 1
    MaxFailures = 1
    Answers <- EveryAnswer
    UsageCooldowns <- OneTick
    Disturbances <- EveryDisturbance
    InitialRows <- UsedRows
INVARIANTS TypeOK
PROPERTIES RequestEnds
CHECK_DEADLOCK FALSE
