\* Two requests over a pool and a key, with hang-ups and switches.
SPECIFICATION Spec
CONSTANTS
    t1 = t1
    t2 = t2
    t3 = t3
    t4 = t4
    r1 = r1
    r2 = r2
    none = none
    Tokens <- OneToken
    Holders <- NoneAtAll
    Requests <- TwoRequests
    NoToken <- none
    N = 2
    KeyEndpoints <- SecondOnly
    Pool <- PoolThenKey
    Horizon = 1
    RefreshWindow = 0
    ExpiringWindow = 0
    DefaultCooldown = 1
    MaxFailures = 1
    Answers <- QuotaAnswers
    UsageCooldowns <- OneTick
    Disturbances <- HangUpsAndSwitches
    InitialRows <- PastedRows
SYMMETRY Symmetry
INVARIANTS ActiveExact
PROPERTIES NoSecondWaste
CHECK_DEADLOCK FALSE
