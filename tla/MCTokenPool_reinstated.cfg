\* A late usage-limit answer lifts the deactivation a 403 put on the token.
SPECIFICATION Spec
CONSTANTS
    t1 = t1
    t2 = t2
    t3 = t3
    r1 = r1
    r2 = r2
    r3 = r3
    admin = admin
    none = none
    Admin <- admin
    NoToken <- none
    Tokens <- TwoTokens
    Requests <- TwoRequests
    Holders <- TwoHolders
    Horizon = 2
    RefreshWindow = 0
    ExpiringWindow = 1
    DefaultCooldown = 1
    MaxFailures = 1
    Answers <- ForbiddenUsage
    UsageCooldowns <- LongReset
    Lifetimes <- NoTimes
    AdminActs <- NoActs
    InitialRows <- PastedRows
PROPERTIES DeactivationPermanent
