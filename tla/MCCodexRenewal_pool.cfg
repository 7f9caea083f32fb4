\* Two requests over two plain tokens, every answer a call can come to, served again and again.
SPECIFICATION FairRenewalSpec
CONSTANTS
    t1 = t1
    t2 = t2
    r1 = r1
    r2 = r2
    admin = admin
    none = none
    Admin <- admin
    NoToken <- none
    Tokens <- TwoTokens
    Requests <- TwoRequests
    Holders <- TwoHolders
    Horizon = 2
    RefreshWindow = 0
    ExpiringWindow = 1
    DefaultCooldown = 1
    MaxFailures = 2
    MaxIssued = 1
    Answers <- EveryAnswer
    UsageCooldowns <- LongReset
    Lifetimes <- NoTimes
    AdminActs <- NoActs
    InitialRows <- PastedRows
INVARIANTS TypeOK
PROPERTIES BlamelessFailureKeepsQuarantine ParallelClaimsSpread CooldownEnds CleanTokenServed
