\* A codex token whose refresh token is good for one renewal, edited, imported and deleted while two requests renew it.
SPECIFICATION RenewalSpec
CONSTANTS
    t1 = t1
    t2 = t2
    r1 = r1
    r2 = r2
    admin = admin
    none = none
    Admin <- admin
    NoToken <- none
    Tokens <- OneToken
    Requests <- TwoRequests
    Holders <- TwoHolders
    Horizon = 1
    RefreshWindow = 1
    ExpiringWindow = 1
    DefaultCooldown = 1
    MaxFailures = 1
    MaxIssued = 3
    Answers <- OkUnauthorized
    UsageCooldowns <- LongReset
    Lifetimes <- FullTerm
    AdminActs <- Upkeep
    InitialRows <- CodexRows
SYMMETRY RequestSymmetry
INVARIANTS DeletedTokenStaysGone
PROPERTIES StrandedByLossOrStaleEdit
