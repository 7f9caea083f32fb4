SPECIFICATION Spec
CONSTANTS
    a = a
    b = b
    key = key
    p = p
    q = q
    h1 = h1
    h2 = h2
    none = none
    Names <- TwoNames
    DefaultName = a
    Keys <- OneKey
    Ports <- OnePort
    FlagPort = p
    Handlers <- TwoHandlers
    Kinds <- AnyAndRows
    Traffic <- EveryTraffic
    MaxEndpoints = 2
    MaxOverlaps = 1
    NoName = none
    NoKey = none
    NoPort = none
INVARIANTS TypeOK SettledConfig TokensOwned
PROPERTIES SaveIsHarmless CurrentKept ReorderTakesEffect
CHECK_DEADLOCK FALSE
