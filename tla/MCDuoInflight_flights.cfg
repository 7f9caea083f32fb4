\* Three callers over two keys: the registry, its refinement, and the release of every waiter.
SPECIFICATION FairSpec
CONSTANTS
    c1 = c1
    c2 = c2
    c3 = c3
    k1 = k1
    k2 = k2
    None = None
    Callers <- ThreeCallers
    Keys <- TwoKeys
INVARIANTS TypeOK RegistryExact OneWorkflowPerKey WokenWithResult
PROPERTIES ImplementsSingleFlight WaitersReleased
CHECK_DEADLOCK FALSE
