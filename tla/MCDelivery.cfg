SPECIFICATION Spec
CONSTANTS
    Caller = {c1, c2}
    AgentId <- ThreeAgents
    Factory <- FactoryAgents
    Suspends <- SlowAgents
    MaxInstances = 3
    Topic <- TwoTopics
    PrefixesOf <- StartsWith
    MaxSubs = 2
    Offered <- FourSubs
SYMMETRY Symmetry
CHECK_DEADLOCK FALSE
INVARIANTS CacheIsCurrent 
PROPERTIES WalkIsComplete
