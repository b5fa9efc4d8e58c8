SPECIFICATION Spec
CONSTANTS
    Callers = {c1, c2}
    Events <- MCEvents
    RuleSets <- MCRuleSets
    SecTicks = 2
    LastTick = 5
    MaxCalls = 4
SYMMETRY Symmetry
INVARIANTS TypeOK RateLimitHolds SampleRatio
PROPERTIES DropsExact
CHECK_DEADLOCK FALSE
