SPECIFICATION FairSpec
CONSTANTS
    Events = {e1, e2}
    Decisions <- MCDecisions
    Clients = {c1, c2}
    ChanSize = 1
    MaxBusy = 2
    Workers = 1
    QueueSize = 1
INVARIANTS TypeOK StatsMatchFile StreamServed DecisionCarriedOut
PROPERTY IngestEnds
CHECK_DEADLOCK FALSE
