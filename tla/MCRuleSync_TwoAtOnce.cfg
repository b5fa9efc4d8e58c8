SPECIFICATION Spec
CONSTANTS
    r1 = r1
    r2 = r2
    v = v
    w = w
    Ids = {r1, r2}
    NoId = NoId
    Vals = {v, w}
    NoVal = NoVal
    DefaultVal = v
    Defaults <- MCDefaults
    Bodies <- MCCleanBodies
    Missing = Missing
    Empty = Empty
    Partial = Partial
    Requests = {q1, q2}
    MaxBusy = 2
    WritesFail = FALSE
INVARIANT EngineMatchesStore
CHECK_DEADLOCK FALSE
