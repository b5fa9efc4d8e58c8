SPECIFICATION Spec
CONSTANTS
    r1 = r1
    r2 = r2
    v = v
    w = w
    Ids = {r1, r2}
    NoId = NoId
    Vals = {v, w}
    NoVal = NoVal
    DefaultVal = v
    Defaults <- MCDefaults
    Bodies <- MCBodies
    Missing = Missing
    Empty = Empty
    Partial = Partial
    Requests = {q1, q2, q3}
    MaxBusy = 2
    WritesFail = TRUE
SYMMETRY Symmetry
INVARIANTS TypeOK EngineFromStore
PROPERTY RestartRestores
CHECK_DEADLOCK FALSE
