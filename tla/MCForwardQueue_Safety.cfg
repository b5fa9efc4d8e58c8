SPECIFICATION Spec
CONSTANTS
    Tasks = {t1, t2, t3}
    Workers = {w1, w2}
    Drainers = {d1, d2}
    BufSize = 2
    HasMaxAge = FALSE
    NoTask = NoTask
SYMMETRY Symmetry
INVARIANTS TypeOK CountersExact Ownership DrainRemovesPending
PROPERTY ImplementsContract
CHECK_DEADLOCK FALSE
