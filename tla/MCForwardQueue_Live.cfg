SPECIFICATION FairSpec
CONSTANTS
    Tasks = {t1, t2}
    Workers = {w1, w2}
    Drainers = {d1}
    BufSize = 1
    HasMaxAge = TRUE
    NoTask = NoTask
PROPERTIES AcceptedResolved ShutdownEndsWorkers
CHECK_DEADLOCK FALSE
