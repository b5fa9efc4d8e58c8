SPECIFICATION FwdSpec
CONSTANTS
    Tasks = {t1, t2}
    Workers = {w1, w2}
    Drainers = {d1}
    BufSize = 1
    HasMaxAge = TRUE
    NoTask = NoTask
    Updaters = {u1, u2}
    Urls = {urlA}
    NoUrl = NoUrl
    Configs <- OnOffOrCleared
    Books <- EarlierBooks
    EnvUrls = {urlA, NoUrl}
    PersistFails = TRUE
SYMMETRY Symmetry
VIEW View
INVARIANTS FwdTypeOK DeliveredOnce StatsExact ConfigAgrees
CHECK_DEADLOCK FALSE
