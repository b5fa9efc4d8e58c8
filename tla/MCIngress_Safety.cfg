SPECIFICATION FairSpec
CONSTANTS
    c1 = c1
    Conns = {c1}
    Udp = Udp
    Script <- MCScript
    ChanSize = 1
INVARIANTS TypeOK KeptInOrder
PROPERTIES ShutdownEnds LinesHandled
CHECK_DEADLOCK FALSE
