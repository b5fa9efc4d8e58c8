SPECIFICATION FairSpec
CONSTANTS
    a = a
    b = b
    Texts <- MCTexts
    Classified <- MCClassified
    Window = 1
    TailFromEnd = TRUE
    MaxLines = 2
    MaxUpsets = 2
    LastTick = 1
INVARIANTS TypeOK RereadHasCause
PROPERTIES DedupExact LinesReach
CHECK_DEADLOCK FALSE
