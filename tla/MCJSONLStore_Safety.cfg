SPECIFICATION Spec
CONSTANTS
    e0 = e0
    Events = {e0, e1, e2, e3}
    InitFiles <- MCInitFiles
    Torn = Torn
    Nul = Nul
    Limits = {1, 2, 3}
    MaxBreaks = 3
SYMMETRY Symmetry
INVARIANTS TypeOK LossBounded ReadsExact
PROPERTIES RepairSound
