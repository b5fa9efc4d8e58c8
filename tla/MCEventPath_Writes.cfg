SPECIFICATION PathSpec
CONSTANTS
    Inside <- MCInside
    Origins <- MCOrigins
    SourceStores <- MCSourceStores
INVARIANT WritesForwarded
CHECK_DEADLOCK FALSE
