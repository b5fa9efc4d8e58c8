SPECIFICATION PathSpec
CONSTANTS
    Inside <- MCInside
    Origins <- MCOrigins
    SourceStores <- MCSourceStores
INVARIANTS PathTypeOK  TagsAuthoritative ReplayAgrees ForwarderVerdictKept
CHECK_DEADLOCK FALSE
