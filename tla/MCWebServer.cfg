CONSTANTS
    Requests = {r1, r2}
    Asks <- MCAsks
    Roots <- MCViews
    None = None
SPECIFICATION FairSpec
INVARIANTS
    TypeOK
    LogTellsTheAnswer
PROPERTIES
    RequestsEnd
    ServerDrains
CHECK_DEADLOCK FALSE
