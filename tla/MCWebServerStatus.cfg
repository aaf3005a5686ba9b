CONSTANTS
    Requests = {r1, r2}
    Asks <- MCAsks
    Roots <- MCViews
    None = None
SPECIFICATION Spec
INVARIANTS
    StatusFromTheList
CHECK_DEADLOCK FALSE
