CONSTANTS
    Starters = {s1, s2}
    Nobody = Nobody
    MemMax = 2
    Plans <- MCPlans
SPECIFICATION FairSpec
INVARIANTS
    TypeOK
    ExclusiveRun
    RunOwnsItsState
    AbortLeavesAtMostOneStep
PROPERTIES
    ServiceSpec
    CancelledByAbortOrItsEnd
    FinitePlanEnds
    CallerAnswered
    ServiceStops
