CONSTANTS
    Steps = 2
    MaxConcurrency = 2
    UnlimitedSize = 1
    MaxTicks = 3
SPECIFICATION FairSpec
INVARIANTS
    TypeOK
    LimitSpansSteps
    CountersAddUp
    NilMeansDrained
PROPERTIES
    RunEnds
    StepsAreNotHeldUp
