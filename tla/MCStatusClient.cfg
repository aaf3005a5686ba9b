CONSTANTS
    Steps = 2
    MaxConcurrency = 2
    UnlimitedSize = 1
    MaxTicks = 4
SPECIFICATION FairSpec
INVARIANTS
    TypeOK
    StepsDoNotOverlap
    ReportAddsUp
    OnlyUsageFails
PROPERTIES
    RunEnds
    InterruptEndsRun
