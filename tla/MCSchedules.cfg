CONSTANTS
    Inputs <- MCInputs
    DefaultDuration = 7
    Hour = 9
    Floor = 2
    PhaseLengths = {3, 5}
    StepLengths = {2, 3}
    IdleLengths = {3, 4}
    BurstLengths = {1, 2}
    BurstPercents = {80, 90, 100}
    WaveSteps = 4
    Waves <- MCWaves
SPECIFICATION FairSpec
INVARIANTS
    TypeOK
    ExactDuration
    LimitsKept
    PanicNeedsNegativeLimit
PROPERTY Terminates
CHECK_DEADLOCK FALSE
