CONSTANTS
    Loggers = {main, x}
    Main = main
    Exiters = {x}
    Readers = {r1, r2}
    Sizes = {0, 1, 2}
    MaxLines = 6
    None = None
SPECIFICATION FairSpec
INVARIANTS
    TypeOK
    Window
    ReadsOneWindow
PROPERTY EverybodyReturns
CHECK_DEADLOCK FALSE
