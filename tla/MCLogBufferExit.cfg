CONSTANTS
    Loggers = {main, x}
    Main = main
    Exiters = {x}
    Readers = {r1, r2}
    Sizes = {1}
    MaxLines = 4
    None = None
SPECIFICATION ServerSpec
PROPERTY ExitTerminates
CHECK_DEADLOCK FALSE
