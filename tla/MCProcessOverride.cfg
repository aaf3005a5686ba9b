CONSTANTS
    Flags <- MCFlags
    Draws <- MCDraws
    ExitRequests <- MCExitRequests
    Absent = Absent
    Half = 8
    Hosts <- MCHosts
    Socket = "socket"
    DefaultPort = 5432
    Unset = Unset
SPECIFICATION Spec
INVARIANTS
    OverridesTheDSN
