SPECIFICATION DaemonSpec
CONSTANTS
    Daemons = {d1, d2}
    DefaultName = d1
    None = None
    Clis = {c1, c2}
    Projects = {p1, p2}
    MaxCmds = 2
    MaxFaults = 1
    MaxKills = 1
    MaxCalls = 1
SYMMETRY Symmetry
INVARIANTS
    GrantsOfTheLiving
    SocketsReach
PROPERTIES
    RightRules
    ImplementsService
CHECK_DEADLOCK FALSE
