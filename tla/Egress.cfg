SPECIFICATION EgressSpec
CONSTANTS
    Dirs <- AllDirs
    MaxFiles = 2
    MaxRules = 6
    MaxDepth = 3
    Queries = {q1}
    Agents = {"x"}
    Hosts = {"a", "b", "l"}
    Local = {"l"}
    Answers <- AllAnswers
    Capacity = 1
    MaxTtl = 2
    MaxHeld = 2
    Conns = {c1, c2}
    Clients = {"x"}
    Sites = {"a", "b"}
    MaxConnections = 1
    NoName = "none"
    BadName = "bad"
    Apart = TRUE
    MaxReloads = 1
CHECK_DEADLOCK FALSE
INVARIANTS
    AnswerFresh
    GrantsAllowed
    TunnelPoliced
PROPERTIES
    VerdictByFiles
    ShutdownEnds
