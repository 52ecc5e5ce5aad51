SPECIFICATION ShimSpec
CONSTANTS
    Shims = {s1, s2}
    MaxFalls = 2
    MaxSigKills = 1
INVARIANTS
    ChildWatched
PROPERTIES
    UnreachableStops
CHECK_DEADLOCK FALSE
