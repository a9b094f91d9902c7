\* One player, two computers: can she always release herself?
SPECIFICATION Spec
CONSTANTS
    Players = {p1}
    Leaving = {p1}
    Computers = {c1, c2}
    Reach <- MCReach
    Spots = {s1}
    MaxSessions = 2
    MaxQueue = 2
    None = None
INVARIANT ReleaseStops
CHECK_DEADLOCK FALSE
