\* Two players, two computers, one spot on each screen, two clicks at a
\* time; the player who may leave and return gets to both screens.
SPECIFICATION Spec
CONSTANTS
    Players = {p1, p2}
    Leaving = {p1}
    Computers = {c1, c2}
    Reach <- MCReach
    Spots = {s1}
    MaxSessions = 2
    MaxQueue = 2
    None = None
INVARIANTS
    TypeOK
    CapturesAgree
    ExecutorWillReturn
    ItemsKept
    DropWhileSaved
PROPERTY OthersUndisturbed
CHECK_DEADLOCK FALSE
