\* Two windows of a first run, one of a second, one frame thread.
SPECIFICATION Spec
CONSTANTS
    w1 = w1
    w2 = w2
    w3 = w3
    n1 = n1
    n2 = n2
    Windows = {w1, w2, w3}
    Names = {n1, n2}
    Session <- MCSession
    Run <- MCRun
    LastRun = 2
    Frames = {f1}
    None = None
INVARIANTS
    TypeOK
    OwnSession
    FailsOnlyClosed
PROPERTIES
    ProcessEnds
    StartersEnd
CHECK_DEADLOCK FALSE
