\* Two computers, two overlapping frames of the first, two clicks.
SPECIFICATION MCSpec
CONSTANTS
    c1 = c1
    c2 = c2
    f1 = f1
    f2 = f2
    f3 = f3
    Computers = {c1, c2}
    Frames = {f1, f2, f3}
    Screen <- MCScreen
    MaxWindows = 1
    Clicks = {k1, k2}
    None = None
    FirstClick = k1
INVARIANTS
    TypeOK
    RanTasksLeave
    OpensHere
PROPERTIES
    TasksAreListed
    TasksRun
CHECK_DEADLOCK FALSE
