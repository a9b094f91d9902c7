\* Two overlapping frames, two logins.
SPECIFICATION Spec
CONSTANTS
    Frames = {f1, f2}
    Logins = {l1, l2}
    Delay = 20
    None = None
INVARIANTS
    TypeOK
    OneDesktop
    DarkWhenOff
PROPERTY ErrorsShown
CHECK_DEADLOCK FALSE
