\* Two packets, prefixes of one and two bytes: can a cut make decode fail?
SPECIFICATION Spec
CONSTANTS
    SegBits = 2
    IntBits = 5
    Lengths <- CutLengths
    MaxPackets = 2
INVARIANT FragmentationHandled
CHECK_DEADLOCK FALSE
