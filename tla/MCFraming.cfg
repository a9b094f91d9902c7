\* 5-bit ints in 2-bit digits: three rounds, one bit of the last digit used
\* (32-bit ints in 7-bit digits: five rounds, four bits of the last digit).
\* Three packets with prefixes of one to three bytes.
SPECIFICATION FairSpec
CONSTANTS
    SegBits = 2
    IntBits = 5
    Lengths <- MCLengths
    MaxPackets = 3
INVARIANT RoundTrip
PROPERTIES
    FramesAreReliable
    AllDelivered
CHECK_DEADLOCK FALSE
