\* One channel, a client that may send its handshake twice.
SPECIFICATION Spec
CONSTANTS
    Threads = {t1, t2}
    None = None
INVARIANTS
    TypeOK
    CipherHasKey
    HandshakeLegible
    DroppedForSilence
PROPERTIES
    ThreadsEnd
    SilentIsDropped
    Connects
CHECK_DEADLOCK FALSE
