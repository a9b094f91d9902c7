\* The registry: two players, two tokens, two connections.
SPECIFICATION Spec
CONSTANTS
    Players = {p1, p2}
    Tokens = {t1, t2}
    Channels = {c1, c2}
    Main = Main
    None = None
    Nobody = Nobody
INVARIANTS
    TypeOK
    OwnerAgreement
    TokenNotLost
    ReconnectPossible
PROPERTY RegistryPromise
SYMMETRY Symmetry
CHECK_DEADLOCK FALSE
