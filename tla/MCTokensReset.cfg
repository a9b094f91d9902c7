\* One player, one reset, one connection: is the old token dead?
SPECIFICATION ToldSpec
CONSTANTS
    Players = {p1}
    Tokens = {t1, t2}
    Channels = {c1}
    Main = Main
    None = None
    Nobody = Nobody
INVARIANT ResetTokenIsDead
CHECK_DEADLOCK FALSE
