\* Two requests, two tokens, two computers.
SPECIFICATION MCSpec
CONSTANTS
    Requests = {r1, r2}
    Tokens = {t1, t2}
    Names = {n1, n2}
    IdCount = 4
    FirstIds = {0, 2}
    MaxConn = 2
    None = None
    FirstRequest = r1
    FirstToken = t1
    FirstName = n1
INVARIANTS
    TypeOK
    RequestPending
    AnswersMatch
    CleanedUp
PROPERTY WaitingEnds
CHECK_DEADLOCK FALSE
