SPECIFICATION PresenceSpec
CONSTANTS
    n1 = n1
    Nodes = {n1}
    Conns = {c1, c2}
    Users = {u1, u2}
    NodeOf <- MCNodeOf
    UnauthTTL = 2
    TTL = 3
    UserIndexTTL = 2
    SweepTTL = 7
INVARIANTS
    ListedAsItLives
    AnswersHold
    UnlistedIsQuiet
    OneSessionPerConn
    UnauthIsListed
