\* Three sockets, two users, at most two sockets each.
SPECIFICATION FairSpec
CONSTANTS
    c1 = c1
    c2 = c2
    c3 = c3
    u1 = u1
    u2 = u2
    NoConn = NoConn
    NoUser = NoUser
    Conns = {c1, c2, c3}
    Users = {u1, u2}
    MaxPerUser = 2
INVARIANTS
    IndexesAgree
    RegisteredIffOpen
    LegacyIsOwnOrMoved
PROPERTIES
    ExpiredIsClosed
