SPECIFICATION RelaySpec
CONSTANTS
    c1 = c1
    u1 = u1
    f1 = f1
    f2 = f2
    Conns = {c1, c2}
    Users = {u1, u2}
    NoConn = NoConn
    NoUser = NoUser
    MaxPerUser = 0
    Frames = {f1, f2}
    To <- MCTo
    Sid <- MCSid
    RelayCap = 1
    Workers = 1
    MaxExpired = 1
PROPERTIES
    Relayed
CHECK_DEADLOCK FALSE
