SPECIFICATION FairSpec
CONSTANTS
    c1 = c1
    c2 = c2
    n1 = n1
    u1 = u1
    u2 = u2
    Nodes = {n1}
    Conns = {c1, c2}
    Users = {u1, u2}
    NoUser = NoUser
    NodeOf <- MCNodeOf
    MayClaim <- MCMayClaim
    UnauthTTL = 1
    TTL = 3
    UserIndexTTL = 3
    SweepTTL = 6
    PingEvery = 1
    MaxMissed = 1
    MaxAuths = 2
INVARIANTS
    BoundIsListed
    UngrantedIsInvisible
    OfflineStaysOffline
PROPERTY
    EndedIsForgotten
