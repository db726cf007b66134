SPECIFICATION FairSpec
CONSTANTS
    n1 = n1
    o1 = o1
    Nodes = {n1}
    Others = {o1}
    Instances <- MCInstances
    MetaWeight <- MCMetaWeight
    TTL = 3
    Reap = 1
    MaxGap = 2
    Watches = {w1, w2}
    NoWatch = NoWatch
INVARIANTS
    OutOnlyAfterFailure
    CacheFollows
    FairShares
PROPERTIES
    Converges
