\* Two claims over four offsets, two workers, room for two acks.
SPECIFICATION FairSpec
CONSTANTS
    LogSize = 4
    MaxClaims = 2
    PoolSize = 2
    InflightCap = 3
    AckCap = 2
    StartCommitted = 0
INVARIANTS
    TypeOK
    MarkedOnlyHandled
    CommittedOnlyHandled
    InflightNeverBinds
PROPERTIES
    PrefixGetsMarked
CHECK_DEADLOCK FALSE
