SPECIFICATION FairSpec
CONSTANTS
    l2 = l2
    d1 = d1
    t1 = t1
    t2 = t2
    Logins = {l1, l2, l3}
    Devices = {d1}
    Tokens = {t1, t2}
    Device <- MCDevice
    Token <- MCToken
    MayExpire = {t2}
    Checks = {c1}
    None = None
    Negative = Negative
INVARIANTS
    ReplacedIsRefused
    LostOnlyToARace
PROPERTIES
    NegativeFades
