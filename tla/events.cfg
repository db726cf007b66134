SPECIFICATION Spec
CONSTANTS
    m = m
    n = n
    edit = edit
    redact = redact
    publish = publish
    Events = {m, n, edit, redact, publish}
    Kind <- MCKind
    Public = {m, n}
    Deny <- MCDeny
    Target <- MCTarget
    NoEvent = NoEvent
    Callers = {c1, c2}
    MaxCounters = 1
    MaxSeq = 6
INVARIANTS
    RepliesAddressTheirEvent
    PrivateStaysPrivate
    
