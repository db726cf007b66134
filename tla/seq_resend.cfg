\* The Redis client sends one SetSegment command twice.
SPECIFICATION SpecResends
CONSTANTS
    a = a
    b = b
    Callers = {a, b}
    Needs = {1}
    BlockOf <- MCBlockOf
    MaxRetry = 2
    MaxIssued = 6
    MaxCalls = 3
    MaxResends = 1
SYMMETRY MCSymmetry
INVARIANT UniqueSeqs
CHECK_DEADLOCK FALSE
