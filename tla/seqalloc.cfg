\* Two callers, three calls, blocks of two numbers.
SPECIFICATION Spec
CONSTANTS
    a = a
    b = b
    Callers = {a, b}
    Needs = {1, 2}
    BlockOf <- MCBlockOf
    MaxRetry = 2
    MaxIssued = 5
    MaxCalls = 3
    MaxResends = 0
SYMMETRY MCSymmetry
INVARIANTS
    TypeOK
    UniqueSeqs
    WatermarksOrdered
PROPERTIES
    IssuerSpec
CHECK_DEADLOCK FALSE
