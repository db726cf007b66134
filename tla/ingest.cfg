\* Two workers, two messages, three deliveries, two failed commands or crashes.
SPECIFICATION Spec
CONSTANTS
    w1 = w1
    w2 = w2
    m1 = m1
    m2 = m2
    alice = alice
    bob = bob
    Workers = {w1, w2}
    Msgs = {m1, m2}
    Sides = {alice, bob}
    Conv = Conv
    NoConv = NoConv
    None = None
    MaxSeq = 2
    MaxDeliveries = 3
    MaxFaults = 2
INVARIANTS TypeOK WatermarkIsStored OneMessagePerSeq
PROPERTY LogSpec
SYMMETRY MCSymmetry
CHECK_DEADLOCK FALSE
