CONSTANTS
    l0 = l0
    l1 = l1
    l2 = l2
    l7 = l7
    s1 = s1
    s2 = s2
    z0 = z0
    z1 = z1
    z2 = z2
    z7 = z7
    y0 = y0
    y1 = y1
    NoWorker = NoWorker
    Event = {1, 2, 3, 4}
    Stray = {s1, s2}
    Kind <- MCKind
    Consumers <- MCConsumers
    Subscribers <- MCSubscribers
    Held <- MCHeld
    Fleet = {l0, l1, l2, l7}
    L0 = l0
    Downstream = {l2, l7}
    Worker = {z0, z1, y1, z7}
    FleetOf <- MCFleetOf
    Hold = FALSE
    MaxReceives = 2
    MaxBodies = 1
    MaxMessages = 3
    MaxReopens = 1
    MaxCrashes = 1
    MaxLapses = 1
SPECIFICATION Spec
INVARIANTS TypeOK Disposed RunOnce
PROPERTIES LedgerSpec
CHECK_DEADLOCK FALSE
SYMMETRY Symmetry
