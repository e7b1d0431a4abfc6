CONSTANTS
    l0 = l0
    l1 = l1
    l2 = l2
    l7 = l7
    s1 = s1
    s2 = s2
    z0 = z0
    z1 = z1
    z2 = z2
    z7 = z7
    y0 = y0
    y1 = y1
    NoWorker = NoWorker
    Event = {1, 5}
    Stray = {s1, s2}
    Kind <- MCKind
    Consumers <- MCConsumers
    Subscribers <- MCSubscribers
    Held <- MCHeld
    Fleet = {l0, l1, l2, l7}
    L0 = l0
    Downstream = {l2, l7}
    Worker = {z0}
    FleetOf <- MCFleetOf
    Hold = TRUE
    MaxReceives = 1
    MaxBodies = 1
    MaxMessages = 3
    MaxReopens = 0
    MaxCrashes = 0
    MaxLapses = 0
    r1 = r1
    r2 = r2
    dlq = dlq
    Recoverer = {r1, r2}
    Reference = {1}
    DeadLetters = dlq
    MaxBatch = 1
    MaxPasses = 3
SPECIFICATION RecoverySpec
INVARIANTS RecoveryTypeOK Disposed
PROPERTIES LedgerSpec LeftForOwner
CHECK_DEADLOCK FALSE
SYMMETRY RecoverySymmetry
