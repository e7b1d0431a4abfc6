CONSTANTS
    NoCommand = NoCommand
    NoCycle = NoCycle
    NoWorker = NoWorker
    a1 = a1
    m1 = m1
    m2 = m2
    p1 = p1
    w1 = w1
    w2 = w2
    Manual = {m1, m2}
    Started = {m1}
    Scheduled = {}
    Legacy = {}
    FollowUp <- Repeat
    first = m1
    repeat = m2
    Adapter = {a1}
    Worker = {w1, w2}
    Coordinator = {p1}
    MaxAttempts = 1
    MaxReceives = 2
    MaxBatches = 0
    MaxAdvances = 1
    MaxRevision = 1
    MaxCrashes = 0
    MaxLapses = 1
    MaxDirect = 0
SPECIFICATION Spec
INVARIANTS TypeOK VerifiedWhole RepeatedWhole OneCycle SlotHeld CompletedOnce
PROPERTIES Final
CHECK_DEADLOCK FALSE
SYMMETRY Symmetry
