CONSTANTS
    NoCommand = NoCommand
    NoCycle = NoCycle
    NoWorker = NoWorker
    a1 = a1
    g1 = g1
    m1 = m1
    m2 = m2
    m3 = m3
    p1 = p1
    p2 = p2
    Manual = {m1, m2, m3}
    Started = {m1, m2, m3}
    Scheduled = {}
    Legacy = {g1}
    FollowUp <- NoRepeat
    first = NoCycle
    repeat = NoCycle
    Adapter = {a1}
    Worker = {}
    Coordinator = {p1, p2}
    MaxAttempts = 1
    MaxReceives = 1
    MaxBatches = 0
    MaxAdvances = 1
    MaxRevision = 2
    MaxCrashes = 0
    MaxLapses = 0
    MaxDirect = 0
SPECIFICATION Spec
PROPERTIES Fifo
CHECK_DEADLOCK FALSE
SYMMETRY QueueSymmetry
