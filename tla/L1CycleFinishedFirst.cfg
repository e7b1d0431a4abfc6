CONSTANTS
    NoCommand = NoCommand
    NoCycle = NoCycle
    NoWorker = NoWorker
    a1 = a1
    m1 = m1
    p1 = p1
    w1 = w1
    Manual = {m1}
    Started = {m1}
    Scheduled = {}
    Legacy = {}
    FollowUp <- NoRepeat
    first = NoCycle
    repeat = NoCycle
    Adapter = {a1}
    Worker = {w1}
    Coordinator = {p1}
    MaxAttempts = 2
    MaxReceives = 3
    MaxBatches = 0
    MaxAdvances = 1
    MaxRevision = 1
    MaxCrashes = 0
    MaxLapses = 0
    MaxDirect = 0
SPECIFICATION Spec
INVARIANTS FinishedFirst
CHECK_DEADLOCK FALSE
SYMMETRY Symmetry
