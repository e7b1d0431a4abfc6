CONSTANTS
    NoCommand = NoCommand
    NoCycle = NoCycle
    NoWorker = NoWorker
    a1 = a1
    p1 = p1
    s1 = s1
    w1 = w1
    Manual = {}
    Started = {}
    Scheduled = {s1}
    Legacy = {}
    FollowUp <- NoRepeat
    first = NoCycle
    repeat = NoCycle
    Adapter = {a1}
    Worker = {w1}
    Coordinator = {p1}
    MaxAttempts = 1
    MaxReceives = 1
    MaxBatches = 1
    MaxAdvances = 1
    MaxRevision = 2
    MaxCrashes = 1
    MaxLapses = 0
    MaxDirect = 1
SPECIFICATION FairSpec
INVARIANTS OneCycle
PROPERTIES QueuedSettles Handover Final
CHECK_DEADLOCK FALSE
