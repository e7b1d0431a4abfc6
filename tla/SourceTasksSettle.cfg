CONSTANTS
    t1 = t1
    t2 = t2
    t3 = t3
    s1 = s1
    w1 = w1
    w2 = w2
    w3 = w3
    Task = {t1}
    Source = {s1}
    SourceOf <- MCSourceOf
    Worker = {w1, w2}
    NoWorker = NoWorker
    NoTask = NoTask
    MaxAttempts = 2
    Lease = 2
    Backoff <- MCBackoff
    MaxLag = 1
SPECIFICATION FairSpec
PROPERTIES InterruptedStays NeverStranded
