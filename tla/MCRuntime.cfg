SPECIFICATION RuntimeSpec
CONSTANTS
    None = None
    Replicas = {r1, r2}
    Timeout = 2
    Margin = 1
    MaxBatches = 2
    MayFail = TRUE
    Serving = {r1}
    QueueSize = 1
    MaxRequests = 1
INVARIANTS
    OneRunAtATime
    LockHasRun
    NothingArrivesLate
    ClosedMeansIdle
