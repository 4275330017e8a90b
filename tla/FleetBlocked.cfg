\* A sentence the workers print; nothing fails in this instance.
CONSTANTS
    w1 = w1
    w2 = w2
    Nobody = Nobody
    Workers <- TwoWorkers
    NumQueues = 1
    NumTasks = 2
    Supplied = {}
    MaxAttempts = 2
    RetryFailed = TRUE
    MaxFaults = 0
SPECIFICATION Spec
SYMMETRY Symmetry
INVARIANTS
    BlockedMeansFailed
CHECK_DEADLOCK FALSE
