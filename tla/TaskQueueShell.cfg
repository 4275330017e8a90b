\* The shell worker's queue under fairness, one fault; no symmetry, which liveness would not allow.
CONSTANTS
    w1 = w1
    w2 = w2
    None = None
    Workers <- TwoWorkers
    Seeds <- OneSeed
    Arms <- OneArm
    MaxAttempts = 2
    RetryFailed = TRUE
    SeedFirst = TRUE
    MaxLaunches = 3
    MaxFaults = 1
SPECIFICATION FairSpec
PROPERTIES
    AbandonedRecovered
    WorkersEnd
CHECK_DEADLOCK FALSE
