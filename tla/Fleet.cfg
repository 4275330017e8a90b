\* Two workers, two plans of two tasks, one fault, an operator; no symmetry under fairness.
CONSTANTS
    w1 = w1
    w2 = w2
    Nobody = Nobody
    Workers <- TwoWorkers
    NumQueues = 2
    NumTasks = 2
    Supplied = {1, 2}
    MaxAttempts = 2
    RetryFailed = TRUE
    MaxFaults = 1
SPECIFICATION FairSpec
INVARIANTS
    CompleteIsTrue
PROPERTIES
    QueueServed
    WorkersEnd
CHECK_DEADLOCK FALSE
