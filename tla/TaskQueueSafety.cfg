\* One seed, one arm, two workers, two attempts per task.
CONSTANTS
    w1 = w1
    w2 = w2
    None = None
    Workers <- TwoWorkers
    Seeds <- OneSeed
    Arms <- OneArm
    MaxAttempts = 2
    RetryFailed = TRUE
    SeedFirst = FALSE
    MaxLaunches = 4
    MaxFaults = 2
SPECIFICATION Spec
SYMMETRY Symmetry
INVARIANTS
    IInv
    OneExecution
    ParentSettledFirst
    RetryBudget
PROPERTIES
    PublishedOnce
    ImplementsDag
CHECK_DEADLOCK FALSE
