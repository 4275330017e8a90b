\* Two tasks, two dispatchers whose allocations share both GPUs in opposite orders, one fault.
CONSTANTS
    l1 = l1
    l2 = l2
    Nobody = Nobody
    Launchers <- TwoLaunchers
    NumGpus = 2
    Alloc <- Overlapping
    NumTasks = 2
    Phases = 1
    MaxAttempts = 2
    MaxFaults = 1
SPECIFICATION FairSpec
INVARIANTS
    GpuExclusive
    SomeoneProceeds
    AttemptsAreFailures
    EndsTruthfully
PROPERTIES
    LaunchersEnd
CHECK_DEADLOCK FALSE
