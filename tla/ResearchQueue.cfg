\* Two nodes, anchors at 0 and 1 updates, three launches of a task, one fault.
CONSTANTS
    n1 = n1
    n2 = n2
    None = None
    Nodes <- TwoNodes
    Stages <- TwoStages
    MaxAttempts = 1
    MaxLaunches = 3
    MaxFaults = 1
SPECIFICATION FairSpec
INVARIANTS
    OneExecution
    AnchorsOnPath
    ResultsConsistent
    EndsTruthfully
PROPERTIES
    ImplementsDag
    QueueEnds
CHECK_DEADLOCK FALSE
