\* Two attempts of two ranks on three candidates, two crashes; no symmetry under fairness.
CONSTANTS
    w1 = w1
    w2 = w2
    None = None
    Workers <- TwoWorkers
    Candidates = 3
    World = 2
    MaxAttempts = 2
    MaxCrashes = 2
SPECIFICATION FairSpec
INVARIANTS
    HInv
PROPERTIES
    ReceiptsFinal
    ImplementsHandoff
    ReadyReached
    CacheFinishes
CHECK_DEADLOCK FALSE
