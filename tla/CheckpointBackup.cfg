\* Two watchers, three checkpoints, two generations kept, four publications, one crash.
CONSTANTS
    b1 = b1
    b2 = b2
    c1 = c1
    c2 = c2
    c3 = c3
    Torn = Torn
    Nobody = Nobody
    Watchers <- TwoWatchers
    Checkpoints <- ThreeCheckpoints
    Skew <- SameTime
    KEEP = 2
    MaxPublished = 4
    MaxFaults = 1
SPECIFICATION FairSpec
INVARIANTS
    Recoverable
    IndexTruthful
PROPERTIES
    BackedUp
CHECK_DEADLOCK FALSE
