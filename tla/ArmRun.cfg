\* Two arms beside each other, checks at 2, 4 and 6, a save every update, a crash.
CONSTANTS
    None = None
    Arms <- TwoArms
    P = 2
    Total = 8
    SelectionInterval = 2
    Interval = 2
    FirstCheck = 2
    PrefixEvery = 2
    ArmEvery = 1
    Block = 2
    Contrasts <- TwoContrasts
    MaxCrashes = 1
SPECIFICATION FairSpec
INVARIANTS
    SwitchByRule
    BlockIsCurrent
    MeasuredIsAll
    ManifestHonest
PROPERTIES
    ImplementsTrajectory
    SeedCompletes
CHECK_DEADLOCK FALSE
