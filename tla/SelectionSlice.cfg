\* Two ranks; a killed attempt leaves a part's gradients for the next one.
CONSTANTS
    None = None
    World = 2
    Selection = 3
    Validation = 1
    Interval = 1
    Total = 1
    Outcomes <- TwoOutcomes
    MaxKills = 1
    MaxRestores = 0
SPECIFICATION Spec
INVARIANTS
    ResumesAfterSlice
CHECK_DEADLOCK FALSE
