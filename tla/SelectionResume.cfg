\* Two ranks, blocks of three prompts and of one, two updates, and attempts killed without end.
CONSTANTS
    None = None
    World = 2
    Selection = 3
    Validation = 1
    Interval = 1
    Total = 2
    Outcomes <- TwoOutcomes
    MaxKills = 1
    MaxRestores = 1
SPECIFICATION FairSpec
INVARIANTS
    SelectionIsOwn
    RecordsOfModel
PROPERTIES
    TrainingMovesOn
CHECK_DEADLOCK FALSE
