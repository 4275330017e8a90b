\* Five scheduled checks, any of them missing.
CONSTANTS
    None = None
    Interval = 2
    Steps <- FiveSteps
    Values <- SmallValues
SPECIFICATION RuleSpec
INVARIANTS
    SwitchesAsDocumented
CHECK_DEADLOCK FALSE
