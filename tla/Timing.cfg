SPECIFICATION Spec
CONSTANTS
    Interval = 2
    Count = 3
    SleepAbove = 1
    SleepMargin = 1
    Steps <- MCSteps
    MaxSteps = 1
    MaxTime = 7
    None = None
INVARIANTS
    Paced
    RowsHonest
PROPERTIES
    Terminates
CHECK_DEADLOCK FALSE
