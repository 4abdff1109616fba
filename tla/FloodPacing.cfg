SPECIFICATION Spec
CONSTANTS
    PerPkt = 2
    Duration = 12
    Lag = 2
    SleepAbove = 3
    SleepMargin = 2
    Steps <- MCSteps
    MaxSteps = 2
    MaxTime = 19
INVARIANTS
    TypeOK
    RateBounded
    TotalBounded
PROPERTY Terminates
CHECK_DEADLOCK FALSE
