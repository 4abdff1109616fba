SPECIFICATION MCSpec
CONSTANTS
    RUNS = 2
    CONDITIONS <- MCConditions
    Clsf <- MCClsf
    Prio <- MCPrio
    MaxCampaigns = 2
    NCpus = 2
    Keys <- MCKeys
    Frames <- MCFrames
    MaxFrames = 2
INVARIANTS
    ConditionInPlace
    ReadyMeansBound
    FreshInNewOut
    CleanExit
    DumpBetween
    DeltaExact
PROPERTIES
    EndsUnlessSilent
    CountsAtomically
CHECK_DEADLOCK FALSE
