SPECIFICATION MCSpec
CONSTANTS
    RUNS = 1
    CONDITIONS <- MCConditions
    Clsf <- MCClsf
    Prio <- MCPrio
    MaxCampaigns = 2
    NCpus = 2
    Keys <- MCKeys
    Frames <- MCFrames
    MaxFrames = 2
INVARIANT FreshOrLogged
CHECK_DEADLOCK FALSE
