SPECIFICATION MCSpec
CONSTANTS
    Cpus = {c1, c2}
    Packets <- MCPackets
    Configs <- MCConfigs
    Ports = {7000}
    MaxPorts = 1
    MaxPkts = 1
    MaxUpdates = 1
SYMMETRY CpuSymmetry
INVARIANTS
    TypeOK
    OutcomeExplained
    ChecksumPreserved
    FramesCounted
    MarksCounted
    FragmentsTogether
CHECK_DEADLOCK FALSE
