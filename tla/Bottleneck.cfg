SPECIFICATION Spec
CONSTANTS
    Conditions <- AllConditions
    MaxTs = 4
    Limit = 3
    None = None
INVARIANTS
    ProbesTell
PROPERTIES
    TsFirst
    NoclsfIsFifo
    TsServed
