SPECIFICATION Spec
CONSTANTS
    Count = 4
    RcvBuf = 2
    MaxDups = 1
    MaxRunts = 1
INVARIANTS
    SummaryExact
    SummariesAgree
    WaitsForFirst
PROPERTIES
    EndsWithCsv
CHECK_DEADLOCK FALSE
