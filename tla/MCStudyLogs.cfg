SPECIFICATION FairSpec
CONSTANTS
    w1 = w1
    w2 = w2
    Worker = {w1, w2}
    LastNumber = 2
    Quality = {0, 5}
    Required = {3}
    MaxForms = 2
    MaxLogs = 2
CHECK_DEADLOCK FALSE
INVARIANTS
    CacheOfLogs
    StreakCounted
PROPERTIES
    RequestsEnd
