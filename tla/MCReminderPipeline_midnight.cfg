SPECIFICATION Spec
CONSTANTS
    w1 = w1
    w2 = w2
    r1 = r1
    r2 = r2
    Worker = {w1}
    Reminder = {r1}
    SLOTS_PER_DAY = 3
    DAYS_PER_WEEK = 1
    LastSlot = 2
    MaxCopies = 2
    Faults = {}
CHECK_DEADLOCK FALSE
PROPERTIES
    DueIsFetched
