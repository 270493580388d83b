SPECIFICATION FairSpec
CONSTANTS
    w1 = w1
    w2 = w2
    r1 = r1
    r2 = r2
    Worker = {w1, w2}
    Reminder = {r1}
    SLOTS_PER_DAY = 3
    DAYS_PER_WEEK = 1
    LastSlot = 3
    MaxCopies = 2
    Faults = {"crash", "timeout", "line"}
CHECK_DEADLOCK FALSE
INVARIANTS
    MarkedWasPublished
    OncePerDay
PROPERTIES
    Drained
