SPECIFICATION FairSpec
CONSTANTS
    o1 = o1
    o2 = o2
    w1 = w1
    w2 = w2
    u1 = u1
    u2 = u2
    b1 = b1
    b2 = b2
    Worker = {w1, w2}
    Org = {o1, o2}
    ChannelId = {1}
    Bot = {"bot"}
    Registered <- MCRegistered
    MaxWork = 2
    User = {u1, u2}
    Body = {b1, b2}
    Destination <- MCDestination
    Events <- MCEvents
    Known <- MCKnown
    MaxTime = 1
CHECK_DEADLOCK FALSE
INVARIANTS
    OneActiveKey
    AckedIsRecorded
    TenantsKeepApart
PROPERTIES
    Served
