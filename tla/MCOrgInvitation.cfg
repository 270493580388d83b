SPECIFICATION FairSpec
CONSTANTS
    w1 = w1
    w2 = w2
    o1 = o1
    o2 = o2
    i1 = i1
    i2 = i2
    e1 = e1
    Worker = {w1, w2}
    Org = {o1, o2}
    Email = {e1}
    InvitationId = {i1, i2}
    EXPIRE_DAYS = 1
    MaxClock = 2
CHECK_DEADLOCK FALSE
INVARIANTS
    TypeOK
    OneUnresolvedInvitation
    AdminIffUsed
    UsedAndRevokedOnlyPastExpiry
PROPERTIES
    Resolution
    RequestsEnd
    Enrols
