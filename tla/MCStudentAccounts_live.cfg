SPECIFICATION FairSpec
CONSTANTS
    w1 = w1
    w2 = w2
    s1 = s1
    s2 = s2
    e1 = e1
    t1 = t1
    t2 = t2
    Worker = {w1, w2}
    Student = {s1}
    Email = {e1}
    TokenId = {t1}
    Requests = {"issue", "confirm", "reset", "name", "account"}
CHECK_DEADLOCK FALSE
INVARIANTS
    TypeOK
PROPERTIES
    RequestsEnd
