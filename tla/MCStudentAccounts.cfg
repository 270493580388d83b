SPECIFICATION Spec
CONSTANTS
    w1 = w1
    w2 = w2
    s1 = s1
    s2 = s2
    e1 = e1
    t1 = t1
    t2 = t2
    Worker = {w1, w2}
    Student = {s1, s2}
    Email = {e1}
    TokenId = {t1, t2}
    Requests = {"issue", "confirm", "edit", "deactivate", "reactivate"}
CHECK_DEADLOCK FALSE
SYMMETRY Symmetry
INVARIANTS
    OneActiveToken
PROPERTIES
    RegistrationSound
    TokenHistory
