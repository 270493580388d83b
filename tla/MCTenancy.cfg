SPECIFICATION Spec
CONSTANTS
    o1 = o1
    o2 = o2
    c1 = c1
    c2 = c2
    s1 = s1
    s2 = s2
    t1 = t1
    a1 = a1
    m1 = m1
    m2 = m2
    Organization = {o1, o2}
    Classroom = {c1, c2}
    Student = {s1, s2}
    Teacher = {t1}
    ClassroomAdmin = {a1}
    OrgAdmin = {m1, m2}
    w1 = w1
    w2 = w2
    Worker = {w1, w2}
    None = None
    Home <- MCHome
CHECK_DEADLOCK FALSE
INVARIANTS
    SeesOwnTenant
    SeenAlike
