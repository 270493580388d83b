SPECIFICATION Spec
CONSTANTS
    t1 = t1
    t2 = t2
    Tab = {t1, t2}
    Student = Student
    Staff = Staff
    Trainer = {"reading", "listening"}
    Textbook = Textbook
    Eiken = Eiken
    SetSizes = {1, 2}
    MAX_COUNT = 0
    MaxPassages = 1
    MaxWork = 4
    MaxAnswers = 2
SYMMETRY Symmetry
INVARIANTS TypeOK AnswersCounted IntervalEarned ResultHonest BatchesContiguous
CHECK_DEADLOCK FALSE
