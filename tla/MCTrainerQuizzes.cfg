SPECIFICATION SpecQuizzes
CONSTANTS
    w1 = w1
    w2 = w2
    w3 = w3
    s1 = s1
    c1 = c1
    c2 = c2
    b1 = b1
    b2 = b2
    i1 = i1
    i2 = i2
    i3 = i3
    i4 = i4
    Worker = {w1, w2, w3}
    Student = {s1}
    Book = {b1, b2}
    Context = {c1, c2}
    RelationOf <- Words
    ChapterOf <- Chapters
    BookOf <- Books
    MAX_CANDIDATES = 1
    Item = {i1, i2, i3, i4}
    CategoryOf <- Categories
    MaxAnswers = 3
    MaxDay = 1
CHECK_DEADLOCK FALSE
SYMMETRY Symmetry
INVARIANTS
    AnswersCounted
    RatesSane
