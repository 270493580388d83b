SPECIFICATION SpecMath
CONSTANTS
    w1 = w1
    w2 = w2
    Worker = {w1, w2}
    Problems = 2
    Papers = {1, 2}
    MaxSessions = 2
    MaxRequests = 4
    LinearTried <- Linears
    SystemTried <- Systems4
    Uses <- Used
    MaxRetry = 2
    Hours = {0, 1, 11, 12, 23}
    Minutes = {0, 1, 3, 30, 56, 59}
    Edge = 3
CHECK_DEADLOCK FALSE
SYMMETRY Symmetry
INVARIANTS
    ScoreOfAnswers
    OneRightChoice
