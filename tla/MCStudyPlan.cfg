SPECIFICATION Spec
CHECK_DEADLOCK FALSE
CONSTANTS
    Forms <- MCForms
    Created <- MCCreated
    Edited <- MCEdited
    Quality = {2, 5}
    Horizon = 4
    MaxWork = 4
    MaxReviews = 10
    MAX_NEW_CAP_PER_DAY = 20
    MAX_DUE_REVIEWS_PER_DAY = 2
    OVERTIME_NEW_CAP = 1
INVARIANTS
    FirstLearningInTime
    ListHonest
    DiagnosisHonest
PROPERTIES
    NeverPilesUp
    DiagnosisAgrees
