\* Two tabs, two instants, courses of one or two blocks and a long one.
SPECIFICATION Spec
CONSTANTS
    None = None  t1 = t1  t2 = t2
    THRESHOLDS_MS <- MCThresholds
    DefaultThreshold = 0
    Assets = {"film", "sheet", "logo", "essay"}
    FileType <- MCFileType
    MaxSteps = 200
    Documents <- MCDocuments
    Sources <- MCSources
    Tabs = {t1, t2}
    Milestones = {1, 2}
    Touched <- MCTouched
    MaxTime = 1
    MaxAttempts = 2
    MaxEvents = 2
    SnapshotLimit = 2
    Reviewed <- MCReviewed
INVARIANTS LearningTypeOK ProgressAgrees MarksAreEarned ReviewChain ReportsKeepUp EveryBlockCanBeDone
PROPERTIES PaidForGood
CONSTRAINT Apart
SYMMETRY TabSymmetry
CHECK_DEADLOCK FALSE
