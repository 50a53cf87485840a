\* Two tabs, one of which also sends.
CONSTANTS
    None = None
    t1 = t1
    t2 = t2
    Tabs = {t1, t2}
    Senders = {t1}
    Modes = {"run", "check"}
    MaxTexts = 2
    MaxKeys = 3
    MaxJobs = 2
    MaxLate = 1
SPECIFICATION Spec
CONSTRAINT Apart
INVARIANTS WorkspaceTypeOK NothingOverwrittenUnseen ShownAsSaved OneSendOneJob
CHECK_DEADLOCK FALSE
