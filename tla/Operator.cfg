\* The machine that has the project, and one it is carried to.
CONSTANTS
    None = None
    Old = Old
    New = New
    StartOptions <- Options
    MaxSources = 2
    MaxWork = 2
    MaxKeysMade = 2
SPECIFICATION Spec
CONSTRAINT Apart
INVARIANTS Readable
PROPERTIES CompletedIsWhole InUseIsKept
CHECK_DEADLOCK FALSE
