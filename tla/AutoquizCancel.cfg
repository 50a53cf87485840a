SPECIFICATION Spec
CONSTANTS
    Videos = {v1}
    Assets = {a1}
    Sources = {"speech"}
    AutoVideos = {v1}
    Pages = {p1}
    Editors = {e1}
    Workers = {w1}
    ActiveLimit = 1
    MaxRevision = 3
    MaxJobRevision = 4
    MaxFaults = 0
    None = None
PROPERTIES EndedIsNotCancelled
