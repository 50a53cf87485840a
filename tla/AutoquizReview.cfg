SPECIFICATION Spec
CONSTANTS
    Videos = {v1}
    Assets = {a1}
    Sources = {"speech"}
    AutoVideos = {v1}
    Pages = {p1}
    Editors = {e1}
    Workers = {w1, w2}
    ActiveLimit = 1
    MaxRevision = 4
    MaxJobRevision = 6
    MaxFaults = 1
    None = None
SYMMETRY Symmetry
INVARIANTS TypeOK EditsAreSeen
PROPERTIES NothingUndone InsertedAsReviewed
