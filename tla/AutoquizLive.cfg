SPECIFICATION FairSpec
CONSTANTS
    Videos = {v1}
    Assets = {a1, a2}
    Sources = {"speech"}
    AutoVideos = {v1}
    Pages = {p1}
    Editors = {e1}
    Workers = {w1, w2}
    ActiveLimit = 1
    MaxRevision = 3
    MaxJobRevision = 2
    MaxFaults = 1
    None = None
INVARIANTS QuizMatchesVideo
PROPERTIES EveryJobEnds
