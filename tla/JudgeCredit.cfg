SPECIFICATION Spec
CONSTANTS
    Users = {u1}
    Tasks = {t1}
    Keys = {k1, k2}
    Handlers = {h1, h2}
    Workers = {w1}
    QueueLimit = 2
    RetryLimit = 1
    MaxSubs = 2
    MaxFaults = 1
    None = None
SYMMETRY Symmetry
INVARIANTS OneActivePerUser AwardSound CountedOnce
PROPERTIES BlockedIsQuiet ImplementsLedger
