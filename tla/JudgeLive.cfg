SPECIFICATION FairSpec
CONSTANTS
    Users = {u1}
    Tasks = {t1}
    Keys = {k1}
    Handlers = {h1}
    Workers = {w1, w2}
    QueueLimit = 1
    RetryLimit = 1
    MaxSubs = 1
    MaxFaults = 1
    None = None
INVARIANT RetryBudget
PROPERTIES FinalIsFinal EveryoneAnswered
