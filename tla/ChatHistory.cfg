CONSTANTS
    u1 = u1
    u2 = u2
    c1 = c1
    Users = {u1, u2}
    Pages = {c1}
    UserOf <- MCUserOf
    Creator = u2
    Requests = {r1}
    PageSize = 1
    ChangeLimit = 1
    MaxVersion = 4
    MaxMessages = 3
    MaxTexts = 0
    MaxKeys = 0
    None = None
SPECIFICATION Spec
INVARIANT WholeHistory
CHECK_DEADLOCK FALSE
