CONSTANTS
    u1 = u1
    u2 = u2
    c1 = c1
    Users = {u1, u2}
    Pages = {c1}
    UserOf <- MCUserOf
    Creator = u2
    Requests = {r1, r2, r3}
    PageSize = 1
    ChangeLimit = 1
    MaxVersion = 4
    MaxMessages = 2
    MaxTexts = 2
    MaxKeys = 2
    None = None
SPECIFICATION Spec
SYMMETRY Symmetry
INVARIANTS TypeOK FeedFollows NoDuplicates
CHECK_DEADLOCK FALSE
CONSTRAINTS Apart InTurn
