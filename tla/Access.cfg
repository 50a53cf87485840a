\* The superuser and one other account, two browsers.
SPECIFICATION Spec
CONSTANTS
    None = None  boss = boss  pupil = pupil  b1 = b1  b2 = b2  i1 = i1  g1 = g1
    Owner = boss
    Others = {pupil}
    Browsers = {b1, b2}
    Invites = {i1}
    Grants = {g1}
    Packages = {{pupil}}
    Offsets = {0}
    CodesPerList = 1
    MaxTime = 2
    MaxRevocations = 2
    GivenRoles = {"teacher"}
    MaxPasswords = 3
    MaxMade = 2
SYMMETRY BrowserSymmetry
INVARIANTS AccessTypeOK OneTimeUse RevokedIsOut
CHECK_DEADLOCK FALSE
