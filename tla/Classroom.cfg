CONSTANTS
    Drafts = {d1}
    Tabs = {t1, t2}
    Contents = {blank, a, b}
    Blank = blank
    Complete = {a, b}
    MaxRevision = 4
    Users = {1, 2}
    Groups = {g1, g2}
    Handlers = {h1, h2}
    GroupLimit = 2
    Self = Self
    None = None
SPECIFICATION Spec
SYMMETRY Symmetry
INVARIANTS CatalogueShowsLatest PublishedMeansCurrent OneRelease MembersAreAssigned NoDeadlock
PROPERTIES ActsOnWhatItSaw
CONSTRAINT Apart
