SPECIFICATION Spec
CONSTANTS
    Units = {u1, u2}
    Runs = {r1, r2}
    Stores = {"auto", "refs", "marker"}
    OnOverflow = "degrade"
    MaxHead = 2
    MaxCommits = 3
    MaxEvents = 2
SYMMETRY Symmetry
CHECK_DEADLOCK FALSE
INVARIANTS
    CoveredWasJudged
    GreenWasRead
    AncestryIsOurs
    NewestIsKept
PROPERTIES
    ProgressKept
