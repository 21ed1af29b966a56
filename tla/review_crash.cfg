SPECIFICATION Spec
CONSTANTS
    Units = {u1, u2}
    MaxHead = 3
    MaxBase = 1
    Producers = {p1}
    Runs = {r1}
    Changed <- ChangedLessAndLess
    Excluded = {}
    Generated = {}
    MaxPasses = 2
    MaxPRs = 1
    MaxFiles = 1
    Automated = TRUE
    ForcePush = FALSE
    MayLose = FALSE
    MayMisread = FALSE
    MayHalt = FALSE
    MaxMoves = 2
    MaxFaults = 1
    MaxMarkers = 3
INVARIANTS
    ConvergedIsEarned
    PostedOnce
    OneClaimPerPass
PROPERTIES
    CoverageNeverRegresses
CHECK_DEADLOCK FALSE
