SPECIFICATION Spec
CONSTANTS
    Units = {u1, u2}
    MaxHead = 1
    MaxBase = 1
    Producers = {p1}
    Runs = {r1}
    Changed <- ChangedAlways
    Excluded = {}
    Generated = {}
    MaxPasses = 0
    MaxPRs = 0
    MaxFiles = 0
    Automated = FALSE
    ForcePush = FALSE
    MayLose = FALSE
    MayMisread = FALSE
    MayHalt = FALSE
    MaxMoves = 0
    MaxFaults = 1
    MaxMarkers = 3
INVARIANTS
    AcceptedFindingsKept
CHECK_DEADLOCK FALSE
