SPECIFICATION FairSpec
CONSTANTS
    Units = {u1}
    MaxHead = 2
    MaxBase = 2
    Producers = {p1}
    Runs = {r1}
    Changed <- ChangedAlways
    Excluded = {}
    Generated = {}
    MaxPasses = 0
    MaxPRs = 0
    MaxFiles = 0
    Automated = FALSE
    ForcePush = FALSE
    MayLose = FALSE
    MayMisread = TRUE
    MayHalt = TRUE
    MaxMoves = 1
    MaxFaults = 1
    MaxMarkers = 2
PROPERTIES
    ClaimsSettle
CHECK_DEADLOCK FALSE
