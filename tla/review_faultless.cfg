SPECIFICATION Spec
CONSTANTS
    Units = {u1, u2}
    MaxHead = 3
    MaxBase = 1
    Producers = {p1}
    Runs = {r1}
    Changed <- ChangedThenNarrow
    Excluded = {}
    Generated = {}
    MaxPasses = 0
    MaxPRs = 0
    MaxFiles = 0
    Automated = FALSE
    ForcePush = FALSE
    MayLose = FALSE
    MayMisread = FALSE
    MayHalt = TRUE
    MaxMoves = 2
    MaxFaults = 0
    MaxMarkers = 3
INVARIANTS
    TypeOK
    AcceptedFindingsKept
    FindingsDescribeHead
    NeverParked
    UnsettledIsResumable
CHECK_DEADLOCK FALSE
