SPECIFICATION Spec
CONSTANTS
    Shapes <- MCShapes
    SharedSizes = {4, 7, 14, 19, 24, 27}
    Confs <- MCConfs
    CallInputs <- MCCallInputs
    MaxFiles = 3
    PackBytes = 20
    HardBytes = 26
    Frame = 2
    HunkHead = 2
    PartSlackBytes = 2
    MinContent = 4
    VerifyRounds = 5
    MaxFilesPerBatch = 2
    MaxUnitsPerPass = 2
    LegReads = 2
    MaxAsks = 2
    MaxRuns = 2
    MaxFaults = 2
INVARIANTS EveryUnitOnce CallsFit SplitShowsTheFile SpendingAccounted
    WholeFileVerdict DegradedIsSaid
CHECK_DEADLOCK FALSE
