SPECIFICATION Spec
CONSTANTS
    Works <- MixedWorks
    Entries <- TableEntries
    Confs <- AllConfs
    Models <- TwoModels
    ScanCap = 1
    MaxListed = 2
    MaxPasses = 2
    MaxCalls = 2
    MaxAttempts = 2
INVARIANTS
    AcceptedIsTheChilds
    
    LegsDiverge
CHECK_DEADLOCK FALSE
