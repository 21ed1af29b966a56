SPECIFICATION FairSpec
CONSTANTS
    Modes = {"automated", "local"}
    CapAutomated = 1
    CapLocal = 2
    MaxHead = 3
    MovesAutomated = 1
    MovesLocal = 2
    MaxFaults = 1
INVARIANTS CycleTellsTheTruth RestartIsAccepted StatusAgrees
PROPERTIES PassesFollowProtocol StallsEnd
CHECK_DEADLOCK FALSE
