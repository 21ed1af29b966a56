CONSTANTS
    Jobs = {j1, j2}
    Lifetime = 3
    CallHours = 2
    Horizon = 4
    MaxFaults = 1
    Unreadable = Unreadable
    Missing = Missing
    Unset = Unset
    Operator = Operator
SPECIFICATION Spec
INVARIANTS
    SecretIsLive
    NothingOutlivesTheLeg
CHECK_DEADLOCK FALSE
