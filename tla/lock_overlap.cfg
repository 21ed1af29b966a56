SPECIFICATION Spec
CONSTANTS
    Pids = {p1, p2}
    MaxKills = 1
CHECK_DEADLOCK FALSE
INVARIANT OneRunAtATime
