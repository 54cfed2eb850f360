CONSTANTS
    Processes = {1}
    Commands = {"c1"}
    Pulls = {"p1", "p2"}
    Timely = FALSE
    Faults = FALSE
    Manual = FALSE
SPECIFICATION Spec
CHECK_DEADLOCK FALSE
INVARIANT GracefulStopDrains
