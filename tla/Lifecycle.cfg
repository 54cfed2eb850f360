CONSTANTS
    Processes = {1, 2, 3}
    Commands = {"c1"}
    Pulls = {"p1"}
    Timely = FALSE
    Faults = TRUE
    Manual = TRUE
SPECIFICATION Spec
CHECK_DEADLOCK FALSE
INVARIANT WorkspaceInv
INVARIANT LifecycleInv
INVARIANT ServingIsFound
INVARIANT StoppedIsStopped
