CONSTANTS
    MaxRoots = 3
    MaxLeaves = 2
    MaxFaults = 1
    Manual = TRUE
SPECIFICATION RotationSpec
CHECK_DEADLOCK FALSE
INVARIANT RotationInv
INVARIANT ServedTrusted
