CONSTANTS
    Commands = {"c1", "c2"}
    MaxWrites = 4
    Regimes <- MCRegimes
SPECIFICATION FairSpec
INVARIANT ConfigInv
INVARIANT FileIsServed
PROPERTY NoStaleReload
PROPERTY ExitEnds
