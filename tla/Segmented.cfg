CONSTANTS
    Half = 128
    Overlap = 3
    Maximum = 3
    Minimum = 2
    Limit = 12
SPECIFICATION FairSpec
INVARIANT BudgetInv
INVARIANT NothingLeft
INVARIANT AcceptedPlans
PROPERTY FailureEndsDownloads
PROPERTY DepartureFreesDisk
PROPERTY ImplementsDelivery
