SPECIFICATION FairSpec
CONSTANTS
    r1 = r1
    r2 = r2
    Requests <- MCRequests
    Processes = {1, 2}
    Throughputs <- MCThroughputs
    Scenes <- MCScenes
    NoProcess = 0
    NoPriority = NoPriority
    MaxFailures = 0
INVARIANT UseInv
PROPERTY HoldsEarned
PROPERTY ProbesSettle
