CONSTANTS
    p1 = p1
    p2 = p2
    p3 = p3
    Providers <- MCProviders
    Deployments <- MCDeployments
    Ranged <- MCRanged
    Corrupt <- MCCorrupt
    Size = 2
    Requests <- MCRequests
    RestartEnabled = TRUE
SPECIFICATION FairSpec
INVARIANT StreamInv
INVARIANT AbortedOnlyWhenExhausted
PROPERTY StallEnds
PROPERTY PullEnds
PROPERTY DepartureFrees
PROPERTY ImplementsDelivery
