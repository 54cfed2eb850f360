CONSTANTS
    Requests = {r1, r2, r3}
    MaxInflightRequests = 3
    MaxConcurrentPulls = 1
    MaxQueuedPulls = 1
    MaxReplacements = 1
SPECIFICATION FairSpec
INVARIANT Accounting
PROPERTY BackendKept
PROPERTY ImplementsAdmission
PROPERTY StopDrains
PROPERTY EveryRequestEnds
