CONSTANTS
    k1 = k1
    k2 = k2
    Keys <- MCKeys
    Scopes <- MCScopes
    Digests = {d1}
    Requests = {r1, r2}
    Commands = {c1, c2}
    Lease = 1
    MaxClock = 1
    MaxStores = 2
    MaxAtWork = 2
SPECIFICATION Spec
SYMMETRY Symmetry
INVARIANT LeaseInv
INVARIANT QuietInvalidationHolds
