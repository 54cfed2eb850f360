SPECIFICATION FairSpec
CONSTANTS
    g1 = g1
    g2 = g2
    g3 = g3
    g4 = g4
    Gateways <- MCGateways
    Networks <- MCNetworks
    Instance <- MCInstance
    Unsteady <- MCUnsteady
    Clients = {1, 2}
    Full = Full
    Empty = Empty
    MaxHops = 3
    Slots = 1
    Queue = 1
INVARIANT RouteInv
INVARIANT FoundIfReachable
PROPERTY RequestsEnd
PROPERTY DepartureFrees
