---------------------------- MODULE MCGatewayRing ----------------------------
\* Two gateways that name each other; a chain of four, longer than MaxHops; a ring
\* of three with a way out, where one Provider does not have the content; two ways
\* from g1, one of them over g4, which has the instance ID of g1.
EXTENDS GatewayRing

CONSTANTS g1, g2, g3, g4

MCGateways == {g1, g2, g3, g4}

ByGateway(a, b, c, d) ==
    [g \in MCGateways |-> IF g = g1 THEN a ELSE IF g = g2 THEN b ELSE IF g = g3 THEN c ELSE d]

MCNetworks ==
    {ByGateway({g2}, {g1, Full}, {}, {}),
     ByGateway({g2}, {g3, Empty}, {g4}, {Full}),
     ByGateway({g2}, {g3, Empty}, {g1, Full}, {}),
     ByGateway({g2, g3}, {g4}, {Full}, {Full})}

MCInstance == ByGateway(1, 2, 3, 1)

\* In the ring the way on from g2 and the way out of g3 may be held out, in the last
\* network the way that the guard leaves open.
MCUnsteady == ByGateway({}, {g3}, {Full}, {})
==============================================================================
