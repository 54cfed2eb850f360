---------------------------- MODULE MCBlobStream ----------------------------
\* BlobStream with two or three Providers of different kinds, a client that asks
\* for a whole blob or for the end of it, and a small or no budget for discarding.
EXTENDS BlobStream

CONSTANTS p1, p2, p3

MCProviders == {p1, p2, p3}
MCRanged == {p1, p2}       \* p3 ignores Range
MCCorrupt == {p2}          \* p2 serves bytes with another digest
MCDeployments ==
    {[sources |-> {p1, p2}, discard |-> 0, shared |-> TRUE],
     [sources |-> {p2, p3}, discard |-> 1, shared |-> TRUE],
     [sources |-> {p1, p2, p3}, discard |-> 1, shared |-> FALSE]}
MCRequests == {[start |-> 0, end |-> 1], [start |-> 1, end |-> 1]}
=============================================================================
