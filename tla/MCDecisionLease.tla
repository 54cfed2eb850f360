-------------------------- MODULE MCDecisionLease --------------------------
\* DecisionLease with two references, requests and commands that are
\* interchangeable; a command names one reference or all.
EXTENDS DecisionLease, TLC

CONSTANTS k1, k2

MCKeys == {k1, k2}
MCScopes == {{k1}, {k2}, {k1, k2}}

Symmetry == Permutations(MCKeys) \cup Permutations(Requests) \cup Permutations(Commands)
=============================================================================
