---------------------------- MODULE MCProviderUse ----------------------------
\* Two requests and two processes, which may overlap while one stops.
EXTENDS ProviderUse, TLC

CONSTANTS r1, r2

MCRequests == {r1, r2}
MCThroughputs == {1}
Concurrent == [faults : {{"limited"}, {"refused"}},
               requests : {MCRequests}, processes : {{1}}, allowNonRange : {TRUE},
               latency : {1}]
Single == [faults : {{"down"}, {"denied"}, {"corrupt"}, {"norange"}, {"gated"}},
           requests : {{r1}}, processes : {{1}}, allowNonRange : BOOLEAN,
           latency : {1}]
Successive == [faults : {{}}, requests : {{r1}}, processes : {{1, 2}},
               allowNonRange : {TRUE}, latency : {0}]
MCScenes == Concurrent \cup Single \cup Successive
==============================================================================
