---------------------------- MODULE MCResolution ----------------------------
\* Resolution with a few numbered sources.
EXTENDS Resolution, TLC

MCThree == 1..3
MCPriority == 2 :> 1 @@ 3 :> 1      \* the first source has no priority
MCScore == 1 :> 3 @@ 2 :> 7 @@ 3 :> 5
=============================================================================
