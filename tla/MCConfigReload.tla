--------------------------- MODULE MCConfigReload ---------------------------
\* ConfigReload in two circumstances: everything overlaps and answers come late,
\* or one command at a time on a machine where writes fail and processes die.
EXTENDS ConfigReload

MCRegimes ==
    {[overlap |-> TRUE, timely |-> FALSE, faults |-> FALSE, writes |-> 1],
     [overlap |-> FALSE, timely |-> TRUE, faults |-> TRUE, writes |-> 4]}
=============================================================================
