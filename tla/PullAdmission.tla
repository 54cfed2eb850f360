--------------------------- MODULE PullAdmission ---------------------------
(***************************************************************************)
(* What the gateway promises about blob pulls, without saying how: a       *)
(* bounded number of pulls holds a reservation, a bounded number of others *)
(* waits for one, only a pull that holds a reservation talks to an         *)
(* upstream, and once the gateway is closed no further pull starts to.     *)
(* Switcher.tla, the translation of internal/gateway/runtime.go, is shown  *)
(* to implement this module.                                               *)
(***************************************************************************)
EXTENDS Naturals, FiniteSets

CONSTANTS Requests,            \* downstream requests the server may serve
          MaxConcurrentPulls,  \* reservations
          MaxQueuedPulls       \* places in the queue

VARIABLES held,     \* requests that own a reservation
          waiting,  \* requests queued for one
          serving,  \* requests with an upstream pull under way
          open      \* FALSE once new pulls are turned away

vars == <<held, waiting, serving, open>>

Init ==
    /\ held = {}
    /\ waiting = {}
    /\ serving = {}
    /\ open = TRUE

Reserve(r) ==
    /\ r \notin held
    /\ Cardinality(held) < MaxConcurrentPulls
    /\ held' = held \cup {r}
    /\ waiting' = waiting \ {r}
    /\ UNCHANGED <<serving, open>>

Queue(r) ==
    /\ r \notin held \cup waiting
    /\ Cardinality(waiting) < MaxQueuedPulls
    /\ waiting' = waiting \cup {r}
    /\ UNCHANGED <<held, serving, open>>

Abandon(r) ==
    /\ r \in waiting
    /\ waiting' = waiting \ {r}
    /\ UNCHANGED <<held, serving, open>>

Serve(r) ==
    /\ open
    /\ r \in held \ serving
    /\ serving' = serving \cup {r}
    /\ UNCHANGED <<held, waiting, open>>

EndService(r) ==
    /\ r \in serving
    /\ serving' = serving \ {r}
    /\ UNCHANGED <<held, waiting, open>>

Release(r) ==
    /\ r \in held \ serving
    /\ held' = held \ {r}
    /\ UNCHANGED <<waiting, serving, open>>

Close ==
    /\ open' = FALSE
    /\ UNCHANGED <<held, waiting, serving>>

Next ==
    \/ \E r \in Requests : \/ Reserve(r) \/ Queue(r) \/ Abandon(r)
                           \/ Serve(r) \/ EndService(r) \/ Release(r)
    \/ Close

Spec == Init /\ [][Next]_vars
=============================================================================
