------------------------------ MODULE GatewayRing ------------------------------
(***************************************************************************)
(* Gateways that are Providers of each other.  A client's request for a      *)
(* blob passes the limit on requests and the route guard, waits for a pull   *)
(* slot, and is forwarded to one Provider after the other, a registry or a   *)
(* gateway, which does the same.  The requests that serve one stream of a    *)
(* client form a chain, one frame for each gateway on the way; when the      *)
(* client goes away they notice one after the other.  Nothing on the way has *)
(* a timeout.                                                               *)
(*                                                                         *)
(* A gateway lists its Providers when a pull begins.  The order of the list  *)
(* is left open, and so is which Providers are held out of it: both follow   *)
(* from what came of earlier requests (ProviderHealth).  Gateways know each  *)
(* other by instance IDs, which need not differ: without local_ca the ID is  *)
(* a hash of the path of the data directory.                                *)
(*                                                                         *)
(* A Provider that redirects is not covered: CheckRedirect removes the route *)
(* headers.  Registries do not fail, and gateways do not stop.               *)
(***************************************************************************)
EXTENDS Naturals, Sequences, FiniteSets

CONSTANTS Clients, Gateways,
          Full, Empty,    \* a registry that has the content, and one that does not
          Instance,       \* the instance ID of each gateway; two may have the same
          MaxHops,        \* the gateways on a way, 3 in runServe
          Slots, Queue,   \* max_concurrent_pulls and max_queued_pulls
          Networks,       \* the Providers of each gateway
          Unsteady        \* by gateway, the Providers that may be held out

ASSUME RingAssumption ==
    /\ MaxHops \in Nat \ {0} /\ Slots \in Nat \ {0} /\ Queue \in Nat
    /\ Networks \subseteq [Gateways -> SUBSET (Gateways \cup {Full, Empty})]
    /\ {Full, Empty} \cap Gateways = {}
    /\ Unsteady \in [Gateways -> SUBSET (Gateways \cup {Full, Empty})]

VARIABLES
    providers,  \* which of the Networks this is; it does not change
    client,     \* what each client does, where it asks, and what it met on the way
    frame       \* by client and number on the way: the request at that gateway

state == <<client, frame>>
vars == <<state, providers>>

Depths == 1..(MaxHops + 1)
NoFrame == [at |-> "none"]
Idle == [at |-> "idle"]

Init ==
    /\ providers \in Networks
    /\ client = [c \in Clients |-> Idle]
    /\ frame = [c \in Clients |-> [d \in Depths |-> NoFrame]]

Present(c, d) == frame[c][d].at # "none"
Frames == {x \in Clients \X Depths : Present(x[1], x[2])}

\* A plausible slip: a queued pull is counted as one that has a slot.
PullingQueued(g) == {x \in Frames : frame[x[1]][x[2]].gateway = g
                                    /\ frame[x[1]][x[2]].at # "arriving"}

\* A slot is taken from the end of the wait to the end of the stream.
Pulling(g) ==
    {x \in Frames : /\ frame[x[1]][x[2]].gateway = g
                    /\ frame[x[1]][x[2]].at \in {"trying", "waiting", "streaming"}}
Queued(g) ==
    {x \in Frames : frame[x[1]][x[2]].gateway = g /\ frame[x[1]][x[2]].at = "queued"}

SetFrame(c, d, f) == frame' = [frame EXCEPT ![c][d] = f]

Arriving(g, trace) == [at |-> "arriving", gateway |-> g, trace |-> trace, past |-> {}]

-----------------------------------------------------------------------------
\* A client sends no route headers.  What it meets: whether a limit turned a request
\* of its chain away (crowded), and which Providers were held out, where (passed).
Ask(c, g) ==
    /\ client[c] = Idle /\ \A d \in Depths : ~Present(c, d)
    /\ client' = [client EXCEPT ![c] = [at |-> "asking", entry |-> g,
                                        crowded |-> FALSE, passed |-> {}]]
    /\ SetFrame(c, 1, Arriving(g, <<>>))

\* The request at this gateway ends without the blob.  The gateway before it goes
\* on to its next Provider; before the first there is only the client.
Refuse(c, d, crowded) ==
    /\ frame' = [frame EXCEPT ![c] = [e \in Depths |->
          IF e = d THEN NoFrame
          ELSE IF e = d - 1 /\ Present(c, e) THEN [frame[c][e] EXCEPT !.at = "trying"]
          ELSE frame[c][e]]]
    /\ client' = [client EXCEPT
          ![c].crowded = @ \/ crowded,
          ![c].at = IF d = 1 /\ @ = "asking" THEN "failed" ELSE @]

Has(trace, id) == \E i \in 1..Len(trace) : trace[i] = id

\* A plausible slip: the hop is counted before the comparison.
LoopsEarly(f) == Has(f.trace, Instance[f.gateway]) \/ Len(f.trace) + 1 >= MaxHops

Loops(f) == Has(f.trace, Instance[f.gateway]) \/ Len(f.trace) >= MaxHops

\* The limit on requests stands before the guard.  It counts manifests, pings and
\* the requests for segments too, so that it may be reached at any time.
OverLimit(c, d) == frame[c][d].at = "arriving" /\ Refuse(c, d, TRUE)

\* The guard of the handler: a request that has been here, or at a gateway with the
\* same ID, or comes from afar.
Inbound(c, d) ==
    /\ frame[c][d].at = "arriving"
    /\ IF Loops(frame[c][d]) THEN Refuse(c, d, FALSE)
       ELSE SetFrame(c, d, [frame[c][d] EXCEPT !.at = "admitted"]) /\ UNCHANGED client

\* The pull begins: the Providers are listed, without those that are held out.
List(c, d) ==
    LET g == frame[c][d].gateway
    IN  \E held \in SUBSET (providers[g] \cap Unsteady[g]) :
           /\ SetFrame(c, d, [frame[c][d] EXCEPT !.at = "trying", !.past = held])
           /\ client' = [client EXCEPT ![c].passed = @ \cup ({g} \X held)]

\* A slot is free, or there is room to wait for one, or the pull is turned away.
AcquirePull(c, d) ==
    /\ frame[c][d].at = "admitted"
    /\ LET g == frame[c][d].gateway
       IN  IF Cardinality(Pulling(g)) < Slots THEN List(c, d)
           ELSE IF Cardinality(Queued(g)) < Queue
           THEN SetFrame(c, d, [frame[c][d] EXCEPT !.at = "queued"]) /\ UNCHANGED client
           ELSE Refuse(c, d, TRUE)

\* A queued pull is handed the slot that another one gives back.
Handed(c, d) ==
    /\ frame[c][d].at = "queued"
    /\ Cardinality(Pulling(frame[c][d].gateway)) < Slots
    /\ List(c, d)

-----------------------------------------------------------------------------
\* A registry answers with the blob or with 404.
AskRegistry(c, d, q) ==
    /\ frame[c][d].at = "trying"
    /\ q \in providers[frame[c][d].gateway] \ (frame[c][d].past \cup Gateways)
    /\ SetFrame(c, d, [frame[c][d] EXCEPT !.past = @ \cup {q},
                                          !.at = IF q = Full THEN "streaming" ELSE @])
    /\ UNCHANGED client

Waiting(f, q) == [f EXCEPT !.at = "waiting", !.past = f.past \cup {q}]

\* A plausible slip: the trace of the request that came in is sent on as it is.
ForwardUntraced(c, d, q) ==
    /\ frame[c][d].at = "trying" /\ d + 1 \in Depths
    /\ q \in (providers[frame[c][d].gateway] \cap Gateways) \ frame[c][d].past
    /\ frame' = [frame EXCEPT ![c][d] = Waiting(frame[c][d], q),
                              ![c][d + 1] = Arriving(q, frame[c][d].trace)]
    /\ UNCHANGED client

\* Outbound adds this gateway's ID to the trace; Inbound has seen to it that it may.
Forward(c, d, q) ==
    /\ frame[c][d].at = "trying" /\ d + 1 \in Depths
    /\ q \in (providers[frame[c][d].gateway] \cap Gateways) \ frame[c][d].past
    /\ frame' = [frame EXCEPT ![c][d] = Waiting(frame[c][d], q),
                              ![c][d + 1] = Arriving(q, Append(frame[c][d].trace,
                                                   Instance[frame[c][d].gateway]))]
    /\ UNCHANGED client

\* The Provider has opened the blob: this gateway opens it for the one before.
Opened(c, d) ==
    /\ frame[c][d].at = "waiting" /\ frame[c][d + 1].at = "streaming"
    /\ SetFrame(c, d, [frame[c][d] EXCEPT !.at = "streaming"])
    /\ UNCHANGED client

\* No Provider on the list is left.
Exhausted(c, d) ==
    /\ frame[c][d].at = "trying"
    /\ providers[frame[c][d].gateway] \subseteq frame[c][d].past
    /\ Refuse(c, d, FALSE)

\* The last bytes are through; the reader is closed and gives its slot back.
Finished(c, d) ==
    /\ frame[c][d].at = "streaming"
    /\ d + 1 \in Depths => ~Present(c, d + 1)
    /\ d > 1 => frame[c][d - 1].at = "streaming"
    /\ SetFrame(c, d, NoFrame)
    /\ client' = [client EXCEPT ![c].at = IF d = 1 /\ @ = "asking" THEN "found" ELSE @]

\* The client closes its connection; after any outcome it may ask again.
Depart(c) ==
    /\ client[c].at = "asking"
    /\ client' = [client EXCEPT ![c].at = "gone"]
    /\ UNCHANGED frame

Again(c) ==
    /\ client[c].at \in {"found", "failed", "gone"} /\ \A d \in Depths : ~Present(c, d)
    /\ client' = [client EXCEPT ![c] = Idle]
    /\ UNCHANGED frame

\* A plausible slip: the request to the Provider does not carry the context of the
\* request it serves, so that only the first gateway notices.
CancelledFirst(c, d) ==
    /\ d = 1 /\ Present(c, d) /\ client[c].at = "gone"
    /\ SetFrame(c, d, NoFrame)
    /\ UNCHANGED client

\* The connection this request came on is closed, which cancels its context, the
\* wait for a slot, and the request to the next Provider.
Cancelled(c, d) ==
    /\ Present(c, d)
    /\ IF d = 1 THEN client[c].at = "gone" ELSE ~Present(c, d - 1)
    /\ SetFrame(c, d, NoFrame)
    /\ UNCHANGED client

-----------------------------------------------------------------------------
Moves(c, d) ==
    \/ Inbound(c, d) \/ AcquirePull(c, d) \/ Opened(c, d) \/ Exhausted(c, d)
    \/ Finished(c, d) \/ Cancelled(c, d)
    \/ \E q \in {Full, Empty} : AskRegistry(c, d, q)
    \/ \E q \in Gateways : Forward(c, d, q)

Next ==
    /\ \E c \in Clients :
          \/ \E g \in Gateways : Ask(c, g)
          \/ Depart(c) \/ Again(c)
          \/ \E d \in Depths : Moves(c, d) \/ Handed(c, d) \/ OverLimit(c, d)
    /\ UNCHANGED providers

Spec == Init /\ [][Next]_vars

\* Gateways work, registries answer and send what they have.  A channel hands a
\* slot to whoever has waited longest, so one who waits gets it if slots are given
\* back again and again.  Clients need not go away, or come.
FairSpec ==
    /\ Spec
    /\ \A c \in Clients :
          /\ WF_state(\E d \in Depths : Moves(c, d))
          /\ SF_state(\E d \in Depths : Handed(c, d))

-----------------------------------------------------------------------------
\* A request carries the way it came: one ID for each frame before it, none twice,
\* and no more than MaxHops gateways work for one chain at a time, also while those
\* behind a departed client have not noticed.  (A pull in segments has a chain for
\* each of its downloads.)  (guard.go:50-89)
OnItsWay(c, d) ==
    LET f == frame[c][d]
    IN  /\ Len(f.trace) = d - 1
        /\ \A i, j \in 1..Len(f.trace) : f.trace[i] = f.trace[j] => i = j
        /\ f.at # "arriving" => d <= MaxHops /\ ~Has(f.trace, Instance[f.gateway])

RouteInv == \A c \in Clients, d \in Depths : Present(c, d) => OnItsWay(c, d)

\* A way of at most MaxHops gateways, no two with one ID, leads from g to the content.
LeadsOn(net, g) ==
    \E n \in 1..MaxHops : \E w \in [1..n -> Gateways] :
       /\ w[1] = g
       /\ \A i, j \in 1..n : Instance[w[i]] = Instance[w[j]] => i = j
       /\ \A i \in 1..(n - 1) : w[i + 1] \in net[w[i]]
       /\ Full \in net[w[n]]

Without(net, links) == [g \in Gateways |-> {q \in net[g] : <<g, q>> \notin links}]

\* No request is answered along a way with a loop or one that is too long, and none
\* fails while the content can be had: only where a request of its chain was turned
\* away by a limit, or each way led over a Provider that was held out when its turn
\* came, or over two gateways with one ID (guard.go:50-89, router.go:384-437,
\* health.go:283-288, request_limit.go:13-20).
FoundIfReachable ==
    \A c \in Clients :
       /\ client[c].at = "found" => LeadsOn(providers, client[c].entry)
       /\ client[c].at = "failed" /\ ~client[c].crowded =>
             ~LeadsOn(Without(providers, client[c].passed), client[c].entry)

\* The networks in layers: no gateway is a Provider of one it depends on.
Layered ==
    {net \in Networks :
       \E rank \in [Gateways -> 1..Cardinality(Gateways)] :
          \A g \in Gateways : \A h \in net[g] \cap Gateways : rank[h] < rank[g]}

\* Where no gateways are Providers of each other, every request ends, however few
\* slots there are.  (Two that are can each hold a slot and wait for the other's
\* until a client goes away.)  (runtime.go:114-144)
RequestsEnd ==
    \A c \in Clients : (providers \in Layered /\ client[c].at = "asking") ~> client[c].at # "asking"

\* In any network, what works for a client that has gone away ends, and with it
\* the slots it holds (runtime.go:130-137; client.go:307).
DepartureFrees ==
    \A c \in Clients : client[c].at = "gone" ~> \A d \in Depths : ~Present(c, d)
=============================================================================
