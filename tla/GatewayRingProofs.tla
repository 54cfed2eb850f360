-------------------------- MODULE GatewayRingProofs --------------------------
(***************************************************************************)
(* GatewayRing for any gateways, instance IDs, networks, held-out Providers, *)
(* clients, slots and hop limit: every request carries the way it came, and *)
(* content is found if and only if a way that the guard allows leads to it, *)
(* unless a limit turned a request away or Providers were held out.          *)
(***************************************************************************)
EXTENDS GatewayRing, TLAPS

IDs == {Instance[g] : g \in Gateways}

Request ==
    [at : {"arriving", "admitted", "queued", "trying", "waiting", "streaming"},
     gateway : Gateways, trace : Seq(IDs), past : SUBSET (Gateways \cup {Full, Empty})]

Distinct(s) == \A i, j \in 1..Len(s) : s[i] = s[j] => i = j

\* A request at depth d, on its way.
Good(f, d) ==
    /\ f \in Request
    /\ Len(f.trace) = d - 1
    /\ Distinct(f.trace)
    /\ f.at # "arriving" => d <= MaxHops /\ ~Has(f.trace, Instance[f.gateway])

Allowed(f, d) == f = NoFrame \/ Good(f, d)

\* The invariant by itself: the frames, one by one, with their types.
WayInv ==
    /\ frame \in [Clients -> [Depths -> Request \cup {NoFrame}]]
    /\ \A c \in Clients, d \in Depths : Allowed(frame[c][d], d)

Before(f) == f.at \in {"arriving", "admitted", "queued", "trying"}

\* Only the last request of a chain is not yet served by the next.
ChainInv ==
    \A c \in Clients, d \in Depths :
       Before(frame[c][d]) => \A e \in Depths : e > d => ~Present(c, e)

IInv == WayInv /\ ChainInv

-----------------------------------------------------------------------------
LEMMA NoFrameIsNone == NoFrame.at = "none"
  BY DEF NoFrame

LEMMA WayIsRoute == WayInv => RouteInv
  BY NoFrameIsNone DEF WayInv, RouteInv, Allowed, Good, Distinct, OnItsWay, Present

LEMMA ArrivesGood ==
  ASSUME NEW g \in Gateways, NEW t \in Seq(IDs), NEW d \in Depths,
         Len(t) = d - 1, Distinct(t)
  PROVE  Good(Arriving(g, t), d)
  BY DEF Good, Request, Arriving

\* An ID that is not on the trace may be added to it.
LEMMA Traced ==
  ASSUME NEW id \in IDs, NEW t \in Seq(IDs), Distinct(t), ~Has(t, id)
  PROVE  /\ Append(t, id) \in Seq(IDs) /\ Len(Append(t, id)) = Len(t) + 1
         /\ Distinct(Append(t, id))
  BY DEF Distinct, Has

LEMMA InstanceIsID == \A g \in Gateways : Instance[g] \in IDs
  BY DEF IDs

\* A request that goes on at the same gateway keeps its way.
LEMMA GoesOn ==
  ASSUME NEW d \in Depths, NEW f, NEW h, Good(f, d), h \in Request,
         h.trace = f.trace, h.gateway = f.gateway,
         h.at # "arriving" => d <= MaxHops /\ ~Has(f.trace, Instance[f.gateway])
  PROVE  Good(h, d)
  BY DEF Good

\* A present frame is a request on its way.
LEMMA PresentGood ==
  ASSUME IInv, NEW c \in Clients, NEW d \in Depths, frame[c][d].at # "none"
  PROVE  Good(frame[c][d], d)
  BY NoFrameIsNone DEF IInv, WayInv, Allowed

\* One frame is replaced by an allowed one.
LEMMA OneFrame ==
  ASSUME IInv, NEW c \in Clients, NEW d \in Depths, NEW f, Allowed(f, d),
         SetFrame(c, d, f),
         f = NoFrame \/ (Present(c, d) /\ (Before(f) => Before(frame[c][d])))
  PROVE  IInv'
<1>1. f \in Request \cup {NoFrame}
  BY DEF Allowed, Good
<1>2. frame' \in [Clients -> [Depths -> Request \cup {NoFrame}]]
  BY <1>1 DEF IInv, WayInv, SetFrame
<1>3. \A k \in Clients, e \in Depths :
         frame'[k][e] = IF k = c /\ e = d THEN f ELSE frame[k][e]
  BY DEF IInv, WayInv, SetFrame
<1>4. \A k \in Clients, e \in Depths : Allowed(frame'[k][e], e)
  BY <1>3 DEF IInv, WayInv
<1>5. WayInv'
  BY <1>2, <1>4 DEF WayInv, Allowed, Good, Distinct, Has
<1>6. \A k \in Clients, e \in Depths :
         /\ (frame'[k][e].at # "none") => Present(k, e)
         /\ Before(frame'[k][e]) => Before(frame[k][e])
  BY <1>3, NoFrameIsNone DEF Present, Before
<1>7. ChainInv'
  BY <1>6 DEF IInv, ChainInv, Present, Before
<1> QED BY <1>5, <1>7 DEF IInv

\* A request that was not served yet ends; the one before it was waiting for it.
LEMMA RefuseKeeps ==
  ASSUME IInv, NEW c \in Clients, NEW d \in Depths, NEW b, Refuse(c, d, b),
         Before(frame[c][d])
  PROVE  IInv'
<1> DEFINE F(e) == IF e = d THEN NoFrame
                   ELSE IF e = d - 1 /\ Present(c, e) THEN [frame[c][e] EXCEPT !.at = "trying"]
                   ELSE frame[c][e]
<1>1. Present(c, d) /\ d \in Nat
  BY NoFrameIsNone DEF Present, Before, Depths
<1>2. ASSUME NEW e \in Depths, e = d - 1, Present(c, e)
      PROVE  Good([frame[c][e] EXCEPT !.at = "trying"], e)
  <2>1. Good(frame[c][e], e)
    BY <1>2, PresentGood DEF Present
  <2>2. ~Before(frame[c][e])
    BY <1>1, <1>2 DEF IInv, ChainInv, Depths
  <2>3. [frame[c][e] EXCEPT !.at = "trying"] \in Request
    BY <2>1 DEF Good, Request
  <2> QED BY <2>1, <2>2, <2>3 DEF Good, Request, Before
<1>3. \A e \in Depths : Allowed(F(e), e)
  BY <1>2 DEF Allowed, IInv, WayInv
<1>4. \A e \in Depths : F(e) \in Request \cup {NoFrame}
  BY <1>3 DEF Allowed, Good
<1>5. \A e \in Depths :
        e >= d => (Before(F(e)) \/ F(e).at # "none" => e > d /\ Present(c, e))
  BY <1>1, NoFrameIsNone DEF Before, Present, Depths
<1>6. \A e \in Depths : Before(F(e)) => Before(frame[c][e]) \/ e = d - 1
  BY NoFrameIsNone DEF Before
<1>7. \A e \in Depths : F(e).at # "none" => Present(c, e)
  BY NoFrameIsNone DEF Present
<1>8. frame' = [frame EXCEPT ![c] = [e \in Depths |-> F(e)]]
  BY DEF Refuse
<1> HIDE DEF F
<1>9. \A k \in Clients, e \in Depths : frame'[k][e] = IF k = c THEN F(e) ELSE frame[k][e]
  BY <1>8 DEF IInv, WayInv
<1>10. WayInv'
  <2>1. frame' \in [Clients -> [Depths -> Request \cup {NoFrame}]]
    BY <1>4, <1>8 DEF IInv, WayInv
  <2>2. \A k \in Clients, e \in Depths : Allowed(frame'[k][e], e)
    BY <1>3, <1>9 DEF IInv, WayInv
  <2> QED BY <2>1, <2>2 DEF WayInv, Allowed, Good, Distinct, Has
<1>11. ASSUME NEW k \in Clients, NEW x \in Depths, NEW y \in Depths, y > x,
              Before(frame'[k][x]), frame'[k][y].at # "none"
       PROVE  FALSE
  <2>1. CASE k # c
    BY <2>1, <1>9, <1>11 DEF IInv, ChainInv, Present
  <2>2. CASE k = c /\ Before(frame[c][x])
    BY <2>2, <1>7, <1>9, <1>11 DEF IInv, ChainInv, Present
  <2>3. CASE k = c /\ x = d - 1
    <3>1. y >= d /\ F(y).at # "none"
      BY <2>3, <1>1, <1>9, <1>11 DEF Depths
    <3>2. y > d /\ Present(c, y)
      BY <3>1, <1>5
    <3> QED BY <3>2 DEF IInv, ChainInv
  <2> QED BY <2>1, <2>2, <2>3, <1>6, <1>9, <1>11
<1>12. ChainInv'
  BY <1>11 DEF ChainInv, Present, Before
<1> QED BY <1>10, <1>12 DEF IInv

LEMMA WayInit == Init => IInv
<1> SUFFICES ASSUME Init PROVE IInv
  OBVIOUS
<1>1. \A c \in Clients, d \in Depths : frame[c][d] = NoFrame
  BY DEF Init
<1>2. WayInv
  BY <1>1 DEF Init, WayInv, Allowed
<1>3. ChainInv
  BY <1>1, NoFrameIsNone DEF ChainInv, Before
<1> QED BY <1>2, <1>3 DEF IInv

-----------------------------------------------------------------------------
\* A step that only says how far a request is, at the gateway where it is.
LEMMA Onward ==
  ASSUME IInv, NEW c \in Clients, NEW d \in Depths, NEW h \in Request,
         Present(c, d), SetFrame(c, d, h),
         h.trace = frame[c][d].trace, h.gateway = frame[c][d].gateway,
         d <= MaxHops /\ ~Has(frame[c][d].trace, Instance[frame[c][d].gateway]),
         Before(h) => Before(frame[c][d])
  PROVE  IInv'
<1>1. Good(frame[c][d], d)
  BY PresentGood DEF Present
<1>2. Good(h, d)
  BY <1>1, GoesOn
<1> QED BY <1>2, OneFrame DEF Allowed

\* A request ends without anything being told.
LEMMA Ends ==
  ASSUME IInv, NEW c \in Clients, NEW d \in Depths, SetFrame(c, d, NoFrame)
  PROVE  IInv'
  BY OneFrame DEF Allowed

LEMMA AskKeeps ==
  ASSUME IInv, NEW c \in Clients, NEW g \in Gateways, Ask(c, g)
  PROVE  IInv'
<1> DEFINE f == Arriving(g, <<>>)
<1>1. Good(f, 1) /\ 1 \in Depths
  <2>1. 1 \in Depths
    BY RingAssumption DEF Depths
  <2>2. <<>> \in Seq(IDs) /\ Len(<<>>) = 1 - 1 /\ Distinct(<<>>)
    BY DEF Distinct
  <2> QED BY <2>1, <2>2, ArrivesGood
<1>2. SetFrame(c, 1, f) /\ \A e \in Depths : ~Present(c, e)
  BY DEF Ask
<1> HIDE DEF f
<1>3. \A k \in Clients, e \in Depths :
         frame'[k][e] = IF k = c /\ e = 1 THEN f ELSE frame[k][e]
  BY <1>1, <1>2 DEF IInv, WayInv, SetFrame
<1>4. WayInv'
  <2>1. frame' \in [Clients -> [Depths -> Request \cup {NoFrame}]]
    BY <1>1, <1>2 DEF IInv, WayInv, SetFrame, Good
  <2>2. \A k \in Clients, e \in Depths : Allowed(frame'[k][e], e)
    BY <1>1, <1>3 DEF IInv, WayInv, Allowed
  <2> QED BY <2>1, <2>2 DEF WayInv, Allowed, Good, Distinct, Has
<1>5. ChainInv'
  BY <1>1, <1>2, <1>3, NoFrameIsNone DEF IInv, ChainInv, Present, Before, Depths
<1> QED BY <1>4, <1>5 DEF IInv

LEMMA ForwardKeeps ==
  ASSUME IInv, NEW c \in Clients, NEW d \in Depths, NEW q \in Gateways, Forward(c, d, q)
  PROVE  IInv'
<1> DEFINE f == frame[c][d]
           w == Waiting(f, q)
           h == Arriving(q, Append(f.trace, Instance[f.gateway]))
<1>1. Good(f, d) /\ Before(f) /\ f.at = "trying"
  BY PresentGood DEF Forward, Before
<1>2. w \in Request /\ w.trace = f.trace /\ w.gateway = f.gateway /\ w.at = "waiting"
  BY <1>1 DEF Good, Request, Waiting
<1>3. Good(w, d)
  BY <1>1, <1>2, GoesOn DEF Good
<1>4. d + 1 \in Depths /\ d \in Nat
  BY DEF Forward, Depths
<1>5. Good(h, d + 1)
  <2>1. f.gateway \in Gateways /\ f.trace \in Seq(IDs) /\ Len(f.trace) = d - 1
        /\ Distinct(f.trace) /\ ~Has(f.trace, Instance[f.gateway])
        /\ Instance[f.gateway] \in IDs
    BY <1>1, InstanceIsID DEF Good, Request
  <2>2. /\ Append(f.trace, Instance[f.gateway]) \in Seq(IDs)
        /\ Len(Append(f.trace, Instance[f.gateway])) = (d + 1) - 1
        /\ Distinct(Append(f.trace, Instance[f.gateway]))
    BY <2>1, <1>4, Traced
  <2> QED BY <2>2, <1>4, ArrivesGood
<1>6. h.at = "arriving"
  BY DEF Arriving
<1>7. frame' = [frame EXCEPT ![c] = [frame[c] EXCEPT ![d] = w, ![d + 1] = h]]
  BY <1>4 DEF Forward, IInv, WayInv
<1>8. \A e \in Depths : e > d => ~Present(c, e)
  BY <1>1 DEF IInv, ChainInv
<1> HIDE DEF w, h, f
<1>9. \A k \in Clients, e \in Depths :
         frame'[k][e] = IF k = c /\ e = d THEN w
                        ELSE IF k = c /\ e = d + 1 THEN h ELSE frame[k][e]
  BY <1>4, <1>7 DEF IInv, WayInv
<1>10. WayInv'
  <2>1. frame' \in [Clients -> [Depths -> Request \cup {NoFrame}]]
    BY <1>3, <1>5, <1>7 DEF IInv, WayInv, Good
  <2>2. \A k \in Clients, e \in Depths : Allowed(frame'[k][e], e)
    BY <1>3, <1>5, <1>9 DEF IInv, WayInv, Allowed
  <2> QED BY <2>1, <2>2 DEF WayInv, Allowed, Good, Distinct, Has
<1>11. ASSUME NEW k \in Clients, NEW x \in Depths, NEW y \in Depths, y > x,
              Before(frame'[k][x]), frame'[k][y].at # "none"
       PROVE  FALSE
  <2>1. Present(c, d)
    BY <1>1 DEF Present, f, Before
  <2>2. CASE k = c /\ x = d
    BY <2>2, <1>2, <1>9, <1>11 DEF Before
  <2>3. CASE k = c /\ x = d + 1
    BY <2>3, <1>4, <1>8, <1>9, <1>11 DEF Present, Depths
  <2>4. CASE k = c /\ x # d /\ x # d + 1
    <3>1. Before(frame[c][x])
      BY <2>4, <1>9, <1>11
    <3>2. x > d
      BY <3>1, <2>1, <2>4, <1>4 DEF IInv, ChainInv, Depths
    <3>3. Present(c, x)
      BY <3>1 DEF Present, Before
    <3> QED BY <3>2, <3>3, <1>8
  <2>5. CASE k # c
    BY <2>5, <1>9, <1>11 DEF IInv, ChainInv, Present
  <2> QED BY <2>2, <2>3, <2>4, <2>5
<1>12. ChainInv'
  BY <1>11 DEF ChainInv, Present, Before
<1> QED BY <1>10, <1>12 DEF IInv

\* Whatever Providers are held out, the pull that begins is on its way.
LEMMA ListKeeps ==
  ASSUME IInv, NEW c \in Clients, NEW d \in Depths, List(c, d),
         frame[c][d].at \in {"admitted", "queued"}
  PROVE  IInv'
<1> DEFINE f == frame[c][d]
<1>1. PICK held \in SUBSET (providers[f.gateway] \cap Unsteady[f.gateway]) :
         SetFrame(c, d, [f EXCEPT !.at = "trying", !.past = held])
  BY DEF List
<1> DEFINE h == [f EXCEPT !.at = "trying", !.past = held]
<1>2. Good(f, d) /\ Present(c, d) /\ Before(f)
  BY PresentGood DEF Present, Before
<1>3. held \subseteq Gateways \cup {Full, Empty}
  BY <1>2, RingAssumption DEF Good, Request
<1>4. h \in Request /\ h.trace = f.trace /\ h.gateway = f.gateway
  BY <1>2, <1>3 DEF Good, Request
<1>5. d <= MaxHops /\ ~Has(f.trace, Instance[f.gateway])
  BY <1>2 DEF Good
<1>6. SetFrame(c, d, h)
  BY <1>1
<1> HIDE DEF h
<1> QED BY <1>2, <1>4, <1>5, <1>6, Onward

LEMMA MoveKeeps ==
  ASSUME IInv, NEW c \in Clients, NEW d \in Depths, Moves(c, d) \/ Handed(c, d) \/ OverLimit(c, d)
  PROVE  IInv'
<1> DEFINE f == frame[c][d]
<1>1. f.at \notin {"none", "arriving"} => d <= MaxHops /\ ~Has(f.trace, Instance[f.gateway])
  BY PresentGood DEF Good
<1>2. ASSUME NEW a \in {"admitted", "queued", "trying", "waiting", "streaming"},
             Present(c, d), f.at # "arriving" \/ (d <= MaxHops /\ ~Has(f.trace, Instance[f.gateway])),
             Before(f) \/ a \in {"waiting", "streaming"},
             SetFrame(c, d, [f EXCEPT !.at = a])
      PROVE  IInv'
  <2> DEFINE h == [f EXCEPT !.at = a]
  <2>1. f \in Request
    BY <1>2, PresentGood DEF Present, Good
  <2>2. h \in Request /\ h.trace = f.trace /\ h.gateway = f.gateway /\ h.at = a
    BY <2>1 DEF Request
  <2>3. d <= MaxHops /\ ~Has(f.trace, Instance[f.gateway])
    BY <1>1, <1>2 DEF Present
  <2>4. SetFrame(c, d, h)
    BY <1>2
  <2> HIDE DEF h
  <2>5. Before(h) => Before(f)
    BY <1>2, <2>2 DEF Before
  <2> QED BY <1>2, <2>2, <2>3, <2>4, <2>5, Onward
<1>3. CASE Inbound(c, d)
  <2>1. CASE Loops(f)
    BY <1>3, <2>1, RefuseKeeps DEF Inbound, Before
  <2>2. CASE ~Loops(f)
    <3>1. Good(f, d) /\ d \in Nat
      BY <1>3, PresentGood DEF Inbound, Depths
    <3>2. d <= MaxHops /\ ~Has(f.trace, Instance[f.gateway])
      BY <3>1, <2>2, RingAssumption DEF Loops, Good
    <3> QED BY <1>2, <1>3, <2>2, <3>2 DEF Inbound, Before, Present
  <2> QED BY <2>1, <2>2
<1>4. CASE AcquirePull(c, d)
  BY <1>2, <1>4, RefuseKeeps, ListKeeps DEF AcquirePull, Before, Present
<1>5. CASE Handed(c, d)
  BY <1>5, ListKeeps DEF Handed, Before
<1>6. CASE Opened(c, d)
  BY <1>2, <1>6 DEF Opened, Present
<1>7. CASE Exhausted(c, d) \/ OverLimit(c, d)
  BY <1>7, RefuseKeeps DEF Exhausted, OverLimit, Before
<1>8. CASE Finished(c, d)
  BY <1>8, Ends DEF Finished
<1>9. CASE Cancelled(c, d)
  BY <1>9, Ends DEF Cancelled
<1>10. ASSUME NEW q \in {Full, Empty}, AskRegistry(c, d, q) PROVE IInv'
  <2> DEFINE h == [f EXCEPT !.past = @ \cup {q}, !.at = IF q = Full THEN "streaming" ELSE @]
  <2>1. f.at = "trying" /\ SetFrame(c, d, h)
    BY <1>10 DEF AskRegistry
  <2>2. f \in Request
    BY <2>1, PresentGood DEF Good
  <2>3. h \in Request /\ h.trace = f.trace /\ h.gateway = f.gateway
    BY <2>1, <2>2 DEF Request
  <2>4. d <= MaxHops /\ ~Has(f.trace, Instance[f.gateway])
    BY <1>1, <2>1
  <2>5. Present(c, d) /\ Before(f)
    BY <2>1 DEF Present, Before
  <2> HIDE DEF h
  <2> QED BY <2>1, <2>3, <2>4, <2>5, Onward
<1>11. ASSUME NEW q \in Gateways, Forward(c, d, q) PROVE IInv'
  BY <1>11, ForwardKeeps
<1> QED BY <1>3, <1>4, <1>5, <1>6, <1>7, <1>8, <1>9, <1>10, <1>11 DEF Moves

LEMMA WayStep == IInv /\ [Next]_vars => IInv'
<1> SUFFICES ASSUME IInv, [Next]_vars PROVE IInv'
  OBVIOUS
<1>1. CASE UNCHANGED frame
  BY <1>1 DEF IInv, WayInv, ChainInv, Allowed, Good, Distinct, Has, Present, Before
<1>2. ASSUME NEW c \in Clients, NEW g \in Gateways, Ask(c, g) PROVE IInv'
  BY <1>2, AskKeeps
<1>3. ASSUME NEW c \in Clients, Depart(c) \/ Again(c) PROVE IInv'
  BY <1>1, <1>3 DEF Depart, Again
<1>4. ASSUME NEW c \in Clients, NEW d \in Depths, Moves(c, d) \/ Handed(c, d) \/ OverLimit(c, d)
      PROVE IInv'
  BY <1>4, MoveKeeps
<1> QED BY <1>1, <1>2, <1>3, <1>4 DEF Next, vars, state

-----------------------------------------------------------------------------
\* However gateways name each other and clients come and go, a request carries the
\* gateways it came by, none twice, and is not worked on beyond the hop limit
\* (guard.go:50-89).
THEOREM RouteAlwaysKnown == Spec => []RouteInv
<1>1. IInv => RouteInv
  BY WayIsRoute DEF IInv
<1> QED BY <1>1, WayInit, WayStep, PTL DEF Spec

-----------------------------------------------------------------------------
(* What is found and what is not: the requests of a client search the       *)
(* network depth first.                                                     *)

\* A way of n gateways from g to the content that the guard allows one who comes with
\* this trace, and whether one of at most k gateways exists.
Way(net, n, w, g, t) ==
    /\ w[1] = g
    /\ \A i, j \in 1..n : Instance[w[i]] = Instance[w[j]] => i = j
    /\ \A i \in 1..(n - 1) : w[i + 1] \in net[w[i]]
    /\ Full \in net[w[n]]
    /\ \A i \in 1..n : ~Has(t, Instance[w[i]])

Reach(net, g, t, k) == \E n \in 1..k : \E w \in [1..n -> Gateways] : Way(net, n, w, g, t)

LEMMA HasAppend ==
  ASSUME NEW t \in Seq(IDs), NEW id \in IDs, NEW x
  PROVE  Has(Append(t, id), x) <=> Has(t, x) \/ x = id
<1>1. /\ Len(Append(t, id)) = Len(t) + 1 /\ Len(t) \in Nat
      /\ \A i \in 1..Len(t) : Append(t, id)[i] = t[i]
      /\ Append(t, id)[Len(t) + 1] = id
  OBVIOUS
<1>2. \A i \in 1..(Len(t) + 1) : i \in 1..Len(t) \/ i = Len(t) + 1
  BY <1>1
<1>3. Len(t) + 1 \in 1..(Len(t) + 1) /\ 1..Len(t) \subseteq 1..(Len(t) + 1)
  BY <1>1
<1> QED BY <1>1, <1>2, <1>3 DEF Has

LEMMA ReachHere ==
  ASSUME NEW net, NEW g \in Gateways, NEW t, NEW k \in Nat, k >= 1, ~Has(t, Instance[g]), Full \in net[g]
  PROVE  Reach(net, g, t, k)
<1> DEFINE w == [i \in 1..1 |-> g]
<1>1. w \in [1..1 -> Gateways] /\ 1 \in 1..k
  OBVIOUS
<1>2. Way(net, 1, w, g, t)
  BY DEF Way
<1> HIDE DEF w
<1> QED BY <1>1, <1>2 DEF Reach

LEMMA ReachThrough ==
  ASSUME NEW net, NEW g \in Gateways, NEW t \in Seq(IDs), NEW k \in Nat, ~Has(t, Instance[g]),
         NEW q \in net[g], Reach(net, q, Append(t, Instance[g]), k)
  PROVE  Reach(net, g, t, k + 1)
<1>0. PICK n \in 1..k : \E w \in [1..n -> Gateways] : Way(net, n, w, q, Append(t, Instance[g]))
  BY DEF Reach
<1>1. PICK w \in [1..n -> Gateways] : Way(net, n, w, q, Append(t, Instance[g]))
  BY <1>0
<1> DEFINE v == [i \in 1..(n + 1) |-> IF i = 1 THEN g ELSE w[i - 1]]
<1>2. n \in Nat /\ n >= 1 /\ n + 1 \in 1..(k + 1)
  BY <1>1
<1>3. \A i \in 2..(n + 1) : i - 1 \in 1..n
  BY <1>2
<1>4. v \in [1..(n + 1) -> Gateways] /\ v[1] = g /\ \A i \in 2..(n + 1) : v[i] = w[i - 1]
  BY <1>2, <1>3
<1>5. \A i \in 1..n : ~Has(t, Instance[w[i]]) /\ Instance[w[i]] # Instance[g]
  BY <1>1, HasAppend, InstanceIsID DEF Way
<1> HIDE DEF v
<1>6. \A i \in 1..(n + 1) : i = 1 \/ i \in 2..(n + 1)
  BY <1>2
<1>7. \A i, j \in 1..(n + 1) : Instance[v[i]] = Instance[v[j]] => i = j
  <2>1. \A i, j \in 2..(n + 1) : Instance[v[i]] = Instance[v[j]] => i = j
    BY <1>1, <1>2, <1>3, <1>4 DEF Way
  <2>2. \A i \in 2..(n + 1) : Instance[v[i]] # Instance[v[1]]
    BY <1>3, <1>4, <1>5
  <2> QED BY <1>6, <2>1, <2>2
<1>8. \A i \in 1..((n + 1) - 1) : v[i + 1] \in net[v[i]]
  <2> TAKE i \in 1..((n + 1) - 1)
  <2>1. v[i + 1] = w[i] /\ i + 1 \in 2..(n + 1)
    BY <1>2, <1>4
  <2>2. CASE i = 1
    BY <1>1, <1>4, <2>1, <2>2 DEF Way
  <2>3. CASE i # 1
    <3>1. v[i] = w[i - 1] /\ i - 1 \in 1..(n - 1) /\ (i - 1) + 1 = i
      BY <1>2, <1>4, <2>3
    <3> QED BY <1>1, <2>1, <3>1 DEF Way
  <2> QED BY <2>2, <2>3
<1>9. Full \in net[v[n + 1]]
  BY <1>1, <1>2, <1>4 DEF Way
<1>10. \A i \in 1..(n + 1) : ~Has(t, Instance[v[i]])
  BY <1>3, <1>4, <1>5, <1>6
<1>11. Way(net, n + 1, v, g, t)
  BY <1>4, <1>7, <1>8, <1>9, <1>10 DEF Way
<1> QED BY <1>2, <1>4, <1>11 DEF Reach

\* A way begins where the content is, or goes on at a Provider.
LEMMA ReachGoesOn ==
  ASSUME NEW net, NEW g \in Gateways, NEW t \in Seq(IDs), NEW k \in Nat, Reach(net, g, t, k)
  PROVE  /\ k >= 1 /\ ~Has(t, Instance[g])
         /\ \/ Full \in net[g]
            \/ \E q \in net[g] \cap Gateways : Reach(net, q, Append(t, Instance[g]), k - 1)
<1>0. PICK n \in 1..k : \E w \in [1..n -> Gateways] : Way(net, n, w, g, t)
  BY DEF Reach
<1>1. PICK w \in [1..n -> Gateways] : Way(net, n, w, g, t)
  BY <1>0
<1>2. n \in Nat /\ n >= 1 /\ k >= 1 /\ 1 \in 1..n /\ n <= k
  BY <1>1
<1>3. ~Has(t, Instance[g]) /\ w[1] = g
  BY <1>1, <1>2 DEF Way
<1>4. CASE n = 1
  BY <1>1, <1>2, <1>3, <1>4 DEF Way
<1>5. CASE n > 1
  <2> DEFINE v == [i \in 1..(n - 1) |-> w[i + 1]]
  <2>1. \A i \in 1..(n - 1) : i + 1 \in 2..n /\ i + 1 \in 1..n /\ i + 1 # 1
    BY <1>2
  <2>2. v \in [1..(n - 1) -> Gateways] /\ \A i \in 1..(n - 1) : v[i] = w[i + 1]
    BY <2>1
  <2>3. n - 1 \in 1..(k - 1) /\ 1 \in 1..(n - 1) /\ n - 1 \in 1..(n - 1) /\ (n - 1) + 1 = n
    BY <1>2, <1>5
  <2>4. w[2] \in net[g] \cap Gateways
    <3>1. 1 + 1 = 2
      OBVIOUS
    <3> QED BY <1>1, <1>3, <2>1, <2>3, <3>1 DEF Way
  <2> HIDE DEF v
  <2>5. Way(net, n - 1, v, w[2], Append(t, Instance[g]))
    <3>1. v[1] = w[2]
      BY <2>2, <2>3
    <3>2. \A i, j \in 1..(n - 1) : Instance[v[i]] = Instance[v[j]] => i = j
      BY <1>1, <2>1, <2>2 DEF Way
    <3>3. \A i \in 1..((n - 1) - 1) : v[i + 1] \in net[v[i]]
      <4> TAKE i \in 1..((n - 1) - 1)
      <4>1. i \in 1..(n - 1) /\ i + 1 \in 1..(n - 1)
        BY <1>2
      <4> QED BY <1>1, <2>2, <4>1 DEF Way
    <3>4. Full \in net[v[n - 1]]
      BY <1>1, <2>2, <2>3 DEF Way
    <3>5. \A i \in 1..(n - 1) : ~Has(Append(t, Instance[g]), Instance[v[i]])
      <4> TAKE i \in 1..(n - 1)
      <4>1. v[i] = w[i + 1] /\ ~Has(t, Instance[w[i + 1]])
        BY <1>1, <2>1, <2>2 DEF Way
      <4>2. Instance[w[i + 1]] # Instance[g]
        BY <1>1, <1>2, <1>3, <2>1 DEF Way
      <4> QED BY <4>1, <4>2, HasAppend, InstanceIsID
    <3> QED BY <3>1, <3>2, <3>3, <3>4, <3>5 DEF Way
  <2>6. Reach(net, w[2], Append(t, Instance[g]), k - 1)
    BY <2>2, <2>3, <2>5 DEF Reach
  <2> QED BY <1>2, <1>3, <2>4, <2>6
<1> QED BY <1>2, <1>4, <1>5

\* Where fewer Providers are left out there are more ways.
LEMMA MoreWays ==
  ASSUME NEW net, NEW p, NEW r, p \subseteq r, NEW g, NEW t, NEW k,
         Reach(Without(net, r), g, t, k)
  PROVE  Reach(Without(net, p), g, t, k)
<1>0. PICK n \in 1..k : \E w \in [1..n -> Gateways] : Way(Without(net, r), n, w, g, t)
  BY DEF Reach
<1>1. PICK w \in [1..n -> Gateways] : Way(Without(net, r), n, w, g, t)
  BY <1>0
<1>2. n \in 1..n /\ \A i \in 1..(n - 1) : i \in 1..n
  BY <1>0
<1>3. \A h \in Gateways : Without(net, r)[h] \subseteq Without(net, p)[h]
  BY DEF Without
<1>4. \A i \in 1..n : Without(net, r)[w[i]] \subseteq Without(net, p)[w[i]]
  BY <1>3
<1>5. Way(Without(net, p), n, w, g, t)
  BY <1>1, <1>2, <1>4 DEF Way
<1> QED BY <1>0, <1>5 DEF Reach

Links == Gateways \X (Gateways \cup {Full, Empty})

ClientStates ==
    {Idle} \cup [at : {"asking", "gone", "found", "failed"}, entry : Gateways,
                crowded : BOOLEAN, passed : SUBSET Links]

\* A request h that serves f, one gateway further on.
Serves(net, h, f) ==
    /\ f.at \in {"waiting", "streaming"}
    /\ h.trace = Append(f.trace, Instance[f.gateway]) /\ h.gateway \in net[f.gateway]
    /\ f.at = "streaming" => h.at = "streaming"

\* What is within reach over the Providers that were not held out for this client.
Left(net, cl, g, t, k) == Reach(Without(net, cl.passed), g, t, k)

Behind(fr, d) == d + 1 \in Depths /\ fr[d + 1].at # "none"

\* The request at depth d of a client whose frames are fr: what it streams it can
\* have, who serves it is one of its Providers, and of those that are past all others
\* lead nowhere or were held out, unless the client was turned away by a limit.
Searching(net, cl, fr, d) ==
    LET f == fr[d]
    IN  /\ cl # Idle
        /\ d = 1 => cl.at \in {"asking", "gone"} /\ f.gateway = cl.entry
        /\ f.at = "streaming" => Reach(net, f.gateway, f.trace, MaxHops + 1 - d)
        /\ Behind(fr, d) => Serves(net, fr[d + 1], f)
        /\ f.at = "waiting" => Behind(fr, d)
        /\ f.at # "streaming" /\ ~cl.crowded =>
              \A q \in f.past :
                 \/ <<f.gateway, q>> \in cl.passed
                 \/ /\ q # Full
                    /\ q \in Gateways =>
                          \/ Behind(fr, d) /\ q = fr[d + 1].gateway
                          \/ ~Left(net, cl, q, Append(f.trace, Instance[f.gateway]), MaxHops - d)

\* What the client was told.
Told(net, cl) ==
    /\ cl.at = "found" => Reach(net, cl.entry, <<>>, MaxHops)
    /\ cl.at = "failed" /\ ~cl.crowded => ~Left(net, cl, cl.entry, <<>>, MaxHops)

Search(net, cl, fr) ==
    /\ cl \in ClientStates /\ Told(net, cl)
    /\ \A d \in Depths : fr[d].at # "none" => Searching(net, cl, fr, d)

SearchInv ==
    /\ providers \in Networks
    /\ client \in [Clients -> ClientStates]
    /\ \A c \in Clients : Search(providers, client[c], frame[c])

\* A step is one of a single client.
LEMMA ClientSteps ==
  ASSUME IInv, SearchInv, UNCHANGED providers, NEW c \in Clients, NEW cl, NEW fr,
         client' = [client EXCEPT ![c] = cl], frame' = [frame EXCEPT ![c] = fr],
         Search(providers, cl, fr)
  PROVE  SearchInv'
<1>1. /\ \A k \in Clients : k # c => client'[k] = client[k] /\ frame'[k] = frame[k]
      /\ client'[c] = cl /\ frame'[c] = fr /\ cl \in ClientStates
      /\ client' \in [Clients -> ClientStates]
  BY DEF IInv, WayInv, SearchInv, Search
<1>2. \A k \in Clients : Search(providers, client'[k], frame'[k])
  BY <1>1 DEF SearchInv
<1> QED BY <1>1, <1>2 DEF SearchInv

\* What is known of a client's frames by themselves.
Chain(fr) ==
    /\ fr \in [Depths -> Request \cup {NoFrame}]
    /\ \A d \in Depths : fr[d].at # "none" => Good(fr[d], d)
    /\ \A d, e \in Depths : Before(fr[d]) /\ e > d => fr[e].at = "none"

LEMMA ChainOf ==
  ASSUME IInv, NEW c \in Clients
  PROVE  Chain(frame[c])
<1>1. frame[c] \in [Depths -> Request \cup {NoFrame}]
  BY DEF IInv, WayInv
<1>2. \A d \in Depths : frame[c][d].at # "none" => Good(frame[c][d], d)
  BY PresentGood
<1>3. \A d, e \in Depths : Before(frame[c][d]) /\ e > d => frame[c][e].at = "none"
  BY DEF IInv, ChainInv, Present
<1> QED BY <1>1, <1>2, <1>3 DEF Chain

LEMMA DepthsAreNat ==
  /\ MaxHops \in Nat /\ MaxHops >= 1 /\ 1 \in Depths
  /\ \A d \in Depths : d \in Nat /\ d >= 1 /\ d <= MaxHops + 1 /\ MaxHops + 1 - d \in Nat
  /\ \A d \in Depths : d # 1 => d - 1 \in Depths /\ (d - 1) + 1 = d
  BY RingAssumption DEF Depths

\* The request at depth d goes on at its gateway; it did not stream before.
LEMMA GoesOnSearching ==
  ASSUME NEW net, NEW cl, NEW fr, NEW d \in Depths, NEW h \in Request,
         Chain(fr), Search(net, cl, fr), fr[d].at \notin {"none", "streaming"},
         h.trace = fr[d].trace, h.gateway = fr[d].gateway,
         h.at \in {"waiting", "streaming"} \/ ~Behind(fr, d),
         h.at = "waiting" => Behind(fr, d),
         Behind(fr, d) /\ h.at = "streaming" => fr[d + 1].at = "streaming",
         h.at = "streaming" => Reach(net, h.gateway, h.trace, MaxHops + 1 - d),
         h.at # "streaming" =>
            \A q \in h.past : \/ q \in fr[d].past \/ <<h.gateway, q>> \in cl.passed
                              \/ (q # Full /\ q \notin Gateways)
  PROVE  Search(net, cl, [fr EXCEPT ![d] = h])
<1> DEFINE gr == [fr EXCEPT ![d] = h]
<1>1. gr[d] = h /\ \A e \in Depths : e # d => gr[e] = fr[e]
  BY DEF Chain
<1>2. h.at # "none" /\ d \in Nat
  BY DepthsAreNat DEF Request
<1> HIDE DEF gr
<1>3. \A e \in Depths : Behind(gr, e) <=> Behind(fr, e)
  BY <1>1, <1>2 DEF Behind
<1>4. Searching(net, cl, fr, d)
  BY DEF Search
<1>5. Searching(net, cl, gr, d)
  <2>1. Behind(gr, d) => gr[d + 1] = fr[d + 1]
    BY <1>1, <1>2 DEF Behind
  <2>2. Behind(gr, d) => Serves(net, gr[d + 1], h)
    BY <1>1, <1>3, <1>4, <2>1 DEF Searching, Serves
  <2>3. h.at # "streaming" /\ ~cl.crowded =>
          \A q \in h.past :
             \/ <<h.gateway, q>> \in cl.passed
             \/ /\ q # Full
                /\ q \in Gateways =>
                      \/ Behind(gr, d) /\ q = gr[d + 1].gateway
                      \/ ~Left(net, cl, q, Append(h.trace, Instance[h.gateway]), MaxHops - d)
    BY <1>3, <1>4, <2>1 DEF Searching
  <2> QED BY <1>1, <1>3, <1>4, <2>2, <2>3 DEF Searching
<1>6. ASSUME NEW e \in Depths, e # d, gr[e].at # "none"
      PROVE  Searching(net, cl, gr, e)
  <2>1. Searching(net, cl, fr, e) /\ gr[e] = fr[e]
    BY <1>1, <1>6 DEF Search
  <2>2. CASE e + 1 # d
    <3>1. Behind(fr, e) => gr[e + 1] = fr[e + 1]
      BY <1>1, <2>2 DEF Behind
    <3> QED BY <1>3, <2>1, <3>1 DEF Searching
  <2>3. CASE e + 1 = d
    <3>1. Behind(fr, e) /\ gr[e + 1] = h /\ fr[e + 1].gateway = h.gateway
      BY <1>1, <2>3 DEF Behind
    <3>2. Serves(net, fr[d], fr[e]) /\ fr[e].at = "waiting"
      BY <2>1, <2>3, <3>1 DEF Searching, Serves
    <3>3. Serves(net, h, gr[e])
      BY <2>1, <3>2 DEF Serves
    <3> QED BY <1>3, <2>1, <2>3, <3>1, <3>3 DEF Searching
  <2> QED BY <2>2, <2>3
<1>7. Search(net, cl, gr)
  BY <1>5, <1>6 DEF Search
<1> QED BY <1>7 DEF gr

\* The request at depth d is over, and no one waits for what it might still say.
LEMMA EndsSearching ==
  ASSUME NEW net, NEW cl, NEW fr, NEW d \in Depths, NEW dl \in ClientStates,
         Chain(fr), Search(net, cl, fr), Told(net, dl), dl # Idle,
         dl.crowded = cl.crowded, dl.passed = cl.passed,
         d # 1 => dl = cl /\ fr[d - 1].at \in {"none", "streaming"}
  PROVE  Search(net, dl, [fr EXCEPT ![d] = NoFrame])
<1> DEFINE gr == [fr EXCEPT ![d] = NoFrame]
<1>1. gr[d].at = "none" /\ \A e \in Depths : e # d => gr[e] = fr[e]
  BY NoFrameIsNone DEF Chain
<1> HIDE DEF gr
<1>2. ASSUME NEW e \in Depths, gr[e].at # "none"
      PROVE  Searching(net, dl, gr, e)
  <2>1. e # d /\ gr[e] = fr[e] /\ Searching(net, cl, fr, e)
    BY <1>1, <1>2 DEF Search
  <2>2. CASE e + 1 # d
    <3>1. /\ Behind(gr, e) <=> Behind(fr, e)
          /\ Behind(gr, e) => gr[e + 1] = fr[e + 1]
      BY <1>1, <2>2 DEF Behind
    <3>2. e = 1 => dl = cl
      BY <2>1
    <3> QED BY <2>1, <3>1, <3>2 DEF Searching, Left
  <2>3. CASE e + 1 = d
    <3>1. ~Behind(gr, e) /\ e = d - 1 /\ d # 1
      BY <1>1, <2>3, DepthsAreNat DEF Behind
    <3>2. gr[e].at = "streaming" /\ dl = cl
      BY <1>2, <2>1, <3>1
    <3> QED BY <2>1, <3>1, <3>2 DEF Searching
  <2> QED BY <2>2, <2>3
<1>3. Search(net, dl, gr)
  BY <1>2 DEF Search
<1> QED BY <1>3 DEF gr

\* The request at depth d has not been served: unless for a full queue, nothing is to
\* be had from there, and the one before it goes on.
LEMMA RefuseSearching ==
  ASSUME NEW net, NEW cl, NEW fr, NEW d \in Depths, NEW dl \in ClientStates,
         NEW gr \in [Depths -> Request \cup {NoFrame}],
         Chain(fr), Search(net, cl, fr), Before(fr[d]), dl # Idle,
         dl.entry = cl.entry, dl.passed = cl.passed,
         dl.at = (IF d = 1 /\ cl.at = "asking" THEN "failed" ELSE cl.at),
         ~dl.crowded => ~cl.crowded /\ ~Left(net, cl, fr[d].gateway, fr[d].trace, MaxHops + 1 - d),
         gr[d] = NoFrame,
         \A e \in Depths : e # d /\ e # d - 1 => gr[e] = fr[e],
         d # 1 => gr[d - 1] = IF fr[d - 1].at # "none" THEN [fr[d - 1] EXCEPT !.at = "trying"]
                                                      ELSE fr[d - 1]
  PROVE  Search(net, dl, gr)
<1>1. fr[d].at # "none" /\ Searching(net, cl, fr, d) /\ ~Behind(fr, d)
  BY DepthsAreNat DEF Before, Search, Chain, Behind
<1>2. Good(fr[d], d) /\ gr[d].at = "none"
  BY <1>1, NoFrameIsNone DEF Chain
<1>3. Told(net, dl)
  <2>1. CASE d = 1 /\ cl.at = "asking"
    <3>1. fr[d].gateway = cl.entry
      BY <1>1, <2>1 DEF Searching
    <3>2. fr[d].trace = <<>>
      BY <1>2, <2>1 DEF Good, Request
    <3>3. MaxHops + 1 - d = MaxHops
      BY <2>1, DepthsAreNat
    <3> QED BY <2>1, <3>1, <3>2, <3>3 DEF Told, Left
  <2>2. CASE ~(d = 1 /\ cl.at = "asking")
    BY <2>2 DEF Told, Search, Left
  <2> QED BY <2>1, <2>2
<1>4. ASSUME NEW e \in Depths, gr[e].at # "none"
      PROVE  Searching(net, dl, gr, e)
  <2>1. e # d /\ fr[e].at # "none"
    <3>1. CASE e = d - 1
      BY <1>2, <1>4, <3>1, DepthsAreNat, NoFrameIsNone
    <3>2. CASE e # d - 1
      BY <1>2, <1>4, <3>2
    <3> QED BY <3>1, <3>2
  <2>2. Searching(net, cl, fr, e)
    BY <2>1 DEF Search
  <2>3. e < d
    BY <2>1, DepthsAreNat DEF Chain
  <2>4. e = 1 => dl.at \in {"asking", "gone"}
    BY <2>2, <2>3, DepthsAreNat DEF Searching
  <2>5. CASE e = d - 1
    <3>1. d # 1 /\ e + 1 = d /\ e \in Nat
      BY <2>5, DepthsAreNat
    <3>2. Good(fr[e], e)
      BY <2>1 DEF Chain
    <3>3. /\ gr[e].at = "trying" /\ gr[e].trace = fr[e].trace /\ gr[e].gateway = fr[e].gateway
          /\ gr[e].past = fr[e].past
      BY <2>1, <2>5, <3>1, <3>2 DEF Good, Request
    <3>4. Behind(fr, e) /\ ~Behind(gr, e)
      BY <1>1, <1>2, <3>1 DEF Behind
    <3>5. Serves(net, fr[d], fr[e]) /\ fr[e].at # "streaming"
      BY <2>2, <3>1, <3>4 DEF Searching, Serves, Before
    <3>6. MaxHops + 1 - d = MaxHops - e
      BY <3>1, DepthsAreNat
    <3>7. ASSUME ~dl.crowded, NEW q \in fr[e].past
          PROVE  \/ <<fr[e].gateway, q>> \in cl.passed
                 \/ /\ q # Full
                    /\ q \in Gateways =>
                          ~Left(net, cl, q, Append(fr[e].trace, Instance[fr[e].gateway]), MaxHops - e)
      <4>1. \/ <<fr[e].gateway, q>> \in cl.passed
            \/ /\ q # Full
               /\ q \in Gateways =>
                     \/ q = fr[d].gateway
                     \/ ~Left(net, cl, q, Append(fr[e].trace, Instance[fr[e].gateway]), MaxHops - e)
        BY <2>2, <3>1, <3>5, <3>7 DEF Searching
      <4>2. ~Left(net, cl, fr[d].gateway, fr[d].trace, MaxHops - e)
        BY <3>6, <3>7
      <4> QED BY <3>5, <4>1, <4>2 DEF Serves
    <3> QED BY <2>2, <2>4, <3>3, <3>4, <3>7 DEF Searching, Left
  <2>6. CASE e # d - 1
    <3>1. gr[e] = fr[e] /\ (Behind(gr, e) <=> Behind(fr, e))
      <4>1. CASE e + 1 = d - 1
        <5>1. d - 1 \in Depths /\ d # 1
          BY <2>1, <4>1, DepthsAreNat
        <5>2. gr[d - 1].at # "none" <=> fr[d - 1].at # "none"
          <6>1. fr[d - 1].at # "none" => Good(fr[d - 1], d - 1)
            BY <5>1 DEF Chain
          <6> QED BY <5>1, <6>1 DEF Good, Request
        <5> QED BY <2>1, <2>6, <4>1, <5>2 DEF Behind
      <4>2. CASE e + 1 # d - 1
        <5>1. e + 1 # d
          BY <2>6, DepthsAreNat
        <5> QED BY <2>1, <2>6, <4>2, <5>1 DEF Behind
      <4> QED BY <4>1, <4>2
    <3>2. Behind(gr, e) => /\ gr[e + 1].gateway = fr[e + 1].gateway
                           /\ gr[e + 1].trace = fr[e + 1].trace
                           /\ fr[e].at = "streaming" => gr[e + 1].at = "streaming"
      <4>1. CASE e + 1 = d - 1
        <5>1. d - 1 \in Depths /\ d # 1
          BY <2>1, <4>1, DepthsAreNat
        <5>2. ASSUME fr[d - 1].at # "none"
              PROVE  /\ gr[d - 1].gateway = fr[d - 1].gateway /\ gr[d - 1].trace = fr[d - 1].trace
                     /\ fr[d - 1].at = "waiting"
          <6>1. Good(fr[d - 1], d - 1) /\ Searching(net, cl, fr, d - 1)
            BY <5>1, <5>2 DEF Chain, Search
          <6>2. Behind(fr, d - 1) /\ Serves(net, fr[d], fr[d - 1])
            BY <1>1, <5>1, <6>1, DepthsAreNat DEF Behind, Searching
          <6>3. fr[d - 1].at = "waiting"
            BY <6>2 DEF Serves, Before
          <6> QED BY <5>1, <5>2, <6>1, <6>3 DEF Good, Request
        <5>3. Behind(fr, e) => fr[e].at # "streaming"
          BY <2>2, <4>1, <5>2 DEF Behind, Searching, Serves
        <5> QED BY <3>1, <4>1, <5>2, <5>3 DEF Behind
      <4>2. CASE e + 1 # d - 1
        <5>1. e + 1 # d
          BY <2>6, DepthsAreNat
        <5>2. Behind(gr, e) => gr[e + 1] = fr[e + 1]
          BY <4>2, <5>1 DEF Behind
        <5> QED BY <2>2, <3>1, <5>2 DEF Searching, Serves
      <4> QED BY <4>1, <4>2
    <3> QED BY <2>2, <2>4, <3>1, <3>2 DEF Searching, Serves, Left
  <2> QED BY <2>5, <2>6
<1> QED BY <1>3, <1>4 DEF Search

-----------------------------------------------------------------------------
\* A request sets a frame of its client, who notices nothing.
LEMMA FrameStep ==
  ASSUME IInv, SearchInv, UNCHANGED providers, UNCHANGED client, NEW c \in Clients,
         NEW d \in Depths, NEW h, SetFrame(c, d, h),
         Search(providers, client[c], [frame[c] EXCEPT ![d] = h])
  PROVE  SearchInv'
<1> DEFINE fr == [frame[c] EXCEPT ![d] = h]
           cl == client[c]
<1>1. client' = [client EXCEPT ![c] = cl]
  BY DEF SearchInv
<1>2. frame' = [frame EXCEPT ![c] = fr]
  BY DEF SetFrame, IInv, WayInv
<1>3. Search(providers, cl, fr)
  OBVIOUS
<1> HIDE DEF fr, cl
<1> QED BY <1>1, <1>2, <1>3, ClientSteps

LEMMA ClientOf ==
  ASSUME SearchInv, NEW c \in Clients
  PROVE  /\ Search(providers, client[c], frame[c]) /\ client[c] \in ClientStates
         /\ providers \in [Gateways -> SUBSET (Gateways \cup {Full, Empty})]
  BY RingAssumption DEF SearchInv

\* A request that is not served yet passes the guard or goes on to wait.
LEMMA StillBefore ==
  ASSUME IInv, SearchInv, UNCHANGED providers, UNCHANGED client, NEW c \in Clients,
         NEW d \in Depths, NEW a \in {"admitted", "queued"}, Before(frame[c][d]),
         SetFrame(c, d, [frame[c][d] EXCEPT !.at = a])
  PROVE  SearchInv'
<1> DEFINE f == frame[c][d]
           h == [f EXCEPT !.at = a]
           fr == frame[c]
           cl == client[c]
<1>1. Chain(fr) /\ Search(providers, cl, fr)
  BY ChainOf, ClientOf
<1>2. fr[d].at \notin {"none", "streaming"}
  BY DEF Before
<1>3. ~Behind(fr, d)
  BY <1>1, DepthsAreNat DEF Chain, Behind
<1>4. f \in Request
  BY <1>1, <1>2 DEF Chain, Good
<1>5. h \in Request /\ h.trace = f.trace /\ h.gateway = f.gateway /\ h.at = a /\ h.past = f.past
  BY <1>4 DEF Request
<1>6. SetFrame(c, d, h)
  OBVIOUS
<1> HIDE DEF h
<1>7. h.at \notin {"waiting", "streaming"}
  BY <1>5
<1>8. Search(providers, cl, [fr EXCEPT ![d] = h])
  BY <1>1, <1>2, <1>3, <1>5, <1>7, GoesOnSearching
<1> QED BY <1>6, <1>8, FrameStep

\* A request is turned away: for a full queue, or where there is nothing.
LEMMA RefusedStep ==
  ASSUME IInv, SearchInv, UNCHANGED providers, NEW c \in Clients, NEW d \in Depths,
         NEW b \in BOOLEAN, Refuse(c, d, b), Before(frame[c][d]),
         ~b /\ ~client[c].crowded =>
            ~Left(providers, client[c], frame[c][d].gateway, frame[c][d].trace, MaxHops + 1 - d)
  PROVE  SearchInv'
<1> DEFINE fr == frame[c]
           cl == client[c]
           dl == [cl EXCEPT !.crowded = @ \/ b,
                            !.at = IF d = 1 /\ @ = "asking" THEN "failed" ELSE @]
           gr == [e \in Depths |->
                    IF e = d THEN NoFrame
                    ELSE IF e = d - 1 /\ Present(c, e) THEN [frame[c][e] EXCEPT !.at = "trying"]
                    ELSE frame[c][e]]
<1>1. Chain(fr) /\ Search(providers, cl, fr) /\ cl \in ClientStates
  BY ChainOf, ClientOf
<1>2. Searching(providers, cl, fr, d) /\ cl # Idle
  BY <1>1 DEF Search, Searching, Before
<1>3. cl \in [at : {"asking", "gone", "found", "failed"}, entry : Gateways,
                crowded : BOOLEAN, passed : SUBSET Links]
  BY <1>1, <1>2 DEF ClientStates
<1>4. /\ dl.at = (IF d = 1 /\ cl.at = "asking" THEN "failed" ELSE cl.at)
      /\ dl.entry = cl.entry /\ dl.passed = cl.passed /\ (dl.crowded <=> cl.crowded \/ b)
  BY <1>3
<1>5. dl \in ClientStates /\ dl # Idle
  <2>1. cl.crowded \/ b \in BOOLEAN
    BY <1>3
  <2>2. dl \in [at : {"asking", "gone", "found", "failed"}, entry : Gateways,
                crowded : BOOLEAN, passed : SUBSET Links]
    BY <1>3, <2>1
  <2>3. dl # Idle
    <3>1. dl.at # "idle"
      BY <1>3, <1>4
    <3> QED BY <3>1 DEF Idle
  <2> QED BY <2>2, <2>3 DEF ClientStates
<1>6. client' = [client EXCEPT ![c] = dl] /\ frame' = [frame EXCEPT ![c] = gr]
  BY DEF Refuse, SearchInv
<1>7. gr \in [Depths -> Request \cup {NoFrame}]
  <2>1. ASSUME NEW e \in Depths, Present(c, e)
        PROVE  [frame[c][e] EXCEPT !.at = "trying"] \in Request
    <3>1. frame[c][e] \in Request
      BY <1>1, <2>1 DEF Chain, Good, Present
    <3> QED BY <3>1 DEF Request
  <2> QED BY <1>1, <2>1 DEF Chain
<1>8. /\ gr[d] = NoFrame
      /\ \A e \in Depths : e # d /\ e # d - 1 => gr[e] = fr[e]
      /\ d # 1 => gr[d - 1] = IF fr[d - 1].at # "none" THEN [fr[d - 1] EXCEPT !.at = "trying"]
                                                       ELSE fr[d - 1]
  BY DepthsAreNat DEF Present
<1>9. ~dl.crowded => ~cl.crowded /\ ~Left(providers, cl, fr[d].gateway, fr[d].trace, MaxHops + 1 - d)
  BY <1>4
<1>10. Before(fr[d])
  OBVIOUS
<1> HIDE DEF fr, cl, dl, gr
<1>11. Search(providers, dl, gr)
  BY <1>1, <1>4, <1>5, <1>7, <1>8, <1>9, <1>10, RefuseSearching
<1> QED BY <1>6, <1>11, ClientSteps

LEMMA InboundSearches ==
  ASSUME IInv, SearchInv, UNCHANGED providers, NEW c \in Clients, NEW d \in Depths, Inbound(c, d)
  PROVE  SearchInv'
<1> DEFINE f == frame[c][d]
<1>1. Before(f) /\ Good(f, d)
  BY PresentGood DEF Inbound, Before
<1>2. f.gateway \in Gateways /\ f.trace \in Seq(IDs) /\ Len(f.trace) = d - 1
  BY <1>1 DEF Good, Request
<1>3. CASE Loops(f)
  <2>1. ~Left(providers, client[c], f.gateway, f.trace, MaxHops + 1 - d)
    <3>1. MaxHops + 1 - d \in Nat /\ d \in Nat /\ MaxHops \in Nat
      BY DepthsAreNat
    <3>2. Len(f.trace) >= MaxHops => ~(MaxHops + 1 - d >= 1)
      BY <1>2, <3>1
    <3> QED BY <1>2, <1>3, <3>1, <3>2, ReachGoesOn DEF Loops, Left
  <2>2. Refuse(c, d, FALSE)
    BY <1>3 DEF Inbound
  <2> QED BY <1>1, <2>1, <2>2, RefusedStep
<1>4. CASE ~Loops(f)
  BY <1>1, <1>4, StillBefore DEF Inbound
<1> QED BY <1>3, <1>4

\* More Providers are held out for a client.
LEMMA PassesOver ==
  ASSUME NEW net, NEW cl, NEW fr, NEW dl \in ClientStates, Search(net, cl, fr), dl # Idle,
         dl.at = cl.at, dl.entry = cl.entry, dl.crowded = cl.crowded, cl.passed \subseteq dl.passed
  PROVE  Search(net, dl, fr)
<1>1. \A g, t, k : Left(net, dl, g, t, k) => Left(net, cl, g, t, k)
  BY MoreWays DEF Left
<1>2. Told(net, dl)
  BY <1>1 DEF Search, Told
<1>3. ASSUME NEW d \in Depths, fr[d].at # "none"
      PROVE  Searching(net, dl, fr, d)
  <2>1. Searching(net, cl, fr, d)
    BY <1>3 DEF Search
  <2> QED BY <1>1, <2>1 DEF Searching
<1> QED BY <1>2, <1>3 DEF Search

\* The pull begins with the Providers that are not held out.
LEMMA ListSearches ==
  ASSUME IInv, SearchInv, UNCHANGED providers, NEW c \in Clients, NEW d \in Depths,
         Before(frame[c][d]), List(c, d)
  PROVE  SearchInv'
<1> DEFINE fr == frame[c]
           cl == client[c]
           f == fr[d]
           g == f.gateway
<1>1. PICK held \in SUBSET (providers[g] \cap Unsteady[g]) :
         /\ SetFrame(c, d, [f EXCEPT !.at = "trying", !.past = held])
         /\ client' = [client EXCEPT ![c].passed = @ \cup ({g} \X held)]
  BY DEF List
<1> DEFINE h == [f EXCEPT !.at = "trying", !.past = held]
           dl == [cl EXCEPT !.passed = @ \cup ({g} \X held)]
<1>2. Chain(fr) /\ Search(providers, cl, fr) /\ cl \in ClientStates
  BY ChainOf, ClientOf
<1>3. f.at \notin {"none", "streaming"} /\ Searching(providers, cl, fr, d) /\ ~Behind(fr, d)
  BY <1>2, DepthsAreNat DEF Before, Search, Chain, Behind
<1>4. f \in Request /\ g \in Gateways
  BY <1>2, <1>3 DEF Chain, Good, Request
<1>5. held \subseteq Gateways \cup {Full, Empty}
  BY <1>4, ClientOf
<1>6. /\ h \in Request /\ h.trace = f.trace /\ h.gateway = g /\ h.at = "trying" /\ h.past = held
      /\ \A q \in held : <<g, q>> \in {g} \X held
  BY <1>4, <1>5 DEF Request
<1>7. cl \in [at : {"asking", "gone", "found", "failed"}, entry : Gateways,
              crowded : BOOLEAN, passed : SUBSET Links]
  BY <1>2, <1>3 DEF ClientStates, Searching
<1>8. /\ dl \in [at : {"asking", "gone", "found", "failed"}, entry : Gateways,
                 crowded : BOOLEAN, passed : SUBSET Links]
      /\ dl.at = cl.at /\ dl.entry = cl.entry /\ dl.crowded = cl.crowded
      /\ dl.passed = cl.passed \cup ({g} \X held)
  <2>1. {g} \X held \subseteq Links
    BY <1>4, <1>5 DEF Links
  <2> QED BY <1>7, <2>1
<1>9. dl \in ClientStates /\ dl # Idle
  BY <1>8 DEF ClientStates, Idle
<1>10. client' = [client EXCEPT ![c] = dl] /\ frame' = [frame EXCEPT ![c] = [fr EXCEPT ![d] = h]]
  BY <1>1 DEF SetFrame, SearchInv, IInv, WayInv
<1> HIDE DEF h, dl
<1>11. Search(providers, dl, fr)
  BY <1>2, <1>8, <1>9, PassesOver
<1>12. Search(providers, dl, [fr EXCEPT ![d] = h])
  <2>1. h.at \notin {"waiting", "streaming"}
    BY <1>6
  <2>2. \A q \in h.past : <<h.gateway, q>> \in dl.passed
    BY <1>6, <1>8
  <2> QED BY <1>2, <1>3, <1>6, <1>11, <2>1, <2>2, GoesOnSearching
<1> HIDE DEF fr, cl
<1> QED BY <1>10, <1>12, ClientSteps

LEMMA PoolSearches ==
  ASSUME IInv, SearchInv, UNCHANGED providers, NEW c \in Clients, NEW d \in Depths,
         AcquirePull(c, d) \/ Handed(c, d)
  PROVE  SearchInv'
<1>1. Before(frame[c][d])
  BY DEF AcquirePull, Handed, Before
<1>2. CASE Refuse(c, d, TRUE)
  BY <1>1, <1>2, RefusedStep
<1>3. CASE List(c, d)
  BY <1>1, <1>3, ListSearches
<1>4. CASE ~Refuse(c, d, TRUE) /\ ~List(c, d)
  BY <1>1, <1>4, StillBefore DEF AcquirePull, Handed
<1> QED BY <1>2, <1>3, <1>4

LEMMA LimitSearches ==
  ASSUME IInv, SearchInv, UNCHANGED providers, NEW c \in Clients, NEW d \in Depths, OverLimit(c, d)
  PROVE  SearchInv'
  BY RefusedStep DEF OverLimit, Before

LEMMA RegistrySearches ==
  ASSUME IInv, SearchInv, UNCHANGED providers, NEW c \in Clients, NEW d \in Depths,
         NEW q \in {Full, Empty}, AskRegistry(c, d, q)
  PROVE  SearchInv'
<1> DEFINE fr == frame[c]
           cl == client[c]
           f == fr[d]
           h == [f EXCEPT !.past = @ \cup {q}, !.at = IF q = Full THEN "streaming" ELSE @]
<1>1. Chain(fr) /\ Search(providers, cl, fr)
  BY ChainOf, ClientOf
<1>2. f.at = "trying" /\ q \in providers[f.gateway] /\ q \notin Gateways
      /\ SetFrame(c, d, h) /\ UNCHANGED client
  BY DEF AskRegistry
<1>3. Good(f, d)
  BY <1>1, <1>2 DEF Chain
<1>4. f \in Request /\ d <= MaxHops /\ ~Has(f.trace, Instance[f.gateway])
  BY <1>2, <1>3 DEF Good
<1>5. /\ h \in Request /\ h.trace = f.trace /\ h.gateway = f.gateway
      /\ h.past = f.past \cup {q} /\ h.at = IF q = Full THEN "streaming" ELSE "trying"
  BY <1>2, <1>4 DEF Request
<1>6. ~Behind(fr, d)
  BY <1>1, <1>2, DepthsAreNat DEF Chain, Behind, Before
<1>7. q = Full => Reach(providers, f.gateway, f.trace, MaxHops + 1 - d)
  <2>1. MaxHops + 1 - d \in Nat /\ MaxHops + 1 - d >= 1
    BY <1>4, DepthsAreNat
  <2>2. f.gateway \in Gateways
    BY <1>4 DEF Request
  <2> QED BY <1>2, <1>4, <2>1, <2>2, ReachHere
<1> HIDE DEF h
<1>8. Search(providers, cl, [fr EXCEPT ![d] = h])
  <2>1. h.at \in {"waiting", "streaming"} \/ ~Behind(fr, d)
    BY <1>6
  <2>2. h.at = "waiting" => Behind(fr, d)
    BY <1>5
  <2>3. Behind(fr, d) /\ h.at = "streaming" => fr[d + 1].at = "streaming"
    BY <1>6
  <2>4. h.at = "streaming" => Reach(providers, h.gateway, h.trace, MaxHops + 1 - d)
    BY <1>5, <1>7
  <2>5. h.at # "streaming" => \A x \in h.past : x \in f.past \/ (x # Full /\ x \notin Gateways)
    BY <1>2, <1>5
  <2>6. fr[d].at \notin {"none", "streaming"}
    BY <1>2
  <2> QED BY <1>1, <1>5, <2>1, <2>2, <2>3, <2>4, <2>5, <2>6, GoesOnSearching
<1> QED BY <1>2, <1>8, FrameStep

LEMMA OpenedSearches ==
  ASSUME IInv, SearchInv, UNCHANGED providers, NEW c \in Clients, NEW d \in Depths, Opened(c, d)
  PROVE  SearchInv'
<1> DEFINE fr == frame[c]
           cl == client[c]
           f == fr[d]
           n == fr[d + 1]
           h == [f EXCEPT !.at = "streaming"]
<1>1. Chain(fr) /\ Search(providers, cl, fr)
  BY ChainOf, ClientOf
<1>2. f.at = "waiting" /\ n.at = "streaming" /\ SetFrame(c, d, h) /\ UNCHANGED client
  BY DEF Opened
<1>3. f \in Request /\ d <= MaxHops /\ ~Has(f.trace, Instance[f.gateway])
  BY <1>1, <1>2 DEF Chain, Good
<1>4. h \in Request /\ h.trace = f.trace /\ h.gateway = f.gateway /\ h.at = "streaming"
      /\ f.gateway \in Gateways /\ f.trace \in Seq(IDs)
  BY <1>3 DEF Request
<1>5. Searching(providers, cl, fr, d) /\ Behind(fr, d)
  BY <1>1, <1>2 DEF Search, Searching
<1>6. Serves(providers, n, f) /\ d + 1 \in Depths
  BY <1>5 DEF Searching, Behind
<1>7. Searching(providers, cl, fr, d + 1)
  BY <1>1, <1>2, <1>6 DEF Search
<1>8. Reach(providers, f.gateway, f.trace, MaxHops + 1 - d)
  <2>1. MaxHops - d \in Nat /\ MaxHops + 1 - (d + 1) = MaxHops - d
        /\ (MaxHops - d) + 1 = MaxHops + 1 - d
    BY <1>3, DepthsAreNat
  <2>2. Reach(providers, n.gateway, Append(f.trace, Instance[f.gateway]), MaxHops - d)
    BY <1>2, <1>6, <1>7, <2>1 DEF Searching, Serves
  <2>3. n.gateway \in providers[f.gateway]
    BY <1>6 DEF Serves
  <2>4. Reach(providers, f.gateway, f.trace, (MaxHops - d) + 1)
    BY <1>3, <1>4, <2>1, <2>2, <2>3, ReachThrough
  <2> QED BY <2>1, <2>4
<1> HIDE DEF h
<1>9. Search(providers, cl, [fr EXCEPT ![d] = h])
  <2>1. fr[d].at \notin {"none", "streaming"}
    BY <1>2
  <2>2. h.at = "streaming" => Reach(providers, h.gateway, h.trace, MaxHops + 1 - d)
    BY <1>4, <1>8
  <2> QED BY <1>1, <1>2, <1>4, <2>1, <2>2, GoesOnSearching
<1> QED BY <1>2, <1>9, FrameStep

LEMMA ExhaustedSearches ==
  ASSUME IInv, SearchInv, UNCHANGED providers, NEW c \in Clients, NEW d \in Depths, Exhausted(c, d)
  PROVE  SearchInv'
<1> DEFINE fr == frame[c]
           cl == client[c]
           f == fr[d]
<1>1. Chain(fr) /\ Search(providers, cl, fr)
  BY ChainOf, ClientOf
<1>2. f.at = "trying" /\ Before(f) /\ providers[f.gateway] \subseteq f.past /\ Refuse(c, d, FALSE)
  BY DEF Exhausted, Before
<1>3. f \in Request /\ f.gateway \in Gateways /\ f.trace \in Seq(IDs)
  BY <1>1, <1>2 DEF Chain, Good, Request
<1>4. ~Behind(fr, d) /\ Searching(providers, cl, fr, d)
  BY <1>1, <1>2, DepthsAreNat DEF Chain, Behind, Search
<1>5. ASSUME ~cl.crowded, Left(providers, cl, f.gateway, f.trace, MaxHops + 1 - d)
      PROVE  FALSE
  <2>1. MaxHops + 1 - d \in Nat /\ (MaxHops + 1 - d) - 1 = MaxHops - d
    BY DepthsAreNat
  <2> DEFINE net == Without(providers, cl.passed)
  <2>2. \/ Full \in net[f.gateway]
        \/ \E q \in net[f.gateway] \cap Gateways :
              Reach(net, q, Append(f.trace, Instance[f.gateway]), MaxHops - d)
    BY <1>3, <1>5, <2>1, ReachGoesOn DEF Left
  <2>3. \A q \in net[f.gateway] : q \in f.past /\ <<f.gateway, q>> \notin cl.passed
    BY <1>2, <1>3 DEF Without
  <2>4. \E q \in Gateways : /\ q \in f.past /\ <<f.gateway, q>> \notin cl.passed
                           /\ Left(providers, cl, q, Append(f.trace, Instance[f.gateway]), MaxHops - d)
    <3>1. Full \notin f.past \/ <<f.gateway, Full>> \in cl.passed
      BY <1>2, <1>4, <1>5 DEF Searching
    <3> QED BY <2>2, <2>3, <3>1 DEF Left
  <2> QED BY <1>2, <1>4, <1>5, <2>4 DEF Searching
<1> QED BY <1>2, <1>5, RefusedStep

LEMMA FinishedSearches ==
  ASSUME IInv, SearchInv, UNCHANGED providers, NEW c \in Clients, NEW d \in Depths, Finished(c, d)
  PROVE  SearchInv'
<1> DEFINE fr == frame[c]
           cl == client[c]
           f == fr[d]
           dl == [cl EXCEPT !.at = IF d = 1 /\ @ = "asking" THEN "found" ELSE @]
<1>1. Chain(fr) /\ Search(providers, cl, fr) /\ cl \in ClientStates
  BY ChainOf, ClientOf
<1>2. f.at = "streaming" /\ (d > 1 => fr[d - 1].at = "streaming")
      /\ client' = [client EXCEPT ![c] = dl] /\ frame' = [frame EXCEPT ![c] = [fr EXCEPT ![d] = NoFrame]]
  BY DEF Finished, SetFrame, SearchInv, IInv, WayInv
<1>3. Searching(providers, cl, fr, d) /\ cl # Idle /\ Good(f, d)
  BY <1>1, <1>2 DEF Search, Searching, Chain
<1>4. cl \in [at : {"asking", "gone", "found", "failed"}, entry : Gateways,
                crowded : BOOLEAN, passed : SUBSET Links]
  BY <1>1, <1>3 DEF ClientStates
<1>5. dl \in ClientStates /\ dl # Idle /\ dl.crowded = cl.crowded /\ dl.passed = cl.passed
  <2>1. dl \in [at : {"asking", "gone", "found", "failed"}, entry : Gateways,
                crowded : BOOLEAN, passed : SUBSET Links]
    BY <1>4
  <2>2. dl.at # "idle"
    BY <1>4
  <2>3. dl.crowded = cl.crowded /\ dl.passed = cl.passed
    BY <1>4
  <2> QED BY <2>1, <2>2, <2>3 DEF ClientStates, Idle
<1>6. d # 1 => dl = cl
  BY <1>4
<1>7. Told(providers, dl)
  <2>1. CASE d = 1 /\ cl.at = "asking"
    <3>1. dl.at = "found" /\ dl.entry = cl.entry
      BY <1>4, <2>1
    <3>2. f.trace = <<>> /\ f.gateway = cl.entry
      BY <1>3, <2>1 DEF Good, Request, Searching
    <3>3. MaxHops + 1 - d = MaxHops
      BY <2>1, DepthsAreNat
    <3>4. Reach(providers, cl.entry, <<>>, MaxHops)
      BY <1>2, <1>3, <3>2, <3>3 DEF Searching
    <3> QED BY <3>1, <3>4 DEF Told
  <2>2. CASE ~(d = 1 /\ cl.at = "asking")
    BY <1>1, <1>4, <2>2 DEF Told, Search
  <2> QED BY <2>1, <2>2
<1>8. d # 1 => dl = cl /\ fr[d - 1].at \in {"none", "streaming"}
  BY <1>2, <1>6, DepthsAreNat
<1> HIDE DEF dl, fr, cl
<1>9. Search(providers, dl, [fr EXCEPT ![d] = NoFrame])
  BY <1>1, <1>5, <1>7, <1>8, EndsSearching
<1> QED BY <1>2, <1>9, ClientSteps

LEMMA CancelledSearches ==
  ASSUME IInv, SearchInv, UNCHANGED providers, NEW c \in Clients, NEW d \in Depths, Cancelled(c, d)
  PROVE  SearchInv'
<1> DEFINE fr == frame[c]
           cl == client[c]
<1>1. Chain(fr) /\ Search(providers, cl, fr) /\ cl \in ClientStates
  BY ChainOf, ClientOf
<1>2. /\ fr[d].at # "none" /\ (d # 1 => fr[d - 1].at = "none")
      /\ SetFrame(c, d, NoFrame) /\ UNCHANGED client
  BY DEF Cancelled, Present
<1>3. Told(providers, cl) /\ cl # Idle
  BY <1>1, <1>2 DEF Search, Searching
<1>4. d # 1 => fr[d - 1].at \in {"none", "streaming"}
  BY <1>2
<1>5. Search(providers, cl, [fr EXCEPT ![d] = NoFrame])
  BY <1>1, <1>3, <1>4, EndsSearching
<1> QED BY <1>2, <1>5, FrameStep

LEMMA ForwardSearches ==
  ASSUME IInv, SearchInv, UNCHANGED providers, NEW c \in Clients, NEW d \in Depths,
         NEW q \in Gateways, Forward(c, d, q)
  PROVE  SearchInv'
<1> DEFINE fr == frame[c]
           cl == client[c]
           f == fr[d]
           w == Waiting(f, q)
           h == Arriving(q, Append(f.trace, Instance[f.gateway]))
           gr == [fr EXCEPT ![d] = w, ![d + 1] = h]
<1>1. Chain(fr) /\ Search(providers, cl, fr)
  BY ChainOf, ClientOf
<1>2. f.at = "trying" /\ d + 1 \in Depths /\ q \in providers[f.gateway] /\ q # Full
  BY RingAssumption DEF Forward
<1>3. frame' = [frame EXCEPT ![c] = gr] /\ client' = [client EXCEPT ![c] = cl]
  BY <1>2 DEF Forward, IInv, WayInv, SearchInv
<1>4. f \in Request /\ d \in Nat
  BY <1>1, <1>2, DepthsAreNat DEF Chain, Good
<1>5. /\ w.trace = f.trace /\ w.gateway = f.gateway /\ w.at = "waiting" /\ w.past = f.past \cup {q}
      /\ h.at = "arriving" /\ h.gateway = q /\ h.trace = Append(f.trace, Instance[f.gateway]) /\ h.past = {}
  BY <1>4 DEF Waiting, Arriving, Request
<1>6. Searching(providers, cl, fr, d)
  BY <1>1, <1>2 DEF Search
<1>7. \A e \in Depths : e > d => fr[e].at = "none"
  BY <1>1, <1>2 DEF Chain, Before
<1>8. gr[d] = w /\ gr[d + 1] = h /\ \A e \in Depths : e # d /\ e # d + 1 => gr[e] = fr[e]
  BY <1>1, <1>2, <1>4 DEF Chain
<1> HIDE DEF w, h, gr
<1>9. Searching(providers, cl, gr, d)
  <2>1. Behind(gr, d) /\ Serves(providers, h, w)
    BY <1>2, <1>5, <1>8 DEF Behind, Serves
  <2>2. ~Behind(fr, d)
    BY <1>4, <1>7 DEF Behind
  <2> QED BY <1>2, <1>5, <1>6, <1>8, <2>1, <2>2 DEF Searching
<1>10. Searching(providers, cl, gr, d + 1)
  <2>1. ~Behind(gr, d + 1)
    BY <1>4, <1>7, <1>8, DepthsAreNat DEF Behind
  <2>2. d + 1 # 1 /\ cl # Idle
    BY <1>4, <1>6, DepthsAreNat DEF Searching
  <2> QED BY <1>5, <1>8, <2>1, <2>2 DEF Searching
<1>11. ASSUME NEW e \in Depths, e # d, e # d + 1, gr[e].at # "none"
       PROVE  Searching(providers, cl, gr, e)
  <2>1. gr[e] = fr[e] /\ Searching(providers, cl, fr, e) /\ e \in Nat
    BY <1>1, <1>8, <1>11, DepthsAreNat DEF Search
  <2>2. CASE e + 1 # d
    <3>1. e + 1 # d + 1
      BY <1>4, <1>11, <2>1
    <3>2. e + 1 \in Depths => gr[e + 1] = fr[e + 1]
      BY <1>8, <2>2, <3>1
    <3> QED BY <2>1, <3>2 DEF Searching, Behind
  <2>3. CASE e + 1 = d
    <3>1. Behind(fr, e) /\ Behind(gr, e) /\ gr[e + 1] = w /\ fr[e + 1].gateway = w.gateway
      BY <1>2, <1>5, <1>8, <2>3 DEF Behind
    <3>2. Serves(providers, f, fr[e])
      BY <2>1, <2>3, <3>1 DEF Searching
    <3>3. Serves(providers, w, gr[e])
      BY <1>2, <1>5, <2>1, <3>2 DEF Serves
    <3> QED BY <2>1, <3>1, <3>3 DEF Searching
  <2> QED BY <2>2, <2>3
<1>12. Search(providers, cl, gr)
  BY <1>1, <1>9, <1>10, <1>11 DEF Search
<1> HIDE DEF cl
<1> QED BY <1>3, <1>12, ClientSteps

LEMMA AskSearches ==
  ASSUME IInv, SearchInv, UNCHANGED providers, NEW c \in Clients, NEW g \in Gateways, Ask(c, g)
  PROVE  SearchInv'
<1> DEFINE fr == frame[c]
           h == Arriving(g, <<>>)
           dl == [at |-> "asking", entry |-> g, crowded |-> FALSE, passed |-> {}]
           gr == [fr EXCEPT ![1] = h]
<1>1. client' = [client EXCEPT ![c] = dl] /\ frame' = [frame EXCEPT ![c] = gr]
      /\ \A d \in Depths : fr[d].at = "none"
  BY DEF Ask, SetFrame, SearchInv, IInv, WayInv, Present
<1>2. /\ dl.at = "asking" /\ dl.entry = g /\ dl # Idle /\ dl \in ClientStates
      /\ h.at = "arriving" /\ h.gateway = g /\ h.past = {}
  <2>1. dl \in ClientStates
    BY DEF ClientStates
  <2>2. dl # Idle
    <3>1. dl.at # Idle.at
      BY DEF Idle
    <3> QED BY <3>1
  <2> QED BY <2>1, <2>2 DEF Arriving
<1>3. gr[1] = h /\ \A d \in Depths : d # 1 => gr[d].at = "none"
  BY <1>1, DepthsAreNat, ChainOf DEF Chain
<1> HIDE DEF h, dl, gr
<1>4. ~Behind(gr, 1)
  BY <1>3 DEF Behind
<1>5. Searching(providers, dl, gr, 1)
  BY <1>2, <1>3, <1>4 DEF Searching
<1>6. Search(providers, dl, gr)
  BY <1>2, <1>3, <1>5 DEF Search, Told
<1> QED BY <1>1, <1>6, ClientSteps

LEMMA DepartSearches ==
  ASSUME IInv, SearchInv, UNCHANGED providers, NEW c \in Clients, Depart(c) \/ Again(c)
  PROVE  SearchInv'
<1> DEFINE fr == frame[c]
           cl == client[c]
<1>1. Search(providers, cl, fr) /\ cl \in ClientStates
  BY ClientOf
<1>2. frame' = [frame EXCEPT ![c] = fr]
  BY DEF Depart, Again, IInv, WayInv
<1>3. CASE Depart(c)
  <2> DEFINE dl == [cl EXCEPT !.at = "gone"]
  <2>1. client' = [client EXCEPT ![c] = dl] /\ cl.at = "asking"
    BY <1>3 DEF Depart, SearchInv
  <2>2. cl \in [at : {"asking", "gone", "found", "failed"}, entry : Gateways,
                crowded : BOOLEAN, passed : SUBSET Links]
    BY <1>1, <2>1 DEF ClientStates, Idle
  <2>3. dl \in [at : {"asking", "gone", "found", "failed"}, entry : Gateways,
                crowded : BOOLEAN, passed : SUBSET Links]
    BY <2>2
  <2>4. dl.at = "gone" /\ dl.entry = cl.entry /\ dl.crowded = cl.crowded /\ dl.passed = cl.passed
    BY <2>2
  <2> HIDE DEF dl
  <2>5. dl \in ClientStates /\ dl # Idle
    BY <2>3, <2>4 DEF ClientStates, Idle
  <2>6. ASSUME NEW d \in Depths, fr[d].at # "none"
        PROVE  Searching(providers, dl, fr, d)
    BY <1>1, <2>4, <2>5, <2>6 DEF Search, Searching, Left
  <2>7. Search(providers, dl, fr)
    BY <2>4, <2>5, <2>6 DEF Search, Told
  <2> HIDE DEF fr
  <2> QED BY <1>2, <2>1, <2>7, ClientSteps
<1>4. CASE Again(c)
  <2>1. client' = [client EXCEPT ![c] = Idle] /\ \A d \in Depths : fr[d].at = "none"
    BY <1>4 DEF Again, Present
  <2>2. Idle \in ClientStates /\ Idle.at = "idle"
    BY DEF ClientStates, Idle
  <2>3. Search(providers, Idle, fr)
    BY <2>1, <2>2 DEF Search, Told
  <2> HIDE DEF fr
  <2> QED BY <1>2, <2>1, <2>3, ClientSteps
<1> QED BY <1>3, <1>4

LEMMA SearchInit == Init => SearchInv
<1> SUFFICES ASSUME Init PROVE SearchInv
  OBVIOUS
<1>1. Idle \in ClientStates /\ Idle.at = "idle"
  BY DEF ClientStates, Idle
<1>2. \A c \in Clients : Search(providers, client[c], frame[c])
  BY <1>1, NoFrameIsNone DEF Init, Search, Told
<1> QED BY <1>1, <1>2 DEF Init, SearchInv

LEMMA SearchStep == IInv /\ SearchInv /\ [Next]_vars => SearchInv'
<1> SUFFICES ASSUME IInv, SearchInv, [Next]_vars PROVE SearchInv'
  OBVIOUS
<1>1. CASE UNCHANGED vars
  <2>1. UNCHANGED <<providers, client, frame>>
    BY <1>1 DEF vars, state
  <2> QED BY <2>1 DEF SearchInv
<1>2. CASE Next
  <2>1. UNCHANGED providers
    BY <1>2 DEF Next
  <2>2. ASSUME NEW c \in Clients, NEW g \in Gateways, Ask(c, g) PROVE SearchInv'
    BY <2>1, <2>2, AskSearches
  <2>3. ASSUME NEW c \in Clients, Depart(c) \/ Again(c) PROVE SearchInv'
    BY <2>1, <2>3, DepartSearches
  <2>4. ASSUME NEW c \in Clients, NEW d \in Depths, Moves(c, d) \/ Handed(c, d) \/ OverLimit(c, d)
      PROVE SearchInv'
    <3>1. ASSUME NEW q \in {Full, Empty}, AskRegistry(c, d, q) PROVE SearchInv'
      BY <2>1, <3>1, RegistrySearches
    <3>2. ASSUME NEW q \in Gateways, Forward(c, d, q) PROVE SearchInv'
      BY <2>1, <3>2, ForwardSearches
    <3> QED BY <2>1, <2>4, <3>1, <3>2, InboundSearches, PoolSearches, OpenedSearches,
               ExhaustedSearches, FinishedSearches, CancelledSearches, LimitSearches DEF Moves
  <2> QED BY <1>2, <2>2, <2>3, <2>4 DEF Next
<1> QED BY <1>1, <1>2

\* A way leads on if the content is within reach of one who comes with no trace.
LEMMA LeadsReach ==
  ASSUME NEW net, NEW g
  PROVE  LeadsOn(net, g) <=> Reach(net, g, <<>>, MaxHops)
<1>1. \A x : ~Has(<<>>, x)
  BY DEF Has
<1> QED BY <1>1 DEF Reach, Way, LeadsOn

LEMMA SearchFinds == SearchInv => FoundIfReachable
  BY LeadsReach DEF SearchInv, Search, Told, Left, FoundIfReachable

\* In any network, whatever instance IDs the gateways have and whatever Providers are
\* held out at which listing: a client is served only if a way without loops and within
\* the hop limit leads to the content; if a limit turned none of its requests away it
\* fails only if no such way is left without the Providers that were held out for it
\* (guard.go:50-89, router.go:384-437, health.go:283-288, request_limit.go:13-20).
THEOREM ContentIsFoundIfReachable == Spec => []FoundIfReachable
<1> DEFINE Inv == IInv /\ SearchInv
<1>1. Init => Inv
  BY WayInit, SearchInit
<1>2. Inv /\ [Next]_vars => Inv'
  BY WayStep, SearchStep
<1>3. Inv => FoundIfReachable
  BY SearchFinds
<1> QED BY <1>1, <1>2, <1>3, PTL DEF Spec
==============================================================================
