--------------------------- MODULE SwitcherProofs ---------------------------
(***************************************************************************)
(* The safety of the Switcher for any number of requests and any limits:   *)
(* the counters are exact, so the limits hold, and every step implements   *)
(* a step of PullAdmission.                                                *)
(*                                                                         *)
(* And of the event log, for any processes that write it and any number of *)
(* days and events and any limits: a follower is shown no event twice, and *)
(* the files stay within the size that cleanups leave, though processes    *)
(* append while others clean up.                                           *)
(***************************************************************************)
EXTENDS Switcher, EventLog, FiniteSetTheorems, SequenceTheorems, WellFoundedInduction, TLAPS

\* What a step that moves one request adds to the number of requests at S.
Delta(from, to, S) == (IF to \in S THEN 1 ELSE 0) - (IF from \in S THEN 1 ELSE 0)

\* A place set holds finitely many requests.
LEMMA AtFinite ==
    ASSUME NEW S
    PROVE  IsFiniteSet(At(S)) /\ Cardinality(At(S)) \in Nat
BY FS_Subset, FS_CardinalityType, SwitcherAssumption DEF At, SwitcherAssumption

\* At a place set, only the request that moves comes or goes.
LEMMA AtMove ==
    ASSUME pc \in [Requests -> PCs], NEW r \in Requests, NEW from, NEW to,
           Goto(r, from, to), NEW S
    PROVE  /\ At(S)' = IF to \in S THEN At(S) \cup {r} ELSE At(S) \ {r}
           /\ r \in At(S) <=> from \in S
BY DEF At, Goto

\* Hence the number of requests there changes by Delta.
LEMMA CountMove ==
    ASSUME pc \in [Requests -> PCs], NEW r \in Requests, NEW from, NEW to,
           Goto(r, from, to), NEW S
    PROVE  Cardinality(At(S))' = Cardinality(At(S)) + Delta(from, to, S)
<1>1. IsFiniteSet(At(S)) /\ Cardinality(At(S)) \in Nat
  BY AtFinite
<1>2. /\ At(S)' = IF to \in S THEN At(S) \cup {r} ELSE At(S) \ {r}
      /\ r \in At(S) <=> from \in S
  BY AtMove
<1>3. CASE to \in S
  <2>1. At(S)' = At(S) \cup {r}
    BY <1>2, <1>3
  <2>2. Cardinality(At(S) \cup {r}) = IF r \in At(S) THEN Cardinality(At(S))
                                                    ELSE Cardinality(At(S)) + 1
    BY <1>1, FS_AddElement
  <2>. QED BY <1>1, <1>2, <1>3, <2>1, <2>2 DEF Delta
<1>4. CASE to \notin S
  <2>1. At(S)' = At(S) \ {r}
    BY <1>2, <1>4
  <2>2. Cardinality(At(S) \ {r}) = IF r \in At(S) THEN Cardinality(At(S)) - 1
                                                  ELSE Cardinality(At(S))
    BY <1>1, FS_RemoveElement
  <2>. QED BY <1>1, <1>2, <1>4, <2>1, <2>2 DEF Delta
<1>. QED BY <1>3, <1>4

-----------------------------------------------------------------------------
Busy == PCs \ {"idle"}
Streaming == {"streaming", "closing"}

\* A step that moves r and adjusts the four counters to match.
Moves(r, from, to) ==
    /\ Goto(r, from, to)
    /\ inflight' = inflight + Delta(from, to, Busy)
    /\ slots' = slots + Delta(from, to, Holding)
    /\ queued' = queued + Delta(from, to, Counted)
    /\ active' = active + Delta(from, to, Streaming)

\* The inductive invariant: exact counters make the limits on the counters
\* limits on requests, and keep every decrement above zero.
IInv ==
    /\ TypeOK
    /\ Accounting
    /\ inflight <= MaxInflightRequests
    /\ slots <= MaxConcurrentPulls
    /\ WaitersBounded

\* Such a step keeps the counters exact, and therefore natural numbers.
LEMMA MovesKeepAccounting ==
    ASSUME IInv, NEW r \in Requests, NEW from \in PCs, NEW to \in PCs,
           Moves(r, from, to)
    PROVE  /\ Accounting'
           /\ pc' \in [Requests -> PCs]
           /\ inflight' \in Nat /\ slots' \in Nat /\ queued' \in Nat /\ active' \in Nat
<1>1. pc \in [Requests -> PCs] /\ Goto(r, from, to) /\ pc' \in [Requests -> PCs]
  BY DEF IInv, TypeOK, Moves, Goto
<1>2. /\ Cardinality(At(Busy))' = Cardinality(At(Busy)) + Delta(from, to, Busy)
      /\ Cardinality(At(Holding))' = Cardinality(At(Holding)) + Delta(from, to, Holding)
      /\ Cardinality(At(Counted))' = Cardinality(At(Counted)) + Delta(from, to, Counted)
      /\ Cardinality(At(Streaming))' = Cardinality(At(Streaming)) + Delta(from, to, Streaming)
  BY <1>1, CountMove
<1>3. Accounting'
  BY <1>2 DEF IInv, Accounting, Moves, Busy, Streaming
<1>4. \A S : Cardinality(At(S))' \in Nat
  <2>. TAKE S
  <2>1. At(S)' \subseteq Requests
    BY DEF At
  <2>. QED BY <2>1, FS_Subset, FS_CardinalityType, SwitcherAssumption DEF SwitcherAssumption
<1>. QED BY <1>1, <1>3, <1>4 DEF Accounting

\* A request that goes anywhere but to "waiting" adds no waiter.
LEMMA MovesKeepWaiters ==
    ASSUME IInv, NEW r \in Requests, NEW from, NEW to, Goto(r, from, to),
           to # "waiting"
    PROVE  WaitersBounded'
<1>1. Cardinality(At({"waiting"}))' = Cardinality(At({"waiting"})) + Delta(from, to, {"waiting"})
  BY CountMove DEF IInv, TypeOK
<1>2. Cardinality(At({"waiting"})) \in Nat
  BY AtFinite
<1>. QED BY <1>1, <1>2, SwitcherAssumption DEF Delta, IInv, WaitersBounded, SwitcherAssumption

\* Enqueue lets a request wait only while it counts at most MaxQueuedPulls.
LEMMA EnqueueKeepsWaiters ==
    ASSUME IInv, NEW r \in Requests, Enqueue(r)
    PROVE  WaitersBounded'
<1>1. CASE queued + 1 > MaxQueuedPulls
  BY <1>1, MovesKeepWaiters DEF Enqueue
<1>2. CASE ~(queued + 1 > MaxQueuedPulls)
  <2>1. At({"waiting"})' \subseteq At(Counted)'
    BY DEF At, Counted
  <2>2. Cardinality(At(Counted))' = queued + 1
    <3>1. Goto(r, "enqueueing", "waiting")
      BY <1>2 DEF Enqueue
    <3>2. Cardinality(At(Counted))' = Cardinality(At(Counted)) + Delta("enqueueing", "waiting", Counted)
      BY <3>1, CountMove DEF IInv, TypeOK
    <3>. QED BY <3>2 DEF Delta, Counted, IInv, Accounting, TypeOK
  <2>3. IsFiniteSet(At(Counted)')
    <3>1. At(Counted)' \subseteq Requests
      BY DEF At
    <3>. QED BY <3>1, FS_Subset, SwitcherAssumption DEF SwitcherAssumption
  <2>4. /\ Cardinality(At({"waiting"})') \in Nat
        /\ Cardinality(At({"waiting"})') <= Cardinality(At(Counted)')
    BY <2>1, <2>3, FS_Subset, FS_CardinalityType
  <2>. QED BY <1>2, <2>2, <2>4, SwitcherAssumption
           DEF WaitersBounded, SwitcherAssumption, IInv, TypeOK
<1>. QED BY <1>1, <1>2
-----------------------------------------------------------------------------
\* How each action of a request moves it; where there is a choice, "to" names it.
LEMMA RequestMoves ==
    ASSUME IInv, NEW r \in Requests, Request(r)
    PROVE  \E from, to \in PCs :
             /\ Moves(r, from, to)
             /\ (to = "waiting" => Enqueue(r))
<1>. USE DEF Moves, Delta, Busy, Holding, Counted, Streaming, PCs
<1>. USE DEF IInv, TypeOK
<1>1. CASE Arrive(r)
  <2>. Moves(r, "idle", "entered") BY <1>1 DEF Arrive, control
  <2>. QED OBVIOUS
<1>2. CASE Leave(r)
  <2>. Moves(r, "leaving", "idle") BY <1>2 DEF Leave, control
  <2>. QED OBVIOUS
<1>3. CASE ManifestBegin(r)
  <2>. Moves(r, "entered", IF accepting THEN "manifest" ELSE "leaving")
    BY <1>3 DEF ManifestBegin, counters, control
  <2>. QED OBVIOUS
<1>4. CASE ManifestEnd(r)
  <2>. Moves(r, "manifest", "leaving") BY <1>4 DEF ManifestEnd, counters, control
  <2>. QED OBVIOUS
<1>5. CASE BlobBegin(r)
  <2>. Moves(r, "entered", IF accepting THEN "acquiring" ELSE "leaving")
    BY <1>5 DEF BlobBegin, counters, control
  <2>. QED OBVIOUS
<1>6. CASE TakeFreeSlot(r)
  <2>. Moves(r, "acquiring", "admitted") BY <1>6 DEF TakeFreeSlot, control
  <2>. QED OBVIOUS
<1>7. CASE NoFreeSlot(r)
  <2>. Moves(r, "acquiring", "enqueueing") BY <1>7 DEF NoFreeSlot, counters, control
  <2>. QED OBVIOUS
<1>8. CASE Enqueue(r)
  <2>. Moves(r, "enqueueing", IF queued + 1 > MaxQueuedPulls THEN "overflow" ELSE "waiting")
    BY <1>8 DEF Enqueue, control
  <2>. QED BY <1>8
<1>9. CASE RejectOverflow(r)
  <2>. Moves(r, "overflow", "leaving") BY <1>9 DEF RejectOverflow, control
  <2>. QED OBVIOUS
<1>10. CASE WinSlot(r)
  <2>. Moves(r, "waiting", "granted") BY <1>10 DEF WinSlot, control
  <2>. QED OBVIOUS
<1>11. CASE Dequeue(r)
  <2>. Moves(r, "granted", "admitted") BY <1>11 DEF Dequeue, control
  <2>. QED OBVIOUS
<1>12. CASE CancelWait(r) \/ StopWait(r)
  <2>. Moves(r, "waiting", "giveup") BY <1>12 DEF CancelWait, StopWait, counters, control
  <2>. QED OBVIOUS
<1>13. CASE GiveUp(r)
  <2>. Moves(r, "giveup", "leaving") BY <1>13 DEF GiveUp, control
  <2>. QED OBVIOUS
<1>14. CASE Recheck(r)
  <2>. Moves(r, "admitted", IF accepting THEN "opening" ELSE "releasing")
    BY <1>14 DEF Recheck, counters, control
  <2>. QED OBVIOUS
<1>15. CASE OpenFails(r)
  <2>. Moves(r, "opening", "releasing") BY <1>15 DEF OpenFails, counters, control
  <2>. QED OBVIOUS
<1>16. CASE OpenSucceeds(r)
  <2>. Moves(r, "opening", "opened") BY <1>16 DEF OpenSucceeds, counters, control
  <2>. QED OBVIOUS
<1>17. CASE CountActive(r)
  <2>. Moves(r, "opened", "streaming") BY <1>17 DEF CountActive, control
  <2>. QED OBVIOUS
<1>18. CASE CloseReader(r)
  <2>. Moves(r, "streaming", "closing") BY <1>18 DEF CloseReader, counters, control
  <2>. QED OBVIOUS
<1>19. CASE UncountActive(r)
  <2>. Moves(r, "closing", "releasing") BY <1>19 DEF UncountActive, control
  <2>. QED OBVIOUS
<1>20. CASE ReleasePull(r)
  <2>. Moves(r, "releasing", "leaving") BY <1>20 DEF ReleasePull, control
  <2>. QED OBVIOUS
<1>. QED
  BY <1>1, <1>2, <1>3, <1>4, <1>5, <1>6, <1>7, <1>8, <1>9, <1>10, <1>11, <1>12,
     <1>13, <1>14, <1>15, <1>16, <1>17, <1>18, <1>19, <1>20
     DEF Request, Blob, AcquirePull

\* What a request's step leaves alone, and how it respects the two channels.
LEMMA RequestFrame ==
    ASSUME IInv, NEW r \in Requests, Request(r)
    PROVE  /\ UNCHANGED <<backend, accepting, closing, stopping>>
           /\ captured' \in [Requests -> 0..MaxReplacements]
           /\ inflight' <= MaxInflightRequests
           /\ slots' <= MaxConcurrentPulls
BY SwitcherAssumption
   DEF SwitcherAssumption, IInv, TypeOK, Request, Blob, AcquirePull, control, counters,
       Arrive, Leave, ManifestBegin, ManifestEnd, BlobBegin, TakeFreeSlot, NoFreeSlot,
       Enqueue, RejectOverflow, WinSlot, Dequeue, CancelWait, StopWait, GiveUp, Recheck,
       OpenFails, OpenSucceeds, CountActive, CloseReader, UncountActive, ReleasePull

-----------------------------------------------------------------------------
\* The inductive invariant holds at the start.
LEMMA IInvInit == Init => IInv
<1>. SUFFICES ASSUME Init PROVE IInv
  OBVIOUS
<1>1. \A S \in SUBSET (PCs \ {"idle"}) : At(S) = {}
  BY DEF Init, At, PCs
<1>2. /\ At(PCs \ {"idle"}) = {} /\ At(Holding) = {} /\ At(Counted) = {}
      /\ At({"streaming", "closing"}) = {} /\ At({"waiting"}) = {}
  BY <1>1 DEF PCs, Holding, Counted
<1>3. TypeOK
  <2>1. accepting \in BOOLEAN /\ closing \in BOOLEAN /\ stopping \in BOOLEAN
    BY Zenon DEF Init
  <2>2. /\ pc \in [Requests -> PCs]
        /\ captured \in [Requests -> 0..MaxReplacements]
        /\ backend \in 0..MaxReplacements
        /\ inflight \in Nat /\ slots \in Nat /\ queued \in Nat /\ active \in Nat
    BY SwitcherAssumption DEF SwitcherAssumption, Init, PCs
  <2>. QED BY <2>1, <2>2 DEF TypeOK
<1>. QED
  BY <1>2, <1>3, FS_EmptySet, SwitcherAssumption
     DEF SwitcherAssumption, Init, IInv, Accounting, WaitersBounded

\* A request's step keeps the inductive invariant.
LEMMA IInvRequest ==
    ASSUME IInv, NEW r \in Requests, Request(r)
    PROVE  IInv'
<1>1. PICK from \in PCs, to \in PCs : Moves(r, from, to) /\ (to = "waiting" => Enqueue(r))
  BY RequestMoves
<1>2. /\ Accounting'
      /\ pc' \in [Requests -> PCs]
      /\ inflight' \in Nat /\ slots' \in Nat /\ queued' \in Nat /\ active' \in Nat
  BY <1>1, MovesKeepAccounting
<1>3. WaitersBounded'
  <2>1. CASE to = "waiting" BY <1>1, <2>1, EnqueueKeepsWaiters
  <2>2. CASE to # "waiting" BY <1>1, <2>2, MovesKeepWaiters DEF Moves
  <2>. QED BY <2>1, <2>2
<1>4. /\ UNCHANGED <<backend, accepting, closing, stopping>>
      /\ captured' \in [Requests -> 0..MaxReplacements]
      /\ inflight' <= MaxInflightRequests
      /\ slots' <= MaxConcurrentPulls
  BY RequestFrame
<1>5. TypeOK'
  BY <1>2, <1>4 DEF IInv, TypeOK
<1>. QED BY <1>2, <1>3, <1>4, <1>5 DEF IInv

\* Every step keeps the inductive invariant.
LEMMA IInvNext == IInv /\ [Next]_vars => IInv'
<1>. SUFFICES ASSUME IInv, [Next]_vars PROVE IInv'
  OBVIOUS
<1>1. CASE \E r \in Requests : Request(r)
  BY <1>1, IInvRequest
<1>2. CASE Replace \/ StopFlag \/ StopClose \/ UNCHANGED vars
  <2>1. UNCHANGED <<pc, inflight, slots, queued, active, captured>>
    BY <1>2 DEF Replace, StopFlag, StopClose, vars, counters
  <2>2. TypeOK'
    <3>1. accepting' \in BOOLEAN /\ closing' \in BOOLEAN /\ stopping' \in BOOLEAN
      BY <1>2, Zenon DEF IInv, TypeOK, Replace, StopFlag, StopClose, vars
    <3>2. backend' \in 0..MaxReplacements
      BY <1>2, SwitcherAssumption
         DEF IInv, TypeOK, SwitcherAssumption, Replace, StopFlag, StopClose, vars
    <3>. QED BY <2>1, <3>1, <3>2 DEF IInv, TypeOK
  <2>3. Accounting' /\ WaitersBounded'
    BY <2>1 DEF IInv, Accounting, WaitersBounded, At
  <2>. QED BY <2>1, <2>2, <2>3 DEF IInv
<1>. QED BY <1>1, <1>2 DEF Next

\* The inductive invariant holds in every reachable state.
THEOREM Invariance == Spec => []IInv
BY IInvInit, IInvNext, PTL DEF Spec

\* Type correctness of the Switcher (runtime.go:17-27): in particular no
\* counter ever goes below zero.
THEOREM TypeCorrect == Spec => []TypeOK
BY Invariance, PTL DEF IInv

\* Every slot, queue place and active count of runtime.go:83-144 is given back
\* exactly once on every path, for any number of requests and any limits.
THEOREM ExactAccounting == Spec => []Accounting
BY Invariance, PTL DEF IInv

\* max_queued_pulls bounds the waiting pulls (runtime.go:123-129).
THEOREM BoundedWaiters == Spec => []WaitersBounded
BY Invariance, PTL DEF IInv

\* max_concurrent_pulls bounds the pulls that reach an upstream
\* (runtime.go:94-110).
THEOREM BoundedUpstream == Spec => []UpstreamBounded
<1>1. IInv => UpstreamBounded
  <2>. SUFFICES ASSUME IInv PROVE UpstreamBounded
    OBVIOUS
  <2>1. At(Upstream) \subseteq At(Holding) /\ IsFiniteSet(At(Holding))
    BY AtFinite DEF At, Upstream, Holding
  <2>2. /\ Cardinality(At(Upstream)) \in Nat
        /\ Cardinality(At(Upstream)) <= Cardinality(At(Holding))
    BY <2>1, FS_Subset, AtFinite
  <2>. QED BY <2>2, AtFinite, SwitcherAssumption
           DEF IInv, Accounting, UpstreamBounded, SwitcherAssumption
<1>. QED BY <1>1, Invariance, PTL

\* After StopAccepting no pull reaches an upstream any more (runtime.go:97-100).
THEOREM StopIsFinal == Spec => NoPullAfterStop
<1>1. ASSUME IInv, [Next]_vars, ~accepting
      PROVE  At(Upstream)' \subseteq At(Upstream)
  <2>1. CASE \E r \in Requests : Request(r)
    <3>1. PICK r \in Requests : Request(r)
      BY <2>1
    <3>2. \A q \in Requests : pc'[q] \in Upstream => pc[q] \in Upstream
      BY <1>1, <3>1
         DEF IInv, TypeOK, Upstream, Goto, Request, Blob, AcquirePull,
             Arrive, Leave, ManifestBegin, ManifestEnd, BlobBegin, TakeFreeSlot,
             NoFreeSlot, Enqueue, RejectOverflow, WinSlot, Dequeue, CancelWait,
             StopWait, GiveUp, Recheck, OpenFails, OpenSucceeds, CountActive,
             CloseReader, UncountActive, ReleasePull
    <3>. QED BY <3>2 DEF At
  <2>2. CASE Replace \/ StopFlag \/ StopClose \/ UNCHANGED vars
    BY <2>2 DEF At, Replace, StopFlag, StopClose, vars
  <2>. QED BY <1>1, <2>1, <2>2 DEF Next
<1>. QED BY <1>1, Invariance, PTL DEF Spec, NoPullAfterStop


\* A pull is refused for a full queue only when MaxQueuedPulls requests are
\* counted in it (runtime.go:123-128).
THEOREM RefusedOnlyWhenCrowded == Spec => RejectedOnlyWhenCrowded
<1>1. ASSUME IInv, [Next]_vars, NEW r \in Requests,
             pc[r] = "enqueueing", pc'[r] = "overflow"
      PROVE  Cardinality(At(Counted)) >= MaxQueuedPulls
  <2>1. CASE \E q \in Requests : Request(q)
    <3>1. PICK q \in Requests : Request(q)
      BY <2>1
    <3>2. queued + 1 > MaxQueuedPulls
      BY <1>1, <3>1
         DEF IInv, TypeOK, Goto, Request, Blob, AcquirePull,
             Arrive, Leave, ManifestBegin, ManifestEnd, BlobBegin, TakeFreeSlot,
             NoFreeSlot, Enqueue, RejectOverflow, WinSlot, Dequeue, CancelWait,
             StopWait, GiveUp, Recheck, OpenFails, OpenSucceeds, CountActive,
             CloseReader, UncountActive, ReleasePull
    <3>. QED BY <1>1, <3>2, SwitcherAssumption
             DEF IInv, TypeOK, Accounting, SwitcherAssumption
  <2>2. CASE Replace \/ StopFlag \/ StopClose \/ UNCHANGED vars
    BY <1>1, <2>2 DEF Replace, StopFlag, StopClose, vars
  <2>. QED BY <1>1, <2>1, <2>2 DEF Next
<1>2. IInv /\ [Next]_vars
        => \A r \in Requests : pc[r] = "enqueueing" /\ pc'[r] = "overflow"
                                 => Cardinality(At(Counted)) >= MaxQueuedPulls
  BY <1>1
<1>. QED BY <1>2, Invariance, PTL DEF Spec, RejectedOnlyWhenCrowded

-----------------------------------------------------------------------------
\* The instance counts with the same Cardinality.
LEMMA SameCardinality ==
    ASSUME NEW S
    PROVE  Admission!Cardinality(S) = Cardinality(S)
BY DEF Admission!Cardinality, Cardinality

\* Every step of a request is a step of the abstract admission, or none.
LEMMA RequestImplements ==
    ASSUME IInv, NEW r \in Requests, Request(r)
    PROVE  Admission!Next \/ UNCHANGED Admission!vars
<1>. DEFINE moved(from, to) ==
       /\ At(Holding)' = IF to \in Holding THEN At(Holding) \cup {r} ELSE At(Holding) \ {r}
       /\ At({"waiting"})' = IF to = "waiting" THEN At({"waiting"}) \cup {r}
                                               ELSE At({"waiting"}) \ {r}
       /\ At(Upstream)' = IF to \in Upstream THEN At(Upstream) \cup {r} ELSE At(Upstream) \ {r}
       /\ r \in At(Holding) <=> from \in Holding
       /\ r \in At({"waiting"}) <=> from = "waiting"
       /\ r \in At(Upstream) <=> from \in Upstream
<1>0. ASSUME NEW from, NEW to, Goto(r, from, to) PROVE moved(from, to)
  <2>1. pc \in [Requests -> PCs]
    BY DEF IInv, TypeOK
  <2>2. \A S : /\ At(S)' = IF to \in S THEN At(S) \cup {r} ELSE At(S) \ {r}
               /\ r \in At(S) <=> from \in S
    BY <1>0, <2>1, AtMove
  <2>3. to \in {"waiting"} <=> to = "waiting"
    OBVIOUS
  <2>4. from \in {"waiting"} <=> from = "waiting"
    OBVIOUS
  <2>. HIDE <1>0
  <2>. QED BY <2>2, <2>3, <2>4, Zenon
<1>. UNCHANGED accepting
  BY RequestFrame
<1>. HIDE DEF moved
<1>1. CASE TakeFreeSlot(r) \/ WinSlot(r)
  <2>1. moved("acquiring", "admitted") \/ moved("waiting", "granted")
    BY <1>0, <1>1 DEF TakeFreeSlot, WinSlot
  <2>2. Cardinality(At(Holding)) < MaxConcurrentPulls
    BY <1>1 DEF IInv, Accounting, TakeFreeSlot, WinSlot
  <2>3. /\ r \notin At(Holding)
        /\ At(Holding)' = At(Holding) \cup {r}
        /\ At({"waiting"})' = At({"waiting"}) \ {r}
        /\ At(Upstream)' = At(Upstream)
    BY <2>1 DEF moved, Holding, Upstream
  <2>4. Admission!Reserve(r)
    BY <2>2, <2>3, SameCardinality, Zenon DEF Admission!Reserve
  <2>. QED BY <2>4, Zenon DEF Admission!Next
<1>2. CASE Enqueue(r)
  <2>1. moved("enqueueing", "overflow") \/ moved("enqueueing", "waiting")
    BY <1>0, <1>2 DEF Enqueue
  <2>2. CASE moved("enqueueing", "overflow")
    BY <2>2 DEF moved, Holding, Upstream, Admission!vars
  <2>3. CASE moved("enqueueing", "waiting") /\ ~moved("enqueueing", "overflow")
    <3>1. Goto(r, "enqueueing", "waiting")
      BY <1>0, <1>2, <2>3 DEF Enqueue
    <3>2. Cardinality(At({"waiting"}))'
            = Cardinality(At({"waiting"})) + Delta("enqueueing", "waiting", {"waiting"})
      BY <3>1, CountMove DEF IInv, TypeOK
    <3>3. WaitersBounded'
      BY <1>2, EnqueueKeepsWaiters
    <3>4. Cardinality(At({"waiting"})) \in Nat
      BY AtFinite
    <3>5. Cardinality(At({"waiting"})) < MaxQueuedPulls
      BY <3>2, <3>3, <3>4, SwitcherAssumption DEF WaitersBounded, Delta, SwitcherAssumption
    <3>6. /\ r \notin At(Holding) \cup At({"waiting"})
          /\ At(Holding)' = At(Holding)
          /\ At({"waiting"})' = At({"waiting"}) \cup {r}
          /\ At(Upstream)' = At(Upstream)
      BY <2>3 DEF moved, Holding, Upstream
    <3>7. Admission!Queue(r)
      BY <3>5, <3>6, SameCardinality, Zenon DEF Admission!Queue
    <3>. QED BY <3>7, Zenon DEF Admission!Next
  <2>. QED BY <2>1, <2>2, <2>3
<1>3. CASE CancelWait(r) \/ StopWait(r)
  <2>1. moved("waiting", "giveup")
    BY <1>0, <1>3 DEF CancelWait, StopWait
  <2>. QED BY <2>1 DEF moved, Holding, Upstream, Admission!Next, Admission!Abandon
<1>4. CASE Recheck(r)
  <2>1. CASE accepting
    <3>1. moved("admitted", "opening")
      BY <1>0, <1>4, <2>1 DEF Recheck
    <3>. QED BY <2>1, <3>1 DEF moved, Holding, Upstream, Admission!Next, Admission!Serve
  <2>2. CASE ~accepting
    <3>1. moved("admitted", "releasing")
      BY <1>0, <1>4, <2>2 DEF Recheck
    <3>. QED BY <3>1 DEF moved, Holding, Upstream, Admission!vars
  <2>. QED BY <2>1, <2>2
<1>5. CASE OpenFails(r) \/ CloseReader(r)
  <2>1. moved("opening", "releasing") \/ moved("streaming", "closing")
    BY <1>0, <1>5 DEF OpenFails, CloseReader
  <2>. QED BY <2>1 DEF moved, Holding, Upstream, Admission!Next, Admission!EndService
<1>6. CASE ReleasePull(r)
  <2>1. moved("releasing", "leaving")
    BY <1>0, <1>6 DEF ReleasePull
  <2>. QED BY <2>1 DEF moved, Holding, Upstream, Admission!Next, Admission!Release
<1>7. CASE \/ Arrive(r) \/ Leave(r) \/ ManifestBegin(r) \/ ManifestEnd(r) \/ BlobBegin(r)
           \/ NoFreeSlot(r) \/ RejectOverflow(r) \/ Dequeue(r) \/ GiveUp(r)
           \/ OpenSucceeds(r) \/ CountActive(r) \/ UncountActive(r)
  <2>1. \/ moved("idle", "entered") \/ moved("leaving", "idle")
        \/ moved("entered", "manifest") \/ moved("entered", "leaving")
        \/ moved("manifest", "leaving") \/ moved("entered", "acquiring")
        \/ moved("acquiring", "enqueueing") \/ moved("overflow", "leaving")
        \/ moved("granted", "admitted") \/ moved("giveup", "leaving")
        \/ moved("opening", "opened") \/ moved("opened", "streaming")
        \/ moved("closing", "releasing")
    BY <1>0, <1>7
       DEF Arrive, Leave, ManifestBegin, ManifestEnd, BlobBegin, NoFreeSlot,
           RejectOverflow, Dequeue, GiveUp, OpenSucceeds, CountActive, UncountActive
  <2>. QED BY <2>1 DEF moved, Holding, Upstream, Admission!vars
<1>. QED
  BY <1>1, <1>2, <1>3, <1>4, <1>5, <1>6, <1>7 DEF Request, Blob, AcquirePull

\* The Switcher implements PullAdmission: held reservations are the requests
\* between winning a slot and releasing it, and accepting is the open door.
THEOREM Refinement == Spec => ImplementsAdmission
<1>1. Init => Admission!Init
  <2>. SUFFICES ASSUME Init PROVE Admission!Init
    OBVIOUS
  <2>1. At(Holding) = {} /\ At({"waiting"}) = {} /\ At(Upstream) = {}
    BY DEF Init, At, Holding, Upstream
  <2>. QED BY <2>1, Zenon DEF Admission!Init, Init
<1>2. IInv /\ [Next]_vars => [Admission!Next]_Admission!vars
  <2>. SUFFICES ASSUME IInv, [Next]_vars PROVE Admission!Next \/ UNCHANGED Admission!vars
    OBVIOUS
  <2>1. CASE \E r \in Requests : Request(r)
    BY <2>1, RequestImplements
  <2>2. CASE StopFlag
    <3>1. UNCHANGED <<At(Holding), At({"waiting"}), At(Upstream)>>
      BY <2>2 DEF StopFlag, At
    <3>2. accepting' = FALSE
      BY <2>2 DEF StopFlag
    <3>. QED BY <3>1, <3>2 DEF Admission!Next, Admission!Close
  <2>3. CASE Replace \/ StopClose \/ UNCHANGED vars
    BY <2>3 DEF Replace, StopClose, vars, At, Admission!vars
  <2>. QED BY <2>1, <2>2, <2>3 DEF Next
<1>. QED BY <1>1, <1>2, Invariance, PTL DEF Spec, ImplementsAdmission, Admission!Spec

\* For any number of requests and reloads: only the first snapshot of a request takes
\* a backend, so that a pull which waits across a reload is opened on the one it began
\* with (runtime.go:89-142).
THEOREM PullKeepsBackend == Spec => BackendKept
<1>1. ASSUME IInv, [Next]_vars, NEW r \in Requests, pc[r] \notin {"idle", "entered"}
      PROVE  captured'[r] = captured[r]
  <2>1. captured \in [Requests -> 0..MaxReplacements]
    BY <1>1 DEF IInv, TypeOK
  <2>2. ASSUME NEW q \in Requests, ManifestBegin(q) \/ BlobBegin(q)
        PROVE  captured'[r] = captured[r]
    <3>1. pc[q] = "entered" /\ \E b : captured' = [captured EXCEPT ![q] = b]
      BY <2>2 DEF ManifestBegin, BlobBegin, Goto
    <3> QED BY <1>1, <2>1, <3>1
  <2>3. ASSUME NEW q \in Requests, Request(q), ~ManifestBegin(q), ~BlobBegin(q)
        PROVE  captured' = captured
    BY <2>3 DEF Request, Blob, AcquirePull, Arrive, Leave, ManifestEnd, TakeFreeSlot, NoFreeSlot,
                Enqueue, RejectOverflow, WinSlot, Dequeue, CancelWait, StopWait, GiveUp, Recheck,
                OpenFails, OpenSucceeds, CountActive, CloseReader, UncountActive, ReleasePull
  <2>4. Replace \/ StopFlag \/ StopClose \/ UNCHANGED vars => captured' = captured
    BY DEF Replace, StopFlag, StopClose, vars
  <2> QED BY <1>1, <2>2, <2>3, <2>4 DEF Next
<1>2. IInv /\ [Next]_vars =>
          [\A r \in Requests : pc[r] \notin {"idle", "entered"} => captured'[r] = captured[r]]_vars
  BY <1>1
<1> QED BY <1>2, Invariance, PTL DEF Spec, BackendKept

-----------------------------------------------------------------------------
(* Numbers and loops.                                                      *)

\* A set of numbers has a least one, the form in which the library's induction
\* over the natural numbers is used here.
LEMMA LeastNumber ==
    ASSUME NEW T \in SUBSET Nat, T # {}
    PROVE  \E n \in T : \A m \in T : n <= m
  <1> DEFINE less == OpToRel(<, Nat)
  <1>1. IsWellFoundedOn(less, Nat)
    BY NatLessThanWellFounded
  <1>2. \A x, y \in Nat : <<x, y>> \in less <=> x < y
    BY DEF OpToRel
  <1> HIDE DEF less
  <1>3. PICK n \in T : \A m \in T : ~ (<<m, n>> \in less)
    BY <1>1, WFMin
  <1>4. n \in Nat /\ \A m \in T : m \in Nat
    OBVIOUS
  <1>5. \A m \in T : ~(m < n)
    BY <1>2, <1>3, <1>4, Zenon
  <1> QED BY <1>4, <1>5

\* Numbers with an upper bound have a greatest one.
LEMMA GreatestNumber ==
    ASSUME NEW T \in SUBSET Nat, T # {}, NEW b \in Nat, \A x \in T : x <= b
    PROVE  \E m \in T : \A x \in T : x <= m
  <1> DEFINE U == {n \in Nat : \A x \in T : x <= n}
  <1>1. U \in SUBSET Nat /\ U # {}
    OBVIOUS
  <1>2. PICK m \in U : \A n \in U : m <= n
    BY <1>1, LeastNumber
  <1>3. m \in T
    <2> SUFFICES ASSUME m \notin T PROVE FALSE
      OBVIOUS
    <2>1. m # 0
      <3>1. PICK x \in T : TRUE
        OBVIOUS
      <3>2. x <= m /\ x \in Nat /\ x # m /\ m \in Nat
        BY <1>2
      <3> QED BY <3>2
    <2>2. m - 1 \in U
      <3>1. m - 1 \in Nat
        BY <2>1, <1>2
      <3>2. \A x \in T : x <= m - 1
        BY <1>2
      <3> QED BY <3>1, <3>2
    <2> QED BY <2>2, <1>2
  <1> QED BY <1>2, <1>3

\* f collects, along 1..n, the values at the places to take.
Collects(f, n, take, value) ==
    f = [k \in 0..n |-> IF k = 0 THEN <<>>
                        ELSE IF k \in take THEN Append(f[k - 1], value[k]) ELSE f[k - 1]]

\* There is such an f.
LEMMA CollectsExists ==
    ASSUME NEW n \in Nat, NEW take, NEW value
    PROVE  \E f : Collects(f, n, take, value)
  <1> DEFINE T == {m \in Nat : ~ \E f : Collects(f, m, take, value)}
  <1>1. T = {}
    <2> SUFFICES ASSUME T # {} PROVE FALSE
      OBVIOUS
    <2>1. T \in SUBSET Nat
      OBVIOUS
    <2>2. PICK m \in T : \A k \in T : m <= k
      BY <2>1, LeastNumber
    <2>3. m \in Nat /\ ~ \E f : Collects(f, m, take, value)
      OBVIOUS
    <2>4. CASE m = 0
      <3> DEFINE g == [k \in 0..0 |-> <<>>]
      <3>1. Collects(g, 0, take, value)
        BY DEF Collects
      <3> QED BY <2>3, <2>4, <3>1
    <2>5. CASE m # 0
      <3>1. m - 1 \in Nat /\ m - 1 \notin T
        BY <2>2, <2>3, <2>5
      <3>2. PICK f : Collects(f, m - 1, take, value)
        BY <3>1
      <3> DEFINE next == IF m \in take THEN Append(f[m - 1], value[m]) ELSE f[m - 1]
                 g == [k \in 0..m |-> IF k = m THEN next ELSE f[k]]
      <3>3. \A k \in 0..(m - 1) : g[k] = f[k]
        BY <2>3
      <3>4. \A k \in 0..m : g[k] = IF k = 0 THEN <<>>
                                   ELSE IF k \in take THEN Append(g[k - 1], value[k]) ELSE g[k - 1]
        <4> SUFFICES ASSUME NEW k \in 0..m
                     PROVE  g[k] = IF k = 0 THEN <<>>
                                   ELSE IF k \in take THEN Append(g[k - 1], value[k]) ELSE g[k - 1]
          OBVIOUS
        <4>1. CASE k = m
          <5>1. g[m] = next /\ g[m - 1] = f[m - 1]
            BY <2>3, <3>1, <3>3
          <5> HIDE DEF g
          <5> QED BY <2>5, <4>1, <5>1
        <4>2. CASE k # m
          <5>1. k \in 0..(m - 1) /\ (k # 0 => k - 1 \in 0..(m - 1))
            BY <2>3, <4>2
          <5>2. f[k] = IF k = 0 THEN <<>>
                       ELSE IF k \in take THEN Append(f[k - 1], value[k]) ELSE f[k - 1]
            BY <3>2, <5>1 DEF Collects
          <5>3. g[k] = f[k] /\ (k # 0 => g[k - 1] = f[k - 1])
            BY <3>3, <5>1
          <5> HIDE DEF g
          <5> QED BY <5>2, <5>3
        <4> QED BY <4>1, <4>2
      <3>5. Collects(g, m, take, value)
        <4>1. g = [k \in 0..m |-> g[k]]
          OBVIOUS
        <4> HIDE DEF g
        <4> QED BY <3>4, <4>1 DEF Collects
      <3> QED BY <2>3, <3>5
    <2> QED BY <2>4, <2>5
  <1> QED BY <1>1

\* What is collected: each of the values to take, in one place each.
Collected(list, n, take, value) ==
    /\ \A k \in 1..Len(list) : \E i \in 1..n : i \in take /\ list[k] = value[i]
    /\ \A i \in 1..n : i \in take => \E k \in 1..Len(list) : list[k] = value[i]

\* Such an f collects what there is to take, and twice only what is there twice.
LEMMA CollectsAll ==
    ASSUME NEW N \in Nat, NEW take, NEW value, NEW f, Collects(f, N, take, value), NEW S,
           \A i \in 1..N : i \in take => value[i] \in S
    PROVE  /\ f[N] \in Seq(S) /\ Collected(f[N], N, take, value)
           /\ (\A i, j \in 1..N : i \in take /\ j \in take /\ value[i] = value[j] => i = j)
              => \A i, j \in 1..Len(f[N]) : f[N][i] = f[N][j] => i = j
  <1> DEFINE Once(n) == \A i, j \in 1..Len(f[n]) : f[n][i] = f[n][j] => i = j
             Distinct == \A i, j \in 1..N : i \in take /\ j \in take /\ value[i] = value[j] => i = j
             Good(n) == /\ f[n] \in Seq(S) /\ Collected(f[n], n, take, value)
                        /\ Distinct => Once(n)
             T == {n \in 0..N : ~Good(n)}
  <1>1. \A n \in 0..N : f[n] = IF n = 0 THEN <<>>
                               ELSE IF n \in take THEN Append(f[n - 1], value[n]) ELSE f[n - 1]
    BY DEF Collects
  <1>2. T = {}
    <2> SUFFICES ASSUME T # {} PROVE FALSE
      OBVIOUS
    <2>1. T \in SUBSET Nat
      OBVIOUS
    <2>2. PICK n \in T : \A m \in T : n <= m
      BY <2>1, LeastNumber
    <2>3. n \in 0..N /\ ~Good(n)
      OBVIOUS
    <2>4. n # 0
      <3>1. f[0] = <<>> /\ Len(<<>>) = 0
        BY <1>1
      <3>2. Good(0)
        BY <3>1 DEF Collected
      <3> QED BY <3>2, <2>3
    <2>5. n - 1 \in 0..N /\ n \in 1..N /\ n \in Nat
      BY <2>3, <2>4
    <2>6. Good(n - 1)
      <3>1. n - 1 \notin T
        <4> HIDE DEF T
        <4> QED BY <2>2, <2>5
      <3> QED BY <3>1, <2>5
    <2>7. \A i : i \in 1..n <=> i \in 1..(n - 1) \/ i = n
      BY <2>5
    <2>8. CASE n \in take
      <3> DEFINE m == Len(f[n - 1])
      <3>1. f[n] = Append(f[n - 1], value[n]) /\ value[n] \in S /\ f[n - 1] \in Seq(S)
        BY <1>1, <2>3, <2>4, <2>5, <2>6, <2>8
      <3>2. /\ f[n] \in Seq(S) /\ Len(f[n]) = m + 1 /\ m \in Nat /\ f[n][m + 1] = value[n]
            /\ \A k \in 1..m : f[n][k] = f[n - 1][k]
        BY <3>1
      <3>3. \A k : k \in 1..Len(f[n]) <=> k \in 1..m \/ k = m + 1
        BY <3>2
      <3>4. Collected(f[n - 1], n - 1, take, value)
        BY <2>6
      <3> HIDE DEF m
      <3>5. Collected(f[n], n, take, value)
        <4>1. \A k \in 1..m : \E i \in 1..(n - 1) : i \in take /\ f[n][k] = value[i]
          BY <3>2, <3>4 DEF Collected, m
        <4>2. \A i \in 1..(n - 1) : i \in take => \E k \in 1..m : f[n][k] = value[i]
          BY <3>2, <3>4 DEF Collected, m
        <4> QED BY <2>7, <2>8, <3>2, <3>3, <4>1, <4>2 DEF Collected
      <3>6. ASSUME Distinct PROVE Once(n)
        <4>1. \A i, j \in 1..m : f[n][i] = f[n][j] => i = j
          BY <2>6, <3>2, <3>6 DEF m
        <4>2. \A k \in 1..m : f[n][k] # value[n]
          <5> SUFFICES ASSUME NEW k \in 1..m, f[n][k] = value[n] PROVE FALSE
            OBVIOUS
          <5>1. PICK i \in 1..(n - 1) : i \in take /\ f[n][k] = value[i]
            BY <3>2, <3>4 DEF Collected, m
          <5>2. i \in 1..N /\ i # n
            BY <2>5
          <5> QED BY <2>5, <2>8, <3>6, <5>1, <5>2
        <4> QED BY <3>2, <3>3, <4>1, <4>2
      <3> QED BY <2>3, <3>2, <3>5, <3>6
    <2>9. CASE n \notin take
      <3>1. f[n] = f[n - 1]
        BY <1>1, <2>3, <2>4, <2>9
      <3>2. Collected(f[n], n - 1, take, value)
        BY <2>6, <3>1
      <3>3. Collected(f[n], n, take, value)
        <4>1. \A i \in 1..n : i \in take => i \in 1..(n - 1)
          BY <2>7, <2>9
        <4>2. \A i \in 1..(n - 1) : i \in 1..n
          BY <2>7
        <4> QED BY <3>2, <4>1, <4>2 DEF Collected
      <3> QED BY <2>3, <2>6, <3>1, <3>3
    <2> QED BY <2>8, <2>9
  <1>3. Good(N)
    <2>1. N \in 0..N
      OBVIOUS
    <2> QED BY <1>2, <2>1
  <1> QED BY <1>3

\* f is the running sum of the n weights w.
Sums(f, n, w) == f = [i \in 0..n |-> IF i = 0 THEN 0 ELSE f[i - 1] + w[i]]

\* The equation of a running sum has a solution.
LEMMA SumExists ==
    ASSUME NEW n \in Nat, NEW w
    PROVE  \E f : Sums(f, n, w)
  <1> DEFINE T == {m \in Nat : ~ \E f : Sums(f, m, w)}
  <1>1. T = {}
    <2> SUFFICES ASSUME T # {} PROVE FALSE
      OBVIOUS
    <2>1. T \in SUBSET Nat
      OBVIOUS
    <2>2. PICK m \in T : \A k \in T : m <= k
      BY <2>1, LeastNumber
    <2>3. m \in Nat /\ ~ \E f : Sums(f, m, w)
      OBVIOUS
    <2>4. CASE m = 0
      <3> DEFINE g == [i \in 0..0 |-> 0]
      <3>1. Sums(g, 0, w)
        BY DEF Sums
      <3> QED BY <2>3, <2>4, <3>1
    <2>5. CASE m # 0
      <3>1. m - 1 \in Nat /\ m - 1 \notin T
        BY <2>2, <2>3, <2>5
      <3>2. PICK f : Sums(f, m - 1, w)
        BY <3>1
      <3> DEFINE g == [i \in 0..m |-> IF i = m THEN f[m - 1] + w[m] ELSE f[i]]
      <3>3. \A i \in 0..(m - 1) : g[i] = f[i]
        BY <2>3
      <3>4. \A i \in 0..m : g[i] = IF i = 0 THEN 0 ELSE g[i - 1] + w[i]
        <4> SUFFICES ASSUME NEW i \in 0..m
                     PROVE  g[i] = IF i = 0 THEN 0 ELSE g[i - 1] + w[i]
          OBVIOUS
        <4>1. CASE i = m
          <5>1. g[m] = f[m - 1] + w[m] /\ g[m - 1] = f[m - 1]
            BY <2>3, <3>1, <3>3
          <5> HIDE DEF g
          <5> QED BY <2>5, <4>1, <5>1
        <4>2. CASE i # m
          <5>1. i \in 0..(m - 1) /\ (i # 0 => i - 1 \in 0..(m - 1))
            BY <2>3, <4>2
          <5>2. f[i] = IF i = 0 THEN 0 ELSE f[i - 1] + w[i]
            BY <3>2, <5>1 DEF Sums
          <5>3. g[i] = f[i] /\ (i # 0 => g[i - 1] = f[i - 1])
            BY <3>3, <5>1
          <5> HIDE DEF g
          <5> QED BY <5>2, <5>3
        <4> QED BY <4>1, <4>2
      <3>5. Sums(g, m, w)
        <4>1. g = [i \in 0..m |-> g[i]]
          OBVIOUS
        <4> HIDE DEF g
        <4> QED BY <3>4, <4>1 DEF Sums
      <3> QED BY <2>3, <3>5
    <2> QED BY <2>4, <2>5
  <1> QED BY <1>1

\* Weights that are no larger, but for x at one place, have a sum that is larger by
\* no more than x.
LEMMA SumGrows ==
    ASSUME NEW n \in Nat, NEW v, NEW w, NEW f, NEW g, Sums(f, n, v), Sums(g, n, w),
           NEW d \in Nat, NEW x \in Nat,
           \A i \in 1..n : v[i] \in Nat /\ w[i] \in Nat /\ v[i] <= w[i] + (IF i = d THEN x ELSE 0)
    PROVE  f[n] \in Nat /\ g[n] \in Nat /\ f[n] <= g[n] + x
  <1> DEFINE Good(m) == f[m] \in Nat /\ g[m] \in Nat /\ f[m] <= g[m] + x /\ (m < d => f[m] <= g[m])
             T == {m \in 0..n : ~Good(m)}
  <1>1. /\ \A i \in 0..n : f[i] = IF i = 0 THEN 0 ELSE f[i - 1] + v[i]
        /\ \A i \in 0..n : g[i] = IF i = 0 THEN 0 ELSE g[i - 1] + w[i]
    BY DEF Sums
  <1>2. T = {}
    <2> SUFFICES ASSUME T # {} PROVE FALSE
      OBVIOUS
    <2>1. T \in SUBSET Nat
      OBVIOUS
    <2>2. PICK m \in T : \A k \in T : m <= k
      BY <2>1, LeastNumber
    <2>3. m \in 0..n /\ ~Good(m)
      OBVIOUS
    <2>4. m # 0
      BY <1>1, <2>3
    <2>5. m \in 1..n /\ m - 1 \in 0..n /\ m - 1 \notin T
      BY <2>2, <2>3, <2>4
    <2>6. Good(m - 1)
      BY <2>5
    <2>7. /\ f[m] = f[m - 1] + v[m] /\ g[m] = g[m - 1] + w[m]
      BY <1>1, <2>3, <2>4
    <2>8. v[m] \in Nat /\ w[m] \in Nat /\ v[m] <= w[m] + (IF m = d THEN x ELSE 0)
      BY <2>5
    <2>9. CASE m = d
      BY <2>3, <2>5, <2>6, <2>7, <2>8, <2>9
    <2>10. CASE m # d
      BY <2>3, <2>5, <2>6, <2>7, <2>8, <2>10
    <2> QED BY <2>9, <2>10
  <1>3. Good(n)
    BY <1>2
  <1> QED BY <1>3

-----------------------------------------------------------------------------
(* The operators of the event log.                                         *)

\* The ranges of a part of a line, of the files, and what a file adds to a total.
Parts == [event : Nat, part : {"first", "last"}]
Files == [1..Days -> Seq(Parts)]
Weight(files, days, n) == IF n \in days THEN Len(files[n]) ELSE 0

\* The recursive function of Total is a running sum.
LEMMA TotalIsSum ==
    ASSUME NEW files, NEW days
    PROVE  \E f : /\ Sums(f, Days, [n \in 1..Days |-> Weight(files, days, n)])
                  /\ Total(files, days) = f[Days]
  <1> DEFINE w == [n \in 1..Days |-> Weight(files, days, n)]
             total[n \in 0..Days] ==
                IF n = 0 THEN 0 ELSE total[n - 1] + (IF n \in days THEN Len(files[n]) ELSE 0)
             Equation(f) ==
                f = [n \in 0..Days |->
                        IF n = 0 THEN 0 ELSE f[n - 1] + (IF n \in days THEN Len(files[n]) ELSE 0)]
  <1>1. Total(files, days) = total[Days]
    BY Zenon DEF Total
  <1>2. total = CHOOSE f : Equation(f)
    OBVIOUS
  <1>3. \A f : Sums(f, Days, w) <=> Equation(f)
    <2> SUFFICES ASSUME NEW f PROVE Sums(f, Days, w) <=> Equation(f)
      OBVIOUS
    <2>1. \A n \in 0..Days : n # 0 => w[n] = IF n \in days THEN Len(files[n]) ELSE 0
      BY EventLogAssumption DEF Weight
    <2> HIDE DEF w
    <2> QED BY <2>1 DEF Sums
  <1>4. \E f : Equation(f)
    BY <1>3, SumExists, EventLogAssumption
  <1> HIDE DEF total
  <1>5. Equation(total)
    <2> HIDE DEF Equation
    <2> QED BY <1>2, <1>4, Zenon
  <1> HIDE DEF Equation
  <1> QED BY <1>1, <1>3, <1>5

\* When one file may be longer by x and no other is, the total is larger by no more
\* than x.
LEMMA TotalGrows ==
    ASSUME NEW f \in Files, NEW g \in Files, NEW A, NEW B, NEW d \in Nat, NEW x \in Nat,
           \A n \in 1..Days : Weight(g, B, n) <= Weight(f, A, n) + (IF n = d THEN x ELSE 0)
    PROVE  Total(g, B) \in Nat /\ Total(f, A) \in Nat /\ Total(g, B) <= Total(f, A) + x
  <1> DEFINE v == [n \in 1..Days |-> Weight(g, B, n)]
             w == [n \in 1..Days |-> Weight(f, A, n)]
  <1>1. PICK r : Sums(r, Days, v) /\ Total(g, B) = r[Days]
    BY TotalIsSum
  <1>2. PICK s : Sums(s, Days, w) /\ Total(f, A) = s[Days]
    BY TotalIsSum
  <1>3. \A n \in 1..Days : Len(f[n]) \in Nat /\ Len(g[n]) \in Nat
    <2>1. \A n \in 1..Days : f[n] \in Seq(Parts) /\ g[n] \in Seq(Parts)
      BY DEF Files
    <2> QED BY <2>1
  <1>4. \A n \in 1..Days : v[n] \in Nat /\ w[n] \in Nat /\ v[n] <= w[n] + (IF n = d THEN x ELSE 0)
    BY <1>3 DEF Weight
  <1>5. Days \in Nat
    BY EventLogAssumption
  <1> HIDE DEF v, w
  <1>6. r[Days] \in Nat /\ s[Days] \in Nat /\ r[Days] <= s[Days] + x
    BY <1>1, <1>2, <1>4, <1>5, SumGrows
  <1> QED BY <1>1, <1>2, <1>6

\* Nothing holds nothing.
LEMMA TotalEmpty ==
    ASSUME NEW f \in Files
    PROVE  Total(f, {}) = 0
  <1> DEFINE v == [n \in 1..Days |-> Weight(f, {}, n)]
             g == [i \in 0..Days |-> 0]
  <1>1. PICK r : Sums(r, Days, v) /\ Total(f, {}) = r[Days]
    BY TotalIsSum
  <1>2. \A n \in 1..Days : v[n] = 0
    BY DEF Weight
  <1> HIDE DEF v
  <1>3. Sums(g, Days, v)
    BY <1>2, EventLogAssumption DEF Sums
  <1>4. g[Days] = 0
    BY EventLogAssumption
  <1> HIDE DEF g
  <1>5. r[Days] \in Nat /\ g[Days] \in Nat /\ r[Days] <= g[Days] + 0
    BY <1>1, <1>2, <1>3, SumGrows, EventLogAssumption
  <1> QED BY <1>1, <1>4, <1>5

\* The places in a list are places of different days.
Distinct(list) == \A i, j \in 1..Len(list) : list[i] = list[j] => i = j

\* A list without some days lists the others, as often as it did.
LEMMA WithoutDays ==
    ASSUME NEW S, NEW list \in Seq(S), NEW days
    PROVE  /\ Without(list, days) \in Seq(S)
           /\ Range(Without(list, days)) = Range(list) \ days
           /\ Distinct(list) => Distinct(Without(list, days))
  <1>a. Len(list) \in Nat /\ DOMAIN list = 1..Len(list) /\ \A n \in 1..Len(list) : list[n] \in S
    OBVIOUS
  <1> DEFINE N == Len(list)
             take == {n \in 1..N : list[n] \notin days}
             rest[n \in 0..N] ==
                IF n = 0 THEN <<>>
                ELSE IF list[n] \in days THEN rest[n - 1] ELSE Append(rest[n - 1], list[n])
             Equation(f) ==
                f = [n \in 0..N |->
                        IF n = 0 THEN <<>>
                        ELSE IF list[n] \in days THEN f[n - 1] ELSE Append(f[n - 1], list[n])]
  <1>1. Without(list, days) = rest[N]
    BY Zenon DEF Without
  <1>2. rest = CHOOSE f : Equation(f)
    OBVIOUS
  <1>3. N \in Nat /\ DOMAIN list = 1..N /\ \A n \in 1..N : list[n] \in S
    BY <1>a
  <1>4. \A f : Collects(f, N, take, list) <=> Equation(f)
    <2> SUFFICES ASSUME NEW f PROVE Collects(f, N, take, list) <=> Equation(f)
      OBVIOUS
    <2>1. \A n \in 0..N : n # 0 => (n \in take <=> list[n] \notin days)
      BY <1>3
    <2> HIDE DEF take, N
    <2> QED BY <2>1 DEF Collects
  <1>5. \E f : Equation(f)
    BY <1>3, <1>4, CollectsExists
  <1> HIDE DEF rest
  <1>6. Equation(rest)
    <2> HIDE DEF Equation
    <2> QED BY <1>2, <1>5, Zenon
  <1>7. Collects(rest, N, take, list)
    BY <1>4, <1>6
  <1> HIDE DEF Equation
  <1> DEFINE r == rest[N]
  <1>8. /\ r \in Seq(S) /\ Collected(r, N, take, list)
        /\ Distinct(list) => Distinct(r)
    <2>1. \A i \in 1..N : i \in take => list[i] \in S
      BY <1>3
    <2>2. Distinct(list) =>
             \A i, j \in 1..N : i \in take /\ j \in take /\ list[i] = list[j] => i = j
      BY DEF Distinct
    <2> HIDE DEF take, N
    <2> QED BY <1>3, <1>7, <2>1, <2>2, CollectsAll DEF Distinct
  <1> HIDE DEF r
  <1>9. DOMAIN r = 1..Len(r)
    BY <1>8
  <1>10. Range(r) = Range(list) \ days
    BY <1>3, <1>8, <1>9 DEF Range, Collected
  <1> QED BY <1>1, <1>8, <1>10 DEF r

\* What is decoded are events whose line ends in s.
LEMMA DecodedEnds ==
    ASSUME NEW s \in Seq(Parts)
    PROVE  /\ Decoded(s) \in Seq(Nat)
           /\ \A k \in 1..Len(Decoded(s)) : \E i \in 1..Len(s) : s[i] = Ended(Decoded(s)[k])
  <1> DEFINE N == Len(s)
             take == {n \in 1..N : WholeAt(s, n)}
             value == [n \in 1..N |-> s[n].event]
             decoded[n \in 0..N] ==
                IF n = 0 THEN <<>>
                ELSE IF WholeAt(s, n) THEN Append(decoded[n - 1], s[n].event) ELSE decoded[n - 1]
             Equation(f) ==
                f = [n \in 0..N |->
                        IF n = 0 THEN <<>>
                        ELSE IF WholeAt(s, n) THEN Append(f[n - 1], s[n].event) ELSE f[n - 1]]
  <1>1. Decoded(s) = decoded[N]
    BY Zenon DEF Decoded
  <1>2. decoded = CHOOSE f : Equation(f)
    OBVIOUS
  <1>3. N \in Nat /\ \A n \in 1..N : s[n] \in Parts
    OBVIOUS
  <1>4. \A f : Collects(f, N, take, value) <=> Equation(f)
    <2> SUFFICES ASSUME NEW f PROVE Collects(f, N, take, value) <=> Equation(f)
      OBVIOUS
    <2>1. \A n \in 0..N : n # 0 => (n \in take <=> WholeAt(s, n)) /\ value[n] = s[n].event
      BY <1>3
    <2> HIDE DEF take, value, N
    <2> QED BY <2>1 DEF Collects
  <1>5. \E f : Equation(f)
    BY <1>3, <1>4, CollectsExists
  <1> HIDE DEF decoded
  <1>6. Equation(decoded)
    <2> HIDE DEF Equation
    <2> QED BY <1>2, <1>5, Zenon
  <1>7. Collects(decoded, N, take, value)
    BY <1>4, <1>6
  <1> HIDE DEF Equation
  <1> DEFINE r == decoded[N]
  <1>8. r \in Seq(Nat) /\ Collected(r, N, take, value)
    <2>1. \A i \in 1..N : i \in take => value[i] \in Nat
      BY <1>3 DEF Parts
    <2> HIDE DEF take, value, N
    <2> QED BY <1>3, <1>7, <2>1, CollectsAll
  <1> HIDE DEF r
  <1>9. ASSUME NEW k \in 1..Len(r) PROVE \E i \in 1..N : s[i] = Ended(r[k])
    <2>1. PICK i \in 1..N : i \in take /\ r[k] = value[i]
      <3> HIDE DEF take, value, N
      <3> QED BY <1>8 DEF Collected
    <2>2. s[i].part = "last" /\ s[i] \in Parts /\ r[k] = s[i].event
      BY <1>3, <2>1 DEF WholeAt, Ends
    <2> QED BY <2>2 DEF Parts, Ended
  <1> QED BY <1>1, <1>8, <1>9 DEF r

\* A list is cut in two after its first n members.
Front(list, n) == SubSeq(list, 1, n)
Back(list, n) == SubSeq(list, n + 1, Len(list))

\* A list cut in two.
LEMMA CutList ==
    ASSUME NEW S, NEW list \in Seq(S), Distinct(list), NEW n \in 0..Len(list)
    PROVE  /\ Front(list, n) \in Seq(S) /\ Distinct(Front(list, n))
           /\ Range(Front(list, n)) \subseteq Range(list)
           /\ Back(list, n) \in Seq(S) /\ Distinct(Back(list, n))
           /\ Range(Back(list, n)) = Range(list) \ Range(Front(list, n))
  <1> DEFINE N == Len(list)
             m == N - n
             a == SubSeq(list, 1, n)
             b == SubSeq(list, n + 1, Len(list))
  <1>1. /\ N \in Nat /\ n \in 0..N /\ DOMAIN list = 1..N /\ m \in Nat
        /\ \A i \in 1..N : list[i] \in S
    OBVIOUS
  <1>2. \A i, j \in 1..N : list[i] = list[j] => i = j
    BY DEF Distinct
  <1>3. /\ a = [i \in 1..n |-> list[i]]
        /\ b = [i \in 1..m |-> list[i + n]]
    BY <1>1
  <1> HIDE DEF N, a, b
  <1>4. /\ \A i \in 1..n : i \in 1..N
        /\ \A i \in 1..m : i + n \in 1..N /\ n < i + n
        /\ \A j \in 1..N : n < j => j - n \in 1..m /\ (j - n) + n = j
        /\ \A j \in 1..N : ~(n < j) => j \in 1..n
    BY <1>1
  <1>5. n \in Nat /\ m \in Nat
    BY <1>1
  <1> HIDE DEF m
  <1>6. a \in Seq(S) /\ Len(a) = n /\ DOMAIN a = 1..n /\ \A i \in 1..n : a[i] = list[i]
    BY <1>1, <1>3, <1>4, <1>5
  <1>7. b \in Seq(S) /\ Len(b) = m /\ DOMAIN b = 1..m /\ \A i \in 1..m : b[i] = list[i + n]
    <2>1. \A i \in 1..m : list[i + n] \in S
      BY <1>1, <1>4
    <2> QED BY <1>3, <1>5, <2>1
  <1>8. Distinct(a)
    BY <1>2, <1>4, <1>6 DEF Distinct
  <1>9. Distinct(b)
    <2> SUFFICES ASSUME NEW i \in 1..m, NEW j \in 1..m, b[i] = b[j] PROVE i = j
      BY <1>7 DEF Distinct
    <2>1. i + n = j + n
      BY <1>2, <1>4, <1>7
    <2> QED BY <2>1, <1>5
  <1>10. \A x : x \in Range(a) <=> \E j \in 1..N : ~(n < j) /\ x = list[j]
    <2>1. \A j \in 1..n : j \in 1..N /\ ~(n < j)
      BY <1>4, <1>5
    <2>2. Range(a) = {a[i] : i \in 1..n}
      BY <1>6 DEF Range
    <2> QED BY <1>4, <1>6, <2>1, <2>2
  <1>11. \A x : x \in Range(b) <=> \E j \in 1..N : n < j /\ x = list[j]
    <2>1. Range(b) = {b[i] : i \in 1..m}
      BY <1>7 DEF Range
    <2>2. ASSUME NEW j \in 1..N, n < j PROVE list[j] \in Range(b)
      BY <1>4, <1>7, <2>1, <2>2
    <2>3. ASSUME NEW i \in 1..m PROVE \E j \in 1..N : n < j /\ b[i] = list[j]
      BY <1>4, <1>7
    <2> QED BY <2>1, <2>2, <2>3
  <1>12. Range(list) = {list[j] : j \in 1..N}
    BY <1>1 DEF Range
  <1>13. Range(a) \subseteq Range(list)
    BY <1>10, <1>12
  <1>14. Range(b) = Range(list) \ Range(a)
    <2>1. ASSUME NEW x \in Range(b) PROVE x \in Range(list) /\ x \notin Range(a)
      <3>1. PICK j \in 1..N : n < j /\ x = list[j]
        BY <1>11
      <3>2. ASSUME NEW i \in 1..N, ~(n < i), x = list[i] PROVE FALSE
        BY <1>2, <3>1, <3>2
      <3> QED BY <1>10, <1>12, <3>1, <3>2
    <2>2. ASSUME NEW x \in Range(list), x \notin Range(a) PROVE x \in Range(b)
      <3>1. PICK j \in 1..N : x = list[j]
        BY <1>12
      <3>2. n < j
        BY <1>10, <2>2, <3>1
      <3> QED BY <1>11, <3>1, <3>2
    <2> QED BY <2>1, <2>2
  <1> QED BY <1>6, <1>7, <1>8, <1>9, <1>13, <1>14, Zenon DEF a, b, Front, Back

\* A cleanup that removes what it means to has room for the line to come.
LEMMA DoomedMakesRoom ==
    ASSUME file \in Files, NEW S, NEW kept \in Seq(S), Distinct(kept), NEW r, r = Doomed(kept, 2)
    PROVE  /\ r \in Seq(S) /\ Distinct(r) /\ Range(r) \subseteq Range(kept)
           /\ Total(file, Range(kept) \ Range(r)) + 2 <= MaxSize
  <1> DEFINE room(n) == Total(file, Range(SubSeq(kept, n + 1, Len(kept)))) + 2 <= MaxSize
             F(n) == /\ n \in 0..Len(kept)
                     /\ room(n) \/ n = Len(kept)
                     /\ \A m \in 0..(n - 1) : ~room(m)
             first == CHOOSE n \in 0..Len(kept) : /\ room(n) \/ n = Len(kept)
                                                  /\ \A m \in 0..(n - 1) : ~room(m)
  <1>1. r = SubSeq(kept, 1, first)
    BY Zenon DEF Doomed
  <1>2. Len(kept) \in Nat
    OBVIOUS
  <1>3. room(Len(kept))
    <2>1. SubSeq(kept, Len(kept) + 1, Len(kept)) = <<>>
      BY <1>2
    <2>2. Range(<<>>) = {}
      BY DEF Range
    <2>3. Total(file, {}) = 0
      BY TotalEmpty
    <2>4. Total(file, Range(SubSeq(kept, Len(kept) + 1, Len(kept)))) = 0
      BY <2>1, <2>2, <2>3
    <2> QED BY <2>4, EventLogAssumption
  <1>4. \E n : F(n)
    <2> DEFINE T == {n \in 0..Len(kept) : room(n)}
    <2> HIDE DEF room
    <2>1. T \in SUBSET Nat /\ T # {}
      BY <1>2, <1>3
    <2>2. PICK n \in T : \A m \in T : n <= m
      BY <2>1, LeastNumber
    <2>3. n \in 0..Len(kept) /\ room(n)
      OBVIOUS
    <2>4. \A m \in 0..(n - 1) : ~room(m)
      <3> SUFFICES ASSUME NEW m \in 0..(n - 1), room(m) PROVE FALSE
        OBVIOUS
      <3>1. m \in T /\ ~(n <= m)
        BY <1>2, <2>3
      <3> QED BY <3>1, <2>2
    <2> QED BY <2>3, <2>4
  <1>5. first = CHOOSE n : F(n)
    BY Zenon
  <1>6. F(first)
    <2> HIDE DEF F, first
    <2> QED BY <1>4, <1>5, Zenon
  <1> HIDE DEF first
  <1>7. first \in 0..Len(kept) /\ room(first)
    BY <1>3, <1>6
  <1>8. Total(file, Range(Back(kept, first))) + 2 <= MaxSize
    BY <1>7 DEF Back
  <1>9. r = Front(kept, first)
    BY <1>1 DEF Front
  <1>10. first \in 0..Len(kept)
    BY <1>7
  <1> HIDE DEF room, F
  <1>11. /\ r \in Seq(S) /\ Distinct(r) /\ Range(r) \subseteq Range(kept)
         /\ Range(Back(kept, first)) = Range(kept) \ Range(r)
    BY <1>9, <1>10, CutList
  <1> QED BY <1>8, <1>11

\* The ranges of what a process and the follower hold.
Calendar == 1..Days
Jobs == [at : {"idle", "cleaning", "appending"}, event : Nat, day : 0..Days, doomed : Seq(Calendar)]
Cursors == [offset : Int, pending : Seq(Parts)]
Followers == [at : {"idle", "capturing", "reading", "first", "draining", "failed"},
              todo : SUBSET Calendar, gathered : Seq(Nat), seen : SUBSET Nat]
Debts == [events : SUBSET Nat, removed : SUBSET Calendar]

\* The ranges of the variables.
LogTypes ==
    /\ day \in 1..Days /\ events \in 0..MaxEvents
    /\ file \in Files /\ order \in Seq(Calendar)
    /\ writer \in [Writers -> Jobs] /\ follower \in Followers
    /\ cursor \in [1..Days -> Cursors] /\ owed \in Debts

\* The process writes an event.
Active(p) == writer[p].at # "idle"

\* Each event that is being written has its own number, and only a cleanup has
\* files to remove.
Working ==
    /\ \A p \in Writers :
          /\ Active(p) => writer[p].event \in 1..events /\ writer[p].day \in 1..day
          /\ ~Active(p) => writer[p] = Resting
          /\ writer[p].at # "cleaning" => writer[p].doomed = <<>>
          /\ Distinct(writer[p].doomed)
    /\ \A p, q \in Writers : Active(p) /\ Active(q) /\ writer[p].event = writer[q].event => p = q

\* The days that have a file are listed, each once.
Listed == Range(order) = Present /\ Distinct(order)

\* The events whose writing is over.
Written == {e \in 1..events : \A p \in Writers : Active(p) => writer[p].event # e}

\* A line that ended is one of those, and ended once.
Recorded ==
    /\ \A d \in 1..Days : \A i \in 1..Len(file[d]) :
          /\ file[d][i].event \in 1..events
          /\ file[d][i].part = "last" => file[d][i].event \in Written
    /\ \A c, d \in 1..Days : \A i \in 1..Len(file[c]), j \in 1..Len(file[d]) :
          file[c][i] = file[d][j] /\ file[c][i].part = "last" => c = d /\ i = j

\* So are the events that the follower knows; until it has read it shows none.
Known ==
    /\ shown \subseteq Written /\ follower.seen \subseteq Written
    /\ \A k \in 1..Len(follower.gathered) : follower.gathered[k] \in Written
    /\ owed.events \subseteq Written
    /\ follower.at \in {"idle", "capturing", "reading", "failed"} => shown = {}

\* A line whose event was shown is behind the cursor of its file, or it was shown
\* with the history and the first drain will come by.
Followed ==
    /\ \A d \in 1..Days :
         /\ \A i \in 1..Len(cursor[d].pending) : cursor[d].pending[i].part = "first"
         /\ cursor[d] # NoCursor => cursor[d].offset >= 0
    /\ \A d \in 1..Days : \A i \in 1..Len(file[d]) :
          file[d][i].part = "last" /\ file[d][i].event \in shown =>
             \/ follower.at = "first" /\ d \in follower.todo /\ file[d][i].event \in follower.seen
             \/ cursor[d] # NoCursor /\ i <= cursor[d].offset /\ cursor[d].offset <= Len(file[d])
    /\ again = {}

\* Cleanups that have come to their end, others, and lines that have begun.
Ready == {p \in Writers : writer[p].at = "cleaning" /\ writer[p].doomed = <<>>}
Cleaners == {p \in Writers : writer[p].at = "cleaning" /\ writer[p].doomed # <<>>}
Appenders == {p \in Writers : writer[p].at = "appending"}
\* The days whose files the cleanups S will leave.
Spared(S) == {d \in Present : \A p \in S : d \notin Range(writer[p].doomed)}

\* Whichever cleanups come to their end, there is room for the lines that were
\* counted, but for one event of each other process.
Sized == \A S \in SUBSET Cleaners :
    Total(file, Spared(S)) + 2 * (Cardinality(Ready) + Cardinality(S)) + Cardinality(Appenders)
       <= MaxSize + 2 * (Cardinality(Writers) - 1)

\* The invariant of the event log: what every step must keep, and what each part of
\* it must keep for the two properties.
Lasting == LogTypes /\ Working /\ Listed
LogIInv == Lasting /\ Recorded /\ Known /\ Followed /\ Sized

-----------------------------------------------------------------------------
\* What LogTypes says of each file, cursor and writer, and of the follower.
LEMMA Typed ==
    ASSUME LogTypes
    PROVE  /\ \A d \in 1..Days :
                 /\ file[d] \in Seq(Parts) /\ Len(file[d]) \in Nat
                 /\ \A i \in 1..Len(file[d]) : file[d][i] \in Parts
                 /\ cursor[d] \in Cursors /\ cursor[d].offset \in Int
                 /\ cursor[d].pending \in Seq(Parts)
           /\ \A p \in Writers :
                 /\ writer[p] \in Jobs /\ writer[p].doomed \in Seq(Calendar)
                 /\ writer[p].event \in Nat /\ writer[p].day \in 0..Days
           /\ follower.todo \in SUBSET Calendar /\ follower.gathered \in Seq(Nat)
           /\ follower.seen \in SUBSET Nat /\ owed.events \in SUBSET Nat
           /\ owed.removed \in SUBSET Calendar
  <1>1. ASSUME NEW d \in 1..Days
        PROVE  /\ file[d] \in Seq(Parts) /\ Len(file[d]) \in Nat
               /\ \A i \in 1..Len(file[d]) : file[d][i] \in Parts
    <2>1. file[d] \in Seq(Parts)
      BY DEF LogTypes, Files
    <2> QED BY <2>1
  <1>2. ASSUME NEW d \in 1..Days
        PROVE  /\ cursor[d] \in Cursors /\ cursor[d].offset \in Int
               /\ cursor[d].pending \in Seq(Parts)
    BY DEF LogTypes, Cursors
  <1>3. ASSUME NEW p \in Writers
        PROVE  /\ writer[p] \in Jobs /\ writer[p].doomed \in Seq(Calendar)
               /\ writer[p].event \in Nat /\ writer[p].day \in 0..Days
    BY DEF LogTypes, Jobs
  <1>4. /\ follower.todo \in SUBSET Calendar /\ follower.gathered \in Seq(Nat)
        /\ follower.seen \in SUBSET Nat /\ owed.events \in SUBSET Nat
        /\ owed.removed \in SUBSET Calendar
    BY DEF LogTypes, Followers, Debts
  <1> QED BY <1>1, <1>2, <1>3, <1>4

\* RemoveFiles empties the files of these days and takes them from the order.
LEMMA RemovesFiles ==
    ASSUME LogTypes, Listed, NEW days, RemoveFiles(days), days \subseteq Calendar
    PROVE  /\ file' \in Files /\ order' \in Seq(Calendar) /\ owed' \in Debts
           /\ owed'.events = owed.events /\ owed'.removed \subseteq Calendar
           /\ \A d \in 1..Days : file'[d] = IF d \in days THEN <<>> ELSE file[d]
           /\ Present' = Present \ days
           /\ Listed'
           /\ order' = Without(order, days)
  <1>1. file' = [d \in 1..Days |-> IF d \in days THEN <<>> ELSE file[d]]
    BY DEF RemoveFiles, NoFile
  <1>2. \A d \in 1..Days : file[d] \in Seq(Parts)
    BY Typed
  <1>3. <<>> \in Seq(Parts)
    OBVIOUS
  <1>4. file' \in Files
    BY <1>1, <1>2, <1>3 DEF Files
  <1>5. Present' = Present \ days
    BY <1>1 DEF Present, NoFile
  <1>6. order \in Seq(Calendar) /\ order' = Without(order, days)
    BY DEF RemoveFiles, LogTypes
  <1>7. /\ order' \in Seq(Calendar) /\ Range(order') = Range(order) \ days
        /\ Distinct(order) => Distinct(order')
    <2>1. /\ Without(order, days) \in Seq(Calendar)
          /\ Range(Without(order, days)) = Range(order) \ days
          /\ Distinct(order) => Distinct(Without(order, days))
      BY <1>6, WithoutDays
    <2> QED BY <1>6, <2>1
  <1>8. /\ owed' \in Debts /\ owed'.events = owed.events /\ owed'.removed \subseteq Calendar
    BY DEF RemoveFiles, LogTypes, Debts
  <1>9. Listed'
    BY <1>5, <1>7 DEF Listed, Distinct
  <1> QED BY <1>1, <1>4, <1>5, <1>6, <1>7, <1>8, <1>9

\* A part of a line is appended to one file.
LEMMA ExtendsFile ==
    ASSUME LogTypes, NEW d \in 1..Days, NEW x \in Parts, file' = [file EXCEPT ![d] = Append(@, x)]
    PROVE  /\ file' \in Files
           /\ \A c \in 1..Days : c # d => file'[c] = file[c]
           /\ Len(file'[d]) = Len(file[d]) + 1 /\ file'[d][Len(file[d]) + 1] = x
           /\ \A i \in 1..Len(file[d]) : file'[d][i] = file[d][i]
           /\ Present' = Present \cup {d}
  <1>1. \A c \in 1..Days : file[c] \in Seq(Parts)
    BY Typed
  <1>2. DOMAIN file = 1..Days
    BY DEF LogTypes, Files
  <1>3. /\ Append(file[d], x) \in Seq(Parts)
        /\ Len(Append(file[d], x)) = Len(file[d]) + 1
        /\ Append(file[d], x)[Len(file[d]) + 1] = x
        /\ \A i \in 1..Len(file[d]) : Append(file[d], x)[i] = file[d][i]
        /\ Append(file[d], x) # <<>>
    BY <1>1, AppendProperties
  <1> DEFINE longer == Append(file[d], x)
  <1>4. file' = [c \in 1..Days |-> IF c = d THEN longer ELSE file[c]]
    BY <1>2
  <1>a. longer \in Seq(Parts) /\ longer # <<>>
    BY <1>3
  <1>b. longer = Append(file[d], x)
    OBVIOUS
  <1> HIDE DEF longer
  <1>5. file' \in Files
    BY <1>1, <1>a, <1>4 DEF Files
  <1>6. file'[d] = longer /\ \A c \in 1..Days : c # d => file'[c] = file[c]
    BY <1>4
  <1>7. Present' = Present \cup {d}
    BY <1>a, <1>6 DEF Present, NoFile
  <1> QED BY <1>3, <1>5, <1>6, <1>7, <1>b

\* The first state has nothing written, and nothing followed.
LEMMA LogIInvInit ==
    ASSUME LogInit
    PROVE  LogIInv
  <1>1. Days \in Nat \ {0} /\ MaxEvents \in Nat /\ MaxSize \in Nat /\ MaxSize >= 2
    BY EventLogAssumption
  <1>2. file = [d \in 1..Days |-> <<>>] /\ <<>> \in Seq(Parts)
    BY DEF LogInit, NoFile
  <1>3. file \in Files
    BY <1>2 DEF Files
  <1>4. \A d \in 1..Days : Len(file[d]) = 0 /\ file[d] = <<>>
    BY <1>2
  <1>5. Present = {}
    BY <1>4 DEF Present, NoFile
  <1>6. order = <<>> /\ <<>> \in Seq(Calendar) /\ Range(<<>>) = {} /\ Len(<<>>) = 0
    BY DEF LogInit, Range
  <1>7. Distinct(<<>>)
    BY <1>6 DEF Distinct
  <1>8. /\ Resting.at = "idle" /\ Resting.event = 0 /\ Resting.day = 0 /\ Resting.doomed = <<>>
        /\ Resting \in Jobs
    BY <1>1, <1>6 DEF Resting, Jobs
  <1>9. \A p \in Writers : writer[p] = Resting
    BY DEF LogInit
  <1>10. /\ NoCursor \in Cursors /\ NoCursor.pending = <<>> /\ NoCursor.offset = -1
    BY <1>2 DEF NoCursor, Cursors
  <1>11. \A d \in 1..Days : cursor[d] = NoCursor
    BY DEF LogInit
  <1>12. /\ follower \in Followers /\ follower.at = "idle" /\ follower.todo = {}
         /\ follower.gathered = <<>> /\ follower.seen = {}
    <2>1. <<>> \in Seq(Nat)
      OBVIOUS
    <2> QED BY <2>1 DEF LogInit, Followers
  <1>13. owed \in Debts /\ owed.events = {}
    BY DEF LogInit, Debts
  <1>14. LogTypes
    <2>1. writer = [p \in Writers |-> Resting] /\ cursor = [d \in 1..Days |-> NoCursor]
      BY DEF LogInit
    <2>2. writer \in [Writers -> Jobs] /\ cursor \in [1..Days -> Cursors]
      BY <1>8, <1>10, <2>1
    <2>3. day \in 1..Days /\ events \in 0..MaxEvents
      BY <1>1 DEF LogInit
    <2> QED BY <1>3, <1>6, <1>12, <1>13, <2>2, <2>3 DEF LogTypes
  <1>15. Working
    BY <1>7, <1>8, <1>9 DEF Working, Active
  <1>16. Listed
    BY <1>5, <1>6, <1>7 DEF Listed
  <1>17. Recorded
    BY <1>4 DEF Recorded
  <1>18. Known
    BY <1>6, <1>12, <1>13 DEF Known, LogInit
  <1>19. Followed
    <2>1. \A d \in 1..Days : Len(cursor[d].pending) = 0
      BY <1>6, <1>10, <1>11
    <2> QED BY <1>4, <1>11, <2>1 DEF Followed, LogInit
  <1>20. Sized
    <2>1. Ready = {} /\ Cleaners = {} /\ Appenders = {}
      BY <1>8, <1>9 DEF Ready, Cleaners, Appenders
    <2>2. SUFFICES ASSUME NEW S \in SUBSET Cleaners
                   PROVE  Total(file, Spared(S)) + 2 * (Cardinality(Ready) + Cardinality(S))
                             + Cardinality(Appenders) <= MaxSize + 2 * (Cardinality(Writers) - 1)
      BY DEF Sized
    <2>3. S = {} /\ Cardinality({}) = 0
      BY <2>1, FS_EmptySet
    <2>4. Spared(S) = {}
      BY <1>5 DEF Spared
    <2>5. Total(file, {}) = 0
      BY <1>3, TotalEmpty
    <2>6. Cardinality(Writers) \in Nat
      BY EventLogAssumption, FS_CardinalityType
    <2>7. Cardinality(Ready) = 0 /\ Cardinality(S) = 0 /\ Cardinality(Appenders) = 0
      BY <2>1, <2>3
    <2>8. Total(file, Spared(S)) = 0
      BY <2>4, <2>5
    <2> HIDE DEF Ready, Cleaners, Appenders, Spared
    <2> QED BY <1>1, <2>6, <2>7, <2>8
  <1> QED BY <1>14, <1>15, <1>16, <1>17, <1>18, <1>19, <1>20 DEF LogIInv, Lasting

\* Process p takes this turn.
Turns(p, job) ==
    /\ writer' = [writer EXCEPT ![p] = job] /\ job \in Jobs
    /\ job.at # "idle" =>
          /\ job.event \in 1..events' /\ job.day \in 1..day'
          /\ \A q \in Writers \ {p} : Active(q) => writer[q].event # job.event
    /\ job.at = "idle" => job = Resting
    /\ job.at # "cleaning" => job.doomed = <<>>
    /\ Distinct(job.doomed)

\* A process that rests.
LEMMA RestingJob ==
    /\ Resting \in Jobs /\ Resting.at = "idle" /\ Resting.doomed = <<>> /\ Distinct(Resting.doomed)
  <1>1. Days \in Nat /\ <<>> \in Seq(Calendar) /\ Len(<<>>) = 0
    BY EventLogAssumption
  <1>2. Distinct(<<>>)
    BY <1>1 DEF Distinct
  <1> QED BY <1>1, <1>2 DEF Resting, Jobs

\* One process takes another turn, the others stay as they are.
LEMMA TurnWorks ==
    ASSUME LogTypes, Working, events' \in Nat, day' \in Nat, events <= events', day <= day',
           NEW p \in Writers, NEW job, Turns(p, job)
    PROVE  /\ Working' /\ writer' \in [Writers -> Jobs]
           /\ writer'[p] = job /\ \A q \in Writers : q # p => writer'[q] = writer[q]
  <1>1. writer \in [Writers -> Jobs]
    BY DEF LogTypes
  <1>2. writer'[p] = job /\ \A q \in Writers : q # p => writer'[q] = writer[q]
    BY <1>1 DEF Turns
  <1>3. writer' \in [Writers -> Jobs]
    BY <1>1 DEF Turns
  <1>4. events \in Nat /\ day \in Nat
    BY EventLogAssumption DEF LogTypes
  <1>5. 1..events \subseteq 1..events' /\ 1..day \subseteq 1..day'
    BY <1>4
  <1>6. ASSUME NEW q \in Writers
        PROVE  /\ Active(q)' => writer'[q].event \in 1..events' /\ writer'[q].day \in 1..day'
               /\ ~Active(q)' => writer'[q] = Resting
               /\ writer'[q].at # "cleaning" => writer'[q].doomed = <<>>
               /\ Distinct(writer'[q].doomed)
    <2>1. CASE q = p
      BY <1>2, <2>1 DEF Active, Turns
    <2>2. CASE q # p
      BY <1>2, <1>5, <2>2 DEF Active, Working
    <2> QED BY <2>1, <2>2
  <1>7. ASSUME NEW q \in Writers, NEW r \in Writers, Active(q)', Active(r)',
               writer'[q].event = writer'[r].event
        PROVE  q = r
    <2>1. CASE q # p /\ r # p
      BY <1>2, <1>7, <2>1 DEF Active, Working
    <2>2. CASE q = p /\ r # p
      BY <1>2, <1>7, <2>2 DEF Active, Turns
    <2>3. CASE q # p /\ r = p
      BY <1>2, <1>7, <2>3 DEF Active, Turns
    <2> QED BY <2>1, <2>2, <2>3
  <1>8. Working'
    BY <1>6, <1>7 DEF Working, Active, Distinct
  <1> QED BY <1>2, <1>3, <1>8

\* What Begin(p) does.
Beginning(p, old, r) ==
    /\ ~Active(p) /\ events' = events + 1 /\ events' \in 0..MaxEvents
    /\ old \subseteq Present /\ RemoveFiles(old)
    /\ r \in Seq(Calendar) /\ Distinct(r) /\ Range(r) \subseteq Present'
    /\ Turns(p, [at |-> "cleaning", event |-> events + 1, day |-> day, doomed |-> r])
    /\ Total(file, Present' \ Range(r)) + 2 <= MaxSize
    /\ UNCHANGED <<day, follower, cursor, shown, again>>

\* Begin is Beginning, for the files that are too old and those to make room.
LEMMA BeginBegins ==
    ASSUME Lasting, NEW p \in Writers, Begin(p)
    PROVE  \E old, r : Beginning(p, old, r)
  <1> DEFINE old == {d \in Present : d + Retention < day}
             kept == Without(order, old)
             r == Doomed(kept, 2)
             job == [at |-> "cleaning", event |-> events + 1, day |-> day, doomed |-> r]
  <1>1. /\ writer[p] = Resting /\ events < MaxEvents /\ events' = events + 1
        /\ RemoveFiles(old) /\ writer' = [writer EXCEPT ![p] = job]
        /\ UNCHANGED <<day, follower, cursor, shown, again>>
    BY DEF Begin
  <1>2. old \subseteq Present /\ old \subseteq Calendar
    BY DEF Present, Calendar
  <1>3. kept = Without(order, old)
    OBVIOUS
  <1>4. r = Doomed(kept, 2)
    OBVIOUS
  <1> HIDE DEF old, kept, r
  <1>5. /\ Present' = Present \ old /\ order' = kept /\ order' \in Seq(Calendar) /\ Listed'
    BY <1>1, <1>2, <1>3, RemovesFiles DEF Lasting
  <1>6. kept \in Seq(Calendar) /\ Distinct(kept) /\ Range(kept) = Present'
    BY <1>5 DEF Listed, Distinct
  <1>7. file \in Files
    BY DEF Lasting, LogTypes
  <1>8. /\ r \in Seq(Calendar) /\ Distinct(r) /\ Range(r) \subseteq Range(kept)
        /\ Total(file, Range(kept) \ Range(r)) + 2 <= MaxSize
    BY <1>4, <1>6, <1>7, DoomedMakesRoom
  <1>9. events \in Nat /\ MaxEvents \in Nat /\ day \in 1..Days /\ day \in Nat
    BY EventLogAssumption DEF Lasting, LogTypes
  <1>10. events' \in 0..MaxEvents /\ events + 1 \in Nat /\ events + 1 \in 1..events'
    BY <1>1, <1>9
  <1>11. Turns(p, job)
    <2>1. job \in Jobs
      BY <1>8, <1>9, <1>10 DEF Jobs
    <2>2. /\ job.at = "cleaning" /\ job.event = events + 1 /\ job.day = day /\ job.doomed = r
      OBVIOUS
    <2> HIDE DEF job
    <2>3. \A q \in Writers \ {p} : Active(q) => writer[q].event # job.event
      <3> SUFFICES ASSUME NEW q \in Writers, Active(q), writer[q].event = job.event PROVE FALSE
        OBVIOUS
      <3>1. writer[q].event \in 1..events
        BY DEF Lasting, Working
      <3> QED BY <1>9, <2>2, <3>1
    <2>4. job.day \in 1..day'
      BY <1>1, <1>9, <2>2
    <2> QED BY <1>1, <1>8, <1>10, <2>1, <2>2, <2>3, <2>4 DEF Turns
  <1>12. ~Active(p)
    BY <1>1 DEF Active, Resting
  <1>13. Beginning(p, old, r)
    BY <1>1, <1>2, <1>6, <1>8, <1>10, <1>11, <1>12 DEF Beginning
  <1> QED BY <1>13

\* What RemoveNext(p) does.
Removing(p, d) ==
    /\ writer[p].at = "cleaning" /\ writer[p].doomed # <<>> /\ d = writer[p].doomed[1] /\ d \in Present
    /\ RemoveFiles({d})
    /\ \E r : /\ Turns(p, [writer[p] EXCEPT !.doomed = r]) /\ [writer[p] EXCEPT !.doomed = r].doomed = r
              /\ [writer[p] EXCEPT !.doomed = r].at = "cleaning"
              /\ [writer[p] EXCEPT !.doomed = r].event = writer[p].event
              /\ Range(writer[p].doomed) = Range(r) \cup {d}
    /\ UNCHANGED <<day, events, follower, cursor, shown, again>>

\* The event is given up, or over.
Quitting(p) == Active(p) /\ Turns(p, Resting) /\ UNCHANGED <<day, events, order, follower, cursor, shown, again>>

\* RemoveNext removes the first file of its list, or the event is given up.
LEMMA RemoveNextRemoves ==
    ASSUME Lasting, NEW p \in Writers, RemoveNext(p)
    PROVE  \/ \E d \in Present : Removing(p, d)
           \/ Quitting(p) /\ UNCHANGED <<file, owed>>
  <1> DEFINE doomed == writer[p].doomed
             d == doomed[1]
             r == SubSeq(doomed, 2, Len(doomed))
             job == [writer[p] EXCEPT !.doomed = r]
  <1>1. writer[p].at = "cleaning" /\ doomed # <<>>
    BY DEF RemoveNext
  <1>2. writer[p] \in Jobs /\ doomed \in Seq(Calendar) /\ Distinct(doomed)
    BY Typed DEF Lasting, Working
  <1>3. writer \in [Writers -> Jobs]
    BY DEF Lasting, LogTypes
  <1>4. CASE d \in Present
    <2>1. RemoveFiles({d}) /\ UNCHANGED <<day, events, follower, cursor, shown, again>>
      BY <1>4 DEF RemoveNext
    <2>2. writer' = [writer EXCEPT ![p].doomed = r]
      BY <1>3, <1>4 DEF RemoveNext
    <2>3. writer' = [writer EXCEPT ![p] = job]
      BY <1>3, <2>2
    <2>a. /\ Len(doomed) \in Nat /\ Len(doomed) # 0 /\ DOMAIN doomed = 1..Len(doomed)
          /\ \A i \in 1..Len(doomed) : doomed[i] \in Calendar
      BY <1>1, <1>2
    <2>4. /\ r \in Seq(Calendar) /\ Len(r) = Len(doomed) - 1 /\ DOMAIN r = 1..Len(r)
          /\ \A i \in 1..Len(r) : r[i] = doomed[i + 1]
      <3> HIDE DEF doomed
      <3>1. \A i \in 2..Len(doomed) : doomed[i] \in Calendar
        BY <2>a
      <3>2. /\ SubSeq(doomed, 2, Len(doomed)) \in Seq(Calendar)
            /\ Len(SubSeq(doomed, 2, Len(doomed))) = IF 2 <= Len(doomed) THEN Len(doomed) - 2 + 1 ELSE 0
            /\ \A i \in 1..(Len(doomed) - 2 + 1) : SubSeq(doomed, 2, Len(doomed))[i] = doomed[2 + i - 1]
        BY <2>a, <3>1, SubSeqProperties
      <3> DEFINE c == SubSeq(doomed, 2, Len(doomed))
      <3>3. c = r
        OBVIOUS
      <3> HIDE DEF c, r
      <3>a. /\ c \in Seq(Calendar) /\ Len(c) = IF 2 <= Len(doomed) THEN Len(doomed) - 2 + 1 ELSE 0
            /\ \A i \in 1..(Len(doomed) - 2 + 1) : c[i] = doomed[2 + i - 1]
        BY <3>2 DEF c
      <3>4. Len(r) = Len(doomed) - 1
        <4> DEFINE n == Len(doomed)
        <4>1. n \in Nat /\ n # 0 /\ Len(c) = IF 2 <= n THEN n - 2 + 1 ELSE 0
          BY <2>a, <3>a
        <4> HIDE DEF n
        <4>2. Len(c) = n - 1
          BY <4>1
        <4> QED BY <3>3, <4>2 DEF n
      <3>5. \A i \in 1..Len(r) : r[i] = doomed[i + 1]
        <4> SUFFICES ASSUME NEW i \in 1..Len(r) PROVE r[i] = doomed[i + 1]
          OBVIOUS
        <4>1. i \in 1..(Len(doomed) - 2 + 1) /\ 2 + i - 1 = i + 1
          BY <2>a, <3>4
        <4> QED BY <3>a, <3>3, <4>1
      <3>6. DOMAIN r = 1..Len(r)
        BY <3>a, <3>3
      <3> QED BY <3>a, <3>3, <3>4, <3>5, <3>6
    <2> HIDE DEF r
    <2>5. Distinct(r)
      <3> SUFFICES ASSUME NEW i \in 1..Len(r), NEW j \in 1..Len(r), r[i] = r[j] PROVE i = j
        BY DEF Distinct
      <3>1. i + 1 \in 1..Len(doomed) /\ j + 1 \in 1..Len(doomed) /\ doomed[i + 1] = doomed[j + 1]
        BY <2>a, <2>4
      <3> HIDE DEF doomed
      <3>2. i + 1 = j + 1
        BY <1>2, <3>1 DEF Distinct
      <3> QED BY <3>2
    <2>6. Range(doomed) = Range(r) \cup {d}
      <3> HIDE DEF doomed
      <3>1. Range(doomed) = {doomed[i] : i \in 1..Len(doomed)} /\ Range(r) = {r[i] : i \in 1..Len(r)}
        BY <2>a, <2>4 DEF Range
      <3>2. \A i \in 1..Len(doomed) : i = 1 \/ (i - 1 \in 1..Len(r) /\ doomed[i] = r[i - 1])
        BY <2>a, <2>4
      <3>3. 1 \in 1..Len(doomed) /\ \A i \in 1..Len(r) : i + 1 \in 1..Len(doomed)
        BY <2>a, <2>4
      <3> QED BY <2>4, <3>1, <3>2, <3>3
    <2>7. job \in Jobs
      BY <1>2, <2>4 DEF Jobs
    <2>8. /\ job.at = "cleaning" /\ job.event = writer[p].event /\ job.day = writer[p].day
          /\ job.doomed = r
      BY <1>1, <1>2 DEF Jobs
    <2>9. Turns(p, job)
      <3>1. Active(p)
        BY <1>1 DEF Active
      <3> HIDE DEF job
      <3>2. job.event \in 1..events' /\ job.day \in 1..day'
        BY <2>1, <2>8, <3>1 DEF Lasting, Working
      <3>3. \A q \in Writers \ {p} : Active(q) => writer[q].event # job.event
        BY <2>8, <3>1 DEF Lasting, Working
      <3> QED BY <2>3, <2>5, <2>7, <2>8, <3>2, <3>3 DEF Turns
    <2>10. Removing(p, d)
      BY <1>1, <1>4, <2>1, <2>6, <2>8, <2>9 DEF Removing
    <2> QED BY <1>4, <2>10
  <1>5. CASE d \notin Present
    <2>1. /\ writer' = [writer EXCEPT ![p] = Resting] /\ UNCHANGED <<file, order, owed>>
          /\ UNCHANGED <<day, events, follower, cursor, shown, again>>
      BY <1>5 DEF RemoveNext
    <2>2. Turns(p, Resting)
      BY <2>1, RestingJob DEF Turns
    <2>3. Active(p)
      BY <1>1 DEF Active
    <2> QED BY <2>1, <2>2, <2>3 DEF Quitting
  <1> QED BY <1>4, <1>5

\* What BeginLine(p), EndLine(p) and Tear(p) do.
Opening(p) ==
    /\ writer[p].at = "cleaning" /\ writer[p].doomed = <<>>
    /\ file' = [file EXCEPT ![writer[p].day] = Append(@, Begun(writer[p].event))]
    /\ order' = Append(Without(order, {writer[p].day}), writer[p].day)
    /\ Turns(p, [writer[p] EXCEPT !.at = "appending"])
    /\ [writer[p] EXCEPT !.at = "appending"].at = "appending"
    /\ [writer[p] EXCEPT !.at = "appending"].event = writer[p].event
    /\ UNCHANGED <<day, events, follower, cursor, shown, again, owed>>

\* BeginLine is Opening.
LEMMA BeginLineOpens ==
    ASSUME Lasting, NEW p \in Writers, BeginLine(p)
    PROVE  Opening(p)
  <1> DEFINE job == [writer[p] EXCEPT !.at = "appending"]
  <1>1. /\ writer[p].at = "cleaning" /\ writer[p].doomed = <<>>
        /\ file' = [file EXCEPT ![writer[p].day] = Append(@, Begun(writer[p].event))]
        /\ order' = Append(Without(order, {writer[p].day}), writer[p].day)
        /\ writer' = [writer EXCEPT ![p].at = "appending"]
        /\ UNCHANGED <<day, events, follower, cursor, shown, again, owed>>
    BY DEF BeginLine
  <1>2. writer \in [Writers -> Jobs] /\ writer[p] \in Jobs
    BY DEF Lasting, LogTypes
  <1>3. writer' = [writer EXCEPT ![p] = job]
    BY <1>1, <1>2
  <1>4. /\ job \in Jobs /\ job.at = "appending" /\ job.event = writer[p].event
        /\ job.day = writer[p].day /\ job.doomed = <<>>
    BY <1>1, <1>2 DEF Jobs
  <1>5. Active(p)
    BY <1>1 DEF Active
  <1> HIDE DEF job
  <1>6. job.event \in 1..events' /\ job.day \in 1..day'
    BY <1>1, <1>4, <1>5 DEF Lasting, Working
  <1>7. \A q \in Writers \ {p} : Active(q) => writer[q].event # job.event
    BY <1>4, <1>5 DEF Lasting, Working
  <1>8. Distinct(job.doomed)
    BY <1>4, RestingJob
  <1>9. Turns(p, job)
    BY <1>3, <1>4, <1>6, <1>7, <1>8 DEF Turns
  <1> QED BY <1>1, <1>4, <1>9 DEF Opening, job

\* The line ends: the debt may grow by its event.
Ending(p) ==
    /\ writer[p].at = "appending" /\ writer[p].day \in Present
    /\ file' = [file EXCEPT ![writer[p].day] = Append(@, Ended(writer[p].event))]
    /\ owed' \in {owed, [owed EXCEPT !.events = @ \cup {writer[p].event}]}
    /\ Quitting(p)

\* EndLine ends the line, or only the turn when the file was removed meanwhile.
LEMMA EndLineEnds ==
    ASSUME Lasting, NEW p \in Writers, EndLine(p)
    PROVE  writer[p].at = "appending" /\ (Ending(p) \/ (Quitting(p) /\ UNCHANGED <<file, owed>>))
  <1> DEFINE d == writer[p].day
             e == writer[p].event
             more == follower.at \in {"reading", "first", "draining"}
                     /\ d \notin owed.removed /\ e \in Range(Decoded(file'[d]))
  <1>1. /\ writer[p].at = "appending" /\ writer' = [writer EXCEPT ![p] = Resting]
        /\ UNCHANGED <<day, order, events, follower, cursor, shown, again>>
    BY DEF EndLine
  <1>2. Quitting(p)
    BY <1>1, RestingJob DEF Quitting, Turns, Active
  <1>3. CASE Unfinished(p)
    <2>1. /\ file' = [file EXCEPT ![d] = Append(@, Ended(e))]
          /\ owed' = [owed EXCEPT !.events = IF more THEN @ \cup {e} ELSE @]
      BY <1>3 DEF EndLine
    <2>2. d \in Present
      <3>1. d \in 1..Days
        <4>1. d \in 1..day /\ day \in 1..Days
          BY <1>1 DEF Lasting, LogTypes, Working, Active
        <4> HIDE DEF d
        <4> QED BY <4>1, EventLogAssumption
      <3> QED BY <1>3, <3>1 DEF Unfinished, Present
    <2>3. owed \in Debts
      BY DEF Lasting, LogTypes
    <2>4. owed' \in {owed, [owed EXCEPT !.events = @ \cup {e}]}
      <3> HIDE DEF more
      <3>1. CASE more
        BY <2>1, <3>1
      <3>2. CASE ~more
        BY <2>1, <2>3, <3>2 DEF Debts
      <3> QED BY <3>1, <3>2
    <2>5. file' = [file EXCEPT ![d] = Append(@, Ended(e))]
      BY <2>1
    <2> HIDE DEF more
    <2>6. Ending(p)
      BY <1>1, <1>2, <2>2, <2>4, <2>5, Zenon DEF Ending
    <2> QED BY <1>1, <2>6
  <1>4. CASE ~Unfinished(p)
    BY <1>1, <1>2, <1>4 DEF EndLine
  <1> QED BY <1>3, <1>4

\* Tear ends the turn.
LEMMA TearQuits ==
    ASSUME Lasting, NEW p \in Writers, Tear(p)
    PROVE  writer[p].at = "appending" /\ Quitting(p) /\ UNCHANGED <<file, owed>>
BY RestingJob DEF Tear, Quitting, Turns, Active

\* A day is appended to a list that has it no more.
LEMMA ListsLast ==
    ASSUME NEW S, NEW list \in Seq(S), NEW d \in S, Distinct(list)
    PROVE  /\ Append(Without(list, {d}), d) \in Seq(S)
           /\ Range(Append(Without(list, {d}), d)) = Range(list) \cup {d}
           /\ Distinct(Append(Without(list, {d}), d))
  <1> DEFINE w == Without(list, {d})
             a == Append(w, d)
  <1>1. w \in Seq(S) /\ Range(w) = Range(list) \ {d} /\ Distinct(w)
    BY WithoutDays
  <1> HIDE DEF w
  <1>2. /\ a \in Seq(S) /\ Len(a) = Len(w) + 1 /\ a[Len(w) + 1] = d
        /\ \A i \in 1..Len(w) : a[i] = w[i]
    BY <1>1, AppendProperties
  <1> HIDE DEF a
  <1>3. /\ Len(w) \in Nat /\ DOMAIN w = 1..Len(w) /\ DOMAIN a = 1..(Len(w) + 1)
        /\ \A i : i \in 1..(Len(w) + 1) <=> i \in 1..Len(w) \/ i = Len(w) + 1
    BY <1>1, <1>2
  <1>4. Range(a) = {a[i] : i \in 1..(Len(w) + 1)} /\ Range(w) = {w[i] : i \in 1..Len(w)}
    BY <1>3 DEF Range
  <1>5. Range(a) = Range(w) \cup {d}
    BY <1>2, <1>3, <1>4
  <1>6. \A i \in 1..Len(w) : a[i] # d
    BY <1>1, <1>2, <1>4
  <1>7. Distinct(a)
    BY <1>1, <1>2, <1>3, <1>6 DEF Distinct
  <1> QED BY <1>1, <1>2, <1>5, <1>7 DEF a, w

\* A process at work writes an event that has begun, on a day that there is.
LEMMA WriterDays ==
    ASSUME Lasting, NEW p \in Writers, Active(p)
    PROVE  /\ writer[p].day \in 1..Days /\ writer[p].event \in 1..events
           /\ Begun(writer[p].event) \in Parts /\ Ended(writer[p].event) \in Parts
  <1>1. writer[p].day \in 1..day /\ writer[p].event \in 1..events
    BY DEF Lasting, Working
  <1>2. day \in 1..Days /\ Days \in Nat
    BY EventLogAssumption DEF Lasting, LogTypes
  <1>3. events \in Nat
    BY EventLogAssumption DEF Lasting, LogTypes
  <1>4. writer[p].event \in Nat /\ writer[p].day \in 1..Days
    BY <1>1, <1>2, <1>3
  <1> QED BY <1>1, <1>4 DEF Begun, Ended, Parts

\* The forms of a writer's step.
Writing(p) ==
    \/ \E old, r : Beginning(p, old, r)
    \/ \E d \in Present : Removing(p, d)
    \/ Opening(p)
    \/ Ending(p)
    \/ Quitting(p) /\ UNCHANGED <<file, owed>>

\* A step of Writes has one of these forms.
LEMMA WritesWriting ==
    ASSUME Lasting, Writes
    PROVE  \E p \in Writers : Writing(p)
  <1>1. PICK p \in Writers : Begin(p) \/ RemoveNext(p) \/ BeginLine(p) \/ EndLine(p) \/ Tear(p)
    BY DEF Writes
  <1>2. Writing(p)
    <2>1. CASE Begin(p)
      BY <2>1, BeginBegins DEF Writing
    <2>2. CASE RemoveNext(p)
      BY <2>2, RemoveNextRemoves DEF Writing
    <2>3. CASE BeginLine(p)
      BY <2>3, BeginLineOpens DEF Writing
    <2>4. CASE EndLine(p)
      BY <2>4, EndLineEnds DEF Writing
    <2>5. CASE Tear(p)
      BY <2>5, TearQuits DEF Writing
    <2> QED BY <1>1, <2>1, <2>2, <2>3, <2>4, <2>5
  <1> QED BY <1>2

\* A writer's step keeps the types, the turns and the order of the files.
LEMMA WritingLasts ==
    ASSUME Lasting, NEW p \in Writers, Writing(p)
    PROVE  Lasting' /\ UNCHANGED <<day, follower, cursor, shown, again>>
  <1>1. /\ events \in Nat /\ day \in Nat /\ events \in 0..MaxEvents /\ day \in 1..Days
        /\ follower \in Followers /\ cursor \in [1..Days -> Cursors] /\ owed \in Debts
        /\ file \in Files /\ order \in Seq(Calendar) /\ Listed /\ Working /\ LogTypes
    BY EventLogAssumption DEF Lasting, LogTypes
  <1>2. ASSUME NEW old, NEW r, Beginning(p, old, r)
        PROVE  Lasting' /\ UNCHANGED <<day, follower, cursor, shown, again>>
    <2>1. old \subseteq Calendar
      BY <1>2 DEF Beginning, Present, Calendar
    <2>2. /\ RemoveFiles(old) /\ events' = events + 1 /\ events' \in 0..MaxEvents
          /\ UNCHANGED <<day, follower, cursor, shown, again>>
      BY <1>2 DEF Beginning
    <2>3. file' \in Files /\ order' \in Seq(Calendar) /\ owed' \in Debts /\ Listed'
      BY <1>1, <2>1, <2>2, RemovesFiles
    <2>4. Working' /\ writer' \in [Writers -> Jobs]
      <3> DEFINE job == [at |-> "cleaning", event |-> events + 1, day |-> day, doomed |-> r]
      <3>1. Turns(p, job)
        BY <1>2 DEF Beginning
      <3>2. events' \in Nat /\ day' \in Nat /\ events <= events' /\ day <= day'
        BY <1>1, <2>2
      <3> HIDE DEF job
      <3> QED BY <1>1, <3>1, <3>2, TurnWorks
    <2> QED BY <1>1, <2>2, <2>3, <2>4 DEF Lasting, LogTypes
  <1>3. ASSUME NEW d \in Present, Removing(p, d)
        PROVE  Lasting' /\ UNCHANGED <<day, follower, cursor, shown, again>>
    <2>1. {d} \subseteq Calendar
      BY DEF Present, Calendar
    <2>2. /\ RemoveFiles({d}) /\ UNCHANGED <<day, events, follower, cursor, shown, again>>
      BY <1>3 DEF Removing
    <2>3. file' \in Files /\ order' \in Seq(Calendar) /\ owed' \in Debts /\ Listed'
      BY <1>1, <2>1, <2>2, RemovesFiles
    <2>4. Working' /\ writer' \in [Writers -> Jobs]
      <3>1. PICK job : Turns(p, job)
        BY <1>3 DEF Removing
      <3> QED BY <1>1, <2>2, <3>1, TurnWorks
    <2> QED BY <1>1, <2>2, <2>3, <2>4 DEF Lasting, LogTypes
  <1>4. ASSUME Opening(p)
        PROVE  Lasting' /\ UNCHANGED <<day, follower, cursor, shown, again>>
    <2> DEFINE d == writer[p].day
               x == Begun(writer[p].event)
    <2>1. d \in 1..Days /\ d \in Calendar /\ x \in Parts
      BY <1>4, WriterDays DEF Opening, Active, Calendar
    <2>2. /\ file' = [file EXCEPT ![d] = Append(@, x)] /\ order' = Append(Without(order, {d}), d)
          /\ UNCHANGED <<day, events, follower, cursor, shown, again, owed>>
      BY <1>4 DEF Opening
    <2> HIDE DEF d, x
    <2>3. file' \in Files /\ Present' = Present \cup {d}
      BY <1>1, <2>1, <2>2, ExtendsFile
    <2>4. order' \in Seq(Calendar) /\ Range(order') = Range(order) \cup {d} /\ Distinct(order')
      BY <1>1, <2>1, <2>2, ListsLast DEF Listed
    <2>5. Listed'
      BY <1>1, <2>3, <2>4 DEF Listed, Distinct
    <2>6. Working' /\ writer' \in [Writers -> Jobs]
      <3>1. PICK job : Turns(p, job)
        BY <1>4 DEF Opening
      <3> QED BY <1>1, <2>2, <3>1, TurnWorks
    <2> QED BY <1>1, <2>2, <2>3, <2>4, <2>5, <2>6 DEF Lasting, LogTypes
  <1>5. ASSUME Quitting(p)
        PROVE  /\ Working' /\ writer' \in [Writers -> Jobs]
               /\ UNCHANGED <<day, events, order, follower, cursor, shown, again>>
    <2>1. Turns(p, Resting) /\ UNCHANGED <<day, events, order, follower, cursor, shown, again>>
      BY <1>5 DEF Quitting
    <2> QED BY <1>1, <2>1, TurnWorks
  <1>6. ASSUME Ending(p)
        PROVE  Lasting' /\ UNCHANGED <<day, follower, cursor, shown, again>>
    <2> DEFINE d == writer[p].day
               x == Ended(writer[p].event)
    <2>1. d \in 1..Days /\ x \in Parts /\ writer[p].event \in Nat /\ d \in Present
      <3>1. d \in 1..Days /\ x \in Parts /\ d \in Present
        BY <1>6, WriterDays DEF Ending, Active
      <3>2. writer[p].event \in Nat
        BY <1>1, Typed
      <3> QED BY <3>1, <3>2
    <2>2. /\ file' = [file EXCEPT ![d] = Append(@, x)] /\ Quitting(p)
          /\ owed' \in {owed, [owed EXCEPT !.events = @ \cup {writer[p].event}]}
      BY <1>6 DEF Ending
    <2>3. owed' \in Debts
      BY <1>1, <2>1, <2>2 DEF Debts
    <2> HIDE DEF d, x
    <2>4. file' \in Files /\ Present' = Present \cup {d}
      BY <1>1, <2>1, <2>2, ExtendsFile
    <2>5. Present' = Present
      BY <2>1, <2>4
    <2>6. /\ Working' /\ writer' \in [Writers -> Jobs]
          /\ UNCHANGED <<day, events, order, follower, cursor, shown, again>>
      BY <1>5, <2>2
    <2>7. Listed'
      BY <1>1, <2>5, <2>6 DEF Listed, Distinct
    <2> QED BY <1>1, <2>3, <2>4, <2>6, <2>7 DEF Lasting, LogTypes
  <1>7. ASSUME Quitting(p), UNCHANGED <<file, owed>>
        PROVE  Lasting' /\ UNCHANGED <<day, follower, cursor, shown, again>>
    <2>1. Listed'
      BY <1>1, <1>5, <1>7 DEF Listed, Distinct, Present
    <2> QED BY <1>1, <1>5, <1>7, <2>1 DEF Lasting, LogTypes
  <1> QED BY <1>2, <1>3, <1>4, <1>6, <1>7 DEF Writing

-----------------------------------------------------------------------------
\* LastEnd is the greatest place where a line ends, or zero.
LEMMA LastEndIsLast ==
    ASSUME NEW s \in Seq(Parts)
    PROVE  /\ LastEnd(s) \in Nat /\ LastEnd(s) <= Len(s)
           /\ \A i \in 1..Len(s) : s[i].part = "last" => i <= LastEnd(s)
  <1> DEFINE T == {0} \cup Ends(s)
  <1>1. Len(s) \in Nat
    OBVIOUS
  <1>2. T \in SUBSET Nat /\ T # {} /\ \A i \in T : i <= Len(s)
    BY <1>1 DEF Ends
  <1> HIDE DEF T
  <1>3. \E m \in T : \A i \in T : i <= m
    BY <1>1, <1>2, GreatestNumber
  <1>a. Ends(s) \subseteq T /\ T = {0} \cup Ends(s)
    BY DEF T
  <1>4. \E m \in T : \A i \in Ends(s) : i <= m
    BY <1>3, <1>a
  <1>5. LastEnd(s) = CHOOSE m \in T : \A i \in Ends(s) : i <= m
    BY <1>a, Zenon DEF LastEnd
  <1>6. LastEnd(s) \in T /\ \A i \in Ends(s) : i <= LastEnd(s)
    BY <1>4, <1>5, Zenon
  <1> QED BY <1>2, <1>6 DEF Ends

\* No line ends here; t is f from a place on; a line that ends in s ends there in f.
Unended(pending) == \A i \in 1..Len(pending) : pending[i].part = "first"
Shifted(t, f, offset) == \A i \in 1..Len(t) : i + offset \in 1..Len(f) /\ t[i] = f[i + offset]
EndsIn(s, f, offset) ==
    \A i \in 1..Len(s) : s[i].part = "last" => \E j \in 1..Len(f) : offset < j /\ s[i] = f[j]

\* The rest of a file.
LEMMA Suffix ==
    ASSUME NEW f \in Seq(Parts), NEW offset \in Nat
    PROVE  /\ SubSeq(f, offset + 1, Len(f)) \in Seq(Parts)
           /\ Shifted(SubSeq(f, offset + 1, Len(f)), f, offset)
  <1> DEFINE N == Len(f)
             t == SubSeq(f, offset + 1, N)
  <1>1. N \in Nat /\ \A i \in 1..N : f[i] \in Parts
    OBVIOUS
  <1> HIDE DEF N
  <1>2. /\ t \in Seq(Parts) /\ Len(t) = IF offset + 1 <= N THEN N - (offset + 1) + 1 ELSE 0
        /\ \A i \in 1..(N - (offset + 1) + 1) : t[i] = f[(offset + 1) + i - 1]
    <2>1. \A i \in (offset + 1)..N : f[i] \in Parts
      BY <1>1
    <2> QED BY <1>1, <2>1, SubSeqProperties
  <1> HIDE DEF t
  <1>3. ASSUME NEW i \in 1..Len(t) PROVE i + offset \in 1..N /\ t[i] = f[i + offset]
    <2> DEFINE n == Len(t)
    <2>1. n = (IF offset + 1 <= N THEN N - (offset + 1) + 1 ELSE 0) /\ i \in 1..n
      BY <1>2
    <2> HIDE DEF n
    <2>2. i \in 1..(N - (offset + 1) + 1) /\ (offset + 1) + i - 1 = i + offset /\ i + offset \in 1..N
      BY <1>1, <2>1
    <2> QED BY <1>2, <2>2
  <1> QED BY <1>2, <1>3 DEF t, N, Shifted

\* What follows the last line that ended is the first part of one.
LEMMA Remainder ==
    ASSUME NEW s \in Seq(Parts)
    PROVE  /\ SubSeq(s, LastEnd(s) + 1, Len(s)) \in Seq(Parts)
           /\ Unended(SubSeq(s, LastEnd(s) + 1, Len(s)))
  <1> DEFINE offset == LastEnd(s)
             rest == SubSeq(s, offset + 1, Len(s))
  <1>1. offset \in Nat /\ \A i \in 1..Len(s) : s[i] \in Parts /\ (s[i].part = "last" => i <= offset)
    BY LastEndIsLast
  <1> HIDE DEF offset
  <1>2. rest \in Seq(Parts) /\ \A i \in 1..Len(rest) : i + offset \in 1..Len(s) /\ rest[i] = s[i + offset]
    BY <1>1, Suffix DEF Shifted
  <1> HIDE DEF rest
  <1>3. ASSUME NEW i \in 1..Len(rest) PROVE rest[i].part = "first"
    <2>1. Len(rest) \in Nat
      BY <1>2
    <2>2. i \in Nat /\ 0 < i
      BY <2>1
    <2>3. ~(i + offset <= offset)
      BY <1>1, <2>2
    <2>4. rest[i] \in Parts /\ rest[i].part # "last"
      BY <1>1, <1>2, <2>3
    <2> QED BY <2>4 DEF Parts
  <1> QED BY <1>2, <1>3 DEF rest, offset, Unended

\* A line that ends after what waits is one that was appended.
LEMMA Drains ==
    ASSUME NEW pending \in Seq(Parts), NEW f \in Seq(Parts), NEW t \in Seq(Parts), NEW offset \in Nat,
           Shifted(t, f, offset), Unended(pending)
    PROVE  pending \o t \in Seq(Parts) /\ EndsIn(pending \o t, f, offset)
  <1> DEFINE s == pending \o t
             m == Len(pending)
             n == Len(t)
  <1>1. /\ s \in Seq(Parts) /\ Len(s) = m + n
        /\ \A i \in 1..(m + n) : s[i] = IF i <= m THEN pending[i] ELSE t[i - m]
    BY ConcatProperties
  <1>2. m \in Nat /\ n \in Nat
    OBVIOUS
  <1>3. \A i \in 1..m : pending[i].part = "first"
    BY DEF Unended
  <1>4. \A i \in 1..n : i + offset \in 1..Len(f) /\ t[i] = f[i + offset]
    BY DEF Shifted
  <1> HIDE DEF s, m, n
  <1>5. ASSUME NEW i \in 1..Len(s), s[i].part = "last"
        PROVE  \E j \in 1..Len(f) : offset < j /\ s[i] = f[j]
    <2>1. i \in 1..(m + n)
      BY <1>1
    <2>2. ~(i <= m)
      <3>1. i <= m => i \in 1..m
        BY <1>2, <2>1
      <3> QED BY <1>1, <1>3, <1>5, <2>1, <3>1
    <2>3. i - m \in 1..n /\ i - m \in Nat /\ 0 < i - m
      BY <1>2, <2>1, <2>2
    <2>4. s[i] = t[i - m]
      BY <1>1, <2>1, <2>2
    <2>5. (i - m) + offset \in 1..Len(f) /\ t[i - m] = f[(i - m) + offset] /\ offset < (i - m) + offset
      BY <1>4, <2>3
    <2> QED BY <2>4, <2>5
  <1> QED BY <1>1, <1>5 DEF s, EndsIn

\* What DrainPath(d) does when the file is there: it shows events whose lines end
\* behind the cursor.
Draining(d, new, rest) ==
    /\ follower.at \in {"first", "draining"} /\ follower' = Done(d)
    /\ cursor' = [cursor EXCEPT ![d] = [offset |-> Len(file[d]), pending |-> rest]]
    /\ rest \in Seq(Parts) /\ Unended(rest)
    /\ \A e \in new :
          /\ e \in Nat /\ e \notin follower.seen
          /\ \E i \in 1..Len(file[d]) :
                /\ file[d][i] = Ended(e)
                /\ \/ cursor[d] = NoCursor \/ Len(file[d]) < cursor[d].offset \/ cursor[d].offset < i
    /\ shown' = shown \cup new /\ again' = again \cup (shown \cap new)

\* DrainPath is Draining, or the path has vanished.
LEMMA DrainPathDrains ==
    ASSUME Lasting, Followed, NEW d \in 1..Days, DrainPath(d)
    PROVE  /\ UNCHANGED <<day, file, order, events, writer, owed>>
           /\ \/ \E new, rest : Draining(d, new, rest)
              \/ /\ d \notin Present /\ follower.at \in {"first", "draining"} /\ follower' = Done(d)
                 /\ UNCHANGED <<cursor, shown, again>>
  <1>1. /\ follower.at \in {"first", "draining"} /\ follower' = Done(d)
        /\ UNCHANGED <<day, file, order, events, writer, owed>>
    BY DEF DrainPath
  <1>2. CASE d \notin Present
    BY <1>1, <1>2 DEF DrainPath
  <1>3. CASE d \in Present
    <2> DEFINE c == Current(d)
               t == SubSeq(file[d], c.offset + 1, Len(file[d]))
               s == c.pending \o t
               rest == SubSeq(s, LastEnd(s) + 1, Len(s))
               new == Range(Decoded(s)) \ follower.seen
    <2>1. /\ cursor' = [cursor EXCEPT ![d] = [offset |-> Len(file[d]), pending |-> rest]]
          /\ Show(new)
      BY <1>3 DEF DrainPath
    <2>2. /\ file[d] \in Seq(Parts) /\ cursor[d].offset \in Int /\ cursor[d].pending \in Seq(Parts)
      BY Typed DEF Lasting
    <2>3. /\ cursor[d] # NoCursor => cursor[d].offset >= 0
          /\ Unended(cursor[d].pending)
      BY DEF Followed, Unended
    <2>4. /\ c.offset \in Nat /\ c.pending \in Seq(Parts)
          /\ Unended(c.pending)
          /\ \/ cursor[d] = NoCursor \/ Len(file[d]) < cursor[d].offset \/ cursor[d].offset = c.offset
      <3>1. CASE cursor[d] = NoCursor \/ Len(file[d]) < cursor[d].offset
        <4>1. c = [offset |-> 0, pending |-> <<>>]
          BY <3>1 DEF Current
        <4> HIDE DEF c
        <4>2. c.offset = 0 /\ c.pending = <<>> /\ <<>> \in Seq(Parts) /\ Len(<<>>) = 0
          BY <4>1
        <4>3. Unended(c.pending)
          BY <4>2 DEF Unended
        <4> QED BY <3>1, <4>2, <4>3
      <3>2. CASE ~(cursor[d] = NoCursor \/ Len(file[d]) < cursor[d].offset)
        <4>1. c = cursor[d]
          BY <3>2 DEF Current
        <4> HIDE DEF c
        <4> QED BY <2>2, <2>3, <3>2, <4>1
      <3> QED BY <3>1, <3>2
    <2> DEFINE offset == c.offset
               pending == c.pending
    <2>5. t \in Seq(Parts) /\ Shifted(t, file[d], offset)
      <3>1. offset \in Nat
        BY <2>4
      <3>2. t = SubSeq(file[d], offset + 1, Len(file[d]))
        OBVIOUS
      <3> HIDE DEF offset, c, t
      <3> QED BY <2>2, <3>1, <3>2, Suffix
    <2> HIDE DEF t
    <2>6. s \in Seq(Parts) /\ EndsIn(s, file[d], offset)
      <3>1. offset \in Nat /\ pending \in Seq(Parts) /\ s = pending \o t /\ Unended(pending)
        BY <2>4
      <3> HIDE DEF offset, pending, c, s
      <3>2. pending \o t \in Seq(Parts) /\ EndsIn(pending \o t, file[d], offset)
        BY <2>2, <2>5, <3>1, Drains
      <3> QED BY <3>1, <3>2
    <2>7. rest \in Seq(Parts) /\ Unended(rest)
      <3> HIDE DEF s
      <3> QED BY <2>6, Remainder
    <2>8. ASSUME NEW e \in new
          PROVE  /\ e \in Nat /\ e \notin follower.seen
                 /\ \E i \in 1..Len(file[d]) :
                       /\ file[d][i] = Ended(e)
                       /\ \/ cursor[d] = NoCursor \/ Len(file[d]) < cursor[d].offset \/ cursor[d].offset < i
      <3> DEFINE w == Decoded(s)
      <3> HIDE DEF s
      <3>1. w \in Seq(Nat) /\ \A k \in 1..Len(w) : \E i \in 1..Len(s) : s[i] = Ended(w[k])
        BY <2>6, DecodedEnds
      <3>2. e \in Range(w) /\ e \notin follower.seen
        OBVIOUS
      <3> HIDE DEF w, new
      <3>3. DOMAIN w = 1..Len(w)
        BY <3>1
      <3>4. PICK k \in 1..Len(w) : e = w[k]
        BY <3>2, <3>3 DEF Range
      <3>5. PICK i \in 1..Len(s) : s[i] = Ended(e)
        BY <3>1, <3>4
      <3>6. s[i].part = "last"
        BY <3>5 DEF Ended
      <3>7. PICK j \in 1..Len(file[d]) : offset < j /\ s[i] = file[d][j]
        BY <2>6, <3>6 DEF EndsIn
      <3>8. file[d][j] = Ended(e) /\ e \in Nat
        BY <3>1, <3>4, <3>5, <3>7
      <3>9. cursor[d] = NoCursor \/ Len(file[d]) < cursor[d].offset \/ cursor[d].offset < j
        BY <2>4, <3>7
      <3> QED BY <3>2, <3>8, <3>9
    <2> HIDE DEF new, rest, s, c
    <2>9. Draining(d, new, rest)
      BY <1>1, <2>1, <2>7, <2>8 DEF Draining, Show
    <2> QED BY <1>1, <2>9
  <1> QED BY <1>2, <1>3

\* What is decoded from a file has been written.
LEMMA DecodedWritten ==
    ASSUME Lasting, Recorded, NEW d \in 1..Days
    PROVE  /\ Decoded(file[d]) \in Seq(Nat)
           /\ \A k \in 1..Len(Decoded(file[d])) : Decoded(file[d])[k] \in Written
  <1> DEFINE w == Decoded(file[d])
  <1>1. file[d] \in Seq(Parts)
    BY Typed DEF Lasting
  <1>2. w \in Seq(Nat) /\ \A k \in 1..Len(w) : \E i \in 1..Len(file[d]) : file[d][i] = Ended(w[k])
    BY <1>1, DecodedEnds
  <1> HIDE DEF w
  <1>3. ASSUME NEW k \in 1..Len(w) PROVE w[k] \in Written
    <2>1. PICK i \in 1..Len(file[d]) : file[d][i] = Ended(w[k])
      BY <1>2
    <2>2. file[d][i].part = "last" /\ file[d][i].event = w[k]
      BY <2>1 DEF Ended
    <2> QED BY <2>2 DEF Recorded
  <1> QED BY <1>2, <1>3 DEF w

\* The days, files and writers stay as they are but for midnight.
Following ==
    /\ UNCHANGED <<file, order, events, writer>> /\ day' \in 1..Days /\ day <= day'

\* A step that writes nothing leaves what is recorded as it is.
LEMMA FollowingKeeps ==
    ASSUME Lasting, Recorded, Following
    PROVE  /\ Present' = Present /\ Written' = Written /\ Working' /\ Listed' /\ Recorded'
           /\ (follower' \in Followers /\ cursor' \in [1..Days -> Cursors] /\ owed' \in Debts
               => Lasting')
  <1>1. Present' = Present /\ Written' = Written
    BY DEF Following, Present, Written, Active
  <1>2. day \in Nat /\ day' \in Nat /\ day <= day'
    BY EventLogAssumption DEF Lasting, LogTypes, Following
  <1>3. 1..day \subseteq 1..day'
    BY <1>2
  <1>4. Working'
    BY <1>3 DEF Working, Active, Following, Lasting, Distinct
  <1>5. Listed'
    BY <1>1 DEF Listed, Distinct, Following, Lasting
  <1>6. Recorded'
    BY <1>1 DEF Recorded, Following
  <1>7. follower' \in Followers /\ cursor' \in [1..Days -> Cursors] /\ owed' \in Debts => LogTypes'
    BY DEF Following, Lasting, LogTypes
  <1> QED BY <1>1, <1>4, <1>5, <1>6, <1>7 DEF Lasting

\* Before anything is shown.
Silent ==
    /\ Lasting /\ Recorded /\ Known /\ Followed
    /\ follower.at \in {"idle", "capturing", "reading", "failed"}

\* A step before anything is shown has only to keep what it knows and its cursors.
LEMMA SilentKeeps ==
    ASSUME Silent, Following, UNCHANGED <<shown, again>>, follower' \in Followers, owed' \in Debts,
           follower'.seen \subseteq Written, owed'.events \subseteq Written,
           \A k \in 1..Len(follower'.gathered) : follower'.gathered[k] \in Written,
           cursor' \in [1..Days -> Cursors],
           \A d \in 1..Days : Unended(cursor'[d].pending) /\ (cursor'[d] # NoCursor => cursor'[d].offset >= 0)
    PROVE  Lasting' /\ Recorded' /\ Known' /\ Followed'
  <1>1. shown = {} /\ again = {} /\ Lasting /\ Recorded
    BY DEF Silent, Known, Followed
  <1>2. Written' = Written /\ Lasting' /\ Recorded'
    BY <1>1, FollowingKeeps
  <1>3. Known'
    BY <1>1, <1>2 DEF Known
  <1>4. Followed'
    BY <1>1 DEF Followed, Unended
  <1> QED BY <1>2, <1>3, <1>4

\* Follow begins anew when nothing was shown.
LEMMA FollowFollows ==
    ASSUME Lasting, Recorded, Known, Followed, Follow
    PROVE  Following /\ Lasting' /\ Recorded' /\ Known' /\ Followed'
  <1>1. /\ follower.at \in {"idle", "failed"}
        /\ follower' = [at |-> "capturing", todo |-> Present, gathered |-> <<>>, seen |-> {}]
        /\ cursor' = [d \in 1..Days |-> NoCursor]
        /\ owed' = [events |-> {}, removed |-> {}]
        /\ UNCHANGED <<day, file, order, events, writer, shown, again>>
    BY DEF Follow
  <1>2. <<>> \in Seq(Nat) /\ <<>> \in Seq(Parts) /\ Len(<<>>) = 0 /\ Present \in SUBSET Calendar
    BY DEF Present, Calendar
  <1>3. follower' \in Followers /\ follower'.seen = {} /\ follower'.gathered = <<>>
    BY <1>1, <1>2 DEF Followers
  <1>4. owed' \in Debts /\ owed'.events = {}
    BY <1>1 DEF Debts
  <1>5. NoCursor \in Cursors /\ NoCursor.pending = <<>>
    BY <1>2 DEF NoCursor, Cursors
  <1>6. /\ cursor' \in [1..Days -> Cursors] /\ \A d \in 1..Days : cursor'[d] = NoCursor
    BY <1>1, <1>5
  <1>7. Unended(<<>>)
    BY <1>2 DEF Unended
  <1>8. Following
    BY <1>1, EventLogAssumption DEF Following, Lasting, LogTypes
  <1>9. Silent
    BY <1>1 DEF Silent
  <1>10. \A k \in 1..Len(follower'.gathered) : FALSE
    BY <1>2, <1>3
  <1>11. \A d \in 1..Days : Unended(cursor'[d].pending) /\ (cursor'[d] # NoCursor => cursor'[d].offset >= 0)
    BY <1>5, <1>6, <1>7
  <1> QED BY <1>1, <1>3, <1>4, <1>6, <1>8, <1>9, <1>10, <1>11, SilentKeeps

\* What Fail and Done leave of the follower.
LEMMA FailsOrIsDone ==
    ASSUME Lasting, Known, NEW d \in 1..Days, follower' = Done(d) \/ Fail
    PROVE  /\ follower' \in Followers /\ follower'.seen = follower.seen
           /\ \A k \in 1..Len(follower'.gathered) : follower'.gathered[k] \in Written
  <1>1. follower \in Followers /\ <<>> \in Seq(Nat) /\ Len(<<>>) = 0
    BY DEF Lasting, LogTypes
  <1>2. CASE follower' = Done(d)
    BY <1>1, <1>2 DEF Done, Followers, Known
  <1>3. CASE Fail
    <2>1. follower' = [follower EXCEPT !.at = "failed", !.todo = {}, !.gathered = <<>>]
      BY <1>3 DEF Fail
    <2>2. follower' \in Followers /\ follower'.seen = follower.seen /\ follower'.gathered = <<>>
      BY <1>1, <2>1 DEF Followers
    <2> QED BY <1>1, <2>2
  <1> QED BY <1>2, <1>3

\* Capture sets a cursor behind the last whole line, or fails.
LEMMA CaptureFollows ==
    ASSUME Lasting, Recorded, Known, Followed, NEW d \in 1..Days, Capture(d)
    PROVE  Following /\ Lasting' /\ Recorded' /\ Known' /\ Followed'
  <1>1. /\ follower.at = "capturing" /\ (follower' = Done(d) \/ Fail)
        /\ UNCHANGED <<day, file, order, events, writer, shown, again, owed>>
        /\ \/ cursor' = [cursor EXCEPT ![d] = [offset |-> LastEnd(file[d]), pending |-> <<>>]]
           \/ UNCHANGED cursor
    BY DEF Capture
  <1>2. /\ follower' \in Followers /\ follower'.seen = follower.seen
        /\ \A k \in 1..Len(follower'.gathered) : follower'.gathered[k] \in Written
    BY <1>1, FailsOrIsDone
  <1>3. Following
    BY <1>1, EventLogAssumption DEF Following, Lasting, LogTypes
  <1>4. Silent /\ follower.seen \subseteq Written /\ owed'.events \subseteq Written /\ owed' \in Debts
    BY <1>1 DEF Silent, Known, Lasting, LogTypes
  <1> DEFINE c == [offset |-> LastEnd(file[d]), pending |-> <<>>]
  <1>5. c \in Cursors /\ c.offset \in Nat /\ c.pending = <<>>
    <2>1. file[d] \in Seq(Parts) /\ <<>> \in Seq(Parts)
      BY Typed DEF Lasting
    <2>2. LastEnd(file[d]) \in Nat
      BY <2>1, LastEndIsLast
    <2> QED BY <2>1, <2>2 DEF Cursors
  <1>6. Unended(<<>>)
    BY DEF Unended
  <1>7. cursor \in [1..Days -> Cursors]
    BY DEF Lasting, LogTypes
  <1>8. \A e \in 1..Days : Unended(cursor[e].pending) /\ (cursor[e] # NoCursor => cursor[e].offset >= 0)
    BY DEF Followed, Unended
  <1>9. cursor' = [cursor EXCEPT ![d] = c] \/ cursor' = cursor
    BY <1>1
  <1> HIDE DEF c
  <1>10. /\ cursor' \in [1..Days -> Cursors]
         /\ \A e \in 1..Days : cursor'[e] = cursor[e] \/ cursor'[e] = c
    BY <1>5, <1>7, <1>9
  <1>11. \A e \in 1..Days : Unended(cursor'[e].pending) /\ (cursor'[e] # NoCursor => cursor'[e].offset >= 0)
    <2>1. Unended(c.pending) /\ c.offset >= 0
      BY <1>5, <1>6
    <2> QED BY <1>8, <1>10, <2>1
  <1> QED BY <1>1, <1>2, <1>3, <1>4, <1>10, <1>11, SilentKeeps

\* Captured goes on to read.
LEMMA CapturedFollows ==
    ASSUME Lasting, Recorded, Known, Followed, Captured
    PROVE  Following /\ Lasting' /\ Recorded' /\ Known' /\ Followed'
  <1>1. /\ follower.at = "capturing" /\ follower' = [follower EXCEPT !.at = "reading", !.todo = Present]
        /\ UNCHANGED <<day, file, order, events, writer, cursor, shown, again, owed>>
    BY DEF Captured, Paths
  <1>2. follower \in Followers /\ Present \in SUBSET Calendar
    BY DEF Lasting, LogTypes, Present, Calendar
  <1>3. /\ follower' \in Followers /\ follower'.seen = follower.seen
        /\ follower'.gathered = follower.gathered
    BY <1>1, <1>2 DEF Followers
  <1>4. Following
    BY <1>1, EventLogAssumption DEF Following, Lasting, LogTypes
  <1>5. Silent /\ follower.seen \subseteq Written /\ owed'.events \subseteq Written /\ owed' \in Debts
        /\ cursor' \in [1..Days -> Cursors]
        /\ \A k \in 1..Len(follower.gathered) : follower.gathered[k] \in Written
    BY <1>1 DEF Silent, Known, Lasting, LogTypes
  <1>6. \A e \in 1..Days : Unended(cursor'[e].pending) /\ (cursor'[e] # NoCursor => cursor'[e].offset >= 0)
    BY <1>1 DEF Followed, Unended
  <1> QED BY <1>1, <1>3, <1>4, <1>5, <1>6, SilentKeeps

\* ReadPath gathers events that have been written, or fails.
LEMMA ReadPathFollows ==
    ASSUME Lasting, Recorded, Known, Followed, NEW d \in 1..Days, ReadPath(d)
    PROVE  Following /\ Lasting' /\ Recorded' /\ Known' /\ Followed'
  <1> DEFINE w == Decoded(file[d])
             g == follower.gathered \o w
  <1>1. /\ follower.at = "reading"
        /\ follower' = [Done(d) EXCEPT !.gathered = @ \o w] \/ Fail
        /\ UNCHANGED <<day, file, order, events, writer, cursor, shown, again, owed>>
    BY DEF ReadPath
  <1>2. w \in Seq(Nat) /\ \A k \in 1..Len(w) : w[k] \in Written
    BY DecodedWritten
  <1>3. /\ follower \in Followers /\ follower.gathered \in Seq(Nat)
        /\ \A k \in 1..Len(follower.gathered) : follower.gathered[k] \in Written
    BY Typed DEF Lasting, LogTypes, Known
  <1>4. g \in Seq(Nat) /\ \A k \in 1..Len(g) : g[k] \in Written
    <2> HIDE DEF w
    <2> DEFINE h == follower.gathered
               m == Len(h)
               n == Len(w)
    <2>1. h \in Seq(Nat) /\ \A k \in 1..m : h[k] \in Written
      BY <1>3
    <2> HIDE DEF h
    <2>2. /\ h \o w \in Seq(Nat) /\ Len(h \o w) = m + n
          /\ \A k \in 1..(m + n) : (h \o w)[k] = IF k <= m THEN h[k] ELSE w[k - m]
      BY <1>2, <2>1, ConcatProperties
    <2>3. m \in Nat /\ n \in Nat /\ \A k \in 1..n : w[k] \in Written
      BY <1>2, <2>1
    <2>4. g = h \o w
      BY DEF h
    <2> HIDE DEF m, n, g
    <2>5. \A k \in 1..(m + n) : (k <= m => k \in 1..m) /\ (~(k <= m) => k - m \in 1..n)
      BY <2>3
    <2> QED BY <2>1, <2>2, <2>3, <2>4, <2>5
  <1>5. /\ follower' \in Followers /\ follower'.seen = follower.seen
        /\ \A k \in 1..Len(follower'.gathered) : follower'.gathered[k] \in Written
    <2>1. CASE Fail
      BY <2>1, FailsOrIsDone
    <2>2. CASE follower' = [Done(d) EXCEPT !.gathered = @ \o w]
      <3>1. follower' = [Done(d) EXCEPT !.gathered = g]
        BY <1>3, <2>2 DEF Done, Followers
      <3> HIDE DEF g
      <3>2. follower' \in Followers /\ follower'.seen = follower.seen /\ follower'.gathered = g
        BY <1>3, <1>4, <3>1 DEF Done, Followers
      <3> QED BY <1>4, <3>2
    <2> QED BY <1>1, <2>1, <2>2
  <1>6. Following
    BY <1>1, EventLogAssumption DEF Following, Lasting, LogTypes
  <1>7. Silent /\ follower.seen \subseteq Written /\ owed'.events \subseteq Written /\ owed' \in Debts
        /\ cursor' \in [1..Days -> Cursors]
    BY <1>1 DEF Silent, Known, Lasting, LogTypes
  <1>8. \A e \in 1..Days : Unended(cursor'[e].pending) /\ (cursor'[e] # NoCursor => cursor'[e].offset >= 0)
    BY <1>1 DEF Followed, Unended
  <1> QED BY <1>1, <1>5, <1>6, <1>7, <1>8, SilentKeeps

\* ShowHistory shows for the first time; the first drain knows of it.
LEMMA ShowHistoryFollows ==
    ASSUME Lasting, Recorded, Known, Followed, ShowHistory
    PROVE  Following /\ Lasting' /\ Recorded' /\ Known' /\ Followed'
  <1> DEFINE g == follower.gathered
             m == IF Len(g) > Limit THEN Len(g) - Limit + 1 ELSE 1
             h == SubSeq(g, m, Len(g))
             new == Range(h)
  <1>1. /\ follower.at = "reading" /\ shown' = shown \cup new /\ again' = again \cup (shown \cap new)
        /\ follower' = [at |-> "first", todo |-> Present, gathered |-> <<>>, seen |-> new]
        /\ UNCHANGED <<day, file, order, events, writer, cursor, owed>>
    BY DEF ShowHistory, Show
  <1>2. g \in Seq(Nat) /\ \A k \in 1..Len(g) : g[k] \in Written
    BY Typed DEF Lasting, Known
  <1>3. new \subseteq Written
    <2> DEFINE n == Len(g)
    <2>1. n \in Nat /\ m \in Int /\ 1 <= m /\ Limit \in Nat
      BY <1>2, EventLogAssumption
    <2>2. h = SubSeq(g, m, n) /\ \A k \in 1..n : g[k] \in Written
      BY <1>2
    <2> HIDE DEF m, n, h, g
    <2>3. \A i \in m..n : g[i] \in Written
      BY <2>1, <2>2
    <2>4. SubSeq(g, m, n) \in Seq(Written)
      BY <2>1, <2>3, SubSeqProperties
    <2>5. h \in Seq(Written)
      BY <2>2, <2>4
    <2>6. DOMAIN h = 1..Len(h) /\ \A i \in 1..Len(h) : h[i] \in Written
      BY <2>5
    <2> QED BY <2>6 DEF Range
  <1> HIDE DEF new, h, m, g
  <1>4. shown = {} /\ again = {}
    BY <1>1 DEF Known, Followed
  <1>5. Written \subseteq Nat /\ Present \in SUBSET Calendar /\ <<>> \in Seq(Nat) /\ Len(<<>>) = 0
    BY DEF Written, Present, Calendar
  <1>6. /\ follower' \in Followers /\ follower'.at = "first" /\ follower'.todo = Present
        /\ follower'.seen = new /\ follower'.gathered = <<>>
    BY <1>1, <1>3, <1>5 DEF Followers
  <1>7. Following
    BY <1>1, EventLogAssumption DEF Following, Lasting, LogTypes
  <1>8. /\ Present' = Present /\ Written' = Written /\ Lasting' /\ Recorded'
    BY <1>1, <1>6, <1>7, FollowingKeeps DEF Lasting, LogTypes
  <1>9. Known'
    <2>1. shown' = new /\ owed' = owed /\ owed.events \subseteq Written
      BY <1>1, <1>4 DEF Known
    <2> QED BY <1>3, <1>5, <1>6, <1>8, <2>1 DEF Known
  <1>10. Followed'
    <2>1. shown' = new /\ again' = {} /\ cursor' = cursor /\ file' = file
      BY <1>1, <1>4
    <2>2. ASSUME NEW d \in 1..Days, NEW i \in 1..Len(file[d]) PROVE d \in Present
      <3>1. file[d] # <<>>
        BY <1>5, <2>2
      <3> QED BY <3>1 DEF Present, NoFile
    <2> QED BY <1>6, <2>1, <2>2 DEF Followed
  <1> QED BY <1>7, <1>8, <1>9, <1>10

\* What Done leaves of the follower.
LEMMA DoneKeeps ==
    ASSUME Lasting, NEW d \in 1..Days, follower' = Done(d)
    PROVE  /\ follower' \in Followers /\ follower'.at = follower.at /\ follower'.todo = follower.todo \ {d}
           /\ follower'.seen = follower.seen /\ follower'.gathered = follower.gathered
BY DEF Lasting, LogTypes, Done, Followers

\* DrainPath shows none of the events that were shown: they are behind the cursor,
\* or those of the history that it was told of; and none is in another file.
LEMMA DrainPathFollows ==
    ASSUME Lasting, Recorded, Known, Followed, NEW d \in 1..Days, DrainPath(d)
    PROVE  Following /\ Lasting' /\ Recorded' /\ Known' /\ Followed'
  <1>1. /\ UNCHANGED <<day, file, order, events, writer, owed>>
        /\ \/ \E new, rest : Draining(d, new, rest)
           \/ /\ d \notin Present /\ follower.at \in {"first", "draining"} /\ follower' = Done(d)
              /\ UNCHANGED <<cursor, shown, again>>
    BY DrainPathDrains
  <1>2. follower' = Done(d) /\ follower.at \in {"first", "draining"}
    BY <1>1 DEF Draining
  <1>3. /\ follower' \in Followers /\ follower'.at = follower.at /\ follower'.todo = follower.todo \ {d}
        /\ follower'.seen = follower.seen /\ follower'.gathered = follower.gathered
    BY <1>2, DoneKeeps
  <1>4. Following
    BY <1>1, EventLogAssumption DEF Following, Lasting, LogTypes
  <1>5. owed' \in Debts /\ owed' = owed /\ cursor \in [1..Days -> Cursors]
    BY <1>1 DEF Lasting, LogTypes
  <1>6. \A c \in 1..Days : Len(file[c]) \in Nat /\ file[c] \in Seq(Parts)
    BY Typed DEF Lasting
  <1>7. CASE d \notin Present /\ UNCHANGED <<cursor, shown, again>>
    <2>1. /\ Present' = Present /\ Written' = Written /\ Lasting' /\ Recorded'
      BY <1>3, <1>4, <1>5, <1>7, FollowingKeeps
    <2>2. Known'
      BY <1>2, <1>3, <1>5, <1>7, <2>1 DEF Known
    <2>3. ASSUME NEW c \in 1..Days, NEW i \in 1..Len(file[c]) PROVE c # d
      <3>1. Len(file[d]) = 0
        BY <1>7 DEF Present, NoFile
      <3> QED BY <3>1, <2>3
    <2>4. Followed'
      BY <1>1, <1>3, <1>7, <2>3 DEF Followed
    <2> QED BY <1>4, <2>1, <2>2, <2>4
  <1>8. ASSUME NEW new, NEW rest, Draining(d, new, rest)
        PROVE  Lasting' /\ Recorded' /\ Known' /\ Followed'
    <2> DEFINE c == [offset |-> Len(file[d]), pending |-> rest]
    <2>1. /\ cursor' = [cursor EXCEPT ![d] = c] /\ rest \in Seq(Parts) /\ Unended(rest)
          /\ shown' = shown \cup new /\ again' = again \cup (shown \cap new)
      BY <1>8 DEF Draining
    <2>2. c \in Cursors /\ c.offset = Len(file[d]) /\ c.pending = rest
      BY <1>6, <2>1 DEF Cursors
    <2> HIDE DEF c
    <2>3. /\ cursor' \in [1..Days -> Cursors] /\ cursor'[d] = c
          /\ \A e \in 1..Days : e # d => cursor'[e] = cursor[e]
      BY <1>5, <2>1, <2>2
    <2>4. /\ Present' = Present /\ Written' = Written /\ Lasting' /\ Recorded'
      BY <1>3, <1>4, <1>5, <2>3, FollowingKeeps
    <2>5. \A e \in new :
             /\ e \in Nat /\ e \notin follower.seen
             /\ \E i \in 1..Len(file[d]) :
                   /\ file[d][i] = Ended(e)
                   /\ \/ cursor[d] = NoCursor \/ Len(file[d]) < cursor[d].offset \/ cursor[d].offset < i
      BY <1>8 DEF Draining
    <2>6. \A e \in Nat : Ended(e).part = "last" /\ Ended(e).event = e
      BY DEF Ended
    <2>7. new \subseteq Written
      <3> SUFFICES ASSUME NEW e \in new PROVE e \in Written
        OBVIOUS
      <3>1. PICK i \in 1..Len(file[d]) : file[d][i] = Ended(e)
        BY <2>5
      <3>2. file[d][i].part = "last" /\ file[d][i].event = e
        BY <2>5, <2>6, <3>1
      <3> QED BY <3>2 DEF Recorded
    <2>8. Known'
      BY <1>2, <1>3, <1>5, <2>1, <2>4, <2>7 DEF Known
    <2>9. shown \cap new = {}
      <3> SUFFICES ASSUME NEW e \in new, e \in shown PROVE FALSE
        OBVIOUS
      <3>1. PICK i \in 1..Len(file[d]) :
               /\ file[d][i] = Ended(e)
               /\ \/ cursor[d] = NoCursor \/ Len(file[d]) < cursor[d].offset \/ cursor[d].offset < i
        BY <2>5
      <3>2. file[d][i].part = "last" /\ file[d][i].event = e /\ e \notin follower.seen
        BY <2>5, <2>6, <3>1
      <3>3. cursor[d] # NoCursor /\ i <= cursor[d].offset /\ cursor[d].offset <= Len(file[d])
        BY <3>2 DEF Followed
      <3>4. cursor[d].offset \in Int
        BY Typed DEF Lasting
      <3>5. i \in Int
        OBVIOUS
      <3> QED BY <1>6, <3>1, <3>3, <3>4, <3>5
    <2>10. ASSUME NEW a \in 1..Days, NEW i \in 1..Len(file[a]),
                  file[a][i].part = "last", file[a][i].event \in shown'
           PROVE  \/ follower'.at = "first" /\ a \in follower'.todo /\ file[a][i].event \in follower'.seen
                  \/ cursor'[a] # NoCursor /\ i <= cursor'[a].offset /\ cursor'[a].offset <= Len(file[a])
      <3>1. CASE a = d
        <4>1. cursor'[a].offset = Len(file[a]) /\ i <= Len(file[a]) /\ Len(file[a]) \in Nat
          BY <1>6, <2>2, <2>3, <2>10, <3>1
        <4>2. cursor'[a] # NoCursor
          BY <4>1 DEF NoCursor
        <4> QED BY <4>1, <4>2
      <3>2. CASE a # d
        <4>1. file[a][i].event \in shown
          <5> SUFFICES ASSUME file[a][i].event \in new PROVE FALSE
            BY <2>1, <2>10
          <5> DEFINE e == file[a][i].event
          <5>1. PICK j \in 1..Len(file[d]) : file[d][j] = Ended(e)
            BY <2>5
          <5>2. file[a][i] = Ended(e)
            <6>1. file[a][i] \in Parts
              BY <1>6
            <6> QED BY <2>10, <6>1 DEF Parts, Ended
          <5>3. file[a][i] = file[d][j]
            BY <5>1, <5>2
          <5> QED BY <2>10, <3>2, <5>3 DEF Recorded
        <4>2. \/ follower.at = "first" /\ a \in follower.todo /\ file[a][i].event \in follower.seen
              \/ cursor[a] # NoCursor /\ i <= cursor[a].offset /\ cursor[a].offset <= Len(file[a])
          BY <2>10, <4>1 DEF Followed
        <4> QED BY <1>3, <2>3, <3>2, <4>2
      <3> QED BY <3>1, <3>2
    <2>11. \A a \in 1..Days : /\ \A i \in 1..Len(cursor'[a].pending) : cursor'[a].pending[i].part = "first"
                              /\ cursor'[a] # NoCursor => cursor'[a].offset >= 0
      <3> SUFFICES ASSUME NEW a \in 1..Days
                   PROVE  /\ \A i \in 1..Len(cursor'[a].pending) : cursor'[a].pending[i].part = "first"
                          /\ cursor'[a] # NoCursor => cursor'[a].offset >= 0
        OBVIOUS
      <3>1. CASE a = d
        BY <1>6, <2>1, <2>2, <2>3, <3>1 DEF Unended
      <3>2. CASE a # d
        BY <2>3, <3>2 DEF Followed
      <3> QED BY <3>1, <3>2
    <2>12. again' = {} /\ file' = file
      BY <1>1, <2>1, <2>9 DEF Followed
    <2>13. Followed'
      BY <2>10, <2>11, <2>12 DEF Followed
    <2> QED BY <2>4, <2>8, <2>13
  <1> QED BY <1>1, <1>4, <1>7, <1>8

\* Drained: every file has been drained, so every cursor is behind what was shown.
LEMMA DrainedFollows ==
    ASSUME Lasting, Recorded, Known, Followed, Drained
    PROVE  Following /\ Lasting' /\ Recorded' /\ Known' /\ Followed'
  <1>1. /\ follower.at \in {"first", "draining"} /\ follower.todo = {}
        /\ follower' = [at |-> "draining", todo |-> Present, gathered |-> <<>>, seen |-> {}]
        /\ UNCHANGED <<day, file, order, events, writer, cursor, shown, again, owed>>
    BY DEF Drained
  <1>2. <<>> \in Seq(Nat) /\ Len(<<>>) = 0 /\ Present \in SUBSET Calendar
    BY DEF Present, Calendar
  <1>3. follower' \in Followers /\ follower'.at = "draining" /\ follower'.seen = {}
        /\ follower'.gathered = <<>>
    BY <1>1, <1>2 DEF Followers
  <1>4. Following
    BY <1>1, EventLogAssumption DEF Following, Lasting, LogTypes
  <1>5. /\ Present' = Present /\ Written' = Written /\ Lasting' /\ Recorded'
    BY <1>1, <1>3, <1>4, FollowingKeeps DEF Lasting, LogTypes
  <1>6. Known'
    BY <1>1, <1>2, <1>3, <1>5 DEF Known
  <1>7. Followed'
    BY <1>1, <1>3 DEF Followed
  <1> QED BY <1>4, <1>5, <1>6, <1>7

\* A step of neither the writers nor the follower.
LEMMA StillFollows ==
    ASSUME Lasting, Recorded, Known, Followed, Following, UNCHANGED <<follower, cursor, shown, again, owed>>
    PROVE  Lasting' /\ Recorded' /\ Known' /\ Followed'
  <1>1. /\ Present' = Present /\ Written' = Written /\ Lasting' /\ Recorded'
    BY FollowingKeeps DEF Lasting, LogTypes
  <1>2. Known'
    BY <1>1 DEF Known
  <1>3. Followed'
    BY DEF Followed, Following
  <1> QED BY <1>1, <1>2, <1>3

\* Midnight is one.
LEMMA MidnightFollowing ==
    ASSUME Lasting, Midnight
    PROVE  Following /\ UNCHANGED <<follower, cursor, shown, again, owed>>
  <1>1. day \in 1..Days /\ Days \in Nat
    BY EventLogAssumption DEF Lasting, LogTypes
  <1> QED BY <1>1 DEF Midnight, Following

\* The steps of the follower, and midnight.
LEMMA FollowerKeeps ==
    ASSUME Lasting, Recorded, Known, Followed, Midnight \/ Follow \/ Follows
    PROVE  Following /\ Lasting' /\ Recorded' /\ Known' /\ Followed'
  <1>1. CASE Midnight
    BY <1>1, MidnightFollowing, StillFollows
  <1>2. CASE Follow
    BY <1>2, FollowFollows
  <1>3. CASE Captured \/ ShowHistory \/ Drained
    BY <1>3, CapturedFollows, ShowHistoryFollows, DrainedFollows
  <1>4. ASSUME NEW d \in 1..Days, Capture(d) \/ ReadPath(d) \/ DrainPath(d)
        PROVE  Following /\ Lasting' /\ Recorded' /\ Known' /\ Followed'
    BY <1>4, CaptureFollows, ReadPathFollows, DrainPathFollows
  <1> QED BY <1>1, <1>2, <1>3, <1>4 DEF Follows

\* The second conjunct of Recorded.
LEMMA EndedOnce ==
    ASSUME Recorded, NEW b \in 1..Days, NEW c \in 1..Days, NEW i \in 1..Len(file[b]),
           NEW j \in 1..Len(file[c]), file[b][i] = file[c][j], file[b][i].part = "last"
    PROVE  b = c /\ i = j
BY DEF Recorded

\* Where the files get no new line, and no event is written anew.
LEMMA NothingNew ==
    ASSUME Recorded, Known, Followed, Written \subseteq Written', events \in Nat, events' \in Nat,
           events <= events', UNCHANGED <<follower, cursor, shown, again>>,
           owed'.events = owed.events,
           \A d \in 1..Days : file'[d] = file[d] \/ file'[d] = <<>>
    PROVE  Recorded' /\ Known' /\ Followed'
  <1>1. ASSUME NEW d \in 1..Days, NEW i \in 1..Len(file'[d])
        PROVE  i \in 1..Len(file[d]) /\ file'[d] = file[d]
    <2>1. file'[d] # <<>>
      <3>1. Len(<<>>) = 0
        OBVIOUS
      <3> QED BY <3>1, <1>1
    <2> QED BY <2>1
  <1>2. Recorded'
    <2>1. 1..events \subseteq 1..events'
      OBVIOUS
    <2>2. ASSUME NEW d \in 1..Days, NEW i \in 1..Len(file'[d])
          PROVE  /\ file'[d][i].event \in 1..events'
                 /\ file'[d][i].part = "last" => file'[d][i].event \in Written'
      BY <1>1, <2>1 DEF Recorded
    <2>3. ASSUME NEW b \in 1..Days, NEW c \in 1..Days, NEW i \in 1..Len(file'[b]),
                 NEW j \in 1..Len(file'[c]), file'[b][i] = file'[c][j], file'[b][i].part = "last"
          PROVE  b = c /\ i = j
      <3>1. i \in 1..Len(file[b]) /\ j \in 1..Len(file[c]) /\ file'[b] = file[b] /\ file'[c] = file[c]
        BY <1>1
      <3>2. file[b][i] = file[c][j] /\ file[b][i].part = "last"
        BY <2>3, <3>1
      <3> QED BY <3>1, <3>2, EndedOnce
    <2> QED BY <2>2, <2>3 DEF Recorded
  <1>3. Known'
    BY DEF Known
  <1>4. Followed'
    BY <1>1 DEF Followed
  <1> QED BY <1>2, <1>3, <1>4

\* Where a part of a line is added to a file, the last of an event that is now written.
LEMMA PartAdded ==
    ASSUME Recorded, Known, Followed, events \in Nat, UNCHANGED <<events, follower, cursor, shown, again>>,
           Written \subseteq Written', owed'.events \subseteq Written',
           \A c \in 1..Days : Len(file[c]) \in Nat /\ cursor[c].offset \in Int,
           NEW d \in 1..Days, NEW x \in Parts, x.event \in 1..events,
           x.part = "last" => x.event \in Written' \ Written,
           \A c \in 1..Days : c # d => file'[c] = file[c],
           Len(file'[d]) = Len(file[d]) + 1, file'[d][Len(file[d]) + 1] = x,
           \A i \in 1..Len(file[d]) : file'[d][i] = file[d][i]
    PROVE  Recorded' /\ Known' /\ Followed'
  <1> DEFINE Old(c, i) == i \in 1..Len(file[c]) /\ file'[c][i] = file[c][i]
             New(c, i) == c = d /\ i = Len(file[d]) + 1 /\ file'[c][i] = x
  <1>1. ASSUME NEW c \in 1..Days, NEW i \in 1..Len(file'[c]) PROVE Old(c, i) \/ New(c, i)
    <2>1. CASE c # d
      BY <1>1, <2>1
    <2>2. CASE c = d
      <3> DEFINE n == Len(file[d])
      <3>1. n \in Nat /\ i \in 1..(n + 1)
        BY <1>1, <2>2
      <3> HIDE DEF n
      <3>2. i \in 1..n \/ i = n + 1
        BY <3>1
      <3> QED BY <2>2, <3>2 DEF n
    <2> QED BY <2>1, <2>2
  <1>2. ASSUME NEW c \in 1..Days, NEW i \in 1..Len(file[c]), file[c][i].part = "last"
        PROVE  file[c][i] # x
    BY <1>2 DEF Recorded
  <1>3. Recorded'
    <2>1. ASSUME NEW c \in 1..Days, NEW i \in 1..Len(file'[c])
          PROVE  /\ file'[c][i].event \in 1..events'
                 /\ file'[c][i].part = "last" => file'[c][i].event \in Written'
      <3>1. CASE Old(c, i)
        BY <3>1 DEF Recorded
      <3>2. CASE New(c, i)
        BY <3>2
      <3> QED BY <1>1, <3>1, <3>2
    <2>2. ASSUME NEW b \in 1..Days, NEW c \in 1..Days, NEW i \in 1..Len(file'[b]),
                 NEW j \in 1..Len(file'[c]), file'[b][i] = file'[c][j], file'[b][i].part = "last"
          PROVE  b = c /\ i = j
      <3>1. CASE Old(b, i) /\ Old(c, j)
        <4>1. /\ i \in 1..Len(file[b]) /\ j \in 1..Len(file[c]) /\ file[b][i] = file[c][j]
              /\ file[b][i].part = "last"
          BY <2>2, <3>1
        <4> QED BY <4>1, EndedOnce
      <3>2. CASE Old(b, i) /\ New(c, j)
        BY <1>2, <2>2, <3>2
      <3>3. CASE New(b, i) /\ Old(c, j)
        BY <1>2, <2>2, <3>3
      <3>4. CASE New(b, i) /\ New(c, j)
        BY <3>4
      <3>5. (Old(b, i) \/ New(b, i)) /\ (Old(c, j) \/ New(c, j))
        <4>1. i \in 1..Len(file'[b]) /\ j \in 1..Len(file'[c])
          BY <2>2
        <4> HIDE DEF Old, New
        <4> QED BY <1>1, <4>1
      <3> HIDE DEF Old, New
      <3> QED BY <3>1, <3>2, <3>3, <3>4, <3>5, Zenon
    <2> QED BY <2>1, <2>2 DEF Recorded
  <1>4. Known'
    BY DEF Known
  <1>5. Followed'
    <2>1. ASSUME NEW c \in 1..Days, NEW i \in 1..Len(file'[c]),
                 file'[c][i].part = "last", file'[c][i].event \in shown
          PROVE  \/ follower.at = "first" /\ c \in follower.todo /\ file'[c][i].event \in follower.seen
                 \/ cursor[c] # NoCursor /\ i <= cursor[c].offset /\ cursor[c].offset <= Len(file'[c])
      <3>1. CASE Old(c, i)
        <4>1. \/ follower.at = "first" /\ c \in follower.todo /\ file'[c][i].event \in follower.seen
              \/ cursor[c] # NoCursor /\ i <= cursor[c].offset /\ cursor[c].offset <= Len(file[c])
          BY <2>1, <3>1 DEF Followed
        <4>2. cursor[c].offset <= Len(file[c]) => cursor[c].offset <= Len(file'[c])
          <5> DEFINE n == Len(file[c])
                     m == Len(file'[c])
                     k == cursor[c].offset
          <5>1. n \in Nat /\ k \in Int /\ (m = n \/ m = n + 1)
            OBVIOUS
          <5> HIDE DEF n, m, k
          <5>2. k <= n => k <= m
            BY <5>1
          <5> QED BY <5>2 DEF n, m, k
        <4> QED BY <4>1, <4>2
      <3>2. CASE New(c, i)
        BY <2>1, <3>2 DEF Known
      <3> HIDE DEF Old, New
      <3> QED BY <1>1, <3>1, <3>2
    <2> QED BY <2>1 DEF Followed
  <1> QED BY <1>3, <1>4, <1>5

\* A step of a writer takes no event from those that are written, and adds its own
\* when it quits.
LEMMA WritesMore ==
    ASSUME Lasting, NEW p \in Writers, NEW job, Turns(p, job), events \in Nat,
           events' \in Nat, events <= events',
           Active(p) => job = Resting \/ job.event = writer[p].event,
           ~Active(p) => job.event = events + 1
    PROVE  /\ Written \subseteq Written'
           /\ Active(p) => writer[p].event \notin Written
           /\ Active(p) /\ job = Resting => writer[p].event \in Written'
  <1>1. writer'[p] = job /\ \A q \in Writers : q # p => writer'[q] = writer[q]
    BY DEF Turns, Lasting, LogTypes
  <1>2. 1..events \subseteq 1..events' /\ events + 1 \notin 1..events
    OBVIOUS
  <1>3. ASSUME NEW e \in Written PROVE e \in Written'
    <2>1. e \in 1..events /\ \A q \in Writers : Active(q) => writer[q].event # e
      BY DEF Written
    <2>2. ASSUME NEW q \in Writers, Active(q)' PROVE writer'[q].event # e
      <3>1. CASE q # p
        BY <1>1, <2>1, <2>2, <3>1 DEF Active
      <3>2. CASE q = p /\ Active(p)
        BY <1>1, <2>1, <2>2, <3>2, RestingJob DEF Active
      <3>3. CASE q = p /\ ~Active(p)
        BY <1>1, <1>2, <2>1, <3>3
      <3> QED BY <3>1, <3>2, <3>3
    <2> QED BY <1>2, <2>1, <2>2 DEF Written, Active
  <1>4. Active(p) => writer[p].event \notin Written
    BY DEF Written
  <1>5. ASSUME Active(p), job = Resting PROVE writer[p].event \in Written'
    <2>1. writer[p].event \in 1..events
      BY <1>5 DEF Lasting, Working
    <2>2. ASSUME NEW q \in Writers, Active(q)' PROVE writer'[q].event # writer[p].event
      <3>1. q # p
        BY <1>1, <1>5, <2>2, RestingJob DEF Active
      <3>2. Active(q) /\ writer'[q].event = writer[q].event
        BY <1>1, <2>2, <3>1 DEF Active
      <3> QED BY <1>5, <3>1, <3>2 DEF Lasting, Working
    <2> QED BY <1>2, <2>1, <2>2 DEF Written, Active
  <1> QED BY <1>3, <1>4, <1>5

\* The steps of the writers keep what the follower relies on.
LEMMA WriterKeeps ==
    ASSUME Lasting, Recorded, Known, Followed, NEW p \in Writers, Writing(p)
    PROVE  Recorded' /\ Known' /\ Followed'
  <1>1. UNCHANGED <<day, follower, cursor, shown, again>>
    BY WritingLasts
  <1>2. events \in Nat /\ LogTypes /\ Listed
    BY EventLogAssumption DEF Lasting, LogTypes
  <1>3. ASSUME NEW old, NEW r, Beginning(p, old, r) PROVE Recorded' /\ Known' /\ Followed'
    <2> DEFINE job == [at |-> "cleaning", event |-> events + 1, day |-> day, doomed |-> r]
    <2>1. /\ ~Active(p) /\ events' = events + 1 /\ RemoveFiles(old) /\ Turns(p, job)
          /\ old \subseteq Calendar
      BY <1>3 DEF Beginning, Present, Calendar
    <2>2. job.event = events + 1
      OBVIOUS
    <2> HIDE DEF job
    <2>3. events' \in Nat /\ events <= events'
      BY <1>2, <2>1
    <2>4. Written \subseteq Written'
      BY <1>2, <2>1, <2>2, <2>3, WritesMore
    <2>5. owed'.events = owed.events /\ \A d \in 1..Days : file'[d] = file[d] \/ file'[d] = <<>>
      BY <1>2, <2>1, RemovesFiles
    <2> QED BY <1>1, <1>2, <2>3, <2>4, <2>5, NothingNew
  <1>4. ASSUME NEW d \in Present, Removing(p, d) PROVE Recorded' /\ Known' /\ Followed'
    <2>1. /\ Active(p) /\ events' = events /\ RemoveFiles({d})
          /\ {d} \subseteq Calendar
      BY <1>4 DEF Removing, Present, Calendar, Active
    <2>2. PICK job : Turns(p, job) /\ job.event = writer[p].event
      BY <1>4 DEF Removing
    <2>3. events' \in Nat /\ events <= events'
      BY <1>2, <2>1
    <2>4. Written \subseteq Written'
      BY <1>2, <2>1, <2>2, <2>3, WritesMore
    <2>5. owed'.events = owed.events /\ \A c \in 1..Days : file'[c] = file[c] \/ file'[c] = <<>>
      BY <1>2, <2>1, RemovesFiles
    <2> QED BY <1>1, <1>2, <2>3, <2>4, <2>5, NothingNew
  <1>5. ASSUME Opening(p) PROVE Recorded' /\ Known' /\ Followed'
    <2> DEFINE d == writer[p].day
               x == Begun(writer[p].event)
    <2>1. /\ Active(p) /\ UNCHANGED <<events, owed>> /\ file' = [file EXCEPT ![d] = Append(@, x)]
      BY <1>5 DEF Opening, Active
    <2>2. PICK job : Turns(p, job) /\ job.event = writer[p].event
      BY <1>5 DEF Opening
    <2>3. events' \in Nat /\ events <= events'
      BY <1>2, <2>1
    <2>4. Written \subseteq Written'
      BY <1>2, <2>1, <2>2, <2>3, WritesMore
    <2>5. d \in 1..Days /\ x \in Parts /\ x.event \in 1..events /\ x.part = "first"
      BY <2>1, WriterDays DEF Begun
    <2>6. \A c \in 1..Days : Len(file[c]) \in Nat /\ cursor[c].offset \in Int
      BY <1>2, Typed
    <2>7. owed'.events \subseteq Written'
      BY <2>1, <2>4 DEF Known
    <2> HIDE DEF d, x
    <2>8. /\ \A c \in 1..Days : c # d => file'[c] = file[c]
          /\ Len(file'[d]) = Len(file[d]) + 1 /\ file'[d][Len(file[d]) + 1] = x
          /\ \A i \in 1..Len(file[d]) : file'[d][i] = file[d][i]
      BY <1>2, <2>1, <2>5, ExtendsFile
    <2> QED BY <1>1, <1>2, <2>1, <2>4, <2>5, <2>6, <2>7, <2>8, PartAdded
  <1>6. ASSUME Quitting(p)
        PROVE  /\ Active(p) /\ events' = events /\ Written \subseteq Written'
               /\ writer[p].event \in Written' \ Written
    BY <1>2, <1>6, WritesMore DEF Quitting
  <1>7. ASSUME Ending(p) PROVE Recorded' /\ Known' /\ Followed'
    <2> DEFINE d == writer[p].day
               e == writer[p].event
               x == Ended(e)
    <2>1. /\ Quitting(p) /\ file' = [file EXCEPT ![d] = Append(@, x)]
          /\ owed' \in {owed, [owed EXCEPT !.events = @ \cup {e}]}
      BY <1>7 DEF Ending
    <2>2. /\ Active(p) /\ events' = events /\ Written \subseteq Written' /\ e \in Written' \ Written
      BY <1>6, <2>1
    <2>3. d \in 1..Days /\ x \in Parts /\ e \in 1..events /\ x.event = e
      BY <2>2, WriterDays DEF Ended
    <2>4. \A c \in 1..Days : Len(file[c]) \in Nat /\ cursor[c].offset \in Int
      BY <1>2, Typed
    <2>5. owed'.events \subseteq Written'
      <3>1. owed \in Debts /\ owed.events \subseteq Written
        BY <1>2 DEF LogTypes, Known
      <3> HIDE DEF e
      <3>2. owed'.events \subseteq owed.events \cup {e}
        BY <2>1, <3>1 DEF Debts
      <3> QED BY <2>2, <3>1, <3>2
    <2> HIDE DEF d, x, e
    <2>6. /\ \A c \in 1..Days : c # d => file'[c] = file[c]
          /\ Len(file'[d]) = Len(file[d]) + 1 /\ file'[d][Len(file[d]) + 1] = x
          /\ \A i \in 1..Len(file[d]) : file'[d][i] = file[d][i]
      BY <1>2, <2>1, <2>3, ExtendsFile
    <2> QED BY <1>1, <1>2, <2>2, <2>3, <2>4, <2>5, <2>6, PartAdded
  <1>8. ASSUME Quitting(p), UNCHANGED <<file, owed>> PROVE Recorded' /\ Known' /\ Followed'
    BY <1>1, <1>2, <1>6, <1>8, NothingNew
  <1> QED BY <1>3, <1>4, <1>5, <1>7, <1>8 DEF Writing

\* Files that are no longer, of days that counted before.
LEMMA TotalLess ==
    ASSUME NEW f \in Files, NEW g \in Files, NEW A, NEW B,
           \A n \in 1..Days : n \in B => n \in A /\ g[n] = f[n]
    PROVE  Total(g, B) \in Nat /\ Total(f, A) \in Nat /\ Total(g, B) <= Total(f, A)
  <1>1. \A n \in 1..Days : Len(f[n]) \in Nat
    <2>1. \A n \in 1..Days : f[n] \in Seq(Parts)
      BY DEF Files
    <2> QED BY <2>1
  <1>2. \A n \in 1..Days : Weight(g, B, n) <= Weight(f, A, n) + (IF n = 0 THEN 0 ELSE 0)
    BY <1>1 DEF Weight
  <1>3. Total(g, B) \in Nat /\ Total(f, A) \in Nat /\ Total(g, B) <= Total(f, A) + 0
    BY <1>2, TotalGrows
  <1> QED BY <1>3

\* The same, but for one part of a line in one file.
LEMMA TotalLonger ==
    ASSUME NEW f \in Files, NEW g \in Files, NEW A, NEW B, NEW d \in 1..Days,
           \A n \in 1..Days : n # d /\ n \in B => n \in A /\ g[n] = f[n],
           d \in B => Len(g[d]) = Len(f[d]) + 1 /\ (d \in A \/ Len(f[d]) = 0)
    PROVE  Total(g, B) \in Nat /\ Total(f, A) \in Nat /\ Total(g, B) <= Total(f, A) + 1
  <1>1. \A n \in 1..Days : Len(f[n]) \in Nat
    <2>1. \A n \in 1..Days : f[n] \in Seq(Parts)
      BY DEF Files
    <2> QED BY <2>1
  <1>2. ASSUME NEW n \in 1..Days
        PROVE  Weight(g, B, n) <= Weight(f, A, n) + (IF n = d THEN 1 ELSE 0)
    <2>1. CASE n # d
      BY <1>1, <2>1 DEF Weight
    <2>2. CASE n = d
      <3>1. Weight(g, B, d) <= Weight(f, A, d) + 1
        BY <1>1 DEF Weight
      <3> QED BY <2>2, <3>1
    <2> QED BY <2>1, <2>2
  <1>3. d \in Nat
    BY EventLogAssumption
  <1> QED BY <1>2, <1>3, TotalGrows

\* Three kinds of processes are no more than there are processes.
LEMMA Kinds ==
    ASSUME NEW R \in SUBSET Writers, NEW S \in SUBSET Writers, NEW A \in SUBSET Writers,
           R \cap S = {}, R \cap A = {}, S \cap A = {}
    PROVE  /\ Cardinality(R) \in Nat /\ Cardinality(S) \in Nat /\ Cardinality(A) \in Nat
           /\ Cardinality(Writers) \in Nat
           /\ Cardinality(R) + Cardinality(S) + Cardinality(A) <= Cardinality(Writers)
  <1>1. IsFiniteSet(Writers) /\ IsFiniteSet(R) /\ IsFiniteSet(S) /\ IsFiniteSet(A)
    BY EventLogAssumption, FS_Subset
  <1>2. /\ Cardinality(R) \in Nat /\ Cardinality(S) \in Nat /\ Cardinality(A) \in Nat
        /\ Cardinality(Writers) \in Nat /\ Cardinality({}) = 0
    BY <1>1, FS_CardinalityType, FS_EmptySet
  <1>3. /\ IsFiniteSet(R \cup S) /\ Cardinality(R \cup S) = Cardinality(R) + Cardinality(S)
    <2>1. /\ IsFiniteSet(R \cup S)
          /\ Cardinality(R \cup S) = Cardinality(R) + Cardinality(S) - Cardinality(R \cap S)
      BY <1>1, FS_Union
    <2>2. Cardinality(R \cap S) = 0
      BY <1>2
    <2> QED BY <1>2, <2>1, <2>2
  <1>4. Cardinality((R \cup S) \cup A) = Cardinality(R \cup S) + Cardinality(A)
    <2>1. Cardinality((R \cup S) \cap A) = 0
      <3>1. (R \cup S) \cap A = {}
        OBVIOUS
      <3> QED BY <1>2, <3>1
    <2>2. Cardinality((R \cup S) \cup A)
             = Cardinality(R \cup S) + Cardinality(A) - Cardinality((R \cup S) \cap A)
      BY <1>1, <1>3, FS_Union
    <2> QED BY <1>2, <1>3, <2>1, <2>2
  <1>5. Cardinality((R \cup S) \cup A) <= Cardinality(Writers)
    <2>1. (R \cup S) \cup A \in SUBSET Writers
      OBVIOUS
    <2> QED BY <1>1, <2>1, FS_Subset
  <1> QED BY <1>2, <1>3, <1>4, <1>5

\* A set of processes and one more.
LEMMA OneMore ==
    ASSUME NEW X \in SUBSET Writers, NEW p \in Writers, p \notin X
    PROVE  Cardinality(X) \in Nat /\ Cardinality(X \cup {p}) = Cardinality(X) + 1
  <1>1. IsFiniteSet(X)
    BY EventLogAssumption, FS_Subset
  <1> QED BY <1>1, FS_CardinalityType, FS_AddElement

\* A set of processes has a number.
LEMMA Countable ==
    ASSUME NEW X \in SUBSET Writers
    PROVE  Cardinality(X) \in Nat
  <1>1. IsFiniteSet(X)
    BY EventLogAssumption, FS_Subset
  <1> QED BY <1>1, FS_CardinalityType

\* The three kinds of processes, before and after a step.
LEMMA SomeKinds ==
    /\ Ready \in SUBSET Writers /\ Appenders \in SUBSET Writers /\ Cleaners \in SUBSET Writers
    /\ Ready \cap Cleaners = {} /\ Ready \cap Appenders = {} /\ Cleaners \cap Appenders = {}
    /\ Ready' \in SUBSET Writers /\ Appenders' \in SUBSET Writers /\ Cleaners' \in SUBSET Writers
    /\ Ready' \cap Cleaners' = {} /\ Ready' \cap Appenders' = {} /\ Cleaners' \cap Appenders' = {}
BY DEF Ready, Cleaners, Appenders

\* What a step of p makes of the three kinds.
LEMMA KindsTurn ==
    ASSUME Lasting, NEW p \in Writers, NEW job, Turns(p, job)
    PROVE  /\ Ready' = IF job.at = "cleaning" /\ job.doomed = <<>> THEN Ready \cup {p} ELSE Ready \ {p}
           /\ Cleaners' = IF job.at = "cleaning" /\ job.doomed # <<>> THEN Cleaners \cup {p}
                                                                      ELSE Cleaners \ {p}
           /\ Appenders' = IF job.at = "appending" THEN Appenders \cup {p} ELSE Appenders \ {p}
           /\ writer'[p] = job /\ \A q \in Writers : q # p => writer'[q] = writer[q]
  <1>1. writer'[p] = job /\ \A q \in Writers : q # p => writer'[q] = writer[q]
    BY DEF Turns, Lasting, LogTypes
  <1>2. Ready' = IF job.at = "cleaning" /\ job.doomed = <<>> THEN Ready \cup {p} ELSE Ready \ {p}
    BY <1>1 DEF Ready
  <1>3. Cleaners' = IF job.at = "cleaning" /\ job.doomed # <<>> THEN Cleaners \cup {p}
                                                                ELSE Cleaners \ {p}
    BY <1>1 DEF Cleaners
  <1>4. Appenders' = IF job.at = "appending" THEN Appenders \cup {p} ELSE Appenders \ {p}
    BY <1>1 DEF Appenders
  <1> QED BY <1>1, <1>2, <1>3, <1>4

\* The bound for the cleanups S, from here and from a total that grows by x.
Bounded(S) ==
    Total(file, Spared(S)) + 2 * (Cardinality(Ready) + Cardinality(S)) + Cardinality(Appenders)
       <= MaxSize + 2 * (Cardinality(Writers) - 1)

\* A total that grows by x is bounded still when what was counted shrinks by it.
LEMMA StaysBounded ==
    ASSUME Sized, NEW S \in SUBSET Writers, NEW T \in SUBSET Cleaners, NEW x \in Nat,
           Total(file, Spared(T)) \in Nat, Total(file, Spared(S))' \in Nat,
           Total(file, Spared(S))' <= Total(file, Spared(T)) + x,
           2 * (Cardinality(Ready') + Cardinality(S)) + Cardinality(Appenders') + x
              <= 2 * (Cardinality(Ready) + Cardinality(T)) + Cardinality(Appenders)
    PROVE  Bounded(S)'
  <1>1. Bounded(T)
    BY DEF Sized, Bounded
  <1>2. /\ Cardinality(Ready) \in Nat /\ Cardinality(Appenders) \in Nat /\ Cardinality(T) \in Nat
        /\ Cardinality(Ready') \in Nat /\ Cardinality(Appenders') \in Nat /\ Cardinality(S) \in Nat
        /\ Cardinality(Writers) \in Nat /\ MaxSize \in Nat
    <2>1. /\ IsFiniteSet(Ready) /\ IsFiniteSet(Appenders) /\ IsFiniteSet(T) /\ IsFiniteSet(Ready')
          /\ IsFiniteSet(Appenders') /\ IsFiniteSet(S) /\ IsFiniteSet(Writers)
      <3>1. T \in SUBSET Writers
        BY SomeKinds
      <3> QED BY <3>1, SomeKinds, EventLogAssumption, FS_Subset
    <2> QED BY <2>1, FS_CardinalityType, EventLogAssumption
  <1> DEFINE a == Total(file, Spared(T))
             b == Total(file, Spared(S))'
             r == Cardinality(Ready)
             s == Cardinality(Ready')
             k == Cardinality(T)
             l == Cardinality(S)
             m == Cardinality(Appenders)
             n == Cardinality(Appenders')
             w == Cardinality(Writers)
  <1>3. a + 2 * (r + k) + m <= MaxSize + 2 * (w - 1)
    BY <1>1 DEF Bounded
  <1>4. b <= a + x /\ 2 * (s + l) + n + x <= 2 * (r + k) + m /\ a \in Nat /\ b \in Nat
    OBVIOUS
  <1>5. /\ r \in Nat /\ s \in Nat /\ k \in Nat /\ l \in Nat /\ m \in Nat /\ n \in Nat /\ w \in Nat
    BY <1>2
  <1>6. Bounded(S)' = (b + 2 * (s + l) + n <= MaxSize + 2 * (w - 1))
    BY DEF Bounded
  <1> HIDE DEF a, b, r, s, k, l, m, n, w
  <1>7. b + 2 * (s + l) + n <= MaxSize + 2 * (w - 1)
    BY <1>2, <1>3, <1>4, <1>5
  <1> QED BY <1>6, <1>7

\* Begin finds room, or makes a list of what to remove for it.
LEMMA BeginSized ==
    ASSUME Lasting, Sized, NEW p \in Writers, NEW old, NEW r, Beginning(p, old, r)
    PROVE  Sized'
  <1> DEFINE job == [at |-> "cleaning", event |-> events + 1, day |-> day, doomed |-> r]
  <1>1. /\ ~Active(p) /\ old \subseteq Calendar /\ RemoveFiles(old) /\ Turns(p, job)
        /\ Total(file, Present' \ Range(r)) + 2 <= MaxSize
    BY DEF Beginning, Present, Calendar
  <1>2. job.at = "cleaning" /\ job.doomed = r
    OBVIOUS
  <1> HIDE DEF job
  <1>3. /\ Ready' = IF r = <<>> THEN Ready \cup {p} ELSE Ready \ {p}
        /\ Cleaners' = IF r # <<>> THEN Cleaners \cup {p} ELSE Cleaners \ {p}
        /\ Appenders' = Appenders \ {p}
        /\ writer'[p].doomed = r /\ \A q \in Writers : q # p => writer'[q] = writer[q]
    BY <1>1, <1>2, KindsTurn
  <1>4. p \notin Ready /\ p \notin Cleaners /\ p \notin Appenders
    BY <1>1 DEF Active, Ready, Cleaners, Appenders
  <1>5. /\ file \in Files /\ file' \in Files /\ Present' = Present \ old
        /\ \A n \in 1..Days : file'[n] = IF n \in old THEN <<>> ELSE file[n]
    BY <1>1, RemovesFiles DEF Lasting, LogTypes
  <1>6. ASSUME NEW S \in SUBSET Cleaners' PROVE Bounded(S)'
    <2>1. S \in SUBSET Writers /\ S \subseteq Cleaners \cup {p}
      BY <1>3, SomeKinds
    <2>2. CASE p \in S \/ r = <<>>
      <3> DEFINE B == Spared(S)'
                 A == Present' \ Range(r)
      <3>1. \A n \in 1..Days : n \in B => n \in A /\ file'[n] = file[n]
        <4> SUFFICES ASSUME NEW n \in 1..Days, n \in B PROVE n \in A /\ file'[n] = file[n]
          OBVIOUS
        <4>1. n \in Present' /\ \A q \in S : n \notin Range(writer'[q].doomed)
          BY DEF Spared
        <4>2. n \notin Range(r)
          <5>1. CASE p \in S
            BY <1>3, <4>1, <5>1
          <5>2. CASE r = <<>>
            BY <5>2 DEF Range
          <5> QED BY <2>2, <5>1, <5>2
        <4> QED BY <1>5, <4>1, <4>2
      <3> HIDE DEF A, B
      <3>2. Total(file', B) \in Nat /\ Total(file, A) \in Nat /\ Total(file', B) <= Total(file, A)
        BY <1>5, <3>1, TotalLess
      <3>3. Total(file, A) + 2 <= MaxSize
        BY <1>1 DEF A
      <3>4. Ready' \cap S = {} /\ S \cap Appenders' = {} /\ Ready' \cap Appenders' = {}
        BY SomeKinds
      <3>5. /\ Cardinality(Ready') \in Nat /\ Cardinality(S) \in Nat /\ Cardinality(Appenders') \in Nat
            /\ Cardinality(Writers) \in Nat
            /\ Cardinality(Ready') + Cardinality(S) + Cardinality(Appenders') <= Cardinality(Writers)
        BY <2>1, <3>4, SomeKinds, Kinds
      <3> DEFINE b == Total(file', B)
                 a == Total(file, A)
                 s == Cardinality(Ready')
                 l == Cardinality(S)
                 n == Cardinality(Appenders')
                 w == Cardinality(Writers)
      <3>6. a \in Nat /\ b \in Nat /\ b <= a /\ a + 2 <= MaxSize
        BY <3>2, <3>3
      <3>7. s \in Nat /\ l \in Nat /\ n \in Nat /\ w \in Nat /\ s + l + n <= w
        BY <3>5
      <3>8. Bounded(S)' = (b + 2 * (s + l) + n <= MaxSize + 2 * (w - 1))
        BY DEF Bounded, B
      <3> HIDE DEF a, b, s, l, n, w
      <3>9. b + 2 * (s + l) + n <= MaxSize + 2 * (w - 1)
        BY <3>6, <3>7, EventLogAssumption
      <3> QED BY <3>8, <3>9
    <2>3. CASE p \notin S /\ r # <<>>
      <3>1. S \in SUBSET Cleaners /\ Ready' = Ready /\ Appenders' = Appenders
        BY <1>3, <1>4, <2>1, <2>3
      <3>2. \A n \in 1..Days : n \in Spared(S)' => n \in Spared(S) /\ file'[n] = file[n]
        <4>1. \A q \in S : writer'[q] = writer[q]
          BY <1>3, <2>1, <2>3
        <4> QED BY <1>5, <4>1 DEF Spared
      <3>3. /\ Total(file', Spared(S)') \in Nat /\ Total(file, Spared(S)) \in Nat
            /\ Total(file', Spared(S)') <= Total(file, Spared(S))
        BY <1>5, <3>2, TotalLess
      <3>4. Total(file, Spared(S))' = Total(file', Spared(S)')
        OBVIOUS
      <3>5. Total(file, Spared(S))' <= Total(file, Spared(S)) + 0
        BY <3>3, <3>4
      <3>6. 2 * (Cardinality(Ready') + Cardinality(S)) + Cardinality(Appenders') + 0
               <= 2 * (Cardinality(Ready) + Cardinality(S)) + Cardinality(Appenders)
        BY <3>1, <2>1, SomeKinds, Kinds
      <3> QED BY <2>1, <3>1, <3>3, <3>4, <3>5, <3>6, StaysBounded
    <2> QED BY <2>2, <2>3
  <1> QED BY <1>6 DEF Sized, Bounded

\* RemoveNext removes what its own list spared before: the bound for S follows from
\* that for S and p.
LEMMA RemoveSized ==
    ASSUME Lasting, Sized, NEW p \in Writers, NEW d \in Present, Removing(p, d)
    PROVE  Sized'
  <1>1. /\ writer[p].at = "cleaning" /\ writer[p].doomed # <<>> /\ RemoveFiles({d})
        /\ {d} \subseteq Calendar
    BY DEF Removing, Present, Calendar
  <1>2. PICK r : /\ Turns(p, [writer[p] EXCEPT !.doomed = r])
                 /\ [writer[p] EXCEPT !.doomed = r].doomed = r
                 /\ [writer[p] EXCEPT !.doomed = r].at = "cleaning"
                 /\ Range(writer[p].doomed) = Range(r) \cup {d}
    BY DEF Removing
  <1> DEFINE job == [writer[p] EXCEPT !.doomed = r]
  <1>3. Turns(p, job) /\ job.doomed = r /\ job.at = "cleaning"
    BY <1>2
  <1> HIDE DEF job
  <1>4. /\ Ready' = IF r = <<>> THEN Ready \cup {p} ELSE Ready \ {p}
        /\ Cleaners' = IF r # <<>> THEN Cleaners \cup {p} ELSE Cleaners \ {p}
        /\ Appenders' = Appenders \ {p}
        /\ writer'[p].doomed = r /\ \A q \in Writers : q # p => writer'[q] = writer[q]
    BY <1>3, KindsTurn
  <1>5. p \notin Ready /\ p \in Cleaners /\ p \notin Appenders
    BY <1>1 DEF Ready, Cleaners, Appenders
  <1>6. /\ file \in Files /\ file' \in Files /\ Present' = Present \ {d}
        /\ \A n \in 1..Days : file'[n] = IF n \in {d} THEN <<>> ELSE file[n]
    BY <1>1, RemovesFiles DEF Lasting, LogTypes
  <1>7. ASSUME NEW S \in SUBSET Cleaners' PROVE Bounded(S)'
    <2> DEFINE T == IF r = <<>> THEN S \cup {p} ELSE S
    <2>1. S \in SUBSET Writers /\ T \in SUBSET Cleaners /\ (r = <<>> => p \notin S)
      BY <1>4, <1>5, SomeKinds
    <2>2. \A n \in 1..Days : n \in Spared(S)' => n \in Spared(T) /\ file'[n] = file[n]
      <3> SUFFICES ASSUME NEW n \in 1..Days, n \in Spared(S)'
                   PROVE  n \in Spared(T) /\ file'[n] = file[n]
        OBVIOUS
      <3>1. n \in Present' /\ \A q \in S : n \notin Range(writer'[q].doomed)
        BY DEF Spared
      <3>2. n \in Present /\ n # d /\ file'[n] = file[n]
        BY <1>6, <3>1
      <3>3. r = <<>> => Range(r) = {}
        BY DEF Range
      <3>4. ASSUME NEW q \in T PROVE n \notin Range(writer[q].doomed)
        <4>1. CASE q = p
          <5>1. n \notin Range(r)
            BY <1>4, <2>1, <3>1, <3>3, <3>4, <4>1
          <5> QED BY <1>2, <3>2, <4>1, <5>1
        <4>2. CASE q # p
          BY <1>4, <2>1, <3>1, <3>4, <4>2, SomeKinds
        <4> QED BY <4>1, <4>2
      <3> QED BY <3>2, <3>4 DEF Spared
    <2>3. 2 * (Cardinality(Ready') + Cardinality(S)) + Cardinality(Appenders') + 0
             <= 2 * (Cardinality(Ready) + Cardinality(T)) + Cardinality(Appenders)
      <3>1. Appenders' = Appenders /\ Cardinality(Appenders) \in Nat /\ Cardinality(Ready) \in Nat
            /\ Cardinality(S) \in Nat
        BY <1>4, <1>5, <2>1, SomeKinds, Countable
      <3>2. CASE r = <<>>
        <4>1. /\ Cardinality(Ready') = Cardinality(Ready) + 1
              /\ Cardinality(T) = Cardinality(S) + 1
          BY <1>4, <1>5, <2>1, <3>2, SomeKinds, OneMore
        <4> QED BY <3>1, <4>1
      <3>3. CASE r # <<>>
        <4>1. Cardinality(Ready') = Cardinality(Ready) /\ Cardinality(T) = Cardinality(S)
          BY <1>4, <1>5, <3>3
        <4> HIDE DEF T
        <4> QED BY <3>1, <4>1
      <3> QED BY <3>2, <3>3
    <2> HIDE DEF T
    <2>4. /\ Total(file', Spared(S)') \in Nat /\ Total(file, Spared(T)) \in Nat
          /\ Total(file', Spared(S)') <= Total(file, Spared(T))
      BY <1>6, <2>2, TotalLess
    <2>5. Total(file, Spared(S))' = Total(file', Spared(S)')
      OBVIOUS
    <2>6. Total(file, Spared(S))' <= Total(file, Spared(T)) + 0
      BY <2>4, <2>5
    <2> QED BY <2>1, <2>3, <2>4, <2>5, <2>6, StaysBounded
  <1> QED BY <1>7 DEF Sized, Bounded

\* One part of a line is added by a process that is ready for it or in the midst of it.
LEMMA AppendSized ==
    ASSUME Lasting, Sized, NEW p \in Writers, NEW job, Turns(p, job), NEW x \in Parts, Active(p),
           file' = [file EXCEPT ![writer[p].day] = Append(@, x)],
           \/ writer[p].at = "cleaning" /\ writer[p].doomed = <<>> /\ job.at = "appending"
           \/ writer[p].at = "appending" /\ job.at = "idle"
    PROVE  Sized'
  <1> DEFINE d == writer[p].day
  <1>1. d \in 1..Days /\ file' = [file EXCEPT ![d] = Append(@, x)]
    BY WriterDays
  <1>a. writer[p].doomed = <<>>
    BY DEF Lasting, Working
  <1> HIDE DEF d
  <1>2. /\ file \in Files /\ file' \in Files /\ Present' = Present \cup {d}
        /\ \A n \in 1..Days : n # d => file'[n] = file[n]
        /\ Len(file'[d]) = Len(file[d]) + 1
    BY <1>1, ExtendsFile DEF Lasting, LogTypes
  <1>3. job.doomed = <<>>
    BY DEF Turns
  <1>4. /\ Ready' = Ready \ {p} /\ Cleaners' = Cleaners \ {p}
        /\ Appenders' = IF job.at = "appending" THEN Appenders \cup {p} ELSE Appenders \ {p}
        /\ \A q \in Writers : q # p => writer'[q] = writer[q]
    BY <1>3, KindsTurn
  <1>5. /\ p \notin Cleaners
        /\ \/ p \in Ready /\ p \notin Appenders /\ job.at = "appending"
           \/ p \notin Ready /\ p \in Appenders /\ job.at # "appending"
    BY <1>a DEF Ready, Cleaners, Appenders
  <1>6. ASSUME NEW S \in SUBSET Cleaners' PROVE Bounded(S)'
    <2>1. S \in SUBSET Writers /\ S \in SUBSET Cleaners /\ p \notin S
      BY <1>4, <1>5, SomeKinds
    <2>2. \A q \in S : writer'[q] = writer[q]
      BY <1>4, <2>1
    <2>3. \A n \in 1..Days : n # d /\ n \in Spared(S)' => n \in Spared(S) /\ file'[n] = file[n]
      BY <1>2, <2>2 DEF Spared
    <2>4. d \in Spared(S)' => Len(file'[d]) = Len(file[d]) + 1 /\ (d \in Spared(S) \/ Len(file[d]) = 0)
      <3>1. d \notin Present => file[d] = <<>>
        BY <1>1 DEF Present, NoFile
      <3>2. Len(<<>>) = 0
        OBVIOUS
      <3>3. d \notin Present => Len(file[d]) = 0
        BY <3>1, <3>2
      <3>4. d \in Spared(S)' /\ d \in Present => d \in Spared(S)
        BY <2>2 DEF Spared
      <3> QED BY <1>2, <3>3, <3>4
    <2>5. /\ Total(file', Spared(S)') \in Nat /\ Total(file, Spared(S)) \in Nat
          /\ Total(file', Spared(S)') <= Total(file, Spared(S)) + 1
      BY <1>1, <1>2, <2>3, <2>4, TotalLonger
    <2>6. 2 * (Cardinality(Ready') + Cardinality(S)) + Cardinality(Appenders') + 1
             <= 2 * (Cardinality(Ready) + Cardinality(S)) + Cardinality(Appenders)
      <3>1. Cardinality(S) \in Nat
        BY <2>1, SomeKinds, Kinds
      <3>2. CASE p \in Ready /\ p \notin Appenders /\ job.at = "appending"
        <4>1. Ready = Ready' \cup {p} /\ p \notin Ready' /\ Appenders' = Appenders \cup {p}
          BY <1>4, <3>2
        <4>2. /\ Cardinality(Ready') \in Nat /\ Cardinality(Ready) = Cardinality(Ready') + 1
              /\ Cardinality(Appenders) \in Nat /\ Cardinality(Appenders') = Cardinality(Appenders) + 1
          BY <3>2, <4>1, SomeKinds, OneMore
        <4> QED BY <3>1, <4>2
      <3>3. CASE p \notin Ready /\ p \in Appenders /\ job.at # "appending"
        <4>1. Ready' = Ready /\ p \notin Appenders' /\ Appenders = Appenders' \cup {p}
          BY <1>4, <3>3
        <4>2. /\ Cardinality(Appenders') \in Nat /\ Cardinality(Appenders) = Cardinality(Appenders') + 1
              /\ Cardinality(Ready) \in Nat
          BY <4>1, SomeKinds, OneMore, Kinds
        <4> QED BY <3>1, <4>1, <4>2
      <3> QED BY <1>5, <3>2, <3>3
    <2>7. Total(file, Spared(S))' = Total(file', Spared(S)')
      OBVIOUS
    <2> QED BY <2>1, <2>5, <2>6, <2>7, StaysBounded
  <1> QED BY <1>6 DEF Sized, Bounded

\* An event is given up.
LEMMA QuitSized ==
    ASSUME Lasting, Sized, NEW p \in Writers, Turns(p, Resting), UNCHANGED file
    PROVE  Sized'
  <1>1. /\ Ready' = Ready \ {p} /\ Cleaners' = Cleaners \ {p} /\ Appenders' = Appenders \ {p}
        /\ \A q \in Writers : q # p => writer'[q] = writer[q]
    BY KindsTurn, RestingJob
  <1>2. ASSUME NEW S \in SUBSET Cleaners' PROVE Bounded(S)'
    <2>1. S \in SUBSET Writers /\ S \in SUBSET Cleaners /\ p \notin S
      BY <1>1, SomeKinds
    <2>2. Present' = Present /\ file \in Files
      BY DEF Present, Lasting, LogTypes
    <2>3. \A n \in 1..Days : n \in Spared(S)' => n \in Spared(S) /\ file'[n] = file[n]
      <3>1. \A q \in S : writer'[q] = writer[q]
        BY <1>1, <2>1
      <3> QED BY <2>2, <3>1 DEF Spared
    <2>4. /\ Total(file', Spared(S)') \in Nat /\ Total(file, Spared(S)) \in Nat
          /\ Total(file', Spared(S)') <= Total(file, Spared(S))
      BY <2>2, <2>3, TotalLess
    <2>5. Total(file, Spared(S))' = Total(file', Spared(S)')
      OBVIOUS
    <2>6. /\ Cardinality(Ready') \in Nat /\ Cardinality(Ready) \in Nat
          /\ Cardinality(Ready') <= Cardinality(Ready)
          /\ Cardinality(Appenders') \in Nat /\ Cardinality(Appenders) \in Nat
          /\ Cardinality(Appenders') <= Cardinality(Appenders) /\ Cardinality(S) \in Nat
      <3>1. /\ IsFiniteSet(Ready) /\ IsFiniteSet(Appenders) /\ IsFiniteSet(S)
        BY <2>1, SomeKinds, EventLogAssumption, FS_Subset
      <3> QED BY <1>1, <3>1, FS_CardinalityType, FS_Subset
    <2>7. 2 * (Cardinality(Ready') + Cardinality(S)) + Cardinality(Appenders') + 0
             <= 2 * (Cardinality(Ready) + Cardinality(S)) + Cardinality(Appenders)
      BY <2>6
    <2>8. Total(file, Spared(S))' <= Total(file, Spared(S)) + 0
      BY <2>4, <2>5
    <2> QED BY <2>1, <2>4, <2>5, <2>7, <2>8, StaysBounded
  <1> QED BY <1>2 DEF Sized, Bounded

\* Each form of a writer's step keeps the bound.
LEMMA WriterSized ==
    ASSUME Lasting, Sized, NEW p \in Writers, Writing(p)
    PROVE  Sized'
  <1>1. CASE \E old, r : Beginning(p, old, r)
    BY <1>1, BeginSized
  <1>2. CASE \E d \in Present : Removing(p, d)
    BY <1>2, RemoveSized
  <1>3. CASE Opening(p)
    <2> DEFINE job == [writer[p] EXCEPT !.at = "appending"]
    <2>1. /\ writer[p].at = "cleaning" /\ writer[p].doomed = <<>>
          /\ file' = [file EXCEPT ![writer[p].day] = Append(@, Begun(writer[p].event))]
          /\ Turns(p, job) /\ job.at = "appending"
      BY <1>3 DEF Opening
    <2> HIDE DEF job
    <2>2. Active(p) /\ Begun(writer[p].event) \in Parts
      BY <2>1, WriterDays DEF Active
    <2> QED BY <2>1, <2>2, AppendSized
  <1>4. CASE Ending(p)
    <2>1. /\ writer[p].at = "appending" /\ Turns(p, Resting)
          /\ file' = [file EXCEPT ![writer[p].day] = Append(@, Ended(writer[p].event))]
      BY <1>4 DEF Ending, Quitting
    <2>2. Active(p) /\ Ended(writer[p].event) \in Parts
      BY <2>1, WriterDays DEF Active
    <2> QED BY <2>1, <2>2, AppendSized, RestingJob
  <1>5. CASE Quitting(p) /\ UNCHANGED <<file, owed>>
    BY <1>5, QuitSized DEF Quitting
  <1> QED BY <1>1, <1>2, <1>3, <1>4, <1>5 DEF Writing

\* The follower does not change what is counted.
LEMMA FollowingSized ==
    ASSUME Sized, Following
    PROVE  Sized'
  <1>1. Ready' = Ready /\ Cleaners' = Cleaners /\ Appenders' = Appenders
    BY DEF Following, Ready, Cleaners, Appenders
  <1>2. \A S : Spared(S)' = Spared(S)
    BY DEF Following, Spared, Present
  <1> QED BY <1>1, <1>2 DEF Following, Sized

-----------------------------------------------------------------------------
\* Every step keeps the invariant.
LEMMA LogIInvNext ==
    ASSUME LogIInv, [LogNext]_logVars
    PROVE  LogIInv'
  <1>1. Lasting /\ Recorded /\ Known /\ Followed /\ Sized
    BY DEF LogIInv
  <1>2. CASE Writes
    BY <1>1, <1>2, WritesWriting, WritingLasts, WriterKeeps, WriterSized DEF LogIInv
  <1>3. CASE Midnight \/ Follow \/ Follows
    BY <1>1, <1>3, FollowerKeeps, FollowingSized DEF LogIInv
  <1>4. CASE UNCHANGED logVars
    <2>1. Following /\ UNCHANGED <<follower, cursor, shown, again, owed>>
      <3>1. day \in 1..Days /\ Days \in Nat
        BY <1>1, EventLogAssumption DEF Lasting, LogTypes
      <3> QED BY <1>4, <3>1 DEF Following, logVars
    <2> QED BY <1>1, <2>1, StillFollows, FollowingSized DEF LogIInv
  <1> QED BY <1>2, <1>3, <1>4 DEF LogNext

\* The invariant, for any number of processes, days and events, and any limits.
THEOREM LogIsInvariant == LogSpec => []LogIInv
  <1>1. LogInit => LogIInv
    BY LogIInvInit
  <1>2. LogIInv /\ [LogNext]_logVars => LogIInv'
    BY LogIInvNext
  <1> QED BY <1>1, <1>2, PTL DEF LogSpec

\* No event is shown twice, however the history and the drains overlap, files are removed
\* and made again, and lines are seen half written (eventlog.go:217-330).
THEOREM ShownOnce == LogSpec => []FollowedOnce
  <1>1. LogIInv => FollowedOnce
    BY DEF LogIInv, Followed, FollowedOnce
  <1> QED BY <1>1, LogIsInvariant, PTL

\* The days in order are as many as the days that have a file.
LEMMA AsManyDays ==
    ASSUME Lasting
    PROVE  Len(order) = Cardinality(Present)
  <1>1. /\ order \in Seq(Calendar) /\ Range(order) = Present
        /\ \A i, j \in 1..Len(order) : order[i] = order[j] => i = j
    BY DEF Lasting, LogTypes, Listed, Distinct
  <1>2. Len(order) \in Nat /\ DOMAIN order = 1..Len(order) /\ order = [i \in 1..Len(order) |-> order[i]]
    BY <1>1
  <1> DEFINE n == Len(order)
  <1>3. Range(order) = {order[i] : i \in 1..n}
    BY <1>2 DEF Range
  <1> HIDE DEF n
  <1>4. order \in Bijection(1..n, Present)
    <2>1. order \in [1..n -> Present]
      BY <1>1, <1>2, <1>3 DEF n
    <2>2. order \in Injection(1..n, Present)
      BY <1>1, <1>2, <2>1 DEF Injection, IsInjective, n
    <2>3. order \in Surjection(1..n, Present)
      BY <1>1, <1>3, <2>1 DEF Surjection
    <2> QED BY <2>2, <2>3 DEF Bijection
  <1>5. n \in Nat /\ IsFiniteSet(1..n) /\ Cardinality(1..n) = n
    <2>1. n \in Nat
      BY <1>2 DEF n
    <2> QED BY <2>1, FS_Interval
  <1>6. ExistsBijection(1..n, Present)
    BY <1>4 DEF ExistsBijection
  <1>7. Cardinality(Present) = Cardinality(1..n)
    BY <1>5, <1>6, FS_Bijection
  <1> QED BY <1>5, <1>7 DEF n

\* However many processes clean up and append, the log has no more than event_max_bytes
\* and one event of each other process, and each variable its range
\* (eventlog.go:103-146).
THEOREM LogBounded == LogSpec => []LogInv
  <1>1. ASSUME LogIInv PROVE LogInv
    <2>1. Lasting /\ Recorded /\ Known /\ Followed /\ Sized /\ LogTypes /\ Working /\ Listed
      BY <1>1 DEF LogIInv, Lasting
    <2>2. SizeBounded
      <3>1. Bounded({})
        BY <2>1 DEF Sized, Bounded
      <3>2. Spared({}) = Present
        BY DEF Spared
      <3>3. /\ Cardinality({}) = 0 /\ Cardinality(Ready) \in Nat /\ Cardinality(Appenders) \in Nat
            /\ Cardinality(Writers) \in Nat
        BY FS_EmptySet, SomeKinds, Kinds
      <3>4. Total(file, Present) \in Nat
        BY <2>1, TotalLess DEF LogTypes
      <3> DEFINE a == Total(file, Present)
                 r == Cardinality(Ready)
                 m == Cardinality(Appenders)
                 w == Cardinality(Writers)
      <3>5. a + 2 * (r + 0) + m <= MaxSize + 2 * (w - 1)
        BY <3>1, <3>2, <3>3 DEF Bounded
      <3>6. a \in Nat /\ r \in Nat /\ m \in Nat /\ w \in Nat /\ MaxSize \in Nat
        BY <3>3, <3>4, EventLogAssumption
      <3> HIDE DEF a, r, m, w
      <3>7. a <= MaxSize + 2 * (w - 1)
        BY <3>5, <3>6
      <3> QED BY <3>7 DEF SizeBounded, a, w
    <2>3. LogTypeOK
      <3>1. day \in 1..Days /\ events \in 0..MaxEvents /\ owed.removed \subseteq 1..Days
            /\ follower.todo \subseteq 1..Days
        BY <2>1, Typed DEF LogTypes, Calendar
      <3>2. \A d \in 1..Days : \A i \in 1..Len(file[d]) :
               file[d][i] \in [event : 1..events, part : {"first", "last"}]
        <4> SUFFICES ASSUME NEW d \in 1..Days, NEW i \in 1..Len(file[d])
                     PROVE  file[d][i] \in [event : 1..events, part : {"first", "last"}]
          OBVIOUS
        <4>1. file[d][i] \in Parts /\ file[d][i].event \in 1..events
          BY <2>1, Typed DEF Recorded
        <4> QED BY <4>1 DEF Parts
      <3>3. Range(order) = Present /\ Len(order) = Cardinality(Present)
        BY <2>1, AsManyDays DEF Listed
      <3>4. ASSUME NEW p \in Writers
            PROVE  /\ writer[p].at \in {"idle", "cleaning", "appending"}
                   /\ writer[p] # Resting => writer[p].event \in 1..events /\ writer[p].day \in 1..day
        <4>1. writer[p] \in Jobs
          BY <2>1, Typed
        <4> QED BY <2>1, <4>1 DEF Jobs, Working
      <3>5. follower.at \in {"idle", "capturing", "reading", "first", "draining", "failed"}
        BY <2>1 DEF LogTypes, Followers
      <3>6. \A d \in 1..Days : cursor[d] # NoCursor => cursor[d].offset \in Nat
        <4> SUFFICES ASSUME NEW d \in 1..Days, cursor[d] # NoCursor PROVE cursor[d].offset \in Nat
          OBVIOUS
        <4>1. cursor[d].offset \in Int /\ cursor[d].offset >= 0
          BY <2>1, Typed DEF Followed
        <4> QED BY <4>1
      <3>7. shown \cup again \cup owed.events \subseteq 1..events
        <4>1. Written \subseteq 1..events /\ shown \subseteq Written /\ owed.events \subseteq Written
              /\ again = {}
          BY <2>1 DEF Written, Known, Followed
        <4> QED BY <4>1
      <3> QED BY <3>1, <3>2, <3>3, <3>4, <3>5, <3>6, <3>7 DEF LogTypeOK
    <2> QED BY <2>2, <2>3 DEF LogInv
  <1> QED BY <1>1, LogIsInvariant, PTL
=============================================================================
