------------------------------ MODULE Switcher ------------------------------
(***************************************************************************)
(* The gateway's admission of requests: LimitRequests in front of          *)
(* gateway.Switcher.  Every request is a goroutine with a program counter; *)
(* each step is one channel, atomic or mutex operation of the Go code, so  *)
(* all interleavings of pulls, reloads (Replace) and stops (StopAccepting) *)
(* are explored.  Channel sends follow the Go language's semantics: any    *)
(* ready case of a select may be taken, and any blocked sender may get the *)
(* slot that is freed.                                                     *)
(***************************************************************************)
EXTENDS Naturals, FiniteSets

CONSTANTS Requests,             \* goroutines of the HTTP server
          MaxInflightRequests,  \* capacity of LimitRequests' channel
          MaxConcurrentPulls,   \* capacity of pullSlots
          MaxQueuedPulls,       \* maxQueued
          MaxReplacements       \* bound on the number of reloads explored

\* config.Validate refuses zero for each of the three limits.
ASSUME SwitcherAssumption ==
    /\ IsFiniteSet(Requests)
    /\ MaxInflightRequests \in Nat \ {0}
    /\ MaxConcurrentPulls \in Nat \ {0}
    /\ MaxQueuedPulls \in Nat \ {0}
    /\ MaxReplacements \in Nat

VARIABLES pc,         \* where each request's goroutine is
          inflight,   \* len(slots) of LimitRequests
          slots,      \* len(pullSlots)
          queued,     \* the queued counter
          active,     \* the active counter
          backend,    \* generation of the current backend
          captured,   \* generation each request took in its first snapshot
          accepting,  \* the accepting flag
          closing,    \* a StopAccepting has cleared accepting, not yet closed stopping
          stopping    \* the stopping channel is closed

vars == <<pc, inflight, slots, queued, active, backend, captured,
          accepting, closing, stopping>>

counters == <<inflight, slots, queued, active>>
control  == <<backend, accepting, closing, stopping>>

PCs == {"idle", "entered", "manifest", "acquiring", "enqueueing", "overflow",
        "waiting", "granted", "giveup", "admitted", "opening", "opened",
        "streaming", "closing", "releasing", "leaving"}

Init ==
    /\ pc = [r \in Requests |-> "idle"]
    /\ inflight = 0 /\ slots = 0 /\ queued = 0 /\ active = 0
    /\ backend = 0
    /\ captured = [r \in Requests |-> 0]
    /\ accepting = TRUE /\ closing = FALSE /\ stopping = FALSE

Goto(r, from, to) ==
    /\ pc[r] = from
    /\ pc' = [pc EXCEPT ![r] = to]

\* The requests at one of the given places.
At(places) == {r \in Requests : pc[r] \in places}

Holding == {"granted", "admitted", "opening", "opened", "streaming", "closing", "releasing"}
Counted == {"overflow", "waiting", "granted", "giveup"}
Upstream == {"opening", "opened", "streaming"}

-----------------------------------------------------------------------------
\* LimitRequests: an arriving request takes a slot or is answered 503 at once.
Arrive(r) ==
    /\ inflight < MaxInflightRequests
    /\ Goto(r, "idle", "entered")
    /\ inflight' = inflight + 1
    /\ UNCHANGED <<slots, queued, active, captured, control>>

\* The handler returns and LimitRequests' deferred receive frees the slot.
Leave(r) ==
    /\ Goto(r, "leaving", "idle")
    /\ inflight' = inflight - 1
    /\ UNCHANGED <<slots, queued, active, captured, control>>

\* Manifest: one snapshot, then the backend answers or fails.
ManifestBegin(r) ==
    /\ Goto(r, "entered", IF accepting THEN "manifest" ELSE "leaving")
    /\ captured' = [captured EXCEPT ![r] = IF accepting THEN backend ELSE @]
    /\ UNCHANGED <<counters, control>>

ManifestEnd(r) ==
    /\ Goto(r, "manifest", "leaving")
    /\ UNCHANGED <<counters, captured, control>>

\* Blob takes its snapshot of the backend before it asks for a pull slot.
BlobBegin(r) ==
    /\ Goto(r, "entered", IF accepting THEN "acquiring" ELSE "leaving")
    /\ captured' = [captured EXCEPT ![r] = IF accepting THEN backend ELSE @]
    /\ UNCHANGED <<counters, control>>

-----------------------------------------------------------------------------
\* acquirePull
TakeFreeSlot(r) ==
    /\ slots < MaxConcurrentPulls
    /\ Goto(r, "acquiring", "admitted")
    /\ slots' = slots + 1
    /\ UNCHANGED <<inflight, queued, active, captured, control>>

NoFreeSlot(r) ==
    /\ slots = MaxConcurrentPulls
    /\ Goto(r, "acquiring", "enqueueing")
    /\ UNCHANGED <<counters, captured, control>>

Enqueue(r) ==
    /\ Goto(r, "enqueueing", IF queued + 1 > MaxQueuedPulls THEN "overflow" ELSE "waiting")
    /\ queued' = queued + 1
    /\ UNCHANGED <<inflight, slots, active, captured, control>>

RejectOverflow(r) ==
    /\ Goto(r, "overflow", "leaving")
    /\ queued' = queued - 1
    /\ UNCHANGED <<inflight, slots, active, captured, control>>

\* The slot is won in the select; the deferred queued.Add(-1) runs afterwards.
WinSlot(r) ==
    /\ slots < MaxConcurrentPulls
    /\ Goto(r, "waiting", "granted")
    /\ slots' = slots + 1
    /\ UNCHANGED <<inflight, queued, active, captured, control>>

Dequeue(r) ==
    /\ Goto(r, "granted", "admitted")
    /\ queued' = queued - 1
    /\ UNCHANGED <<inflight, slots, active, captured, control>>

\* ctx.Done: the downstream client may go away at any time.
CancelWait(r) ==
    /\ Goto(r, "waiting", "giveup")
    /\ UNCHANGED <<counters, captured, control>>

StopWait(r) ==
    /\ stopping
    /\ Goto(r, "waiting", "giveup")
    /\ UNCHANGED <<counters, captured, control>>

GiveUp(r) ==
    /\ Goto(r, "giveup", "leaving")
    /\ queued' = queued - 1
    /\ UNCHANGED <<inflight, slots, active, captured, control>>

-----------------------------------------------------------------------------
\* A plausible slip: the backend is called without a second look at accepting.
RecheckNever(r) ==
    /\ Goto(r, "admitted", "opening")
    /\ UNCHANGED <<counters, captured, control>>

\* A plausible slip: the backend of the second snapshot is used.
RecheckRebinds(r) ==
    /\ Goto(r, "admitted", IF accepting THEN "opening" ELSE "releasing")
    /\ captured' = [captured EXCEPT ![r] = backend]
    /\ UNCHANGED <<counters, control>>

\* The second snapshot: a stop that came while the request waited wins.
Recheck(r) ==
    /\ Goto(r, "admitted", IF accepting THEN "opening" ELSE "releasing")
    /\ UNCHANGED <<counters, captured, control>>

\* A plausible slip: an error of the backend returns without releasePull.
OpenFailsLeaks(r) ==
    /\ Goto(r, "opening", "leaving")
    /\ UNCHANGED <<counters, captured, control>>

\* backend.Blob returns an error, or no reader.
OpenFails(r) ==
    /\ Goto(r, "opening", "releasing")
    /\ UNCHANGED <<counters, captured, control>>

OpenSucceeds(r) ==
    /\ Goto(r, "opening", "opened")
    /\ UNCHANGED <<counters, captured, control>>

CountActive(r) ==
    /\ Goto(r, "opened", "streaming")
    /\ active' = active + 1
    /\ UNCHANGED <<inflight, slots, queued, captured, control>>

\* The handler's deferred Close closes the upstream reader ...
CloseReader(r) ==
    /\ Goto(r, "streaming", "closing")
    /\ UNCHANGED <<counters, captured, control>>

\* ... and then runs done, once: first the counter,
UncountActive(r) ==
    /\ Goto(r, "closing", "releasing")
    /\ active' = active - 1
    /\ UNCHANGED <<inflight, slots, queued, captured, control>>

\* then the slot.
ReleasePull(r) ==
    /\ Goto(r, "releasing", "leaving")
    /\ slots' = slots - 1
    /\ UNCHANGED <<inflight, queued, active, captured, control>>

-----------------------------------------------------------------------------
\* Reload installs another backend for the requests that begin afterwards.
Replace ==
    /\ backend < MaxReplacements
    /\ backend' = backend + 1
    /\ UNCHANGED <<pc, counters, captured, accepting, closing, stopping>>

\* StopAccepting clears the flag under the mutex, then closes the channel, once.
StopFlag ==
    /\ accepting' = FALSE
    /\ closing' = TRUE
    /\ UNCHANGED <<pc, counters, captured, backend, stopping>>

\* A plausible slip: the flag is cleared but the waiters are not woken.
StopCloseNever ==
    /\ closing
    /\ closing' = FALSE
    /\ UNCHANGED <<pc, counters, captured, backend, accepting, stopping>>

StopClose ==
    /\ closing
    /\ closing' = FALSE
    /\ stopping' = TRUE
    /\ UNCHANGED <<pc, counters, captured, backend, accepting>>

-----------------------------------------------------------------------------
AcquirePull(r) ==
    \/ TakeFreeSlot(r) \/ NoFreeSlot(r) \/ Enqueue(r) \/ RejectOverflow(r)
    \/ WinSlot(r) \/ Dequeue(r) \/ CancelWait(r) \/ StopWait(r) \/ GiveUp(r)

Blob(r) ==
    \/ BlobBegin(r) \/ AcquirePull(r) \/ Recheck(r)
    \/ OpenFails(r) \/ OpenSucceeds(r) \/ CountActive(r)
    \/ CloseReader(r) \/ UncountActive(r) \/ ReleasePull(r)

Request(r) == Arrive(r) \/ Leave(r) \/ ManifestBegin(r) \/ ManifestEnd(r) \/ Blob(r)

Next ==
    \/ \E r \in Requests : Request(r)
    \/ Replace \/ StopFlag \/ StopClose

Spec == Init /\ [][Next]_vars

LocalStep(r) ==
    \/ Leave(r) \/ ManifestBegin(r) \/ BlobBegin(r)
    \/ TakeFreeSlot(r) \/ NoFreeSlot(r) \/ Enqueue(r) \/ RejectOverflow(r)
    \/ Dequeue(r) \/ StopWait(r) \/ GiveUp(r) \/ Recheck(r)
    \/ CountActive(r) \/ UncountActive(r) \/ ReleasePull(r)

UpstreamStep(r) ==
    ManifestEnd(r) \/ OpenFails(r) \/ OpenSucceeds(r) \/ CloseReader(r)

(***************************************************************************)
(* Fairness.  A goroutine that can run does run, and a StopAccepting that  *)
(* has begun finishes.  A blocked sender is served in its turn (the        *)
(* runtime keeps them in a FIFO), which is strong fairness on WinSlot.     *)
(* Nothing is assumed of arrivals, client departures, reloads, upstreams   *)
(* or of a stop being asked for.                                           *)
(***************************************************************************)
FairSpec ==
    /\ Spec
    /\ \A r \in Requests : WF_vars(LocalStep(r)) /\ SF_vars(WinSlot(r))
    /\ WF_vars(StopClose)

\* Upstreams make progress: a backend call returns and a stream ends, because
\* client and router time out.
UpstreamsProgress == \A r \in Requests : WF_vars(UpstreamStep(r))

-----------------------------------------------------------------------------
\* The range of every variable: no counter of runtime.go:17-27 goes below zero.
TypeOK ==
    /\ pc \in [Requests -> PCs]
    /\ inflight \in Nat /\ slots \in Nat /\ queued \in Nat /\ active \in Nat
    /\ backend \in 0..MaxReplacements
    /\ captured \in [Requests -> 0..MaxReplacements]
    /\ accepting \in BOOLEAN /\ closing \in BOOLEAN /\ stopping \in BOOLEAN

(***************************************************************************)
(* Every counter equals the number of requests it stands for, on every     *)
(* path through Blob: a leak would shrink the gateway's capacity for good, *)
(* a double release would block a goroutine on an empty channel.           *)
(***************************************************************************)
Accounting ==
    /\ inflight = Cardinality(At(PCs \ {"idle"}))
    /\ slots = Cardinality(At(Holding))
    /\ queued = Cardinality(At(Counted))
    /\ active = Cardinality(At({"streaming", "closing"}))

\* max_concurrent_pulls bounds the pulls that talk to an upstream, at every
\* instant between the call of backend.Blob and the close of its reader.
UpstreamBounded == Cardinality(At(Upstream)) <= MaxConcurrentPulls

\* max_queued_pulls bounds the requests that wait for a slot, although the
\* counter itself overshoots while a rejected request is still counted.
WaitersBounded == Cardinality(At({"waiting"})) <= MaxQueuedPulls

\* A pull is turned away for a full queue only when MaxQueuedPulls other
\* requests are counted: in the queue, on their way out of it, or rejected.
RejectedOnlyWhenCrowded ==
    [][\A r \in Requests :
         pc[r] = "enqueueing" /\ pc'[r] = "overflow"
            => Cardinality(At(Counted)) >= MaxQueuedPulls]_vars

\* Once StopAccepting has cleared the flag no pull reaches an upstream any
\* more, not even one that was queued and won its slot in the select.
NoPullAfterStop == [][~accepting => At(Upstream)' \subseteq At(Upstream)]_vars

\* A reload only affects requests that begin afterwards: a pull that waits in
\* the queue across a reload is still opened on the backend it began with.
BackendKept ==
    [][\A r \in Requests :
         pc[r] \notin {"idle", "entered"} => captured'[r] = captured[r]]_vars

\* A stop empties the queue although every stream in progress may hang for ever;
\* when upstreams make progress all pull capacity comes back, for good.
StopDrains ==
    /\ ~accepting ~> [](At({"waiting"}) = {})
    /\ UpstreamsProgress => (~accepting ~> [](slots = 0 /\ queued = 0 /\ active = 0))

\* Every request is answered when upstreams make progress, whatever the other
\* pulls do.
EveryRequestEnds ==
    UpstreamsProgress => \A r \in Requests : (pc[r] # "idle") ~> (pc[r] = "idle")

Admission ==
    INSTANCE PullAdmission
        WITH held <- At(Holding), waiting <- At({"waiting"}),
             serving <- At(Upstream), open <- accepting

\* The Switcher implements the admission promised by PullAdmission.
ImplementsAdmission == Admission!Spec
=============================================================================
