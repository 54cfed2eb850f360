--------------------------- MODULE ProviderUseProofs ---------------------------
(***************************************************************************)
(* Whatever faults meet, and however many requests and processes there are: *)
(* a Provider is held out only for something it did, and the history file    *)
(* keeps what the last process knew.                                        *)
(***************************************************************************)
EXTENDS ProviderUse, FiniteSetTheorems, TLAPS

Places == {"off", "run", "stopping", "saved", "cut"}

RequestStates ==
    {NoRequest}
    \cup [at : {"sent", "challenged"}, by : Processes, credentials : Credentials,
          current : BOOLEAN, cached : BOOLEAN]
    \cup [at : {"retried", "streaming"}, by : Processes]

Probes == {NoProbe} \cup [at : {"manifest", "blob"}, credentials : Credentials]

Snapshots == [throughput : Nat, firstByte : Nat, observed : BOOLEAN]
Saves == {NoSave} \cup [at : {"periodic"}, snapshot : Snapshots]

Ranges ==
    /\ scene \in Scenes
    /\ upstream \in Upstreams /\ credentials \in Credentials
    /\ process \in [Processes -> Places]
    /\ health \in [Processes -> Health]
    /\ token \in [Processes -> BOOLEAN] /\ busy \in [Processes -> BOOLEAN]
    /\ request \in [Requests -> RequestStates]
    /\ probe \in [Processes -> Probes]
    /\ saving \in [Processes -> Saves]
    /\ file \in [by : Processes \cup {NoProcess}, snapshot : Snapshots]

\* What each state of a process rules out.
Lifetimes ==
    /\ \A p \in Processes :
          /\ process[p] = "off" => health[p] = NewHealth
          /\ process[p] \in {"off", "saved", "cut"} => saving[p] = NoSave
          /\ probe[p] # NoProbe => process[p] \in {"run", "stopping"}
    /\ \A r \in Requests :
          request[r].at # "none" => process[request[r].by] \notin {"off", "saved"}

OneRuns == \A p, q \in Processes : process[p] = "run" /\ process[q] = "run" => p = q

\* Nothing that could change what a saved process knew, or the file, is left in it.
IInv == Ranges /\ Lifetimes /\ OneRuns /\ HistoryKept

\* h, as the health of the Provider in p, raises no flag without its reason.
Earned(p, h) ==
    /\ (h.authenticationInvalid /\ ~health[p].authenticationInvalid) => Refusal
    /\ (h.integrityInvalid /\ ~health[p].integrityInvalid) => upstream = "corrupt"
    /\ (h.rangeUnsupported /\ ~health[p].rangeUnsupported) => (upstream # "ok" \/ Refusal)

-----------------------------------------------------------------------------
(* The operators on health.                                                  *)

LEMMA RecordsTyped ==
    ASSUME NEW h \in Health, NEW n \in Nat, NEW error
    PROVE  /\ NewHealth \in Health
           /\ Released(h) \in Health
           /\ RecordSuccess(h, n) \in Health
           /\ RecordFirstByte(h, n) \in Health
           /\ RecordProbeSuccess(h) \in Health
           /\ RecordFailure(h) \in Health
           /\ RecordRangeUnsupported(h) \in Health
           /\ RecordProviderFailure(h, error) \in Health
           /\ [h EXCEPT !.rateLimited = FALSE] \in Health
<1>1. NewHealth \in Health
  BY DEF Health, NewHealth
<1>2. \A g \in Health : Released(g) \in Health
  BY DEF Health, Released
<1>3. \A g \in Health : [g EXCEPT !.throughput = n, !.failures = 0, !.observed = TRUE] \in Health
  BY DEF Health
<1>4. RecordSuccess(h, n) \in Health
  BY <1>2, <1>3 DEF RecordSuccess
<1>5. RecordFirstByte(h, n) \in Health
  BY DEF Health, RecordFirstByte
<1>6. RecordProbeSuccess(h) \in Health
  BY <1>2 DEF RecordProbeSuccess
<1>7. RecordFailure(h) \in Health
  <2> DEFINE k == IF h.failures < MaxFailures THEN h.failures + 1 ELSE h.failures
  <2>1. k \in Nat
    BY HealthAssumption DEF Health
  <2>2. RecordFailure(h) = [h EXCEPT !.failures = k, !.observed = TRUE]
    BY DEF RecordFailure
  <2> HIDE DEF k
  <2> QED BY <2>1, <2>2 DEF Health
<1>8. RecordRangeUnsupported(h) \in Health
  BY DEF Health, RecordRangeUnsupported
<1>9. /\ RecordRateLimited(h) \in Health
      /\ RecordAuthenticationFailure(h) \in Health
      /\ RecordIntegrityViolation(h) \in Health
  BY DEF Health, RecordRateLimited, RecordAuthenticationFailure, RecordIntegrityViolation
<1>10. RecordProviderFailure(h, error) \in Health
  BY <1>7, <1>9 DEF RecordProviderFailure
<1>11. [h EXCEPT !.rateLimited = FALSE] \in Health
  BY DEF Health
<1> QED BY <1>1, <1>2, <1>4, <1>5, <1>6, <1>7, <1>8, <1>10, <1>11

LEMMA SnapshotsTyped ==
    /\ NoSnapshot \in Snapshots
    /\ \A h \in Health : Snapshot(h) \in Snapshots
    /\ \A s \in Snapshots : Restore(s) \in Health
BY DEF NoSnapshot, Snapshots, Snapshot, Health, Restore, NewHealth

\* Which flag a failure raises.
LEMMA FailureRaises ==
    ASSUME NEW h \in Health, NEW error
    PROVE  LET f == RecordProviderFailure(h, error)
           IN  /\ f.authenticationInvalid =>
                     h.authenticationInvalid \/ error = "authentication"
               /\ f.integrityInvalid => h.integrityInvalid \/ error = "integrity"
               /\ f.rangeUnsupported = h.rangeUnsupported
BY DEF Health, RecordFailure, RecordProviderFailure, RecordRateLimited,
       RecordAuthenticationFailure, RecordIntegrityViolation

\* What releases a hold, or leaves the flags alone, is always earned.
LEMMA ReleasesEarned ==
    ASSUME NEW p \in Processes, health[p] \in Health, NEW n \in Nat
    PROVE  /\ Earned(p, health[p])
           /\ Earned(p, NewHealth)
           /\ Earned(p, RecordSuccess(health[p], n))
           /\ Earned(p, RecordFirstByte(health[p], n))
           /\ Earned(p, RecordProbeSuccess(health[p]))
           /\ Earned(p, RecordFailure(health[p]))
           /\ Earned(p, [health[p] EXCEPT !.rateLimited = FALSE])
           /\ \A s : Earned(p, Restore(s))
BY DEF Health, NewHealth, Released, RecordSuccess, RecordFirstByte, RecordProbeSuccess,
       RecordFailure, Restore, Earned

-----------------------------------------------------------------------------
(* Requests.                                                                 *)

\* What any step of a request does: it charges h to the process it is in, and
\* goes on as x.
Move(r) ==
    \E p \in Processes, h \in Health, x \in RequestStates :
       /\ process[p] \notin {"off", "saved"}
       /\ Earned(p, h) /\ health' = [health EXCEPT ![p] = h]
       /\ request' = [request EXCEPT ![r] = x] /\ (x.at # "none" => x.by = p)
       /\ token' \in [Processes -> BOOLEAN] /\ busy' \in [Processes -> BOOLEAN]
       /\ UNCHANGED <<scene, upstream, credentials, process, probe, saving, file>>

EarnedAll == \A p \in Processes : Earned(p, health'[p])

LEMMA MoveKeeps ==
    ASSUME IInv, NEW r \in Requests, Move(r)
    PROVE  IInv' /\ EarnedAll
<1>1. PICK p \in Processes, h \in Health, x \in RequestStates :
         /\ process[p] \notin {"off", "saved"}
         /\ Earned(p, h) /\ health' = [health EXCEPT ![p] = h]
         /\ request' = [request EXCEPT ![r] = x] /\ (x.at # "none" => x.by = p)
         /\ token' \in [Processes -> BOOLEAN] /\ busy' \in [Processes -> BOOLEAN]
         /\ UNCHANGED <<scene, upstream, credentials, process, probe, saving, file>>
  BY DEF Move
<1>2. \A q \in Processes : health'[q] = IF q = p THEN h ELSE health[q]
  BY <1>1 DEF IInv, Ranges
<1>3. \A s \in Requests : request'[s] = IF s = r THEN x ELSE request[s]
  BY <1>1 DEF IInv, Ranges
<1>4. Ranges'
  BY <1>1 DEF IInv, Ranges
<1>5. Lifetimes'
  BY <1>1, <1>2, <1>3 DEF IInv, Lifetimes
<1>6. OneRuns' /\ HistoryKept'
  BY <1>1, <1>2 DEF IInv, OneRuns, HistoryKept
<1>7. EarnedAll
  BY <1>1, <1>2, ReleasesEarned DEF EarnedAll, IInv, Ranges
<1> QED BY <1>4, <1>5, <1>6, <1>7 DEF IInv

\* A request is in a process that is there.
LEMMA Owner ==
    ASSUME IInv, NEW r \in Requests, request[r].at # "none"
    PROVE  /\ request[r].by \in Processes
           /\ process[request[r].by] \notin {"off", "saved"}
           /\ health[request[r].by] \in Health
<1>1. request[r] \in RequestStates /\ request[r] # NoRequest
  BY DEF IInv, Ranges, NoRequest
<1>2. request[r].by \in Processes
  BY <1>1 DEF RequestStates
<1> QED BY <1>2 DEF IInv, Ranges, Lifetimes

Rest == UNCHANGED <<scene, upstream, credentials, process, probe, saving, file>>

LEMMA FailureMoves ==
    ASSUME IInv, NEW r \in Requests, request[r].at # "none", NEW error, Fails(r, error), Rest,
           error = "authentication" => Refusal,
           error = "integrity" => upstream = "corrupt"
    PROVE  Move(r)
<1> DEFINE p == request[r].by
           h == RecordProviderFailure(health[p], error)
<1>1. p \in Processes /\ process[p] \notin {"off", "saved"} /\ health[p] \in Health
  BY Owner
<1>2. h \in Health
  BY <1>1, RecordsTyped
<1>3. Earned(p, h)
  BY <1>1, FailureRaises DEF Earned
<1>4. NoRequest \in RequestStates /\ NoRequest.at = "none"
  BY DEF RequestStates, NoRequest
<1>5. health' = [health EXCEPT ![p] = h] /\ request' = [request EXCEPT ![r] = NoRequest]
  BY DEF Fails, Charge, End
<1>6. token' \in [Processes -> BOOLEAN] /\ busy' \in [Processes -> BOOLEAN]
  BY DEF Fails, IInv, Ranges
<1> HIDE DEF p, h
<1> QED BY <1>1, <1>2, <1>3, <1>4, <1>5, <1>6 DEF Move, Rest

\* A step that charges nothing to be held out for.
LEMMA ReleaseMoves ==
    ASSUME IInv, NEW r \in Requests, request[r].at # "none", Rest,
           NEW h \in Health, Earned(request[r].by, h), Charge(request[r].by, h),
           NEW x \in RequestStates, request' = [request EXCEPT ![r] = x],
           x.at # "none" => x.by = request[r].by,
           token' \in [Processes -> BOOLEAN], busy' \in [Processes -> BOOLEAN]
    PROVE  Move(r)
BY Owner DEF Move, Charge, Rest

LEMMA AnsweredMoves ==
    ASSUME IInv, NEW r \in Requests, request[r].at # "none", Answered(r), Rest
    PROVE  Move(r)
<1>1. CASE upstream = "down" /\ Fails(r, "transport")
  BY <1>1, FailureMoves
<1>2. CASE upstream \in {"limited", "gated"} /\ Fails(r, "rate_limited")
  BY <1>2, FailureMoves
<1>3. CASE upstream = "denied" /\ Fails(r, "authentication")
  BY <1>3, FailureMoves DEF Refusal
<1>4. CASE upstream = "corrupt" /\ Fails(r, "integrity")
  BY <1>4, FailureMoves
<1>5. CASE /\ busy' = [busy EXCEPT ![request[r].by] = TRUE]
           /\ Charge(request[r].by, RecordFirstByte(health[request[r].by], scene.latency))
           /\ Accepted(r, "streaming")
           /\ UNCHANGED token
  <2> DEFINE p == request[r].by
             x == [at |-> "streaming", by |-> p]
             h == RecordFirstByte(health[p], scene.latency)
  <2>1. p \in Processes /\ health[p] \in Health
    BY Owner
  <2>2. scene.latency \in Nat
    BY UseAssumption DEF IInv, Ranges
  <2>3. h \in Health /\ Earned(p, h)
    BY <2>1, <2>2, RecordsTyped, ReleasesEarned
  <2>4. x \in RequestStates /\ x.by = p
    BY <2>1 DEF RequestStates
  <2>5. request' = [request EXCEPT ![r] = x]
    BY <1>5 DEF Accepted
  <2>6. token' \in [Processes -> BOOLEAN] /\ busy' \in [Processes -> BOOLEAN]
    BY <1>5, <2>1 DEF IInv, Ranges
  <2> HIDE DEF x, h
  <2> QED BY <1>5, <2>3, <2>4, <2>5, <2>6, ReleaseMoves DEF h
<1> QED BY <1>1, <1>2, <1>3, <1>4, <1>5 DEF Answered

\* Every step of a request.
LEMMA RequestMoves ==
    ASSUME IInv, NEW r \in Requests, OfRequest(r), UNCHANGED scene
    PROVE  Move(r)
<1>1. CASE \E p \in Processes : Begin(r, p)
  <2>1. PICK p \in Processes : Begin(r, p)
    BY <1>1
  <2> DEFINE x == IF Available(health[p])
                  THEN [at |-> "sent", by |-> p, credentials |-> credentials,
                        current |-> TRUE, cached |-> token[p]]
                  ELSE request[r]
  <2>2. x \in RequestStates /\ (x.at # "none" => x.by = p)
    BY <2>1 DEF Begin, RequestStates, NoRequest, IInv, Ranges
  <2>3. request' = [request EXCEPT ![r] = x]
    <3>1. CASE Available(health[p])
      BY <2>1, <3>1 DEF Begin
    <3>2. CASE ~Available(health[p])
      BY <2>1, <3>2 DEF Begin, IInv, Ranges
    <3> QED BY <3>1, <3>2
  <2>4. health[p] \in Health /\ Earned(p, health[p]) /\ health' = [health EXCEPT ![p] = health[p]]
    BY <2>1, ReleasesEarned DEF Begin, IInv, Ranges
  <2>5. token' \in [Processes -> BOOLEAN] /\ busy' \in [Processes -> BOOLEAN]
    BY <2>1 DEF Begin, IInv, Ranges
  <2>6. process[p] \notin {"off", "saved"}
        /\ UNCHANGED <<scene, upstream, credentials, process, probe, saving, file>>
    BY <2>1 DEF Begin
  <2> HIDE DEF x
  <2> QED BY <2>2, <2>3, <2>4, <2>5, <2>6 DEF Move
<1>2. CASE Answer(r)
  <2>1. request[r].at # "none" /\ Rest
    BY <1>2 DEF Answer, Rest
  <2>2. CASE Answered(r)
    BY <2>1, <2>2, AnsweredMoves
  <2>3. CASE Step(r, "challenged") /\ UNCHANGED <<health, busy, token>>
    <3> DEFINE x == [request[r] EXCEPT !.at = "challenged", !.cached = FALSE]
    <3>1. request[r] \in [at : {"sent", "challenged"}, by : Processes, credentials : Credentials,
                          current : BOOLEAN, cached : BOOLEAN]
      BY <1>2 DEF Answer, IInv, Ranges, RequestStates, NoRequest
    <3>2. x \in RequestStates /\ x.by = request[r].by
      BY <3>1 DEF RequestStates
    <3>3. health[request[r].by] \in Health /\ request[r].by \in Processes
      BY <2>1, Owner
    <3>4. Charge(request[r].by, health[request[r].by])
      BY <2>3, <3>3 DEF Charge, IInv, Ranges
    <3>5. request' = [request EXCEPT ![r] = x]
      BY <2>3 DEF Step
    <3>6. token' \in [Processes -> BOOLEAN] /\ busy' \in [Processes -> BOOLEAN]
      BY <2>3 DEF IInv, Ranges
    <3> HIDE DEF x
    <3> QED BY <2>1, <3>2, <3>3, <3>4, <3>5, <3>6, ReleasesEarned, ReleaseMoves
  <2> QED BY <1>2, <2>2, <2>3 DEF Answer
<1>3. CASE ObtainToken(r)
  <2>1. request[r].at = "challenged" /\ Rest
    BY <1>3 DEF ObtainToken, Rest
  <2>2. CASE Fails(r, "transport")
    BY <2>1, <2>2, FailureMoves
  <2>3. CASE request[r].credentials = "refused" /\ Fails(r, "authentication")
    BY <2>1, <2>3, FailureMoves DEF Refusal
  <2>4. CASE /\ token' = IF request[r].current
                          THEN [token EXCEPT ![request[r].by] = TRUE] ELSE token
             /\ Accepted(r, "retried")
             /\ UNCHANGED <<health, busy>>
    <3> DEFINE x == [at |-> "retried", by |-> request[r].by]
    <3>1. health[request[r].by] \in Health /\ request[r].by \in Processes
      BY <2>1, Owner
    <3>2. x \in RequestStates /\ x.by = request[r].by
      BY <3>1 DEF RequestStates
    <3>3. Charge(request[r].by, health[request[r].by])
      BY <2>4, <3>1 DEF Charge, IInv, Ranges
    <3>4. request' = [request EXCEPT ![r] = x]
      BY <2>4 DEF Accepted
    <3>5. token' \in [Processes -> BOOLEAN] /\ busy' \in [Processes -> BOOLEAN]
      BY <2>4, <3>1 DEF IInv, Ranges
    <3> HIDE DEF x
    <3> QED BY <2>1, <3>1, <3>2, <3>3, <3>4, <3>5, ReleasesEarned, ReleaseMoves
  <2> QED BY <1>3, <2>2, <2>3, <2>4 DEF ObtainToken
<1>4. CASE Retry(r)
  BY <1>4, AnsweredMoves DEF Retry, Rest
<1>5. CASE Finish(r) \/ Break(r) \/ Depart(r)
  <2>1. request[r].at # "none" /\ Rest
    BY <1>5 DEF Finish, Break, Depart, Rest
  <2>2. health[request[r].by] \in Health /\ request[r].by \in Processes
    BY <2>1, Owner
  <2>3. NoRequest \in RequestStates /\ NoRequest.at = "none"
    BY DEF RequestStates, NoRequest
  <2>4. CASE Finish(r)
    <3>1. PICK t \in Throughputs : Charge(request[r].by, RecordSuccess(health[request[r].by], t))
      BY <2>4 DEF Finish
    <3>2. t \in Nat
      BY UseAssumption
    <3>3. token' \in [Processes -> BOOLEAN] /\ busy' \in [Processes -> BOOLEAN]
      BY <2>4 DEF Finish, IInv, Ranges
    <3> QED BY <2>1, <2>2, <2>3, <2>4, <3>1, <3>2, <3>3, RecordsTyped, ReleasesEarned, ReleaseMoves
            DEF Finish, End
  <2>5. CASE Break(r)
    <3>1. token' \in [Processes -> BOOLEAN] /\ busy' \in [Processes -> BOOLEAN]
      BY <2>5 DEF Break, IInv, Ranges
    <3>2. RecordFailure(health[request[r].by]) \in Health
          /\ Earned(request[r].by, RecordFailure(health[request[r].by]))
      BY <2>2, RecordsTyped, ReleasesEarned
    <3> QED BY <2>1, <2>3, <2>5, <3>1, <3>2, ReleaseMoves DEF Break, End
  <2>6. CASE Fails(r, "cancelled")
    BY <2>1, <2>6, FailureMoves
  <2>7. CASE End(r) /\ UNCHANGED <<health, busy, token>>
    <3>1. token' \in [Processes -> BOOLEAN] /\ busy' \in [Processes -> BOOLEAN]
      BY <2>7 DEF IInv, Ranges
    <3>2. Charge(request[r].by, health[request[r].by])
      BY <2>2, <2>7 DEF Charge, IInv, Ranges
    <3> QED BY <2>1, <2>2, <2>3, <2>7, <3>1, <3>2, ReleasesEarned, ReleaseMoves DEF End
  <2> QED BY <1>5, <2>4, <2>5, <2>6, <2>7 DEF Depart
<1> QED BY <1>1, <1>2, <1>3, <1>4, <1>5 DEF OfRequest

-----------------------------------------------------------------------------
(* Steps inside a process that runs or stops: probes, reloads, snapshots.    *)

\* Such a step charges h, leaves the probe as b and the save as s, and may mark
\* requests as those of an older client.
Inside(p) ==
    \E h \in Health, b \in Probes, s \in Saves :
       /\ process[p] \in {"run", "stopping"}
       /\ Earned(p, h) /\ health' = [health EXCEPT ![p] = h]
       /\ probe' = [probe EXCEPT ![p] = b] /\ saving' = [saving EXCEPT ![p] = s]
       /\ request' \in [Requests -> RequestStates]
       /\ \A r \in Requests : request'[r].at # "none" =>
             request[r].at # "none" /\ request'[r].by = request[r].by
       /\ token' \in [Processes -> BOOLEAN] /\ busy' \in [Processes -> BOOLEAN]
       /\ credentials' \in Credentials
       /\ UNCHANGED <<scene, upstream, process, file>>

LEMMA InsideKeeps ==
    ASSUME IInv, NEW p \in Processes, Inside(p)
    PROVE  IInv' /\ EarnedAll
<1>1. PICK h \in Health, b \in Probes, s \in Saves :
         /\ process[p] \in {"run", "stopping"}
         /\ Earned(p, h) /\ health' = [health EXCEPT ![p] = h]
         /\ probe' = [probe EXCEPT ![p] = b] /\ saving' = [saving EXCEPT ![p] = s]
         /\ request' \in [Requests -> RequestStates]
         /\ \A r \in Requests : request'[r].at # "none" =>
               request[r].at # "none" /\ request'[r].by = request[r].by
         /\ token' \in [Processes -> BOOLEAN] /\ busy' \in [Processes -> BOOLEAN]
         /\ credentials' \in Credentials
         /\ UNCHANGED <<scene, upstream, process, file>>
  BY DEF Inside
<1>2. \A q \in Processes : /\ health'[q] = IF q = p THEN h ELSE health[q]
                           /\ probe'[q] = IF q = p THEN b ELSE probe[q]
                           /\ saving'[q] = IF q = p THEN s ELSE saving[q]
  BY <1>1 DEF IInv, Ranges
<1>3. Ranges'
  BY <1>1 DEF IInv, Ranges
<1>4. Lifetimes'
  BY <1>1, <1>2 DEF IInv, Lifetimes
<1>5. OneRuns' /\ HistoryKept'
  BY <1>1, <1>2 DEF IInv, OneRuns, HistoryKept
<1>6. EarnedAll
  BY <1>1, <1>2, ReleasesEarned DEF EarnedAll, IInv, Ranges
<1> QED BY <1>3, <1>4, <1>5, <1>6 DEF IInv

LEMMA ProbingInside ==
    ASSUME IInv, NEW p \in Processes, Probing(p), UNCHANGED scene
    PROVE  Inside(p)
<1>1. health[p] \in Health /\ probe[p] \in Probes /\ saving[p] \in Saves
  BY DEF IInv, Ranges
<1>2. probe[p] # NoProbe
  BY DEF Probing, ProbeManifest, ProbeBlob, ProbeTimesOut, ProbeCancelled, NoProbe
<1>3. process[p] \in {"run", "stopping"}
  BY <1>2 DEF IInv, Lifetimes
<1>4. NoProbe \in Probes /\ [probe[p] EXCEPT !.at = "blob"] \in Probes
  BY <1>1, <1>2 DEF Probes
<1>5. \E b \in Probes : probe' = [probe EXCEPT ![p] = b]
  <2>1. ASSUME ProbeManifest(p), ProbeError(p) = "none"
        PROVE  probe' = [probe EXCEPT ![p] = [probe[p] EXCEPT !.at = "blob"]]
    BY <2>1 DEF ProbeManifest
  <2>2. ASSUME ~(ProbeManifest(p) /\ ProbeError(p) = "none")
        PROVE  probe' = [probe EXCEPT ![p] = NoProbe]
    BY <2>2 DEF Probing, ProbeManifest, ProbeBlob, ProbeTimesOut, ProbeCancelled
  <2> QED BY <1>4, <2>1, <2>2
<1>6. ASSUME NEW error, ProbeFails(p, error),
             error = "authentication" => Refusal, error = "integrity" => upstream = "corrupt"
      PROVE  \E h \in Health : Earned(p, h) /\ health' = [health EXCEPT ![p] = h]
  <2>1. CASE process[p] = "run"
    <3>1. RecordProviderFailure(health[p], error) \in Health
      BY <1>1, RecordsTyped
    <3>2. Earned(p, RecordProviderFailure(health[p], error))
      BY <1>1, <1>6, FailureRaises DEF Earned
    <3> QED BY <1>6, <2>1, <3>1, <3>2 DEF ProbeFails, Charge
  <2>2. CASE process[p] # "run"
    BY <1>1, <1>6, <2>2, ReleasesEarned DEF ProbeFails, IInv, Ranges
  <2> QED BY <2>1, <2>2
<1>7. ASSUME UNCHANGED health
      PROVE  \E h \in Health : Earned(p, h) /\ health' = [health EXCEPT ![p] = h]
  BY <1>1, <1>7, ReleasesEarned DEF IInv, Ranges
<1>8. \E h \in Health : Earned(p, h) /\ health' = [health EXCEPT ![p] = h]
  <2>1. CASE ProbeManifest(p)
    <3>1. ProbeError(p) = "authentication" => Refusal
      BY <1>2 DEF ProbeError, Refusal
    <3>2. ProbeError(p) = "integrity" => upstream = "corrupt"
      BY DEF ProbeError
    <3> QED BY <1>6, <1>7, <2>1, <3>1, <3>2 DEF ProbeManifest
  <2>2. CASE ProbeBlob(p)
    <3>1. RecordProbeSuccess(health[p]) \in Health /\ RecordRangeUnsupported(health[p]) \in Health
      BY <1>1, RecordsTyped
    <3>2. Earned(p, RecordProbeSuccess(health[p]))
      BY <1>1, ReleasesEarned
    <3>3. probe[p].credentials \in Credentials
      BY <1>1, <1>2 DEF Probes
    <3>4. ASSUME ~(allowNonRange \/ (upstream = "ok" /\ probe[p].credentials = "good"))
          PROVE  Earned(p, RecordRangeUnsupported(health[p]))
      <4>1. upstream # "ok" \/ Refusal
        BY <1>2, <3>3, <3>4 DEF Credentials, Refusal
      <4> QED BY <1>1, <4>1 DEF Earned, RecordRangeUnsupported, Health
    <3> QED BY <1>6, <2>2, <3>1, <3>2, <3>4 DEF ProbeBlob, Charge
  <2>3. CASE ProbeTimesOut(p)
    BY <1>6, <2>3 DEF ProbeTimesOut
  <2>4. CASE ProbeCancelled(p)
    BY <1>7, <2>4 DEF ProbeCancelled
  <2> QED BY <2>1, <2>2, <2>3, <2>4 DEF Probing
<1>9. /\ UNCHANGED <<upstream, credentials, process, token, busy, request, saving, file>>
  BY DEF Probing, ProbeManifest, ProbeBlob, ProbeTimesOut, ProbeCancelled
<1>10. saving' = [saving EXCEPT ![p] = saving[p]]
  BY <1>9 DEF IInv, Ranges
<1> QED BY <1>1, <1>3, <1>5, <1>8, <1>9, <1>10 DEF Inside, IInv, Ranges

LEMMA OthersInside ==
    ASSUME IInv, NEW p \in Processes, UNCHANGED scene,
           Tick(p) \/ Quiet(p) \/ TakeSnapshot(p) \/ \E c \in Credentials : Reload(p, c)
    PROVE  Inside(p)
<1>1. /\ health[p] \in Health /\ probe[p] \in Probes /\ saving[p] \in Saves
      /\ Earned(p, health[p])
  BY ReleasesEarned DEF IInv, Ranges
<1>2. /\ health = [health EXCEPT ![p] = health[p]]
      /\ probe = [probe EXCEPT ![p] = probe[p]]
      /\ saving = [saving EXCEPT ![p] = saving[p]]
  BY DEF IInv, Ranges
<1>3. ASSUME NEW c \in Credentials, Launched(p, c)
      PROVE  \E b \in Probes : probe' = [probe EXCEPT ![p] = b]
  <2>1. [at |-> "manifest", credentials |-> c] \in Probes
    BY DEF Probes
  <2> QED BY <1>1, <1>2, <1>3, <2>1 DEF Launched
<1>4. CASE Tick(p)
  <2>1. process[p] \in {"run", "stopping"} /\ health' = health /\ saving' = saving
        /\ UNCHANGED <<scene, upstream, credentials, process, token, busy, request, file>>
    BY <1>4 DEF Tick
  <2>2. \E b \in Probes : probe' = [probe EXCEPT ![p] = b]
    BY <1>3, <1>4 DEF Tick, IInv, Ranges
  <2> QED BY <1>1, <1>2, <2>1, <2>2 DEF Inside, IInv, Ranges
<1>5. CASE Quiet(p)
  <2>1. process[p] \in {"run", "stopping"} /\ health' = health /\ saving' = saving /\ probe' = probe
        /\ UNCHANGED <<scene, upstream, credentials, process, token, request, file>>
    BY <1>5 DEF Quiet
  <2>2. busy' \in [Processes -> BOOLEAN]
    BY <1>5 DEF Quiet, IInv, Ranges
  <2> QED BY <1>1, <1>2, <2>1, <2>2 DEF Inside, IInv, Ranges
<1>6. CASE TakeSnapshot(p)
  <2>1. process[p] \in {"run", "stopping"} /\ health' = health /\ probe' = probe
        /\ UNCHANGED <<scene, upstream, credentials, process, token, busy, request, file>>
    BY <1>6 DEF TakeSnapshot
  <2>2. [at |-> "periodic", snapshot |-> Snapshot(health[p])] \in Saves
    BY <1>1, SnapshotsTyped DEF Saves
  <2>3. saving' = [saving EXCEPT ![p] = [at |-> "periodic", snapshot |-> Snapshot(health[p])]]
    BY <1>6 DEF TakeSnapshot
  <2> QED BY <1>1, <1>2, <2>1, <2>2, <2>3 DEF Inside, IInv, Ranges
<1>7. CASE \E c \in Credentials : Reload(p, c)
  <2>1. PICK c \in Credentials : Reload(p, c)
    BY <1>7
  <2>2. process[p] \in {"run", "stopping"} /\ health' = health /\ saving' = saving
        /\ UNCHANGED <<scene, upstream, process, busy, file>> /\ credentials' \in Credentials
    BY <2>1 DEF Reload
  <2>3. token' \in [Processes -> BOOLEAN] /\ busy' \in [Processes -> BOOLEAN]
    BY <2>1 DEF Reload, IInv, Ranges
  <2>4. \E b \in Probes : probe' = [probe EXCEPT ![p] = b]
    BY <1>3, <2>1 DEF Reload
  <2>5. \A r \in Requests :
           /\ request'[r] \in RequestStates
           /\ request'[r].at = request[r].at
           /\ request'[r].at # "none" => request'[r].by = request[r].by
    <3> SUFFICES ASSUME NEW r \in Requests
                 PROVE  /\ request'[r] \in RequestStates
                        /\ request'[r].at = request[r].at
                        /\ request'[r].at # "none" => request'[r].by = request[r].by
      OBVIOUS
    <3>1. request[r] \in RequestStates
      BY DEF IInv, Ranges
    <3>2. CASE r \in RequestsOf(p) /\ request[r].at \notin {"retried", "streaming"}
      <4>1. request[r] \in [at : {"sent", "challenged"}, by : Processes, credentials : Credentials,
                            current : BOOLEAN, cached : BOOLEAN]
        BY <3>1, <3>2 DEF RequestsOf, RequestStates, NoRequest
      <4>2. request'[r] = [request[r] EXCEPT !.current = FALSE]
        BY <2>1, <3>2 DEF Reload
      <4> QED BY <4>1, <4>2 DEF RequestStates
    <3>3. CASE ~(r \in RequestsOf(p) /\ request[r].at \notin {"retried", "streaming"})
      <4>1. request'[r] = request[r]
        BY <2>1, <3>3 DEF Reload
      <4> QED BY <3>1, <4>1
    <3> QED BY <3>2, <3>3
  <2>6. request' \in [Requests -> RequestStates]
    <3>1. DOMAIN request' = Requests
          /\ request' = [r \in Requests |-> request'[r]]
      BY <2>1 DEF Reload
    <3> QED BY <2>5, <3>1
  <2> QED BY <1>1, <1>2, <2>2, <2>3, <2>4, <2>5, <2>6 DEF Inside
<1> QED BY <1>4, <1>5, <1>6, <1>7

-----------------------------------------------------------------------------
(* What happens to a process as a whole, and around it.                      *)

LEMMA StartKeeps ==
    ASSUME IInv, NEW p \in Processes, Start(p), UNCHANGED scene
    PROVE  IInv' /\ EarnedAll
<1>1. file.snapshot \in Snapshots /\ Restore(file.snapshot) \in Health
  BY SnapshotsTyped DEF IInv, Ranges
<1>2. [at |-> "manifest", credentials |-> credentials] \in Probes
  BY DEF Probes, IInv, Ranges
<1>3. Ranges'
  BY <1>1, <1>2 DEF IInv, Ranges, Start, Charge, Places
<1>4. \A q \in Processes :
        /\ health'[q] = IF q = p THEN Restore(file.snapshot) ELSE health[q]
        /\ process'[q] = IF q = p THEN "run" ELSE process[q]
        /\ q # p => probe'[q] = probe[q]
        /\ saving'[q] = saving[q]
  BY DEF IInv, Ranges, Start, Charge
<1>5. process[p] = "off" /\ request' = request /\ file' = file
      /\ \A q \in Processes : process[q] # "run"
  BY DEF Start
<1>6. Lifetimes'
  BY <1>4, <1>5, Owner DEF IInv, Lifetimes
<1>7. OneRuns' /\ HistoryKept'
  BY <1>4, <1>5 DEF IInv, OneRuns, HistoryKept
<1>8. EarnedAll
  <2>1. \A q \in Processes : Earned(q, health[q]) /\ Earned(q, Restore(file.snapshot))
    BY ReleasesEarned, 0 \in Nat DEF IInv, Ranges
  <2> QED BY <1>4, <2>1 DEF EarnedAll
<1> QED BY <1>3, <1>6, <1>7, <1>8 DEF IInv

\* A process that stops, saves its file, or is gone.
LEMMA EndKeeps ==
    ASSUME IInv, NEW p \in Processes, UNCHANGED scene,
           Stop(p) \/ LastSave(p) \/ Exit(p) \/ Crash(p)
    PROVE  IInv' /\ EarnedAll
<1>1. CASE Stop(p)
  <2>1. process[p] = "run" /\ UNCHANGED <<health, request, probe, saving, file>>
        /\ \A q \in Processes : process'[q] = IF q = p THEN "stopping" ELSE process[q]
    BY <1>1 DEF Stop, IInv, Ranges
  <2>2. Ranges'
    BY <1>1 DEF Stop, IInv, Ranges, Places
  <2>3. Lifetimes' /\ OneRuns' /\ HistoryKept'
    BY <2>1, Owner DEF IInv, Lifetimes, OneRuns, HistoryKept
  <2>4. EarnedAll
    BY <2>1, ReleasesEarned DEF EarnedAll, IInv, Ranges
  <2> QED BY <2>2, <2>3, <2>4 DEF IInv
<1>2. CASE LastSave(p)
  <2>1. /\ process[p] = "stopping" /\ probe[p] = NoProbe /\ saving[p] = NoSave
        /\ UNCHANGED <<health, request, probe, saving>>
        /\ file' = [by |-> p, snapshot |-> Snapshot(health[p])]
        /\ \A q \in Processes : process'[q] =
              IF q = p THEN IF RequestsOf(p) = {} THEN "saved" ELSE "cut" ELSE process[q]
    BY <1>2 DEF LastSave, SaveLast, IInv, Ranges
  <2>2. Ranges'
    <3>1. Snapshot(health[p]) \in Snapshots
      BY SnapshotsTyped DEF IInv, Ranges
    <3> QED BY <1>2, <3>1 DEF LastSave, SaveLast, IInv, Ranges, Places
  <2>3. Lifetimes'
    BY <2>1, Owner DEF IInv, Lifetimes, RequestsOf
  <2>4. OneRuns' /\ HistoryKept'
    BY <2>1 DEF IInv, OneRuns, HistoryKept
  <2>5. EarnedAll
    BY <2>1, ReleasesEarned DEF EarnedAll, IInv, Ranges
  <2> QED BY <2>2, <2>3, <2>4, <2>5 DEF IInv
<1>3. CASE Exit(p) \/ Crash(p)
  <2>1. Gone(p)
    BY <1>3 DEF Exit, Crash
  <2>2. /\ file' = file
        /\ \A q \in Processes :
              /\ process'[q] = IF q = p THEN "off" ELSE process[q]
              /\ health'[q] = IF q = p THEN NewHealth ELSE health[q]
              /\ probe'[q] = IF q = p THEN NoProbe ELSE probe[q]
              /\ saving'[q] = IF q = p THEN NoSave ELSE saving[q]
        /\ \A r \in Requests :
              request'[r] = IF r \in RequestsOf(p) THEN NoRequest ELSE request[r]
    BY <2>1 DEF Gone, IInv, Ranges
  <2>3. Ranges'
    <3>1. NewHealth \in Health
      BY DEF NewHealth, Health
    <3>2. NoRequest \in RequestStates /\ NoProbe \in Probes /\ NoSave \in Saves
      BY DEF RequestStates, Probes, Saves
    <3> QED BY <2>1, <3>1, <3>2 DEF Gone, IInv, Ranges, Places
  <2>4. Lifetimes'
    <3>1. NoRequest.at = "none"
      BY DEF NoRequest
    <3> QED BY <2>2, <3>1, Owner DEF IInv, Lifetimes, RequestsOf
  <2>5. OneRuns' /\ HistoryKept'
    BY <2>2 DEF IInv, OneRuns, HistoryKept
  <2>6. EarnedAll
    BY <2>2, ReleasesEarned DEF EarnedAll, IInv, Ranges
  <2> QED BY <2>3, <2>4, <2>5, <2>6 DEF IInv
<1> QED BY <1>1, <1>2, <1>3

\* A rate limit that expires is not in the history, and a save is of a process
\* that runs or stops.
LEMMA WorldKeeps ==
    ASSUME IInv, UNCHANGED scene,
           \/ \E u \in Upstreams : UpstreamChanges(u)
           \/ \E p \in Processes : LimitExpires(p) \/ Activate(p)
           \/ UNCHANGED vars
    PROVE  IInv' /\ EarnedAll
<1>1. \A q \in Processes : Earned(q, health[q])
  BY ReleasesEarned, 0 \in Nat DEF IInv, Ranges
<1>2. CASE (\E u \in Upstreams : UpstreamChanges(u)) \/ UNCHANGED vars
  <2>1. upstream' \in Upstreams
    BY <1>2 DEF UpstreamChanges, vars, state, IInv, Ranges
  <2>2. UNCHANGED <<scene, credentials, process, health, token, busy, request, probe, saving, file>>
    BY <1>2 DEF UpstreamChanges, vars, state
  <2> QED BY <1>1, <2>1, <2>2 DEF IInv, Ranges, Lifetimes, OneRuns, HistoryKept, EarnedAll
<1>3. ASSUME NEW p \in Processes, LimitExpires(p)
      PROVE  IInv' /\ EarnedAll
  <2> DEFINE h == [health[p] EXCEPT !.rateLimited = FALSE]
  <2>1. h \in Health /\ Earned(p, h)
    BY RecordsTyped, ReleasesEarned, 0 \in Nat DEF IInv, Ranges
  <2>2. Snapshot(h) = Snapshot(health[p])
    BY DEF Snapshot, Health, IInv, Ranges
  <2>3. process[p] # "off"
    BY <1>3 DEF LimitExpires, IInv, Lifetimes, NewHealth
  <2>4. \A q \in Processes : health'[q] = IF q = p THEN h ELSE health[q]
    BY <1>3 DEF LimitExpires, Charge, IInv, Ranges
  <2>5. UNCHANGED <<upstream, credentials, process, token, busy, request, probe, saving, file>>
    BY <1>3 DEF LimitExpires
  <2>6. health' = [health EXCEPT ![p] = h]
    BY <1>3 DEF LimitExpires, Charge
  <2> HIDE DEF h
  <2>7. Ranges'
    BY <2>1, <2>5, <2>6 DEF IInv, Ranges
  <2>8. Lifetimes' /\ OneRuns'
    BY <2>3, <2>4, <2>5 DEF IInv, Lifetimes, OneRuns
  <2>9. HistoryKept'
    BY <2>2, <2>4, <2>5 DEF IInv, HistoryKept
  <2> QED BY <1>1, <2>1, <2>4, <2>7, <2>8, <2>9 DEF IInv, EarnedAll
<1>4. ASSUME NEW p \in Processes, Activate(p)
      PROVE  IInv' /\ EarnedAll
  <2>1. /\ saving[p] # NoSave /\ file' = [by |-> p, snapshot |-> saving[p].snapshot]
        /\ \A q \in Processes : saving'[q] = IF q = p THEN NoSave ELSE saving[q]
        /\ UNCHANGED <<upstream, credentials, process, health, token, busy, request, probe>>
    BY <1>4 DEF Activate, IInv, Ranges
  <2>2. saving[p].snapshot \in Snapshots /\ NoSave \in Saves
    BY <2>1 DEF IInv, Ranges, Saves
  <2>3. Ranges'
    BY <1>4, <2>1, <2>2 DEF Activate, IInv, Ranges
  <2>4. Lifetimes' /\ OneRuns' /\ HistoryKept'
    BY <2>1 DEF IInv, Lifetimes, OneRuns, HistoryKept
  <2> QED BY <1>1, <2>1, <2>3, <2>4 DEF IInv, EarnedAll
<1> QED BY <1>2, <1>3, <1>4

-----------------------------------------------------------------------------
LEMMA Initially == Init => IInv
<1> SUFFICES ASSUME Init PROVE IInv
  OBVIOUS
<1>1. Ranges
  <2>1. NewHealth \in Health /\ NoSnapshot \in Snapshots
    BY DEF NewHealth, Health, NoSnapshot, Snapshots
  <2> QED BY <2>1 DEF Init, Ranges, Upstreams, Credentials, Places, RequestStates, Probes, Saves,
             Absent
<1>2. Lifetimes
  BY DEF Init, Lifetimes, NoRequest
<1>3. OneRuns /\ HistoryKept
  BY DEF Init, OneRuns, HistoryKept
<1> QED BY <1>1, <1>2, <1>3 DEF IInv

LEMMA StepKeeps == IInv /\ [Next]_vars => IInv' /\ EarnedAll
<1> SUFFICES ASSUME IInv, [Next]_vars PROVE IInv' /\ EarnedAll
  OBVIOUS
<1>1. CASE UNCHANGED vars
  BY <1>1, WorldKeeps DEF vars
<1>2. CASE UNCHANGED scene /\ \E u \in Upstreams : UpstreamChanges(u)
  BY <1>2, WorldKeeps
<1>3. CASE UNCHANGED scene /\ \E r \in Requests : OfRequest(r)
  BY <1>3, RequestMoves, MoveKeeps
<1>4. ASSUME UNCHANGED scene, NEW p \in Processes, OfProcess(p)
      PROVE  IInv' /\ EarnedAll
  <2>1. CASE Start(p)
    BY <1>4, <2>1, StartKeeps
  <2>2. CASE Stop(p) \/ LastSave(p) \/ Exit(p) \/ Crash(p)
    BY <1>4, <2>2, EndKeeps
  <2>3. CASE Probing(p)
    BY <1>4, <2>3, ProbingInside, InsideKeeps
  <2>4. CASE Tick(p) \/ Quiet(p) \/ TakeSnapshot(p) \/ \E c \in Credentials : Reload(p, c)
    BY <1>4, <2>4, OthersInside, InsideKeeps
  <2>5. CASE LimitExpires(p) \/ Activate(p)
    BY <1>4, <2>5, WorldKeeps
  <2> QED BY <1>4, <2>1, <2>2, <2>3, <2>4, <2>5 DEF OfProcess
<1> QED BY <1>1, <1>2, <1>3, <1>4 DEF Next

LEMMA IInvIsUseInv == IInv => UseInv
<1> SUFFICES ASSUME IInv PROVE UseInv
  OBVIOUS
<1>1. \A p \in Processes :
        /\ ~Alive(p) => health[p] = NewHealth /\ RequestsOf(p) = {} /\ saving[p] = NoSave
        /\ probe[p] # NoProbe => process[p] \in {"run", "stopping"}
  BY DEF IInv, Lifetimes, Alive, RequestsOf
<1>2. Cardinality({p \in Processes : process[p] = "run"}) <= 1
  <2>1. CASE {p \in Processes : process[p] = "run"} = {}
    BY <2>1, FS_EmptySet
  <2>2. CASE {p \in Processes : process[p] = "run"} # {}
    <3>1. PICK q \in Processes : process[q] = "run"
      BY <2>2
    <3>2. {p \in Processes : process[p] = "run"} = {q}
      BY <3>1 DEF IInv, OneRuns
    <3>3. Cardinality({q}) = 1
      BY FS_Singleton
    <3> QED BY <3>2, <3>3
  <2> QED BY <2>1, <2>2
<1>3. TypeOK
  BY <1>1, <1>2 DEF TypeOK, IInv, Ranges, Places
<1> QED BY <1>3 DEF UseInv, IInv

\* For any number of processes and requests and any mixture of faults: the
\* variables stay in their ranges, and what a gracefully ended process knew is what it left in
\* provider-health.json (cli.go:768-823, healthhistory/store.go:90-134).
THEOREM HistoryIsKept == Spec => []UseInv
<1>1. IInv /\ [Next]_vars => IInv'
  BY StepKeeps
<1> QED BY Initially, <1>1, IInvIsUseInv, PTL DEF Spec

\* For any number of processes and requests and any mixture of faults: a
\* Provider is held out only for what it did, never for an expired or overtaken
\* token or a client that went away (client.go:266-304, health.go:181-192,
\* router.go:425).
THEOREM HoldsAreEarned == Spec => HoldsEarned
<1>1. IInv /\ [Next]_vars => IInv'
  BY StepKeeps
<1>2. IInv /\ [Next]_vars =>
        [\A p \in Processes :
           /\ (health'[p].authenticationInvalid /\ ~health[p].authenticationInvalid) => Refusal
           /\ (health'[p].integrityInvalid /\ ~health[p].integrityInvalid)
                 => upstream = "corrupt"
           /\ (health'[p].rangeUnsupported /\ ~health[p].rangeUnsupported)
                 => (upstream # "ok" \/ Refusal)]_vars
  BY StepKeeps DEF EarnedAll, Earned
<1> QED BY Initially, <1>1, <1>2, PTL DEF Spec, HoldsEarned

-----------------------------------------------------------------------------
(* The comparison that orders the Providers of a request is a strict total *)
(* order, for every health they may have: sort.SliceStable gives one order, *)
(* whichever map order and whichever sorting it takes.                     *)

\* No Provider comes before itself.
THEOREM PrecedesIrreflexive ==
    ASSUME NEW s \in Source PROVE ~Precedes(s, s)
BY HealthAssumption, SMTT(30) DEF Precedes, MeasuredPrecedes, SoonerPrecedes, FasterPrecedes,
   ConfiguredSourcePrecedes, Source, Health

\* Two Providers at different places of the configuration are always ordered.
THEOREM PrecedesTotal ==
    ASSUME NEW l \in Source, NEW r \in Source, l.index # r.index
    PROVE  Precedes(l, r) \/ Precedes(r, l)
BY HealthAssumption, SMTT(30) DEF Precedes, MeasuredPrecedes, SoonerPrecedes, FasterPrecedes,
   ConfiguredSourcePrecedes, Source, Health

LEMMA ConfiguredTransitive ==
    ASSUME NEW a \in Source, NEW b \in Source, NEW c \in Source,
           ConfiguredSourcePrecedes(a, b), ConfiguredSourcePrecedes(b, c)
    PROVE  ConfiguredSourcePrecedes(a, c)
BY HealthAssumption, SMTT(30) DEF ConfiguredSourcePrecedes, Source

LEMMA FasterTransitive ==
    ASSUME NEW a \in Source, NEW b \in Source, NEW c \in Source,
           FasterPrecedes(a, b), FasterPrecedes(b, c)
    PROVE  FasterPrecedes(a, c)
BY ConfiguredTransitive, SMTT(30) DEF FasterPrecedes, Source, Health

LEMMA SoonerTransitive ==
    ASSUME NEW a \in Source, NEW b \in Source, NEW c \in Source,
           SoonerPrecedes(a, b), SoonerPrecedes(b, c)
    PROVE  SoonerPrecedes(a, c)
BY FasterTransitive, SMTT(30) DEF SoonerPrecedes, Source, Health

\* The order of three Providers is the order of each two of them: no cycle of
\* Providers each of which is preferred to the next.
THEOREM PrecedesTransitive ==
    ASSUME NEW a \in Source, NEW b \in Source, NEW c \in Source,
           Precedes(a, b), Precedes(b, c)
    PROVE  Precedes(a, c)
BY SoonerTransitive, SMTT(30) DEF Precedes, MeasuredPrecedes, Source, Health
=============================================================================
