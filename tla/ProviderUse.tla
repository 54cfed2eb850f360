------------------------------ MODULE ProviderUse ------------------------------
(***************************************************************************)
(* One Provider and the gateway processes that use it, one after the other  *)
(* or, while one stops, two at a time.  Requests of clients go through      *)
(* provider.Client (the token cache, one refresh on 401 or 403) and charge  *)
(* what comes of them to the Provider's health; probes, with a client of    *)
(* their own, run when no pull is under way or recent; a reload replaces    *)
(* the client and its credentials; provider-health.json carries the health  *)
(* from one process to the next.                                            *)
(*                                                                         *)
(* A token is cached or not.  One taken from the cache may have expired by  *)
(* the time it is presented; one that was fetched for a request outlives    *)
(* the retry it was fetched for.  The retry hint of a rate limit is a step  *)
(* of the clock.  Several Providers share nothing here but the idle gate,   *)
(* which busy stands for.                                                   *)
(***************************************************************************)
EXTENDS ProviderHealth, FiniteSets

CONSTANTS Requests,     \* client requests under way at a time
          Processes,    \* gateway processes that may exist at a time
          Throughputs,  \* averages that are told apart
          Scenes,       \* the faults that may be met, by how many requests and processes,
                      \* and the latency that is measured
          NoProcess

\* down: no answer, or 5xx.  denied: 403 without a challenge.  gated: the blobs
\* answer 429, all else is fine.
Upstreams == {"ok", "down", "limited", "denied", "corrupt", "norange", "gated"}
Credentials == {"good", "refused"}

ASSUME UseAssumption ==
    /\ Throughputs \subseteq Nat \ {0}
    /\ Scenes \subseteq [faults : SUBSET (Upstreams \cup Credentials),
                          requests : SUBSET Requests, processes : SUBSET Processes,
                          allowNonRange : BOOLEAN, latency : Nat]
    /\ NoProcess \notin Processes

VARIABLES
    scene,         \* which of the Scenes this is; it does not change
    upstream,      \* how the Provider answers at present
    credentials,   \* those in the configuration are good or refused
    process,       \* where each gateway process is
    health,        \* its tracker's state of the Provider
    token,         \* its present client has a cached token
    busy,          \* another pull is under way, or one was within the interval
    request,       \* the requests under way
    probe,         \* the probe goroutine of each process
    saving,        \* the snapshot a process is about to rename into place
    file           \* provider-health.json, and who wrote it

state == <<upstream, credentials, process, health, token, busy,
           request, probe, saving, file>>
vars == <<state, scene>>

allowNonRange == scene.allowNonRange  \* allow_non_range_providers

NoRequest == [at |-> "none"]
NoProbe == [at |-> "none"]
NoSave == [at |-> "none"]
Absent == [by |-> NoProcess, snapshot |-> NoSnapshot]

Init ==
    /\ scene \in Scenes
    /\ upstream = "ok" /\ credentials = "good"
    /\ process = [p \in Processes |-> "off"]
    /\ health = [p \in Processes |-> NewHealth]
    /\ token = [p \in Processes |-> FALSE]
    /\ busy = [p \in Processes |-> FALSE]
    /\ request = [r \in Requests |-> NoRequest]
    /\ probe = [p \in Processes |-> NoProbe]
    /\ saving = [p \in Processes |-> NoSave]
    /\ file = Absent

RequestsOf(p) == {r \in Requests : request[r].at # "none" /\ request[r].by = p}

Charge(p, h) == health' = [health EXCEPT ![p] = h]

-----------------------------------------------------------------------------
(* The surroundings: the Provider, its operator, the clock.                  *)

UpstreamChanges(u) ==
    /\ u \in scene.faults \cup {"ok"}
    /\ upstream' = u
    /\ UNCHANGED <<credentials, process, health, token, busy, request,
                   probe, saving, file>>

LimitExpires(p) ==
    /\ health[p].rateLimited
    /\ Charge(p, [health[p] EXCEPT !.rateLimited = FALSE])
    /\ UNCHANGED <<upstream, credentials, process, token, busy, request,
                   probe, saving, file>>

\* HasRecentPullActivity no longer finds one, nor is another pull under way.
Quiet(p) ==
    /\ process[p] = "run" /\ busy[p]
    /\ busy' = [busy EXCEPT ![p] = FALSE]
    /\ UNCHANGED <<upstream, credentials, process, health, token, request,
                   probe, saving, file>>

-----------------------------------------------------------------------------
(* A request of a client: openBlob, provider.Client, the reader's end.       *)

\* What the client of a request still has to know of it.
Step(r, at) == request' = [request EXCEPT ![r] = [request[r] EXCEPT !.at = at, !.cached = FALSE]]
Accepted(r, at) == request' = [request EXCEPT ![r] = [at |-> at, by |-> request[r].by]]
End(r) == request' = [request EXCEPT ![r] = NoRequest]

\* Blob records the pull; only an available Provider is asked.
Begin(r, p) ==
    /\ process[p] = "run" /\ request[r] = NoRequest /\ r \in scene.requests
    /\ busy' = [busy EXCEPT ![p] = TRUE]
    /\ IF Available(health[p])
       THEN request' = [request EXCEPT ![r] =
                [at |-> "sent", by |-> p, credentials |-> credentials,
                 current |-> TRUE, cached |-> token[p]]]
       ELSE UNCHANGED request
    /\ UNCHANGED <<upstream, credentials, process, health, token, probe,
                   saving, file>>

\* A failed attempt is charged by recordSourceFailure.
Fails(r, error) ==
    /\ Charge(request[r].by, RecordProviderFailure(health[request[r].by], error))
    /\ End(r)
    /\ UNCHANGED <<busy, token>>

\* What comes of a request that is let through.
Answered(r) ==
    \/ upstream = "down" /\ Fails(r, "transport")
    \/ upstream \in {"limited", "gated"} /\ Fails(r, "rate_limited")
    \/ upstream = "denied" /\ Fails(r, "authentication")
    \/ upstream = "corrupt" /\ Fails(r, "integrity")
    \/ /\ upstream \in {"ok", "norange"}
       /\ busy' = [busy EXCEPT ![request[r].by] = TRUE]
       /\ Charge(request[r].by, RecordFirstByte(health[request[r].by], scene.latency))
       /\ Accepted(r, "streaming")
       /\ UNCHANGED token

\* The first attempt carries the cached token, if there is one, which may have
\* expired: the answer is then 401 and a challenge.  Without a challenge in the
\* answer the cached one is followed.
Answer(r) ==
    /\ request[r].at = "sent"
    /\ \/ request[r].cached /\ request[r].credentials = "good" /\ upstream # "denied"
          /\ Answered(r)
       \/ /\ upstream # "down" /\ (upstream = "denied" => request[r].cached)
          /\ Step(r, "challenged") /\ UNCHANGED <<health, busy, token>>
       \/ upstream \in {"down", "limited"} /\ Answered(r)
       \/ upstream = "denied" /\ ~request[r].cached /\ Answered(r)
    /\ UNCHANGED <<upstream, credentials, process, probe, saving, file>>

\* The realm is asked with the credentials of this client.  Whichever of several
\* refreshes comes last leaves its token in the cache.
ObtainToken(r) ==
    /\ request[r].at = "challenged"
    /\ IF upstream = "down" THEN Fails(r, "transport")
       ELSE IF request[r].credentials = "refused" THEN Fails(r, "authentication")
       ELSE /\ token' = IF request[r].current
                         THEN [token EXCEPT ![request[r].by] = TRUE] ELSE token
            /\ Accepted(r, "retried")
            /\ UNCHANGED <<health, busy>>
    /\ UNCHANGED <<upstream, credentials, process, probe, saving, file>>

\* A plausible slip: the retry reads the cache instead of using its own token,
\* and may be refused with one that another request stored and that has expired.
RetryFromCache(r) ==
    /\ request[r].at = "retried"
    /\ Answered(r) \/ (upstream # "down" /\ Fails(r, "authentication"))
    /\ UNCHANGED <<upstream, credentials, process, probe, saving, file>>

\* The retry carries the token just obtained; its answer is final.
Retry(r) ==
    /\ request[r].at = "retried"
    /\ Answered(r)
    /\ UNCHANGED <<upstream, credentials, process, probe, saving, file>>

Finish(r) ==
    /\ request[r].at = "streaming"
    /\ \E t \in Throughputs, u \in Throughputs :
          /\ Average(health[request[r].by].throughput, u, t)
          /\ Charge(request[r].by, RecordSuccess(health[request[r].by], t))
    /\ End(r)
    /\ UNCHANGED <<upstream, credentials, process, token, busy, probe,
                   saving, file>>

\* The stream breaks off: recordFailure.
Break(r) ==
    /\ request[r].at = "streaming"
    /\ Charge(request[r].by, RecordFailure(health[request[r].by]))
    /\ End(r)
    /\ UNCHANGED <<upstream, credentials, process, token, busy, probe,
                   saving, file>>

\* The client goes away.  A request that is being opened ends with the cancelled
\* context's error, which is charged; the reader of a stream is closed, or finds
\* the cancelled context first.
Depart(r) ==
    /\ request[r].at # "none"
    /\ \/ Fails(r, "cancelled")
       \/ request[r].at = "streaming" /\ End(r) /\ UNCHANGED <<health, busy, token>>
    /\ UNCHANGED <<upstream, credentials, process, probe, saving, file>>

-----------------------------------------------------------------------------
(* Probes and reloads.                                                       *)

\* ActivePulls counts streams; a pull that is being opened is recent activity,
\* unless that takes longer than the interval.
MayProbe(p) == ~busy[p] /\ \A r \in RequestsOf(p) : request[r].at # "streaming"

Launched(p, c) ==
    IF probe[p] = NoProbe /\ MayProbe(p)
    THEN probe' = [probe EXCEPT ![p] = [at |-> "manifest", credentials |-> c]]
    ELSE UNCHANGED probe

\* The ticker, every 15 minutes.
Tick(p) ==
    /\ process[p] = "run" /\ probe[p] = NoProbe /\ MayProbe(p)
    /\ Launched(p, credentials)
    /\ UNCHANGED <<upstream, credentials, process, health, token, busy,
                   request, saving, file>>

\* The requests under way keep the client they began with.
Reload(p, c) ==
    /\ process[p] = "run"
    /\ c \in scene.faults \cup {"good"}
    /\ allowNonRange \/ (upstream = "ok" /\ c = "good")
    /\ credentials' = c
    /\ token' = [token EXCEPT ![p] = FALSE]
    /\ request' = [r \in Requests |-> IF r \in RequestsOf(p)
                                         /\ request[r].at \notin {"retried", "streaming"}
                                      THEN [request[r] EXCEPT !.current = FALSE]
                                      ELSE request[r]]
    /\ Launched(p, c)
    /\ UNCHANGED <<upstream, process, health, busy, saving, file>>

\* The error that ends a probe before it asks for a blob, "none" if there is none.
ProbeError(p) ==
    IF upstream = "down" THEN "transport"
    ELSE IF upstream = "denied" THEN "authentication"
    ELSE IF upstream = "limited" THEN "rate_limited"
    ELSE IF probe[p].credentials = "refused" THEN "authentication"
    ELSE IF upstream = "corrupt" THEN "integrity"
    ELSE "none"

\* A failure that comes of the end of the process is not recorded.
ProbeFails(p, error) ==
    IF process[p] = "run" THEN Charge(p, RecordProviderFailure(health[p], error))
    ELSE UNCHANGED health

\* A plausible slip: probesRunning is not reset when a probe fails.
ProbeManifestStuck(p) ==
    /\ probe[p].at = "manifest"
    /\ IF ProbeError(p) = "none"
       THEN probe' = [probe EXCEPT ![p].at = "blob"] /\ UNCHANGED health
       ELSE /\ probe' = [probe EXCEPT ![p].at = "over"]
            /\ ProbeFails(p, ProbeError(p))
    /\ UNCHANGED <<upstream, credentials, process, token, busy, request, saving, file>>

\* The requests for /v2/ and for a manifest.
ProbeManifest(p) ==
    /\ probe[p].at = "manifest"
    /\ IF ProbeError(p) = "none"
       THEN /\ probe' = [probe EXCEPT ![p].at = "blob"]
            /\ UNCHANGED health
       ELSE /\ probe' = [probe EXCEPT ![p] = NoProbe]
            /\ ProbeFails(p, ProbeError(p))
    /\ UNCHANGED <<upstream, credentials, process, token, busy, request,
                   saving, file>>

\* One byte of a blob.  Whatever unwraps to ErrUnavailable, a 5xx as well as every
\* typed refusal, counts as a Provider without Range.
ProbeBlob(p) ==
    /\ probe[p].at = "blob"
    /\ probe' = [probe EXCEPT ![p] = NoProbe]
    /\ \/ Charge(p, IF allowNonRange \/ (upstream = "ok" /\ probe[p].credentials = "good")
                    THEN RecordProbeSuccess(health[p])
                    ELSE RecordRangeUnsupported(health[p]))
       \/ upstream = "down" /\ ProbeFails(p, "transport")
    /\ UNCHANGED <<upstream, credentials, process, token, busy, request,
                   saving, file>>

\* The 15 seconds of a probe are over.
ProbeTimesOut(p) ==
    /\ probe[p] # NoProbe /\ upstream = "down"
    /\ probe' = [probe EXCEPT ![p] = NoProbe]
    /\ ProbeFails(p, "transport")
    /\ UNCHANGED <<upstream, credentials, process, token, busy, request,
                   saving, file>>

\* The probe context is cancelled when the process ends.
ProbeCancelled(p) ==
    /\ probe[p] # NoProbe /\ process[p] = "stopping"
    /\ probe' = [probe EXCEPT ![p] = NoProbe]
    /\ UNCHANGED <<upstream, credentials, process, health, token, busy,
                   request, saving, file>>

-----------------------------------------------------------------------------
(* The processes and their history file.                                     *)

\* A process that stops has closed its listeners and its control endpoint: the
\* next one may start beside it.  Without allow_non_range_providers a process
\* starts only with Providers that pass the admission probe.
Start(p) ==
    /\ p \in scene.processes /\ process[p] = "off"
    /\ \A q \in Processes : process[q] # "run"
    /\ allowNonRange \/ (upstream = "ok" /\ credentials = "good")
    /\ process' = [process EXCEPT ![p] = "run"]
    /\ Charge(p, Restore(file.snapshot))
    /\ token' = [token EXCEPT ![p] = FALSE]
    /\ busy' = [busy EXCEPT ![p] = FALSE]
    /\ probe' = [probe EXCEPT ![p] = [at |-> "manifest", credentials |-> credentials]]
    /\ UNCHANGED <<upstream, credentials, request, saving, file>>

\* Every 10 seconds, by a goroutine of its own.
TakeSnapshot(p) ==
    /\ process[p] \in {"run", "stopping"} /\ saving[p] = NoSave
    /\ saving' = [saving EXCEPT ![p] = [at |-> "periodic", snapshot |-> Snapshot(health[p])]]
    /\ UNCHANGED <<upstream, credentials, process, health, token, busy,
                   request, probe, file>>

\* Save writes a temporary file and renames it.
Activate(p) ==
    /\ saving[p] # NoSave
    /\ file' = [by |-> p, snapshot |-> saving[p].snapshot]
    /\ saving' = [saving EXCEPT ![p] = NoSave]
    /\ UNCHANGED <<upstream, credentials, process, health, token, busy, request, probe>>

\* No probe is launched any more: pulls need not be told apart from none.
Stop(p) ==
    /\ process[p] = "run"
    /\ process' = [process EXCEPT ![p] = "stopping"]
    /\ busy' = [busy EXCEPT ![p] = TRUE]
    /\ UNCHANGED <<upstream, credentials, health, token, request, probe, saving, file>>

\* Requests that the process did not wait for (ServiceLifecycle) are not in what
\* it saves: "cut".
SaveLast(p) ==
    /\ process' = [process EXCEPT ![p] = IF RequestsOf(p) = {} THEN "saved" ELSE "cut"]
    /\ file' = [by |-> p, snapshot |-> Snapshot(health[p])]
    /\ UNCHANGED <<upstream, credentials, health, token, busy, request, probe, saving>>

\* A plausible slip: the periodic save is told to end, but not waited for.
LastSaveEarly(p) ==
    process[p] = "stopping" /\ probe[p] = NoProbe /\ SaveLast(p)

\* runServe waits for the probes, then for the periodic save, and saves.
LastSave(p) ==
    process[p] = "stopping" /\ probe[p] = NoProbe /\ saving[p] = NoSave /\ SaveLast(p)

\* The process is gone, and what was under way in it.
Gone(p) ==
    /\ process' = [process EXCEPT ![p] = "off"]
    /\ health' = [health EXCEPT ![p] = NewHealth]
    /\ token' = [token EXCEPT ![p] = FALSE]
    /\ busy' = [busy EXCEPT ![p] = FALSE]
    /\ request' = [r \in Requests |-> IF r \in RequestsOf(p) THEN NoRequest ELSE request[r]]
    /\ probe' = [probe EXCEPT ![p] = NoProbe]
    /\ saving' = [saving EXCEPT ![p] = NoSave]
    /\ UNCHANGED <<upstream, credentials, file>>

Exit(p) == process[p] \in {"saved", "cut"} /\ Gone(p)

Crash(p) == process[p] \in {"run", "stopping"} /\ Gone(p)

-----------------------------------------------------------------------------
OfRequest(r) ==
    \/ \E p \in Processes : Begin(r, p)
    \/ Answer(r) \/ ObtainToken(r) \/ Retry(r)
    \/ Finish(r) \/ Break(r) \/ Depart(r)

Probing(p) == ProbeManifest(p) \/ ProbeBlob(p) \/ ProbeTimesOut(p) \/ ProbeCancelled(p)

OfProcess(p) ==
    \/ Start(p) \/ Stop(p) \/ TakeSnapshot(p) \/ Activate(p) \/ LastSave(p)
    \/ Exit(p) \/ Crash(p) \/ Tick(p) \/ Probing(p) \/ LimitExpires(p) \/ Quiet(p)
    \/ \E c \in Credentials : Reload(p, c)

Next ==
    /\ \/ \E u \in Upstreams : UpstreamChanges(u)
       \/ \E r \in Requests : OfRequest(r)
       \/ \E p \in Processes : OfProcess(p)
    /\ UNCHANGED scene

Spec == Init /\ [][Next]_vars

\* A running process goes through its probes, which have a timeout, and its ticker
\* launches them.  Nothing is assumed of clients, operators, Providers or the time
\* a rate limit takes.
FairSpec ==
    /\ Spec
    /\ \A p \in Processes : WF_state(Probing(p)) /\ WF_state(Tick(p))

-----------------------------------------------------------------------------
Alive(p) == process[p] # "off"

\* The range of every variable, and what a process that is gone leaves behind.
TypeOK ==
    /\ upstream \in Upstreams /\ credentials \in Credentials
    /\ process \in [Processes -> {"off", "run", "stopping", "saved", "cut"}]
    /\ health \in [Processes -> Health]
    /\ \A p \in Processes :
          /\ ~Alive(p) => health[p] = NewHealth /\ RequestsOf(p) = {} /\ saving[p] = NoSave
          /\ probe[p] # NoProbe => process[p] \in {"run", "stopping"}
    /\ Cardinality({p \in Processes : process[p] = "run"}) <= 1

\* Somebody presents refused credentials, or the Provider denies whoever comes.
Refusal ==
    \/ upstream = "denied"
    \/ \E r \in Requests : request[r].at = "challenged" /\ request[r].credentials = "refused"
    \/ \E p \in Processes : probe[p] # NoProbe /\ probe[p].credentials = "refused"

\* A Provider is taken out of selection only for something it did: for its
\* authentication when it refused a client's own fresh token or credentials, never
\* because a token expired, was replaced by a slower refresh, or a client went
\* away; for wrong content when it declared some; for Range when a probe got no
\* part of a blob (client.go:266-304, health.go:181-192, router.go:425).
HoldsEarned ==
    [][\A p \in Processes :
         /\ (health'[p].authenticationInvalid /\ ~health[p].authenticationInvalid) => Refusal
         /\ (health'[p].integrityInvalid /\ ~health[p].integrityInvalid)
               => upstream = "corrupt"
         /\ (health'[p].rangeUnsupported /\ ~health[p].rangeUnsupported)
               => (upstream # "ok" \/ Refusal)]_vars

\* What a gracefully ended process knew of the Provider is what it left in the
\* file, unless a process beside it wrote later: neither a probe that ends late
\* nor a periodic save that is slower than the last one changes that
\* (cli.go:768-823, healthhistory/store.go:90-134).
HistoryKept ==
    \A p \in Processes :
       process[p] = "saved" /\ file.by = p => file.snapshot = Snapshot(health[p])

\* Types, and the history of a graceful end (cli.go:768-823).
UseInv == TypeOK /\ HistoryKept

Undisturbed(p) == process[p] = "run" /\ ~busy[p] /\ RequestsOf(p) = {}

\* The verdict that the Provider, as it is now, deserves.
Right(p) ==
    /\ upstream = "ok" /\ credentials = "good" => Available(health[p])
    /\ upstream = "denied" \/ (upstream = "ok" /\ credentials = "refused")
          => health[p].authenticationInvalid
    /\ upstream = "corrupt" => health[p].integrityInvalid
    /\ upstream = "norange" /\ ~allowNonRange => health[p].rangeUnsupported

\* Left alone, a process finds out by itself, whatever it held against the Provider
\* before and whichever probe of an older configuration was under way: one that
\* works again is eligible for good; one that refuses the configured credentials,
\* declares wrong content, or has no Range where that is required, is held back
\* for good (cli.go:798-829, 924-966; client.go:111-154; health.go:196-208).
ProbesSettle ==
    \A p \in Processes :
       <>[]Undisturbed(p) /\ <>[][UNCHANGED <<upstream, credentials>>]_vars
          => <>[]Right(p)
=============================================================================
