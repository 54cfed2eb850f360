---------------------------- MODULE ProviderHealth ----------------------------
(***************************************************************************)
(* What router.Health keeps of one Provider, what each Record... method    *)
(* makes of it, and the order in which Providers are tried.  Averages are   *)
(* over whole numbers: a moving average lies between the old value and the  *)
(* observation.  A rate limit is there until it expires (a step of the      *)
(* module that uses this one), a timestamp only says whether the Provider   *)
(* was heard of within the retention of the history.                        *)
(***************************************************************************)
EXTENDS Integers

CONSTANTS NoPriority,   \* a Provider without static_priority
          MaxFailures   \* bound on the failures that are told apart

ASSUME HealthAssumption == NoPriority \notin Int /\ MaxFailures \in Nat

Health ==
    [failures : Nat, throughput : Nat, firstByte : Nat, observed : BOOLEAN,
     rateLimited : BOOLEAN, authenticationInvalid : BOOLEAN,
     integrityInvalid : BOOLEAN, rangeUnsupported : BOOLEAN]

\* The zero healthState: hasThroughput is throughput > 0, hasFirstByte alike.
NewHealth ==
    [failures |-> 0, throughput |-> 0, firstByte |-> 0, observed |-> FALSE,
     rateLimited |-> FALSE, authenticationInvalid |-> FALSE,
     integrityInvalid |-> FALSE, rangeUnsupported |-> FALSE]

Average(old, new, value) ==
    IF old = 0 THEN value = new
    ELSE \/ old <= value /\ value <= new
         \/ new <= value /\ value <= old

Released(h) ==
    [h EXCEPT !.rateLimited = FALSE, !.authenticationInvalid = FALSE,
              !.integrityInvalid = FALSE, !.rangeUnsupported = FALSE]

RecordSuccess(h, throughput) ==
    [Released(h) EXCEPT !.throughput = throughput, !.failures = 0, !.observed = TRUE]

\* A latency of 0 is not measured.
RecordFirstByte(h, latency) == IF latency = 0 THEN h ELSE [h EXCEPT !.firstByte = latency]

RecordProbeSuccess(h) == Released(h)

RecordFailure(h) ==
    [h EXCEPT !.failures = IF @ < MaxFailures THEN @ + 1 ELSE @, !.observed = TRUE]

RecordRateLimited(h) == [h EXCEPT !.rateLimited = TRUE, !.observed = TRUE]

RecordAuthenticationFailure(h) ==
    [h EXCEPT !.authenticationInvalid = TRUE, !.observed = TRUE]

RecordIntegrityViolation(h) == [h EXCEPT !.integrityInvalid = TRUE, !.observed = TRUE]

RecordRangeUnsupported(h) == [h EXCEPT !.rangeUnsupported = TRUE, !.observed = TRUE]

\* An error that is no typed Failure, also that of a cancelled request, is an
\* ordinary failure.
RecordProviderFailure(h, error) ==
    IF error = "rate_limited" THEN RecordRateLimited(h)
    ELSE IF error = "authentication" THEN RecordAuthenticationFailure(h)
    ELSE IF error = "integrity" THEN RecordIntegrityViolation(h)
    ELSE RecordFailure(h)

Available(h) ==
    ~h.authenticationInvalid /\ ~h.integrityInvalid /\ ~h.rangeUnsupported
    /\ ~h.rateLimited

-----------------------------------------------------------------------------
(* provider-health.json: what Save writes of a Snapshot, and Restore of it.  *)

NoSnapshot == [throughput |-> 0, firstByte |-> 0, observed |-> FALSE]

\* A Provider that only sent first bytes has no timestamp and is left out.
Snapshot(h) ==
    IF h.observed
    THEN [throughput |-> h.throughput, firstByte |-> h.firstByte, observed |-> TRUE]
    ELSE NoSnapshot

Restore(s) ==
    [NewHealth EXCEPT !.throughput = s.throughput, !.firstByte = s.firstByte,
                      !.observed = s.observed]

-----------------------------------------------------------------------------
(* The order of orderedPullSourceIndexes, outermost criterion last.          *)

Source == [health : Health, priority : Int \cup {NoPriority}, index : Nat]

ConfiguredSourcePrecedes(l, r) ==
    \/ l.priority # NoPriority /\ r.priority = NoPriority
    \/ /\ l.priority # NoPriority /\ r.priority # NoPriority
       /\ l.priority < r.priority
    \/ l.priority = r.priority /\ l.index < r.index

\* The faster first, once failures and first bytes do not tell them apart.
FasterPrecedes(l, r) ==
    \/ l.health.throughput > r.health.throughput
    \/ /\ l.health.throughput = r.health.throughput
       /\ ConfiguredSourcePrecedes(l, r)

\* A Provider whose first byte was timed comes before one without, then the
\* quicker one.
SoonerPrecedes(l, r) ==
    \/ l.health.firstByte > 0 /\ r.health.firstByte = 0
    \/ /\ l.health.firstByte > 0 /\ r.health.firstByte > 0
       /\ l.health.firstByte < r.health.firstByte
    \/ l.health.firstByte = r.health.firstByte /\ FasterPrecedes(l, r)

MeasuredPrecedes(l, r) ==
    \/ l.health.throughput > 0 /\ r.health.throughput = 0
    \/ (l.health.throughput > 0 <=> r.health.throughput > 0) /\ SoonerPrecedes(l, r)

Precedes(l, r) ==
    \/ l.health.failures < r.health.failures
    \/ l.health.failures = r.health.failures /\ MeasuredPrecedes(l, r)
=============================================================================
