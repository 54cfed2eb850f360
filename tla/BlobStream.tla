----------------------------- MODULE BlobStream -----------------------------
(***************************************************************************)
(* One downstream blob pull as a single resumable stream: Router.openBlob, *)
(* resumableBlobReader with its stall timer, and the handler's streamBlob, *)
(* next to the part of Health that decides which Pull Providers may be     *)
(* chosen.  Other pulls and probes change that Health at any time.         *)
(*                                                                         *)
(* Bytes are positions of the blob.  Providers answer a request in every   *)
(* way the code tells apart; the order of the Providers in a listing is    *)
(* left open, since it depends on measured speeds.                         *)
(***************************************************************************)
EXTENDS Naturals, Sequences, FiniteSets

CONSTANTS Providers,       \* Pull Providers there are
          Deployments,     \* what a gateway may be in: its sources, discard, which is
                           \* max_no_range_restart_discard, and whether it is shared
                           \* with other pulls and probes
          Ranged,          \* those that honour a Range request
          Corrupt,         \* those whose bytes disagree with the digest
          Size,            \* length of the blob
          Requests,        \* the stretches of it that a client may ask for
          RestartEnabled   \* allow_non_range_providers

ASSUME BlobAssumption ==
    /\ IsFiniteSet(Providers) /\ Ranged \subseteq Providers /\ Corrupt \subseteq Providers
    /\ \A d \in Deployments : d.sources \subseteq Providers /\ d.discard \in Nat /\ d.shared \in BOOLEAN
    /\ Size \in Nat \ {0}
    /\ \A request \in Requests : request.start \in Nat /\ request.end \in request.start..(Size - 1)
    /\ RestartEnabled \in BOOLEAN

VARIABLES
    deployment, \* this gateway's configuration
    want,       \* the first and last byte the client asked for
    pc,         \* where the request's goroutine is
    health,     \* what keeps each Provider out of selection
    quiet,      \* nobody else has changed health so far
    gone,       \* the downstream client has left: ctx is cancelled
    todo,       \* Providers still to try in the listing being walked
    notFound,   \* openBlob's allNotFound
    attempted,  \* Providers this reader has opened or tried to resume from
    at,         \* Provider of the current stream, if any
    next,       \* position of the next byte of the current stream
    streams,    \* number of upstream bodies that are open
    open,       \* the current stream's body is one of them
    dead,       \* the current attempt's context is cancelled
    recorded,   \* the current stream's result is recorded
    offset,     \* the reader's offset: next byte owed downstream
    delivered,  \* positions handed downstream, in order
    tainted,    \* Providers that have contributed corrupt bytes
    timer,      \* the stall timer of the Read in progress
    late,       \* a stall timer that fired too late to be stopped or seen
    ret,        \* what the upstream Read returned
    pending,    \* the reader's deferred cause of a switch
    cause,      \* cause of the resume in progress
    refusal,    \* the Provider being restarted, and how it refused the Range
    outcome     \* how the pull ended

world   == <<gone, quiet>>
flow    == <<todo, notFound, cause, refusal>>
stream  == <<at, next, streams, open, dead, recorded>>
reader  == <<attempted, offset, delivered, tainted, pending>>
stall   == <<timer, late, ret>>
vars    == <<deployment, want, pc, health, world, flow, stream, reader, stall, outcome>>

NoProvider == "none"
NoRefusal == [from |-> NoProvider, answer |-> "ok"]
Start == want.start
End == want.end
Full == Start = 0 /\ End = Size - 1
NoRet == [n |-> 0, err |-> "nil"]

\* What keeps a Provider out: a rate limit, or an isolation (authentication,
\* integrity or Range) that only a success or a probe lifts.
Holds == {"limited", "isolated"}
Available == {p \in deployment.sources : health[p] = {}}

\* Answers to Backend.Blob.
Refusals == {"notfound", "limited", "isolated", "failed"}
Answers == Refusals \cup {"ok", "invalid"}

Init ==
    /\ deployment \in Deployments
    /\ want \in Requests
    /\ pc = "idle"
    /\ health = [p \in Providers |-> {}]
    /\ gone = FALSE /\ quiet = TRUE
    /\ todo = {} /\ notFound = TRUE /\ cause = "none" /\ refusal = NoRefusal
    /\ at = NoProvider /\ next = 0 /\ streams = 0 /\ open = FALSE /\ dead = FALSE /\ recorded = FALSE
    /\ attempted = {} /\ offset = Start /\ delivered = <<>> /\ tainted = {} /\ pending = "none"
    /\ timer = "off" /\ late = FALSE /\ ret = NoRet
    /\ outcome = "none"

-----------------------------------------------------------------------------
\* What a Provider may answer: one that ignores Range refuses a ranged request
\* (the client wants status 206), and a cancelled context fails every request.
MayAnswer(p, ranged, a) ==
    /\ a = "ok" => ~gone /\ (ranged => p \in Ranged)
    /\ a # "ok" /\ gone => a = "failed"

\* recordSourceFailure: what a failed answer does to the Provider's Health.  A
\* 404 changes nothing, an ordinary failure only the order of later listings.
RecordSourceFailure(p, a) ==
    health' = [health EXCEPT ![p] = @ \cup ({a} \cap Holds)]

\* recordSuccess, once per stream: everything held against the Provider goes.
RecordSuccess ==
    health' = IF recorded THEN health ELSE [health EXCEPT ![at] = {}]

\* The reader arms its stall timer only if it could switch elsewhere.
StallTimer(tried) == IF Available \ tried # {} THEN "armed" ELSE "off"

-----------------------------------------------------------------------------
\* openBlob: the listing is computed once, then walked.
BeginPull ==
    /\ pc = "idle"
    /\ pc' = "open"
    /\ todo' = Available
    /\ notFound' = (Available # {})
    /\ UNCHANGED <<health, world, cause, refusal, stream, reader, stall, outcome>>

OpenRefused(p, a) ==
    /\ pc = "open" /\ p \in todo
    /\ a # "ok" /\ MayAnswer(p, ~Full, a)
    /\ todo' = todo \ {p}
    /\ notFound' = (notFound /\ a = "notfound")
    /\ RecordSourceFailure(p, IF a = "invalid" THEN "isolated" ELSE a)
    /\ UNCHANGED <<pc, world, cause, refusal, stream, reader, stall, outcome>>

OpenSucceeds(p) ==
    /\ pc = "open" /\ p \in todo
    /\ MayAnswer(p, ~Full, "ok")
    /\ pc' = "body"
    /\ attempted' = {p}
    /\ at' = p /\ next' = Start
    /\ streams' = streams + 1 /\ open' = TRUE
    /\ UNCHANGED <<health, world, flow, dead, recorded, offset, delivered, tainted,
                   pending, stall, outcome>>

\* unavailableError: a rate limit is only reported when it is all that is wrong.
OpenFails ==
    /\ pc = "open" /\ todo = {}
    /\ pc' = "finishing"
    /\ outcome' = IF notFound THEN "notfound"
                  ELSE IF \A p \in deployment.sources : health[p] = {"limited"} THEN "limited"
                  ELSE "unavailable"
    /\ UNCHANGED <<health, world, flow, stream, reader, stall>>

-----------------------------------------------------------------------------
\* streamBlob calls Read; a switch decided earlier comes first.
ReadPending ==
    /\ pc = "body" /\ pending # "none"
    /\ pc' = "switching"
    /\ cause' = pending
    /\ pending' = "none"
    /\ UNCHANGED <<health, world, todo, notFound, refusal, stream, attempted, offset,
                   delivered, tainted, stall, outcome>>

BeginRead ==
    /\ pc = "body" /\ pending = "none"
    /\ pc' = "reading"
    /\ timer' = StallTimer(attempted)
    /\ UNCHANGED <<health, world, flow, stream, reader, late, ret, outcome>>

\* The upstream body returns n bytes, of those the buffer and the blob have left
\* (LimitReader keeps the buffer within the pull, so the reader's guard against
\* surplus bytes never bites); a body returns some bytes or an error, io.EOF included.
ReadReturns(n, err) ==
    /\ pc = "reading"
    /\ n > 0 \/ err # "nil"
    /\ n <= End + 1 - offset /\ next + n <= Size
    /\ pc' = "returned"
    /\ ret' = [n |-> n, err |-> err]
    /\ UNCHANGED <<health, world, flow, stream, reader, timer, late, outcome>>

\* A plausible slip: the attempt's context does not follow the client's.
ReadCancelledDetached ==
    /\ dead
    /\ ReadReturns(0, "fail")

\* A cancelled attempt, or a departed client, ends the upstream Read.
ReadCancelled ==
    /\ dead \/ gone
    /\ ReadReturns(0, "fail")

\* The timer's goroutine: it starts, cancels the attempt, then signals.
TimerFires ==
    /\ timer = "armed" /\ pc \in {"reading", "returned"}
    /\ timer' = "fired"
    /\ UNCHANGED <<pc, health, world, flow, stream, reader, late, ret, outcome>>

\* A plausible slip: the timer signals but cancels nothing.
TimerCancelsNothing ==
    /\ timer = "fired"
    /\ timer' = "cancelled"
    /\ UNCHANGED <<pc, health, world, flow, stream, reader, late, ret, outcome>>

TimerCancels ==
    /\ timer = "fired"
    /\ timer' = "cancelled"
    /\ dead' = TRUE
    /\ UNCHANGED <<pc, health, world, flow, at, next, streams, open, recorded, reader,
                   late, ret, outcome>>

TimerSignals ==
    /\ timer = "cancelled"
    /\ timer' = "sent"
    /\ UNCHANGED <<pc, health, world, flow, stream, reader, late, ret, outcome>>

\* A timer that Stop came too late for cancels the attempt after its Read.
LateCancel ==
    /\ late
    /\ late' = FALSE
    /\ dead' = TRUE
    /\ UNCHANGED <<pc, health, world, flow, at, next, streams, open, recorded, reader,
                   timer, ret, outcome>>

\* The Read's bytes go downstream, whatever comes next.
Deliver ==
    /\ offset' = offset + ret.n
    /\ next' = next + ret.n
    /\ delivered' = delivered \o [i \in 1..ret.n |-> next + i - 1]
    /\ tainted' = IF ret.n > 0 THEN tainted \cup ({at} \cap Corrupt) ELSE tainted
    /\ timer' = "off"
    /\ late' = (late \/ timer = "fired")
    /\ ret' = NoRet
    /\ UNCHANGED <<world, todo, notFound, refusal, at, streams, open, dead, attempted, outcome>>

ReadCompletes ==
    /\ pc = "returned" /\ offset + ret.n = End + 1
    /\ Deliver
    /\ RecordSuccess
    /\ recorded' = TRUE
    /\ pc' = "verify"
    /\ UNCHANGED <<cause, pending>>

\* Progress, but not the end: an error, a stall or a clearly faster Provider
\* makes the next Read switch.
ReadProgresses ==
    /\ pc = "returned" /\ ret.n > 0 /\ offset + ret.n < End + 1
    /\ Deliver
    /\ pending' \in IF timer = "sent" THEN {"stalled"}
                    ELSE IF ret.err # "nil" THEN {"error"}
                    ELSE {"none"} \cup {c \in {"slow"} : Available \ attempted # {}}
    /\ pc' = "body"
    /\ UNCHANGED <<health, cause, recorded>>

ReadFruitless ==
    /\ pc = "returned" /\ ret.n = 0
    /\ Deliver
    /\ pc' = "switching"
    /\ cause' = IF timer = "sent" THEN "stalled" ELSE "error"
    /\ UNCHANGED <<health, recorded, pending>>

-----------------------------------------------------------------------------
\* A plausible slip: the interrupted body is left open.
BeginResumeLeaks ==
    /\ pc = "switching"
    /\ pc' = "resume"
    /\ open' = FALSE /\ dead' = TRUE
    /\ recorded' = (recorded \/ cause = "error")
    /\ todo' = Available \ attempted
    /\ UNCHANGED <<health, world, notFound, cause, refusal, at, next, streams, reader,
                   stall, outcome>>

\* resume: the current stream is closed, and a failure recorded against it
\* unless it was given up for being stalled or slow.
BeginResume ==
    /\ pc = "switching"
    /\ pc' = "resume"
    /\ streams' = streams - (IF open THEN 1 ELSE 0)
    /\ open' = FALSE /\ dead' = TRUE
    /\ recorded' = (recorded \/ cause = "error")
    /\ todo' = Available \ attempted
    /\ UNCHANGED <<health, world, notFound, cause, refusal, at, next, reader, stall, outcome>>

\* The reader continues on p, whose next byte is at position from: a fresh
\* context, a fresh record, and a Read at once.
Switch(p, from) ==
    /\ pc' = "reading"
    /\ at' = p /\ next' = from
    /\ streams' = streams + 1 /\ open' = TRUE
    /\ dead' = FALSE /\ recorded' = FALSE
    /\ late' = FALSE
    /\ timer' = StallTimer(attempted')
    /\ UNCHANGED <<world, notFound, cause, offset, delivered, tainted, pending, ret, outcome>>

\* A plausible slip: only the current Provider counts as attempted.
ResumeSucceedsForgetful(p) ==
    /\ pc = "resume" /\ p \in todo
    /\ MayAnswer(p, TRUE, "ok")
    /\ attempted' = {p}
    /\ Switch(p, offset)
    /\ UNCHANGED <<health, todo, refusal>>

\* The Range request starts at the byte owed.
ResumeSucceeds(p) ==
    /\ pc = "resume" /\ p \in todo
    /\ MayAnswer(p, TRUE, "ok")
    /\ attempted' = attempted \cup {p}
    /\ Switch(p, offset)
    /\ UNCHANGED <<health, todo, refusal>>

MayRestart == RestartEnabled /\ offset <= deployment.discard

\* A refused Range; the Provider may still serve the blob from its start.  An
\* answer with the wrong metadata counts as an ordinary failure here.
ResumeRefused(p, a) ==
    /\ pc = "resume" /\ p \in todo
    /\ a # "ok" /\ MayAnswer(p, TRUE, a)
    /\ attempted' = attempted \cup {p}
    /\ todo' = todo \ {p}
    /\ IF MayRestart
       THEN /\ pc' = "restart"
            /\ refusal' = [from |-> p, answer |-> a]
            /\ UNCHANGED health
       ELSE /\ RecordSourceFailure(p, a)
            /\ UNCHANGED <<pc, refusal>>
    /\ UNCHANGED <<world, notFound, cause, stream, offset, delivered, tainted, pending,
                   stall, outcome>>

\* A plausible slip: the restarted body is read from its first byte.
RestartSucceedsUndiscarded ==
    /\ pc = "restart"
    /\ ~gone
    /\ refusal' = NoRefusal
    /\ UNCHANGED <<health, todo, attempted>>
    /\ Switch(refusal.from, 0)

\* The whole blob is opened again and what was already delivered is discarded.
RestartSucceeds ==
    /\ pc = "restart"
    /\ ~gone
    /\ refusal' = NoRefusal
    /\ UNCHANGED <<health, todo, attempted>>
    /\ Switch(refusal.from, offset)

\* It is refused, has the wrong metadata, or breaks off while being discarded:
\* its body is closed and the refused Range counts.
RestartFails ==
    /\ pc = "restart"
    /\ RecordSourceFailure(refusal.from, refusal.answer)
    /\ refusal' = NoRefusal
    /\ pc' = "resume"
    /\ UNCHANGED <<world, todo, notFound, cause, stream, reader, stall, outcome>>

\* A plausible slip: the first Provider that refuses ends the pull.
ResumeFailsFast ==
    /\ pc = "resume"
    /\ pc' = "finishing"
    /\ outcome' = "aborted"
    /\ UNCHANGED <<health, world, flow, stream, reader, stall>>

\* No Provider is left to try: the handler aborts the response.
ResumeFails ==
    /\ pc = "resume" /\ todo = {}
    /\ pc' = "finishing"
    /\ outcome' = "aborted"
    /\ UNCHANGED <<health, world, flow, stream, reader, stall>>

-----------------------------------------------------------------------------
\* streamBlob: the digest of a whole blob is compared once all bytes are out.
Verify ==
    /\ pc = "verify"
    /\ outcome' = IF Full /\ tainted # {} THEN "mismatch" ELSE "complete"
    /\ pc' = "finishing"
    /\ UNCHANGED <<health, world, flow, stream, reader, stall>>

\* Writing downstream fails once the client has left.
WriteFails ==
    /\ pc \in {"body", "verify"} /\ gone /\ delivered # <<>>
    /\ outcome' = "gone"
    /\ pc' = "finishing"
    /\ UNCHANGED <<health, world, flow, stream, reader, stall>>

\* The handler's deferred Close.
Close ==
    /\ pc = "finishing"
    /\ pc' = "closed"
    /\ streams' = streams - (IF open THEN 1 ELSE 0)
    /\ open' = FALSE /\ dead' = TRUE
    /\ UNCHANGED <<health, world, flow, at, next, recorded, reader, stall, outcome>>

\* The next pull of the same blob meets the Health this one left behind.
NextPull ==
    /\ pc = "closed"
    /\ pc' = "idle"
    /\ gone' = FALSE /\ quiet' = TRUE
    /\ todo' = {} /\ notFound' = TRUE /\ cause' = "none" /\ refusal' = NoRefusal
    /\ at' = NoProvider /\ next' = 0 /\ dead' = FALSE /\ recorded' = FALSE
    /\ attempted' = {} /\ offset' = Start /\ delivered' = <<>> /\ tainted' = {}
    /\ pending' = "none"
    /\ timer' = "off" /\ late' = FALSE /\ ret' = NoRet
    /\ outcome' = "none"
    /\ UNCHANGED <<health, streams, open>>

-----------------------------------------------------------------------------
\* The world around the pull: the client may leave, other pulls and probes
\* record what they meet, and rate limits run out.
ClientLeaves ==
    /\ pc \notin {"idle", "finishing", "closed"}
    /\ gone' = TRUE
    /\ UNCHANGED <<pc, health, quiet, flow, stream, reader, stall, outcome>>

Disturb(p, holds) ==
    /\ health' = [health EXCEPT ![p] = holds]
    /\ quiet' = FALSE
    /\ UNCHANGED <<pc, gone, flow, stream, reader, stall, outcome>>

OthersHold(p, h) == deployment.shared /\ Disturb(p, health[p] \cup {h})
OthersClear(p) == deployment.shared /\ Disturb(p, {})
LimitExpires(p) == Disturb(p, health[p] \ {"limited"})

-----------------------------------------------------------------------------
OpenBlob ==
    \/ BeginPull \/ OpenFails
    \/ \E p \in Providers : OpenSucceeds(p) \/ \E a \in Answers : OpenRefused(p, a)

Read ==
    \/ ReadPending \/ BeginRead
    \/ \E n \in 0..Size, err \in {"nil", "fail"} : ReadReturns(n, err)
    \/ ReadCancelled
    \/ ReadCompletes \/ ReadProgresses \/ ReadFruitless

StallGoroutine == TimerFires \/ TimerCancels \/ TimerSignals \/ LateCancel

Resume ==
    \/ BeginResume \/ RestartSucceeds \/ RestartFails \/ ResumeFails
    \/ \E p \in Providers : ResumeSucceeds(p) \/ \E a \in Answers : ResumeRefused(p, a)

Handler == Verify \/ WriteFails \/ Close \/ NextPull

World ==
    \/ ClientLeaves
    \/ \E p \in Providers :
         \/ OthersClear(p) \/ LimitExpires(p)
         \/ \E h \in Holds : OthersHold(p, h)

Next ==
    /\ OpenBlob \/ Read \/ StallGoroutine \/ Resume \/ Handler \/ World
    /\ UNCHANGED <<deployment, want>>

Spec == Init /\ [][Next]_vars

(***************************************************************************)
(* Fairness.  The request's goroutine and the timer's run.  A request or a *)
(* body may hang for ever: they are only sure to end once their context is *)
(* cancelled, by the stall timer or because the client has left.           *)
(***************************************************************************)
Steps ==
    \/ BeginPull \/ OpenFails \/ ReadPending \/ BeginRead \/ ReadCancelled
    \/ ReadCompletes \/ ReadProgresses \/ ReadFruitless
    \/ BeginResume \/ ResumeFails
    \/ gone /\ (OpenBlob \/ Resume)
    \/ Verify \/ WriteFails \/ Close

FairSpec ==
    /\ Spec
    /\ WF_vars(Steps /\ UNCHANGED <<deployment, want>>)
    /\ WF_vars(StallGoroutine /\ UNCHANGED <<deployment, want>>)

-----------------------------------------------------------------------------
\* The range of every variable of a pull: offsets within the request, no negative count of bodies.
TypeOK ==
    /\ deployment \in Deployments /\ want \in Requests
    /\ pc \in {"idle", "open", "body", "reading", "returned", "verify", "switching",
               "resume", "restart", "finishing", "closed"}
    /\ health \in [Providers -> SUBSET Holds]
    /\ {gone, quiet} \subseteq BOOLEAN /\ open \in BOOLEAN /\ dead \in BOOLEAN /\ recorded \in BOOLEAN
    /\ notFound \in BOOLEAN /\ late \in BOOLEAN
    /\ todo \subseteq Providers /\ attempted \subseteq Providers /\ tainted \subseteq Corrupt
    /\ at \in Providers \cup {NoProvider}
    /\ next \in 0..Size /\ offset \in Start..(End + 1) /\ streams \in Nat
    /\ delivered \in Seq(0..(Size - 1))
    /\ timer \in {"off", "armed", "fired", "cancelled", "sent"}
    /\ ret \in [n : 0..Size, err : {"nil", "fail"}]
    /\ pending \in {"none", "stalled", "slow", "error"}
    /\ cause \in {"none", "stalled", "slow", "error"}
    /\ refusal \in [from : Providers \cup {NoProvider}, answer : Answers]
    /\ outcome \in {"none", "complete", "mismatch", "aborted", "gone",
                    "notfound", "limited", "unavailable"}

Refused == {"notfound", "limited", "unavailable"}
Cut == {"mismatch", "aborted", "gone"}
Ended == IF outcome \in Refused THEN "refused" ELSE IF outcome \in Cut THEN "cut" ELSE outcome

Delivery == INSTANCE BlobDelivery WITH first <- Start, length <- End + 1 - Start,
                                       sent <- delivered, ended <- Ended

\* The client receives every byte it asked for once and in order, across any
\* number of failures, stalls, speed switches and restarts from zero; a refusal
\* comes before the first byte, and a proper end after the last
\* (router.go:384-660, handler.go:170-254).
ImplementsDelivery == Delivery!Spec

\* At most one upstream body is open for a pull, and none once it is closed.
NoStreamLeak ==
    /\ streams = IF open THEN 1 ELSE 0
    /\ pc \in {"idle", "closed"} => streams = 0

\* A pull's variables are well typed and its upstream bodies accounted for
\* (router.go:384-660).
StreamInv == TypeOK /\ NoStreamLeak

\* A pull is given up in mid-stream only after every Provider that Health still
\* admits has been tried, unless others changed Health in the meantime.
AbortedOnlyWhenExhausted == outcome = "aborted" /\ quiet => Available \subseteq attempted

\* A Read that stalls while another Provider could take over is ended, however
\* long the upstream hangs.
StallEnds == (pc = "reading" /\ timer = "armed") ~> (pc # "reading")

\* Upstreams that answer every request and go on with every body, one way or
\* the other.
UpstreamsAnswer ==
    WF_vars(/\ \/ OpenBlob \/ Resume
               \/ \E n \in 0..Size, err \in {"nil", "fail"} : ReadReturns(n, err)
            /\ UNCHANGED <<deployment, want>>)

\* A pull from such upstreams ends: no round of stalls, failures, slow sources
\* and restarts goes on for ever, although a switch is decided anew at every Read
\* and others keep clearing what Health holds against the Providers it left
\* (router.go:459-591).
PullEnds == UpstreamsAnswer => (pc # "idle" ~> pc = "closed")

\* When the client leaves, the pull ends and its upstream body is closed, even
\* if that upstream never answers again.
DepartureFrees == gone ~> (pc = "closed" /\ streams = 0)

=============================================================================
