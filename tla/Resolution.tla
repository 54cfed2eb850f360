------------------------------ MODULE Resolution ------------------------------
(***************************************************************************)
(* One manifest request for a mutable reference: resolveManifest asks all  *)
(* available Resolvers at once and selects a digest, pullManifest fetches  *)
(* that digest from a Pull Provider.  Sources are numbered in configured   *)
(* order; digests are numbers too, ordered like the strings they stand for.*)
(***************************************************************************)
EXTENDS Naturals, Sequences, FiniteSets

CONSTANTS Sources,        \* 1..n
          Resolvers,      \* those with resolver: true
          Candidates,     \* the digests there are, numbers
          Priority,       \* the sources that have a priority, and which
          Score           \* rendezvousScore of each digest for this reference

ASSUME ResolutionAssumption ==
    /\ Sources = 1..Cardinality(Sources) /\ Resolvers \subseteq Sources
    /\ Candidates \subseteq Nat \ {0}
    /\ DOMAIN Priority \subseteq Sources /\ \A p \in DOMAIN Priority : Priority[p] \in Nat
    /\ \A d, e \in Candidates : Score[d] \in Nat /\ (d # e => Score[d] # Score[e])

VARIABLES
    strategy,   \* conflict_strategy and tie_breaker, which stay as configured
    pc,         \* where the request is
    health,     \* what keeps each source out of selection
    asked,      \* Resolvers whose answers are outstanding
    answers,    \* what each source answered, in order of arrival
    selected,   \* the selected digest, 0 for none
    todo,       \* Pull Providers still to try
    outcome,    \* the kind of response
    served      \* the digest it carries

resolutionVars == <<strategy, pc, health, asked, answers, selected, todo, outcome, served>>

NoDigest == 0
Unavailable(p) == health[p] # {}
Available == {p \in Sources : health[p] = {}}
Errors == {"notfound", "limited", "isolated", "failed"}
Kinds == Errors \cup {"digest"}
Holds == {"limited", "isolated"}

ResolutionInit ==
    /\ strategy \in {<<"provider_priority", "none">>, <<"majority", "rendezvous_hash">>,
                     <<"majority", "configured_order">>, <<"majority", "fail">>}
    /\ pc = "idle"
    /\ health = [p \in Sources |-> {}]
    /\ asked = {} /\ answers = <<>> /\ selected = NoDigest /\ todo = {}
    /\ outcome = "none" /\ served = NoDigest

-----------------------------------------------------------------------------
(* Reading the answers.                                                    *)

Successful == Cardinality({k \in DOMAIN answers : answers[k].what = "digest"})
Named == {answers[k].digest : k \in DOMAIN answers} \ {NoDigest}

\* candidate.indexes: the sources that named d, in order of arrival.
ArrivedFor(d) ==
    LET arrived[k \in 0..Len(answers)] ==
            IF k = 0 THEN <<>>
            ELSE IF answers[k].digest = d THEN Append(arrived[k - 1], answers[k].from)
            ELSE arrived[k - 1]
    IN  arrived[Len(answers)]

Voters(d) == {ArrivedFor(d)[k] : k \in DOMAIN ArrivedFor(d)}

\* The first of candidate.indexes once they are sorted.
FirstIndex(d) == CHOOSE p \in Voters(d) : \A q \in Voters(d) : p <= q

\* Candidates with more votes come first, then the smaller digest.
Before(d, e) ==
    \/ Len(ArrivedFor(d)) > Len(ArrivedFor(e))
    \/ Len(ArrivedFor(d)) = Len(ArrivedFor(e)) /\ d < e

FirstCandidate == CHOOSE d \in Named : \A e \in Named \ {d} : Before(d, e)

Preferred(p, q) == Priority[p] < Priority[q] \/ (Priority[p] = Priority[q] /\ p <= q)

\* byProviderPriority: the best priority among the sources that answered, the
\* configured order between equals.
ByProviderPriority ==
    LET voters == DOMAIN Priority \cap UNION {Voters(d) : d \in Named}
    IN  IF voters = {} THEN NoDigest
        ELSE LET best == CHOOSE p \in voters : \A q \in voters : Preferred(p, q)
             IN  CHOOSE d \in Named : best \in Voters(d)

HighestScore == CHOOSE d \in Named : \A e \in Named : Score[d] >= Score[e]

\* A plausible slip: the candidates are not put in configured order first.
BreakTieUnsorted ==
    IF strategy[2] = "fail" THEN NoDigest
    ELSE IF strategy[2] = "configured_order" THEN FirstCandidate
    ELSE HighestScore

BreakTie ==
    IF strategy[2] = "fail" THEN NoDigest
    ELSE IF strategy[2] = "configured_order"
    THEN CHOOSE d \in Named : \A e \in Named : FirstIndex(d) <= FirstIndex(e)
    ELSE HighestScore

Decision ==
    IF strategy[1] = "provider_priority" THEN ByProviderPriority
    ELSE IF Len(ArrivedFor(FirstCandidate)) > Successful \div 2 THEN FirstCandidate
    ELSE BreakTie

-----------------------------------------------------------------------------
RecordSourceFailure(p, a) ==
    health' = [health EXCEPT ![p] = @ \cup ({a} \cap Holds)]

\* A rate limit is reported only when it is all that is wrong with these sources.
UnavailableError(sources) ==
    IF sources # {} /\ \A p \in sources : health[p] = {"limited"} THEN "limited" ELSE "unavailable"

Respond(what, digest) ==
    /\ pc' = "done"
    /\ outcome' = what
    /\ served' = digest

RespondError(what) == Respond(what, NoDigest)

\* resolveManifest asks every Resolver that Health admits.
Ask ==
    /\ pc = "idle"
    /\ asked' = Available \cap Resolvers
    /\ IF asked' = {}
       THEN RespondError(UnavailableError(Resolvers))
       ELSE pc' = "resolving" /\ UNCHANGED <<outcome, served>>
    /\ UNCHANGED <<strategy, health, answers, selected, todo>>

\* An answer arrives.  A manifest without a digest, or the client's departure,
\* is one more way to fail.
Answer(p, what, d) ==
    /\ pc = "resolving" /\ p \in asked
    /\ (what = "digest") = (d # NoDigest)
    /\ asked' = asked \ {p}
    /\ answers' = Append(answers, [from |-> p, what |-> what, digest |-> d])
    /\ UNCHANGED <<strategy, pc, health, selected, todo, outcome, served>>

\* All have answered: failures are recorded, the digest is selected.
Select ==
    /\ pc = "resolving" /\ asked = {}
    /\ health' = [p \in Sources |->
           health[p] \cup {a \in Holds : \E k \in DOMAIN answers : answers[k].from = p /\ answers[k].what = a}]
    /\ IF Named = {}
       THEN /\ RespondError(IF \A k \in DOMAIN answers : answers[k].what = "notfound"
                       THEN "notfound" ELSE "unavailable")
            /\ UNCHANGED selected
       ELSE IF Decision = NoDigest
       THEN RespondError("unavailable") /\ UNCHANGED selected
       ELSE selected' = Decision /\ pc' = "selected" /\ UNCHANGED <<outcome, served>>
    /\ UNCHANGED <<strategy, asked, answers, todo>>

\* pullManifest: every source here is a Pull Provider, listed once.
BeginPull ==
    /\ pc = "selected"
    /\ pc' = "pulling"
    /\ todo' = Available
    /\ UNCHANGED <<strategy, health, asked, answers, selected, outcome, served>>

PullRefused(p, a) ==
    /\ pc = "pulling" /\ p \in todo
    /\ a \in Errors
    /\ todo' = todo \ {p}
    /\ RecordSourceFailure(p, a)
    /\ UNCHANGED <<strategy, pc, asked, answers, selected, outcome, served>>

\* A manifest with another digest is passed over.
PullAnswers(p, d) ==
    /\ pc = "pulling" /\ p \in todo
    /\ IF d = selected
       THEN todo' = {} /\ Respond("served", d)
       ELSE todo' = todo \ {p} /\ UNCHANGED <<pc, outcome, served>>
    /\ UNCHANGED <<strategy, health, asked, answers, selected>>

PullFails ==
    /\ pc = "pulling" /\ todo = {}
    /\ RespondError(UnavailableError(Sources))
    /\ UNCHANGED <<strategy, health, asked, answers, selected, todo>>

\* Other requests and probes record what they meet.
OthersHold(p, h) ==
    /\ health' = [health EXCEPT ![p] = @ \cup {h}]
    /\ UNCHANGED <<strategy, pc, asked, answers, selected, todo, outcome, served>>

OthersClear(p) ==
    /\ health' = [health EXCEPT ![p] = {}]
    /\ UNCHANGED <<strategy, pc, asked, answers, selected, todo, outcome, served>>

NextRequest ==
    /\ pc = "done"
    /\ pc' = "idle"
    /\ asked' = {} /\ answers' = <<>> /\ selected' = NoDigest /\ todo' = {}
    /\ outcome' = "none" /\ served' = NoDigest
    /\ UNCHANGED <<strategy, health>>

Request ==
    \/ Ask \/ Select \/ BeginPull \/ PullFails \/ NextRequest
    \/ \E p \in Sources :
         \/ \E a \in Kinds, d \in Candidates \cup {NoDigest} : Answer(p, a, d)
         \/ \E a \in Errors : PullRefused(p, a)
         \/ \E d \in Candidates : PullAnswers(p, d)

Others ==
    \E p \in Sources : OthersClear(p) \/ \E h \in Holds : OthersHold(p, h)

ResolutionNext == Request \/ Others

ResolutionSpec == ResolutionInit /\ [][ResolutionNext]_resolutionVars

-----------------------------------------------------------------------------
\* The range of every variable of a request.
ResolutionTypeOK ==
    /\ pc \in {"idle", "resolving", "selected", "pulling", "done"}
    /\ health \in [Sources -> SUBSET Holds]
    /\ asked \subseteq Resolvers /\ todo \subseteq Sources
    /\ answers \in Seq([from : Resolvers, what : Kinds, digest : Candidates \cup {NoDigest}])
    /\ selected \in Candidates \cup {NoDigest}
    /\ outcome \in {"none", "notfound", "limited", "unavailable", "served"}
    /\ served \in Candidates \cup {NoDigest}

\* The votes without the order in which they came.
Votes(d) == {p \in Resolvers : \E k \in DOMAIN answers : answers[k].from = p /\ answers[k].digest = d}
AllVotes == UNION {Votes(d) : d \in Candidates}
Majority(d) == 2 * Cardinality(Votes(d)) > Cardinality(AllVotes)

\* CONTEXT.md's strategies: what may be selected from a set of votes.
May(d) ==
    /\ Votes(d) # {}
    /\ IF strategy[1] = "provider_priority"
       THEN \E p \in Votes(d) \cap DOMAIN Priority :
               \A q \in AllVotes \cap DOMAIN Priority :
                  Priority[p] < Priority[q] \/ (Priority[p] = Priority[q] /\ p <= q)
       ELSE IF \E e \in Candidates : Majority(e) THEN Majority(d)
       ELSE /\ strategy[2] # "fail"
            /\ IF strategy[2] = "configured_order"
               THEN \E p \in Votes(d) : \A q \in AllVotes : p <= q
               ELSE \A e \in Candidates : Votes(e) # {} => Score[d] >= Score[e]

\* The digest that is selected follows from the votes and the configuration
\* alone: the order of the answers and of the candidates never shows.
SelectionFromVotes == selected # NoDigest => May(selected)

\* When the strategy singles out a digest, the request is not given up for lack
\* of one.
SelectionMade ==
    pc = "done" /\ selected = NoDigest => \A d \in Candidates : ~May(d)

\* A client that asks for a tag is only served the digest that was selected.
ServedIsSelected == outcome = "served" => served = selected /\ May(served)

\* A reference is only reported unknown when no Resolver that was asked knew a
\* digest or was merely unable to answer.
NotFoundHeard ==
    outcome = "notfound" => \A k \in DOMAIN answers : answers[k].what = "notfound"

\* What is selected and served is a function of the votes: nothing else is
\* selected, something is when the strategy allows it, and that is what is served
\* (router.go:180-371).
SelectionInv == /\ ResolutionTypeOK /\ SelectionFromVotes /\ SelectionMade
                /\ ServedIsSelected /\ NotFoundHeard
=============================================================================
