---------------------------- MODULE DecisionLease ----------------------------
(***************************************************************************)
(* Decision leases: Router.Manifest's use of lease.Store, the file behind  *)
(* it, the reload that opens a new Store for a new Router while requests   *)
(* of the old one go on with the old Store, any number of `drg resolver    *)
(* invalidate' in their own processes, and the server's crash and restart. *)
(* Every Store keeps its own map in memory and writes all of it at each    *)
(* save; to open one is to read the file and, in a second step, to write   *)
(* it back if an entry has expired.                                        *)
(***************************************************************************)
EXTENDS Naturals, FiniteSets

CONSTANTS Keys,         \* references with their Accept set
          Digests,
          Requests,     \* manifest requests under way at a time
          Lease,        \* decision_lease
          MaxClock,     \* bound on the clock
          MaxStores,    \* bound on the Stores the server has in use at a time
          MaxAtWork,    \* bound on requests and invalidations at work at a time
          Commands,     \* the runs of `drg resolver invalidate'
          Scopes        \* what one may name: the keys of a reference, or all

ASSUME LeaseAssumption ==
    /\ Lease \in Nat \ {0} /\ MaxClock \in Nat /\ MaxStores \in Nat \ {0}
    /\ MaxAtWork \in Nat \ {0}
    /\ Scopes \subseteq SUBSET Keys

VARIABLES
    clock,
    pulled,     \* <<key, digest>> of the manifests that were pulled
    file,       \* decision-leases.json
    stores,     \* the Stores in use: their entries, and whether they have a file path
    serving,    \* the Store of the Router that takes new requests, 0 when down
    fresh,      \* the Store of the Router that is about to replace it, 0 if none
    request,    \* the requests under way
    reload,     \* step of the reload, or of the start, in progress
    held,       \* the map it has read and is about to write back
    cli         \* the step of each invalidation, the keys and the map it holds, and
                \* whether anybody was at work with an older state when it wrote

server == <<stores, serving, fresh>>
vars == <<clock, pulled, file, server, request, reload, held, cli>>

NoEntry == [digest |-> "none", until |-> 0, after |-> {}]
Entries == [digest : Digests, until : 0..(MaxClock + Lease), after : SUBSET Commands]
Maps == [Keys -> Entries \cup {NoEntry}]
Empty == [k \in Keys |-> NoEntry]
NoStore == [entries |-> Empty, backed |-> TRUE]

Idle == [at |-> "idle"]
NoCli == [at |-> "none", keys |-> {}, map |-> Empty, disturbed |-> FALSE]

Init ==
    /\ clock = 0 /\ pulled = {}
    /\ file = Empty
    /\ stores = [s \in 1..MaxStores |-> NoStore]
    /\ serving = 1 /\ fresh = 0
    /\ request = [r \in Requests |-> Idle]
    /\ reload = "none" /\ held = Empty
    /\ cli = [c \in Commands |-> NoCli]

Valid(entry) == entry.until > clock

\* prune: what a Store keeps of the file it opens.
Pruned(map) == [k \in Keys |-> IF Valid(map[k]) THEN map[k] ELSE NoEntry]

\* The invalidations of k that are reported done and that nobody disturbed.
Firm(k) == {c \in Commands : cli[c].at = "done" /\ k \in cli[c].keys}

\* The Stores that a Router or a request still refers to.
InUse == ({serving, fresh} \cup {request[r].store : r \in {q \in Requests : request[q] # Idle}}) \ {0}

\* The others are garbage: nothing reads them again.
Keep(new) == stores' = [s \in 1..MaxStores |-> IF s \in InUse' THEN new[s] ELSE NoStore]

\* save replaces the whole file by the Store's map, unless there is no path or
\* the disk refuses.
Save(s, map) ==
    /\ Keep([stores EXCEPT ![s].entries = map])
    /\ file' \in {file} \cup {m \in {map} : stores[s].backed}

AtWork == {r \in Requests : request[r] # Idle} \cup {c \in Commands : cli[c].at \notin {"none", "done"}}

-----------------------------------------------------------------------------
(* Router.Manifest.                                                        *)

Begin(r, k) ==
    /\ serving # 0 /\ request[r] = Idle /\ Cardinality(AtWork) < MaxAtWork
    /\ request' = [request EXCEPT ![r] = [at |-> "lookup", key |-> k, store |-> serving]]
    /\ cli' = [c \in Commands |-> IF cli[c].at \in {"saved", "reloading"}
                                  THEN [cli[c] EXCEPT !.disturbed = TRUE] ELSE cli[c]]
    /\ UNCHANGED <<clock, pulled, file, server, reload, held>>

EntryOf(r) == stores[request[r].store].entries[request[r].key]

\* A leased digest is pulled; the request has no more to do with leases.
LookupHit(r) ==
    /\ request[r].at = "lookup" /\ Valid(EntryOf(r))
    /\ request' = [request EXCEPT ![r] = Idle]
    /\ UNCHANGED <<clock, pulled, file, serving, fresh, reload, held, cli>>
    /\ Keep(stores)

\* An expired entry is deleted, and the file rewritten, before resolving.
LookupMiss(r) ==
    /\ request[r].at = "lookup" /\ ~Valid(EntryOf(r))
    /\ request' = [request EXCEPT ![r] = [at |-> "resolving", key |-> @.key, store |-> @.store,
                                           after |-> Firm(@.key)]]
    /\ UNCHANGED <<clock, pulled, serving, fresh, reload, held, cli>>
    /\ IF EntryOf(r) = NoEntry
       THEN UNCHANGED <<stores, file>>
       ELSE Save(request[r].store,
                 [stores[request[r].store].entries EXCEPT ![request[r].key] = NoEntry])

\* A plausible slip: the decision is recorded before any Provider has served it.
ResolveAndPut(r, digest) ==
    /\ request[r].at = "resolving"
    /\ request' = [request EXCEPT ![r] = [at |-> "pulling", key |-> @.key, store |-> @.store,
                                           after |-> @.after, digest |-> digest]]
    /\ UNCHANGED <<clock, pulled, serving, fresh, reload, held, cli>>
    /\ Save(request[r].store,
            [stores[request[r].store].entries EXCEPT ![request[r].key] =
                [digest |-> digest, until |-> clock + Lease,
                 after |-> request[r].after]])

\* The Resolvers name a digest, another one each time if the tag moves (module
\* Resolution).
Resolve(r, digest) ==
    /\ request[r].at = "resolving"
    /\ request' = [request EXCEPT ![r] = [at |-> "pulling", key |-> @.key, store |-> @.store,
                                           after |-> @.after, digest |-> digest]]
    /\ UNCHANGED <<clock, pulled, file, server, reload, held, cli>>

Pull(r) ==
    /\ request[r].at = "pulling"
    /\ pulled' = pulled \cup {<<request[r].key, request[r].digest>>}
    /\ request' = [request EXCEPT ![r] = [@ EXCEPT !.at = "putting"]]
    /\ UNCHANGED <<clock, file, server, reload, held, cli>>

Put(r) ==
    /\ request[r].at = "putting"
    /\ request' = [request EXCEPT ![r] = Idle]
    /\ UNCHANGED <<clock, pulled, serving, fresh, reload, held, cli>>
    /\ Save(request[r].store,
            [stores[request[r].store].entries EXCEPT ![request[r].key] =
                [digest |-> request[r].digest, until |-> clock + Lease,
                 after |-> request[r].after]])

\* No Resolver or Provider answers.
EndRequest(r) ==
    /\ request[r].at \in {"resolving", "pulling"}
    /\ request' = [request EXCEPT ![r] = Idle]
    /\ UNCHANGED <<clock, pulled, file, serving, fresh, reload, held, cli>>
    /\ Keep(stores)

-----------------------------------------------------------------------------
(* The reload, under reloadMu, and the start, which builds its Router in   *)
(* the same way.                                                           *)

\* A change to Resolvers or strategy has all leases cleared first.
BeginReload(changed) ==
    /\ serving # 0 /\ reload = "none" /\ InUse # 1..MaxStores
    /\ reload' = IF changed THEN "clear" ELSE "open"
    /\ UNCHANGED <<clock, pulled, file, server, request, held, cli>>

\* lease.Open reads the file, and has a map to write back if an entry has expired.
Opens(pruning, done) ==
    IF Pruned(file) = file THEN reload' = done /\ UNCHANGED held
    ELSE reload' = pruning /\ held' = Pruned(file)

\* A file that cannot be read, or not be written back, is not cleared.
ReloadClear ==
    /\ reload = "clear"
    /\ \/ Opens("clearprune", "clearing")
       \/ reload' = "open" /\ UNCHANGED held
    /\ UNCHANGED <<clock, pulled, file, server, request, cli>>

ClearPrunes ==
    /\ reload = "clearprune"
    /\ held' = Empty
    /\ \/ file' = held /\ reload' = "clearing"
       \/ file' = file /\ reload' = "open"
    /\ UNCHANGED <<clock, pulled, server, request, cli>>

Clear ==
    /\ reload = "clearing"
    /\ file' = Empty
    /\ reload' = "open"
    /\ UNCHANGED <<clock, pulled, server, request, held, cli>>

\* The place in the model for the next Store.
Unused == CHOOSE s \in 1..MaxStores : s \notin InUse

NewStore(map, backed) ==
    /\ stores' = [stores EXCEPT ![Unused] = [entries |-> map, backed |-> backed]]
    /\ fresh' = Unused
    /\ reload' = "replace"

\* buildRouter: a Store on the file, or in memory when the file is unusable.
ReloadOpen ==
    /\ reload = "open"
    /\ \/ Pruned(file) = file /\ NewStore(file, TRUE) /\ UNCHANGED held
       \/ Pruned(file) # file /\ Opens("pruning", "replace") /\ UNCHANGED <<stores, fresh>>
       \/ NewStore(Empty, FALSE) /\ UNCHANGED held
    /\ UNCHANGED <<clock, pulled, file, serving, request, cli>>

ReloadPrunes ==
    /\ reload = "pruning"
    /\ held' = Empty
    /\ \/ file' = held /\ NewStore(held, TRUE)
       \/ file' = file /\ NewStore(Empty, FALSE)
    /\ UNCHANGED <<clock, pulled, serving, request, cli>>

\* The new Router takes the new requests, and the invalidation that asked for the
\* reload is reported done.  One that was disturbed promises nothing.
ReloadReplace ==
    /\ reload = "replace"
    /\ serving' = fresh /\ fresh' = 0
    /\ reload' = "none"
    /\ cli' = [c \in Commands |-> IF cli[c].at # "reloading" THEN cli[c]
                                  ELSE IF cli[c].disturbed THEN NoCli
                                  ELSE [cli[c] EXCEPT !.at = "done"]]
    /\ UNCHANGED <<clock, pulled, file, request, held>>
    /\ Keep(stores)

\* Clear fails, or a new Provider is not admitted.
ReloadFails ==
    /\ reload \in {"clear", "clearing", "open"}
    /\ reload' = "none"
    /\ cli' = [c \in Commands |-> IF cli[c].at = "reloading" THEN NoCli ELSE cli[c]]
    /\ UNCHANGED <<clock, pulled, file, server, request, held>>

-----------------------------------------------------------------------------
(* drg resolver invalidate: nothing keeps two of them, or one and a reload *)
(* of the server's own, from working on the file at the same time.         *)

CliSet(c, state) == cli' = [cli EXCEPT ![c] = state]

\* All Accept sets of a reference are dropped, or those of all references.
CliOpen(c, keys) ==
    /\ cli[c].at = "none" /\ Cardinality(AtWork) < MaxAtWork
    /\ CliSet(c, [at |-> IF Pruned(file) = file THEN "opened" ELSE "pruning",
                  keys |-> keys, map |-> Pruned(file), disturbed |-> FALSE])
    /\ UNCHANGED <<clock, pulled, file, server, request, reload, held>>

CliPrunes(c) ==
    /\ cli[c].at = "pruning"
    /\ file' = cli[c].map
    /\ CliSet(c, [cli[c] EXCEPT !.at = "opened"])
    /\ UNCHANGED <<clock, pulled, server, request, reload, held>>

\* Who may still write what was read before this write: a request, another
\* invalidation, or a Store being opened.
OthersAtWork(c) ==
    \/ \E r \in Requests : request[r] # Idle
    \/ \E d \in Commands \ {c} : cli[d].at \in {"pruning", "opened"}
    \/ reload \in {"clearprune", "pruning"}

\* A plausible slip: the file is written back with the entry in it.
CliSaveKeeps(c) ==
    /\ cli[c].at = "opened"
    /\ file' = cli[c].map
    /\ CliSet(c, [cli[c] EXCEPT !.at = "saved", !.map = Empty, !.disturbed = OthersAtWork(c)])
    /\ UNCHANGED <<clock, pulled, server, request, reload, held>>

CliSave(c) ==
    /\ cli[c].at = "opened"
    /\ file' = [k \in Keys |-> IF k \in cli[c].keys THEN NoEntry ELSE cli[c].map[k]]
    /\ CliSet(c, [cli[c] EXCEPT !.at = "saved", !.map = Empty, !.disturbed = OthersAtWork(c)])
    /\ UNCHANGED <<clock, pulled, server, request, reload, held>>

CliReload(c) ==
    /\ cli[c].at = "saved"
    /\ serving # 0 /\ reload = "none" /\ InUse # 1..MaxStores
    /\ reload' \in {"clear", "open"}
    /\ CliSet(c, [cli[c] EXCEPT !.at = "reloading"])
    /\ UNCHANGED <<clock, pulled, file, server, request, held>>

\* A failed step, or a server that does not answer in time, is reported as an error.
CliFails(c) ==
    /\ cli[c].at \in {"pruning", "opened", "saved", "reloading"}
    /\ CliSet(c, NoCli)
    /\ UNCHANGED <<clock, pulled, file, server, request, reload, held>>

-----------------------------------------------------------------------------
(* The world.                                                              *)

Tick ==
    /\ clock < MaxClock
    /\ clock' = clock + 1
    /\ UNCHANGED <<pulled, file, server, request, reload, held, cli>>

Crash ==
    /\ serving # 0 \/ reload # "none"
    /\ serving' = 0 /\ fresh' = 0
    /\ stores' = [s \in 1..MaxStores |-> NoStore]
    /\ request' = [r \in Requests |-> Idle]
    /\ reload' = "none" /\ held' = Empty
    /\ cli' = [c \in Commands |-> IF cli[c].at = "reloading" THEN NoCli ELSE cli[c]]
    /\ UNCHANGED <<clock, pulled, file>>

\* The start goes through the steps of a reload that changes nothing.
Restart ==
    /\ serving = 0 /\ reload = "none"
    /\ reload' = "open"
    /\ UNCHANGED <<clock, pulled, file, server, request, held, cli>>

-----------------------------------------------------------------------------
Manifest ==
    \E r \in Requests :
        \/ \E k \in Keys : Begin(r, k)
        \/ \E digest \in Digests : Resolve(r, digest)
        \/ LookupHit(r) \/ LookupMiss(r) \/ Pull(r) \/ Put(r) \/ EndRequest(r)

Reload ==
    \/ \E changed \in BOOLEAN : BeginReload(changed)
    \/ ReloadClear \/ ClearPrunes \/ Clear
    \/ ReloadOpen \/ ReloadPrunes \/ ReloadReplace \/ ReloadFails

Invalidate ==
    \E c \in Commands :
        \/ \E keys \in Scopes : CliOpen(c, keys)
        \/ CliPrunes(c) \/ CliSave(c) \/ CliReload(c) \/ CliFails(c)

World == Tick \/ Crash \/ Restart

Next == Manifest \/ Reload \/ Invalidate \/ World

Spec == Init /\ [][Next]_vars

-----------------------------------------------------------------------------
\* The range of every variable; a request under way names a Store, and a fresh one only
\* exists until it is put to use.
TypeOK ==
    /\ clock \in 0..MaxClock
    /\ pulled \subseteq Keys \X Digests
    /\ file \in Maps
    /\ stores \in [1..MaxStores -> [entries : Maps, backed : BOOLEAN]]
    /\ serving \in 0..MaxStores /\ fresh \in 0..MaxStores
    /\ (fresh # 0) <=> (reload = "replace")
    /\ \A r \in Requests :
         /\ request[r].at \in {"idle", "lookup", "resolving", "pulling", "putting"}
         /\ request[r] # Idle => request[r].key \in Keys /\ request[r].store \in 1..MaxStores
    /\ reload \in {"none", "clear", "clearprune", "clearing", "open", "pruning", "replace"}
    /\ held \in Maps
    /\ cli \in [Commands -> [at : {"none", "pruning", "opened", "saved", "reloading", "done"},
                             keys : SUBSET Keys, map : Maps, disturbed : BOOLEAN]]

\* The entries that can still answer a request: those of any Store in use, and
\* those of the file that the next Store will read.
Recorded(k) == {file[k]} \cup {stores[s].entries[k] : s \in InUse}

\* A decision that no Provider has been able to serve never becomes a lease, on
\* any path through memory, file, reload, invalidation and restart.
LeaseWasPulled ==
    \A k \in Keys : \A e \in Recorded(k) : e # NoEntry => <<k, e.digest>> \in pulled

\* Every Store, the file and the requests are well typed and hold pulled decisions
\* only (store.go:34-144, router.go:150-178).
LeaseInv == TypeOK /\ LeaseWasPulled

\* An invalidation that is reported done stays done, through any later reload,
\* restart and invalidation of others: what it removed comes back only by a
\* resolution that began after the report.  The exception is an invalidation that
\* met somebody at work with an older state when it wrote the file, or a request
\* before the reload it asked for (cli.go:1598-1620, store.go:79-108).
QuietInvalidationHolds ==
    \A k \in Keys :
        \A e \in {file[k]} \cup {stores[s].entries[k] : s \in {serving} \ {0}} :
            e # NoEntry => Firm(k) \subseteq e.after
=============================================================================
