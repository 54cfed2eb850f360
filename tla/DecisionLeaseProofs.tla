-------------------------- MODULE DecisionLeaseProofs --------------------------
(***************************************************************************)
(* DecisionLease for every number of references, digests, requests, Stores  *)
(* and invalidations, and every length of a lease: no decision that was not  *)
(* pulled is ever recorded, and an invalidation that met no request under     *)
(* way is final.  And Resolution, where such a decision is made, for every    *)
(* set of sources, digests, priorities and scores: it follows from the votes. *)
(***************************************************************************)
EXTENDS DecisionLease, Resolution, FiniteSetTheorems, SequenceTheorems, WellFoundedInduction, TLAPS

-----------------------------------------------------------------------------
(* The inductive invariant.                                                *)

RequestStates ==
    {Idle}
    \cup [at : {"lookup"}, key : Keys, store : 1..MaxStores]
    \cup [at : {"resolving"}, key : Keys, store : 1..MaxStores, after : SUBSET Commands]
    \cup [at : {"pulling", "putting"}, key : Keys, store : 1..MaxStores,
          after : SUBSET Commands, digest : Digests]

CliStates == [at : {"none", "pruning", "opened", "saved", "reloading", "done"},
              keys : SUBSET Keys, map : Maps, disturbed : BOOLEAN]

Stores == [1..MaxStores -> [entries : Maps, backed : BOOLEAN]]

ReloadStates == {"none", "clear", "clearprune", "clearing", "open", "pruning", "replace"}

Types ==
    /\ clock \in 0..MaxClock /\ pulled \subseteq Keys \X Digests
    /\ file \in Maps
    /\ stores \in Stores
    /\ serving \in 0..MaxStores /\ fresh \in 0..MaxStores
    /\ request \in [Requests -> RequestStates]
    /\ reload \in ReloadStates /\ held \in Maps
    /\ cli \in [Commands -> CliStates]

\* A reload has a place for its Store, a server that is down serves nobody, and a map
\* is held only from its reading to its writing.
Phases ==
    /\ (fresh # 0) <=> (reload = "replace")
    /\ reload \notin {"none", "replace"} => \E s \in 1..MaxStores : s \notin InUse
    /\ serving = 0 => \A r \in Requests : request[r] = Idle
    /\ reload \notin {"clearprune", "pruning"} => held = Empty
    /\ \A c \in Commands : cli[c].at \notin {"pruning", "opened"} => cli[c].map = Empty

\* An entry for k is that of a manifest pulled, and decided after every invalidation
\* of k that is reported done and that nobody disturbed.
Sound(k, e) == e # NoEntry => <<k, e.digest>> \in pulled /\ Firm(k) \subseteq e.after
SoundMap(map) == \A k \in Keys : Sound(k, map[k])

\* All entries are sound, wherever they are kept, and so is what a request will put.
Recordings ==
    /\ SoundMap(file) /\ SoundMap(held)
    /\ \A s \in 1..MaxStores : SoundMap(stores[s].entries)
    /\ \A c \in Commands : SoundMap(cli[c].map)
    /\ \A r \in Requests :
         /\ request[r].at = "putting" => <<request[r].key, request[r].digest>> \in pulled
         /\ request[r].at \in {"resolving", "pulling", "putting"} =>
               Firm(request[r].key) \subseteq request[r].after

\* As long as nobody has disturbed an invalidation, what it removed is in no map that
\* may still be written or put to use.
QuietOf(c) ==
    cli[c].at \in {"saved", "reloading"} /\ ~cli[c].disturbed =>
        /\ \A r \in Requests : request[r] = Idle
        /\ \A k \in cli[c].keys :
             /\ file[k] = NoEntry /\ held[k] = NoEntry
             /\ \A d \in Commands : cli[d].map[k] = NoEntry
             /\ cli[c].at = "reloading" /\ reload = "replace" =>
                    stores[fresh].entries[k] = NoEntry

Quiet == \A c \in Commands : QuietOf(c)

IInv == Types /\ Phases /\ Recordings /\ Quiet
-----------------------------------------------------------------------------
(* What the operators do.                                                  *)

LEMMA EmptyMap == Empty \in Maps /\ \A k \in Keys : Empty[k] = NoEntry
  BY DEF Empty, Maps

LEMMA PrunedMap ==
    ASSUME NEW map \in Maps
    PROVE  /\ Pruned(map) \in Maps
           /\ \A k \in Keys : Pruned(map)[k] \in {map[k], NoEntry}
  BY DEF Pruned, Maps

\* What is garbage afterwards is empty, all else is what it became.
LEMMA KeepStores ==
    ASSUME NEW new \in Stores, Keep(new)
    PROVE  /\ stores' \in Stores
           /\ \A s \in 1..MaxStores : stores'[s] = IF s \in InUse' THEN new[s] ELSE NoStore
  <1>1. NoStore \in [entries : Maps, backed : BOOLEAN]
    BY EmptyMap DEF NoStore
  <1>2. stores' = [s \in 1..MaxStores |-> IF s \in InUse' THEN new[s] ELSE NoStore]
    BY DEF Keep
  <1> HIDE DEF NoStore
  <1> QED BY <1>1, <1>2 DEF Stores

\* A Store and the file get the map that is saved, or stay as they are.
LEMMA SaveWrites ==
    ASSUME stores \in Stores, NEW s \in 1..MaxStores, NEW map \in Maps, Save(s, map)
    PROVE  /\ stores' \in Stores /\ file' \in {file, map}
           /\ \A t \in 1..MaxStores : stores'[t].entries \in {Empty, stores[t].entries, map}
  <1> DEFINE new == [stores EXCEPT ![s].entries = map]
  <1>1. new \in Stores /\ \A t \in 1..MaxStores : new[t].entries \in {stores[t].entries, map}
    BY DEF Stores
  <1>2. Keep(new) /\ file' \in {file, map}
    BY DEF Save
  <1> HIDE DEF new
  <1>3. /\ stores' \in Stores
        /\ \A t \in 1..MaxStores : stores'[t] = IF t \in InUse' THEN new[t] ELSE NoStore
    BY <1>1, <1>2, KeepStores
  <1>4. NoStore.entries = Empty
    BY DEF NoStore
  <1> HIDE DEF NoStore
  <1> QED BY <1>1, <1>2, <1>3, <1>4

\* What is known of a request at each of its steps.
LEMMA RequestFields ==
    ASSUME Types, NEW r \in Requests
    PROVE  /\ request[r] \in RequestStates
           /\ request[r].at = "idle" <=> request[r] = Idle
           /\ request[r] # Idle => request[r].key \in Keys /\ request[r].store \in 1..MaxStores
           /\ request[r].at \in {"resolving", "pulling", "putting"} =>
                 request[r].after \in SUBSET Commands
           /\ request[r].at \in {"pulling", "putting"} => request[r].digest \in Digests
  <1>1. request[r] \in RequestStates
    BY DEF Types
  <1> QED BY <1>1 DEF RequestStates, Idle

LEMMA CliFields ==
    ASSUME Types, NEW c \in Commands
    PROVE  /\ cli[c] \in CliStates /\ cli[c].keys \subseteq Keys
           /\ cli[c].disturbed \in BOOLEAN /\ cli[c].map \in Maps
  BY DEF Types, CliStates

LEMMA NoCliState ==
    /\ NoCli \in CliStates /\ NoCli.at = "none" /\ NoCli.map = Empty
  BY EmptyMap DEF NoCli, CliStates

\* What an invalidation has promised depends on who is done, and with which keys.
LEMMA FirmKept ==
    ASSUME \A c \in Commands : /\ cli'[c].at = "done" <=> cli[c].at = "done"
                               /\ cli[c].at = "done" => cli'[c].keys = cli[c].keys,
           NEW k
    PROVE  Firm(k)' = Firm(k)
  BY DEF Firm

-----------------------------------------------------------------------------
(* Steps that decide nothing: entries stay or go, and no request begins.   *)

\* What the next write of the file, or the next Store, may hold for k.
Now(k) == {NoEntry, file[k], held[k]} \cup {cli[c].map[k] : c \in Commands}

LEMMA SoundKept ==
    ASSUME IInv, pulled' = pulled,
           \A r \in Requests : request'[r] \in {request[r], Idle},
           \A k \in Keys : /\ file'[k] \in Now(k) /\ held'[k] \in Now(k)
                           /\ \A c \in Commands : cli'[c].map[k] \in Now(k),
           \A s \in 1..MaxStores, k \in Keys :
               stores'[s].entries[k] \in Now(k) \cup {stores[s].entries[k]},
           \A c \in Commands : /\ cli'[c].at = "done" <=> cli[c].at = "done"
                               /\ cli[c].at = "done" => cli'[c].keys = cli[c].keys
    PROVE  Recordings'
  <1>1. \A k : Firm(k)' = Firm(k)
    BY FirmKept
  <1>2. \A k \in Keys : \A e \in Now(k) : Sound(k, e)
    BY DEF IInv, Recordings, SoundMap, Now, Sound
  <1>3. \A k \in Keys : \A e \in Now(k) : (e # NoEntry => <<k, e.digest>> \in pulled' /\ Firm(k)' \subseteq e.after)
    BY <1>1, <1>2 DEF Sound
  <1>4. SoundMap(file)' /\ SoundMap(held)' /\ \A c \in Commands : SoundMap(cli[c].map)'
    BY <1>3 DEF SoundMap, Sound
  <1>5. ASSUME NEW s \in 1..MaxStores PROVE SoundMap(stores[s].entries)'
    <2>1. SoundMap(stores[s].entries)
      BY DEF IInv, Recordings
    <2> QED BY <1>1, <1>3, <2>1 DEF SoundMap, Sound
  <1>6. ASSUME NEW r \in Requests
        PROVE  /\ request'[r].at = "putting" => <<request'[r].key, request'[r].digest>> \in pulled'
               /\ request'[r].at \in {"resolving", "pulling", "putting"} =>
                      Firm(request[r].key)' \subseteq request'[r].after
    <2>1. CASE request'[r] = Idle
      BY <2>1 DEF Idle
    <2>2. CASE request'[r] = request[r]
      BY <1>1, <2>2 DEF IInv, Recordings
    <2> QED BY <2>1, <2>2
  <1> QED BY <1>4, <1>5, <1>6 DEF Recordings

LEMMA QuietKept ==
    ASSUME IInv,
           \A r \in Requests : request'[r] \in {request[r], Idle},
           \A k \in Keys : /\ file'[k] \in Now(k) /\ held'[k] \in Now(k)
                           /\ \A c \in Commands : cli'[c].map[k] \in Now(k),
           NEW c \in Commands,
           cli'[c].at \in {"saved", "reloading"} /\ ~cli'[c].disturbed =>
               /\ cli[c].at \in {"saved", "reloading"} /\ ~cli[c].disturbed
               /\ cli'[c].keys = cli[c].keys
               /\ reload' = "replace" => cli'[c].at = cli[c].at,
           reload' = "replace" => \A k \in Keys :
               \/ stores'[fresh'].entries[k] \in Now(k)
               \/ reload = "replace" /\ stores'[fresh'].entries[k] = stores[fresh].entries[k]
    PROVE  QuietOf(c)'
  <1> SUFFICES ASSUME cli'[c].at \in {"saved", "reloading"}, ~cli'[c].disturbed
               PROVE  /\ \A r \in Requests : request'[r] = Idle
                      /\ \A k \in cli'[c].keys :
                           /\ file'[k] = NoEntry /\ held'[k] = NoEntry
                           /\ \A d \in Commands : cli'[d].map[k] = NoEntry
                           /\ cli'[c].at = "reloading" /\ reload' = "replace" =>
                                  stores'[fresh'].entries[k] = NoEntry
    BY DEF QuietOf
  <1>1. /\ cli[c].at \in {"saved", "reloading"} /\ ~cli[c].disturbed
        /\ cli'[c].keys = cli[c].keys /\ cli[c].keys \subseteq Keys
        /\ reload' = "replace" => cli'[c].at = cli[c].at
    BY CliFields DEF IInv
  <1>2. \A r \in Requests : request'[r] = Idle
    BY <1>1 DEF IInv, Quiet, QuietOf
  <1>3. ASSUME NEW k \in cli[c].keys
        PROVE  /\ Now(k) = {NoEntry}
               /\ cli[c].at = "reloading" /\ reload = "replace" => stores[fresh].entries[k] = NoEntry
    BY <1>1 DEF IInv, Quiet, QuietOf, Now
  <1> QED BY <1>1, <1>2, <1>3

-----------------------------------------------------------------------------
(* Requests.                                                               *)

\* A step of a request disturbs the invalidations under way, and saves only what is
\* sound.
LEMMA RequestStep ==
    ASSUME IInv, NEW r \in Requests, NEW q \in RequestStates, NEW map \in Maps,
           q = Idle \/ q.store \in InUse,
           serving # 0,
           UNCHANGED <<clock, serving, fresh, reload, held>>,
           pulled \subseteq pulled', pulled' \subseteq Keys \X Digests,
           request' = [request EXCEPT ![r] = q],
           \A k \in Keys : map[k] # NoEntry =>
               <<k, map[k].digest>> \in pulled' /\ Firm(k) \subseteq map[k].after,
           file' \in {file, map},
           stores' \in Stores,
           \A s \in 1..MaxStores : stores'[s].entries \in {Empty, stores[s].entries, map},
           q.at = "putting" => <<q.key, q.digest>> \in pulled',
           q.at \in {"resolving", "pulling", "putting"} => Firm(q.key) \subseteq q.after,
           cli' \in [Commands -> CliStates],
           \A c \in Commands :
               /\ cli'[c].at = cli[c].at /\ cli'[c].keys = cli[c].keys /\ cli'[c].map = cli[c].map
               /\ cli[c].at \in {"saved", "reloading"} => cli'[c].disturbed
    PROVE  IInv'
  <1>1. \A k : Firm(k)' = Firm(k)
    BY FirmKept
  <1>2. Types'
    <2>1. file' \in Maps
      BY DEF IInv, Types
    <2>2. request' \in [Requests -> RequestStates]
      BY DEF IInv, Types
    <2> QED BY <2>1, <2>2 DEF IInv, Types
  <1>3. \A x \in Requests : request'[x] = IF x = r THEN q ELSE request[x]
    BY DEF IInv, Types
  <1>4. Phases'
    <2>1. InUse' \subseteq InUse
      BY <1>3 DEF InUse
    <2>2. \A c \in Commands : cli'[c].at \notin {"pruning", "opened"} => cli'[c].map = Empty
      BY DEF IInv, Phases
    <2>3. Empty' = Empty
      BY DEF Empty
    <2>4. /\ (fresh' # 0) <=> (reload' = "replace")
          /\ reload' \notin {"none", "replace"} => \E s \in 1..MaxStores : s \notin InUse'
          /\ reload' \notin {"clearprune", "pruning"} => held' = Empty
      BY <2>1 DEF IInv, Phases
    <2> QED BY <2>2, <2>3, <2>4 DEF Phases
  <1>5. Recordings'
    <2>1. SoundMap(file)' /\ SoundMap(held)'
      BY <1>1 DEF IInv, Recordings, SoundMap, Sound
    <2>2. ASSUME NEW s \in 1..MaxStores PROVE SoundMap(stores[s].entries)'
      <3>1. stores'[s].entries \in {Empty, stores[s].entries, map}
        OBVIOUS
      <3>2. SoundMap(stores[s].entries)
        BY DEF IInv, Recordings
      <3> QED BY <1>1, <3>1, <3>2, EmptyMap DEF SoundMap, Sound
    <2>3. ASSUME NEW c \in Commands PROVE SoundMap(cli[c].map)'
      BY <1>1 DEF IInv, Recordings, SoundMap, Sound
    <2>4. ASSUME NEW x \in Requests
          PROVE  /\ request'[x].at = "putting" =>
                        <<request'[x].key, request'[x].digest>> \in pulled'
                 /\ request'[x].at \in {"resolving", "pulling", "putting"} =>
                        Firm(request[x].key)' \subseteq request'[x].after
      BY <1>1, <1>3 DEF IInv, Recordings
    <2> QED BY <2>1, <2>2, <2>3, <2>4 DEF Recordings
  <1>6. Quiet'
    BY DEF Quiet, QuietOf
  <1> QED BY <1>2, <1>4, <1>5, <1>6 DEF IInv

\* A request that is under way has disturbed every invalidation.
LEMMA Disturbed ==
    ASSUME IInv, NEW r \in Requests, request[r] # Idle
    PROVE  /\ serving # 0
           /\ \A c \in Commands : cli[c].at \in {"saved", "reloading"} => cli[c].disturbed
  BY CliFields DEF IInv, Phases, Quiet, QuietOf

LEMMA ManifestStep ==
    ASSUME IInv, Manifest
    PROVE  IInv'
  <1> USE DEF IInv
  <1>0. /\ Types /\ stores \in Stores /\ file \in Maps
        /\ pulled \subseteq Keys \X Digests /\ clock \in 0..MaxClock
        /\ cli \in [Commands -> CliStates]
    BY DEF Types
  <1>1. ASSUME NEW r \in Requests, request[r] # Idle
        PROVE  /\ request[r].key \in Keys /\ request[r].store \in 1..MaxStores
               /\ request[r].store \in InUse /\ serving # 0
               /\ stores[request[r].store].entries \in Maps
               /\ SoundMap(stores[request[r].store].entries)
               /\ \A c \in Commands : cli[c].at \in {"saved", "reloading"} => cli[c].disturbed
    <2>1. request[r].key \in Keys /\ request[r].store \in 1..MaxStores
      BY <1>0, <1>1, RequestFields
    <2>2. request[r].store \in InUse
      BY <1>1, <2>1 DEF InUse
    <2>3. stores[request[r].store].entries \in Maps
      BY <1>0, <2>1 DEF Stores
    <2>4. SoundMap(stores[request[r].store].entries)
      BY <2>1 DEF Recordings
    <2> QED BY <1>1, <2>1, <2>2, <2>3, <2>4, Disturbed
  <1>2. ASSUME NEW r \in Requests, NEW k \in Keys, Begin(r, k) PROVE IInv'
    <2> DEFINE q == [at |-> "lookup", key |-> k, store |-> serving]
    <2>1. q \in RequestStates /\ q.store \in InUse /\ q.at = "lookup" /\ serving # 0
      BY <1>2, <1>0 DEF Begin, RequestStates, Types, InUse
    <2>2. /\ UNCHANGED <<clock, serving, fresh, reload, held, pulled, file, stores>>
          /\ request' = [request EXCEPT ![r] = q]
      BY <1>2 DEF Begin, server
    <2>3. /\ cli' = [c \in Commands |-> IF cli[c].at \in {"saved", "reloading"}
                                        THEN [cli[c] EXCEPT !.disturbed = TRUE] ELSE cli[c]]
      BY <1>2 DEF Begin
    <2>4. ASSUME NEW c \in Commands
          PROVE  /\ cli'[c] \in CliStates
                 /\ cli'[c].at = cli[c].at /\ cli'[c].keys = cli[c].keys /\ cli'[c].map = cli[c].map
                 /\ cli[c].at \in {"saved", "reloading"} => cli'[c].disturbed
      <3>1. cli[c] \in CliStates
        BY <1>0
      <3>2. cli'[c] = IF cli[c].at \in {"saved", "reloading"}
                      THEN [cli[c] EXCEPT !.disturbed = TRUE] ELSE cli[c]
        BY <2>3
      <3> QED BY <3>1, <3>2 DEF CliStates
    <2>5. cli' \in [Commands -> CliStates]
      BY <2>3, <2>4
    <2> HIDE DEF q
    <2> QED BY <1>0, <2>1, <2>2, <2>4, <2>5, EmptyMap, RequestStep
  <1>3. ASSUME NEW r \in Requests, LookupHit(r) \/ EndRequest(r) PROVE IInv'
    <2>1. request[r] # Idle
      BY <1>3, <1>0, RequestFields DEF LookupHit, EndRequest
    <2>2. /\ UNCHANGED <<clock, serving, fresh, reload, held, pulled, file, cli>>
          /\ request' = [request EXCEPT ![r] = Idle]
          /\ Keep(stores)
      BY <1>3 DEF LookupHit, EndRequest
    <2>3. /\ stores' \in Stores
          /\ \A t \in 1..MaxStores : stores'[t].entries \in {Empty, stores[t].entries}
      BY <1>0, <2>2, KeepStores DEF NoStore
    <2>4. Idle \in RequestStates /\ Idle.at = "idle"
      BY DEF RequestStates, Idle
    <2> QED BY <1>0, <1>1, <2>1, <2>2, <2>3, <2>4, EmptyMap, RequestStep
  <1>4. ASSUME NEW r \in Requests, LookupMiss(r) PROVE IInv'
    <2> DEFINE q == [at |-> "resolving", key |-> request[r].key, store |-> request[r].store,
                     after |-> Firm(request[r].key)]
               map == [stores[request[r].store].entries EXCEPT ![request[r].key] = NoEntry]
    <2>1. request[r] # Idle
      BY <1>4, <1>0, RequestFields DEF LookupMiss
    <2>2. /\ q \in RequestStates /\ q.store \in InUse /\ q.at = "resolving"
          /\ Firm(q.key) \subseteq q.after
      BY <1>0, <1>1, <2>1 DEF RequestStates, Firm
    <2>3. /\ UNCHANGED <<clock, serving, fresh, reload, held, pulled, cli>>
          /\ request' = [request EXCEPT ![r] = q]
      BY <1>4 DEF LookupMiss
    <2>4. /\ map \in Maps
          /\ \A k \in Keys : map[k] # NoEntry =>
                <<k, map[k].digest>> \in pulled' /\ Firm(k) \subseteq map[k].after
      BY <1>1, <2>1, <2>3 DEF Maps, SoundMap, Sound
    <2>5. UNCHANGED <<stores, file>> \/ Save(request[r].store, map)
      BY <1>4 DEF LookupMiss
    <2> HIDE DEF q, map
    <2>6. /\ stores' \in Stores /\ file' \in {file, map}
          /\ \A t \in 1..MaxStores : stores'[t].entries \in {Empty, stores[t].entries, map}
      BY <1>0, <1>1, <2>1, <2>4, <2>5, SaveWrites
    <2> QED BY <1>0, <1>1, <2>1, <2>2, <2>3, <2>4, <2>6, RequestStep
  <1>5. ASSUME NEW r \in Requests, NEW digest \in Digests, Resolve(r, digest) PROVE IInv'
    <2> DEFINE q == [at |-> "pulling", key |-> request[r].key, store |-> request[r].store,
                     after |-> request[r].after, digest |-> digest]
    <2>1. request[r] # Idle /\ request[r].at = "resolving" /\ request[r].after \in SUBSET Commands
      BY <1>5, <1>0, RequestFields DEF Resolve
    <2>2. /\ q \in RequestStates /\ q.store \in InUse /\ q.at = "pulling"
          /\ Firm(q.key) \subseteq q.after
      BY <1>0, <1>1, <2>1 DEF RequestStates, Recordings
    <2>3. /\ UNCHANGED <<clock, serving, fresh, reload, held, pulled, file, stores, cli>>
          /\ request' = [request EXCEPT ![r] = q]
      BY <1>5 DEF Resolve, server
    <2> HIDE DEF q
    <2> QED BY <1>0, <1>1, <2>1, <2>2, <2>3, EmptyMap, RequestStep
  <1>6. ASSUME NEW r \in Requests, Pull(r) PROVE IInv'
    <2> DEFINE q == [request[r] EXCEPT !.at = "putting"]
    <2>1. /\ request[r] # Idle /\ request[r].at = "pulling"
          /\ request[r].digest \in Digests /\ request[r] \in RequestStates
      BY <1>6, <1>0, RequestFields DEF Pull
    <2>2. pulled' = pulled \cup {<<request[r].key, request[r].digest>>}
      BY <1>6 DEF Pull
    <2>3. /\ q \in RequestStates /\ q.at = "putting" /\ q.key = request[r].key
          /\ q.store = request[r].store /\ q.digest = request[r].digest /\ q.after = request[r].after
      BY <2>1 DEF RequestStates, Idle
    <2>4. /\ q.store \in InUse /\ Firm(q.key) \subseteq q.after /\ <<q.key, q.digest>> \in pulled'
          /\ pulled \subseteq pulled' /\ pulled' \subseteq Keys \X Digests
      <3> HIDE DEF q
      <3>1. request[r].key \in Keys /\ Firm(request[r].key) \subseteq request[r].after
        BY <1>1, <2>1 DEF Recordings
      <3>2. q.store \in InUse
        BY <1>1, <2>1, <2>3
      <3> QED BY <1>0, <2>1, <2>2, <2>3, <3>1, <3>2
    <2>5. /\ UNCHANGED <<clock, serving, fresh, reload, held, file, stores, cli>>
          /\ request' = [request EXCEPT ![r] = q]
      BY <1>6 DEF Pull, server
    <2> HIDE DEF q
    <2> QED BY <1>0, <1>1, <2>1, <2>3, <2>4, <2>5, EmptyMap, RequestStep
  <1>7. ASSUME NEW r \in Requests, Put(r) PROVE IInv'
    <2> DEFINE e == [digest |-> request[r].digest, until |-> clock + Lease,
                     after |-> request[r].after]
               map == [stores[request[r].store].entries EXCEPT ![request[r].key] = e]
    <2>1. /\ request[r] # Idle /\ request[r].at = "putting"
          /\ request[r].digest \in Digests /\ request[r].after \in SUBSET Commands
          /\ <<request[r].key, request[r].digest>> \in pulled
          /\ Firm(request[r].key) \subseteq request[r].after
      BY <1>7, <1>0, RequestFields DEF Put, Recordings
    <2>2. e \in Entries /\ e.digest = request[r].digest /\ e.after = request[r].after
      BY <1>0, <2>1, LeaseAssumption DEF Entries
    <2>3. /\ UNCHANGED <<clock, serving, fresh, reload, held, pulled, cli>>
          /\ request' = [request EXCEPT ![r] = Idle]
          /\ Save(request[r].store, map)
      BY <1>7 DEF Put
    <2> HIDE DEF e
    <2>4. /\ map \in Maps
          /\ \A k \in Keys : map[k] # NoEntry =>
                <<k, map[k].digest>> \in pulled' /\ Firm(k) \subseteq map[k].after
      BY <1>1, <2>1, <2>2, <2>3 DEF Maps, SoundMap, Sound
    <2> HIDE DEF map
    <2>5. /\ stores' \in Stores /\ file' \in {file, map}
          /\ \A t \in 1..MaxStores : stores'[t].entries \in {Empty, stores[t].entries, map}
      BY <1>0, <1>1, <2>1, <2>3, <2>4, SaveWrites
    <2>6. Idle \in RequestStates /\ Idle.at = "idle"
      BY DEF RequestStates, Idle
    <2> QED BY <1>0, <1>1, <2>1, <2>3, <2>4, <2>5, <2>6, RequestStep
  <1> QED BY <1>2, <1>3, <1>4, <1>5, <1>6, <1>7 DEF Manifest

-----------------------------------------------------------------------------
(* The reload, the invalidations and the world.                            *)

\* A step that leaves the invalidations alone, or lets some fail.
LEMMA CliDropped ==
    ASSUME IInv, \A c \in Commands : cli'[c] = cli[c] \/ (cli[c].at # "done" /\ cli'[c] = NoCli),
           cli' = [c \in Commands |-> cli'[c]]
    PROVE  /\ cli' \in [Commands -> CliStates]
           /\ \A c \in Commands :
                /\ cli'[c].at \notin {"pruning", "opened"} => cli'[c].map = Empty
                /\ \A k \in Keys : cli'[c].map[k] \in Now(k)
                /\ cli'[c].at = "done" <=> cli[c].at = "done"
                /\ cli[c].at = "done" => cli'[c].keys = cli[c].keys
                /\ cli'[c].at \in {"saved", "reloading"} => cli'[c] = cli[c]
  <1>1. cli' \in [Commands -> CliStates]
    BY NoCliState DEF IInv, Types
  <1>2. ASSUME NEW c \in Commands
        PROVE  /\ cli'[c].at \notin {"pruning", "opened"} => cli'[c].map = Empty
               /\ \A k \in Keys : cli'[c].map[k] \in Now(k)
               /\ cli'[c].at = "done" <=> cli[c].at = "done"
               /\ cli[c].at = "done" => cli'[c].keys = cli[c].keys
               /\ cli'[c].at \in {"saved", "reloading"} => cli'[c] = cli[c]
    <2>1. CASE cli'[c] = cli[c]
      BY <2>1 DEF IInv, Phases, Now
    <2>2. CASE cli[c].at # "done" /\ cli'[c] = NoCli
      BY <2>2, NoCliState, EmptyMap DEF Now
    <2> QED BY <2>1, <2>2
  <1> QED BY <1>1, <1>2

\* The place for a Store exists as long as not all are taken.
LEMMA UnusedPlace ==
    ASSUME \E s \in 1..MaxStores : s \notin InUse
    PROVE  Unused \in 1..MaxStores
  BY DEF Unused

\* The next Store is on the map that was read, or in memory.
LEMMA OpenedStore ==
    ASSUME stores \in Stores, Unused \in 1..MaxStores, NEW map \in Maps, NEW b \in BOOLEAN,
           NewStore(map, b)
    PROVE  /\ stores' \in Stores /\ fresh' \in 1..MaxStores /\ reload' = "replace"
           /\ stores'[fresh'].entries = map
           /\ \A s \in 1..MaxStores : stores'[s].entries \in {stores[s].entries, map}
  BY DEF NewStore, Stores

\* A step of the reload, up to the one that puts the new Router to use.
LEMMA ServerStep ==
    ASSUME IInv, UNCHANGED <<clock, pulled, serving, request>>,
           reload' \in ReloadStates, fresh' \in 0..MaxStores, (fresh' # 0) <=> (reload' = "replace"),
           reload' \notin {"none", "replace"} => \E s \in 1..MaxStores : s \notin InUse',
           file' \in Maps, held' \in Maps, stores' \in Stores,
           reload' \notin {"clearprune", "pruning"} => held' = Empty,
           \A k \in Keys : file'[k] \in Now(k) /\ held'[k] \in Now(k),
           \A s \in 1..MaxStores, k \in Keys :
               stores'[s].entries[k] \in Now(k) \cup {stores[s].entries[k]},
           reload' = "replace" => \A k \in Keys : stores'[fresh'].entries[k] \in Now(k),
           \A c \in Commands : cli'[c] = cli[c] \/ (cli[c].at # "done" /\ cli'[c] = NoCli),
           cli' = [c \in Commands |-> cli'[c]]
    PROVE  IInv'
  <1>1. /\ cli' \in [Commands -> CliStates]
        /\ \A c \in Commands :
             /\ cli'[c].at \notin {"pruning", "opened"} => cli'[c].map = Empty
             /\ \A k \in Keys : cli'[c].map[k] \in Now(k)
             /\ cli'[c].at = "done" <=> cli[c].at = "done"
             /\ cli[c].at = "done" => cli'[c].keys = cli[c].keys
             /\ cli'[c].at \in {"saved", "reloading"} => cli'[c] = cli[c]
    BY CliDropped
  <1>2. Types'
    BY <1>1 DEF IInv, Types
  <1>3. Phases'
    <2>1. Empty' = Empty
      BY DEF Empty
    <2> QED BY <1>1, <2>1 DEF IInv, Phases
  <1>4. Recordings'
    BY <1>1, SoundKept
  <1>5. Quiet'
    <2>1. ASSUME NEW c \in Commands PROVE QuietOf(c)'
      BY <1>1, QuietKept
    <2> QED BY <2>1 DEF Quiet
  <1> QED BY <1>2, <1>3, <1>4, <1>5 DEF IInv

LEMMA ReloadStep ==
    ASSUME IInv, Reload, ~ReloadReplace
    PROVE  IInv'
  <1> USE DEF IInv
  <1>0. /\ Types /\ stores \in Stores /\ file \in Maps /\ held \in Maps
        /\ cli \in [Commands -> CliStates]
        /\ fresh \in 0..MaxStores /\ serving \in 0..MaxStores /\ reload \in ReloadStates
        /\ (fresh # 0) <=> (reload = "replace")
        /\ reload \notin {"clearprune", "pruning"} => held = Empty
    BY DEF Types, Phases
  <1>1. \A k \in Keys : {NoEntry, file[k], held[k], Empty[k]} \subseteq Now(k)
    BY EmptyMap DEF Now
  <1>2. InUse \subseteq 1..MaxStores
    BY <1>0, RequestFields DEF InUse
  <1>3. /\ Pruned(file) \in Maps /\ \A k \in Keys : Pruned(file)[k] \in Now(k)
    BY <1>0, PrunedMap DEF Now
  <1>4. ASSUME reload \notin {"none", "replace"}, UNCHANGED <<serving, fresh, request>>
        PROVE  \E s \in 1..MaxStores : s \notin InUse'
    BY <1>4 DEF Phases, InUse
  <1>5. ASSUME NEW changed \in BOOLEAN, BeginReload(changed) PROVE IInv'
    <2>1. /\ UNCHANGED <<clock, pulled, file, stores, serving, fresh, request, held, cli>>
          /\ reload = "none" /\ InUse # 1..MaxStores /\ reload' \in {"clear", "open"}
      BY <1>5 DEF BeginReload, server
    <2>2. InUse' = InUse /\ \E s \in 1..MaxStores : s \notin InUse
      BY <1>2, <2>1 DEF InUse
    <2> QED BY <1>0, <1>1, <2>1, <2>2, ServerStep DEF ReloadStates
  <1>6. CASE ReloadClear
    <2>1. /\ UNCHANGED <<clock, pulled, file, stores, serving, fresh, request, cli>>
          /\ reload = "clear"
          /\ \/ reload' = "clearprune" /\ held' = Pruned(file)
             \/ reload' \in {"clearing", "open"} /\ held' = held
      BY <1>6 DEF ReloadClear, Opens, server
    <2> QED BY <1>0, <1>1, <1>3, <1>4, <2>1, ServerStep DEF ReloadStates
  <1>7. CASE ClearPrunes \/ Clear
    <2>1. /\ UNCHANGED <<clock, pulled, stores, serving, fresh, request, cli>>
          /\ reload \in {"clearprune", "clearing"} /\ reload' \in {"clearing", "open"}
          /\ held' = Empty /\ file' \in {file, held, Empty}
      BY <1>0, <1>7 DEF ClearPrunes, Clear, server
    <2> QED BY <1>0, <1>1, <1>4, <2>1, EmptyMap, ServerStep DEF ReloadStates
  <1>8. CASE ReloadOpen \/ ReloadPrunes
    <2>1. /\ UNCHANGED <<clock, pulled, serving, request, cli>>
          /\ reload \in {"open", "pruning"} /\ file' \in {file, held}
          /\ \/ /\ reload' = "pruning" /\ held' = Pruned(file)
                /\ UNCHANGED <<stores, fresh>>
             \/ /\ held' = Empty
                /\ \E map \in {file, held, Empty}, b \in BOOLEAN : NewStore(map, b)
      <3>1. CASE ReloadOpen
        BY <1>0, <3>1 DEF ReloadOpen, Opens
      <3>2. CASE ReloadPrunes
        BY <1>0, <3>2 DEF ReloadPrunes
      <3> QED BY <1>8, <3>1, <3>2
    <2>2. CASE reload' = "pruning" /\ held' = Pruned(file) /\ UNCHANGED <<stores, fresh>>
      BY <1>0, <1>1, <1>3, <1>4, <2>1, <2>2, ServerStep DEF ReloadStates
    <2>3. ASSUME NEW map \in {file, held, Empty}, NEW b \in BOOLEAN, NewStore(map, b), held' = Empty
          PROVE  IInv'
      <3>1. Unused \in 1..MaxStores
        BY <2>1, UnusedPlace DEF Phases
      <3>2. map \in Maps /\ \A k \in Keys : map[k] \in Now(k)
        BY <1>0, <1>1, EmptyMap
      <3>3. /\ stores' \in Stores /\ fresh' \in 1..MaxStores /\ reload' = "replace"
            /\ stores'[fresh'].entries = map
            /\ \A s \in 1..MaxStores : stores'[s].entries \in {stores[s].entries, map}
        BY <1>0, <2>3, <3>1, <3>2, OpenedStore
      <3>4. fresh' \in 0..MaxStores /\ fresh' # 0
        BY <3>3, LeaseAssumption
      <3>5. \A s \in 1..MaxStores, k \in Keys :
               stores'[s].entries[k] \in Now(k) \cup {stores[s].entries[k]}
        BY <3>2, <3>3
      <3> QED BY <1>0, <1>1, <2>1, <2>3, <3>2, <3>3, <3>4, <3>5, EmptyMap, ServerStep DEF ReloadStates
    <2> QED BY <2>1, <2>2, <2>3
  <1>9. CASE ReloadFails
    <2>1. /\ UNCHANGED <<clock, pulled, file, stores, serving, fresh, request, held>>
          /\ reload \in {"clear", "clearing", "open"} /\ reload' = "none"
          /\ cli' = [c \in Commands |-> IF cli[c].at = "reloading" THEN NoCli ELSE cli[c]]
      BY <1>9 DEF ReloadFails, server
    <2>2. /\ cli' = [c \in Commands |-> cli'[c]]
          /\ \A c \in Commands : cli'[c] = cli[c] \/ (cli[c].at # "done" /\ cli'[c] = NoCli)
      BY <2>1
    <2> QED BY <1>0, <1>1, <2>1, <2>2, ServerStep DEF ReloadStates
  <1> QED BY <1>5, <1>6, <1>7, <1>8, <1>9 DEF Reload

\* The report of an undisturbed invalidation finds nothing left of what it removed.
LEMMA ReplaceStep ==
    ASSUME IInv, ReloadReplace
    PROVE  IInv'
  <1> USE DEF IInv
  <1>0. /\ Types /\ stores \in Stores /\ cli \in [Commands -> CliStates]
        /\ fresh \in 0..MaxStores /\ fresh # 0
        /\ Phases /\ held = Empty
    BY DEF Types, Phases, ReloadReplace
  <1>1. /\ UNCHANGED <<clock, pulled, file, request, held>>
        /\ reload = "replace" /\ reload' = "none" /\ serving' = fresh /\ fresh' = 0
        /\ Keep(stores)
        /\ cli' = [c \in Commands |-> IF cli[c].at # "reloading" THEN cli[c]
                                      ELSE IF cli[c].disturbed THEN NoCli
                                      ELSE [cli[c] EXCEPT !.at = "done"]]
    BY DEF ReloadReplace
  <1>2. /\ stores' \in Stores
        /\ \A s \in 1..MaxStores : stores'[s] = IF s \in InUse' THEN stores[s] ELSE NoStore
    BY <1>0, <1>1, KeepStores
  <1>3. \A s \in 1..MaxStores, k \in Keys :
           stores'[s].entries[k] \in {stores[s].entries[k], NoEntry}
    BY <1>2, EmptyMap DEF NoStore
  <1>4. ASSUME NEW c \in Commands
        PROVE  /\ cli'[c] \in CliStates
               /\ cli'[c].map \in {cli[c].map, Empty}
               /\ cli'[c].at \notin {"pruning", "opened"} => cli'[c].map = Empty
               /\ cli'[c].at \in {"saved", "reloading"} => cli'[c] = cli[c] /\ cli[c].at = "saved"
               /\ cli'[c].at = "done" => /\ cli'[c].keys = cli[c].keys
                                         /\ \/ cli[c].at = "done"
                                            \/ cli[c].at = "reloading" /\ ~cli[c].disturbed
    <2>1. cli[c] \in CliStates /\ (cli[c].at \notin {"pruning", "opened"} => cli[c].map = Empty)
      BY <1>0 DEF Phases
    <2>2. CASE cli[c].at # "reloading"
      BY <1>1, <2>1, <2>2
    <2>3. CASE cli[c].at = "reloading" /\ cli[c].disturbed
      <3>1. cli'[c] = NoCli
        BY <1>1, <2>3
      <3> QED BY <3>1, NoCliState
    <2>4. CASE cli[c].at = "reloading" /\ ~cli[c].disturbed
      <3>1. cli'[c] = [cli[c] EXCEPT !.at = "done"]
        BY <1>1, <2>4
      <3>2. /\ cli'[c] \in CliStates /\ cli'[c].at = "done"
            /\ cli'[c].map = cli[c].map /\ cli'[c].keys = cli[c].keys
        BY <2>1, <3>1 DEF CliStates
      <3> QED BY <2>1, <2>4, <3>2
    <2> QED BY <2>2, <2>3, <2>4
  <1>5. Types'
    <2>1. serving' \in 0..MaxStores /\ fresh' \in 0..MaxStores /\ reload' \in ReloadStates
      BY <1>0, <1>1, LeaseAssumption DEF ReloadStates
    <2>2. cli' \in [Commands -> CliStates]
      BY <1>1, <1>4
    <2> QED BY <1>1, <1>2, <2>1, <2>2 DEF Types
  <1>6. Phases'
    <2>1. Empty' = Empty
      BY DEF Empty
    <2> QED BY <1>0, <1>1, <1>4, <2>1 DEF Phases
  <1>7. ASSUME NEW k \in Keys, ~(Firm(k)' \subseteq Firm(k))
        PROVE  /\ \A r \in Requests : request'[r] = Idle
               /\ file'[k] = NoEntry /\ held'[k] = NoEntry
               /\ \A c \in Commands : cli'[c].map[k] = NoEntry
               /\ \A s \in 1..MaxStores : stores'[s].entries[k] = NoEntry
    <2>1. PICK c \in Commands : cli[c].at = "reloading" /\ ~cli[c].disturbed /\ k \in cli[c].keys
      BY <1>4, <1>7 DEF Firm
    <2>2. /\ \A r \in Requests : request[r] = Idle
          /\ file[k] = NoEntry /\ held[k] = NoEntry /\ stores[fresh].entries[k] = NoEntry
          /\ \A d \in Commands : cli[d].map[k] = NoEntry
      BY <1>1, <2>1 DEF Quiet, QuietOf
    <2>3. InUse' = {fresh}
      BY <1>0, <1>1, <2>2 DEF InUse
    <2>4. \A s \in 1..MaxStores : stores'[s].entries[k] = NoEntry
      BY <1>2, <2>2, <2>3, EmptyMap DEF NoStore
    <2>5. ASSUME NEW d \in Commands PROVE cli'[d].map[k] = NoEntry
      <3>1. cli'[d].map \in {cli[d].map, Empty}
        BY <1>4
      <3> QED BY <2>2, <3>1, EmptyMap
    <2> QED BY <1>1, <2>2, <2>4, <2>5
  <1>8. \A k \in Keys : /\ Sound(k, file[k]) /\ Sound(k, held[k])
                        /\ \A c \in Commands : Sound(k, cli[c].map[k])
                        /\ \A s \in 1..MaxStores : Sound(k, stores[s].entries[k])
    BY DEF Recordings, SoundMap
  <1>9. ASSUME NEW k \in Keys
        PROVE  /\ Sound(k, file[k])' /\ Sound(k, held[k])'
               /\ \A c \in Commands : Sound(k, cli[c].map[k])'
               /\ \A s \in 1..MaxStores : Sound(k, stores[s].entries[k])'
    <2>1. CASE Firm(k)' \subseteq Firm(k)
      <3>1. \A e : Sound(k, e) => (e # NoEntry => <<k, e.digest>> \in pulled' /\ Firm(k)' \subseteq e.after)
        BY <1>1, <2>1 DEF Sound
      <3>2. \A c \in Commands : Sound(k, cli'[c].map[k])
        <4>1. Sound(k, NoEntry) /\ Empty[k] = NoEntry
          BY EmptyMap DEF Sound
        <4> QED BY <1>4, <1>8, <4>1
      <3>3. \A s \in 1..MaxStores : Sound(k, stores'[s].entries[k])
        BY <1>3, <1>8 DEF Sound
      <3>4. Sound(k, file'[k]) /\ Sound(k, held'[k])
        BY <1>1, <1>8
      <3> QED BY <3>1, <3>2, <3>3, <3>4 DEF Sound
    <2>2. CASE ~(Firm(k)' \subseteq Firm(k))
      BY <1>7, <2>2 DEF Sound
    <2> QED BY <2>1, <2>2
  <1>10. ASSUME NEW r \in Requests
         PROVE  /\ request'[r].at = "putting" => <<request'[r].key, request'[r].digest>> \in pulled'
                /\ request'[r].at \in {"resolving", "pulling", "putting"} =>
                       Firm(request[r].key)' \subseteq request'[r].after
    <2>1. CASE request[r] = Idle
      BY <1>1, <2>1 DEF Idle
    <2>2. CASE request[r] # Idle
      <3>1. request[r].key \in Keys
        BY <1>0, <2>2, RequestFields
      <3>2. Firm(request[r].key)' \subseteq Firm(request[r].key)
        BY <1>1, <1>7, <2>2, <3>1
      <3> QED BY <1>1, <3>2 DEF Recordings
    <2> QED BY <2>1, <2>2
  <1>11. Recordings'
    BY <1>9, <1>10 DEF Recordings, SoundMap
  <1>12. Quiet'
    <2>1. \A k \in Keys : /\ file'[k] \in Now(k) /\ held'[k] \in Now(k)
                          /\ \A c \in Commands : cli'[c].map[k] \in Now(k)
      BY <1>1, <1>4, EmptyMap DEF Now
    <2>2. ASSUME NEW c \in Commands PROVE QuietOf(c)'
      BY <1>1, <1>4, <2>1, QuietKept
    <2> QED BY <2>2 DEF Quiet
  <1> QED BY <1>5, <1>6, <1>11, <1>12

\* A step of one invalidation that is neither its write nor its report.
LEMMA CliStep ==
    ASSUME IInv, UNCHANGED <<clock, pulled, stores, serving, fresh, request, held>>,
           NEW c \in Commands, NEW state \in CliStates, CliSet(c, state),
           cli[c].at # "done", state.at # "done",
           state.at \notin {"pruning", "opened"} => state.map = Empty,
           \A k \in Keys : state.map[k] \in Now(k),
           file' \in Maps, \A k \in Keys : file'[k] \in Now(k),
           state.at \in {"saved", "reloading"} /\ ~state.disturbed =>
               /\ cli[c].at = "saved" /\ ~cli[c].disturbed /\ state.keys = cli[c].keys
               /\ reload' # "replace",
           \/ UNCHANGED reload
           \/ /\ reload = "none" /\ reload' \in {"clear", "open"}
              /\ \E s \in 1..MaxStores : s \notin InUse
    PROVE  IInv'
  <1>1. \A d \in Commands : cli'[d] = IF d = c THEN state ELSE cli[d]
    BY DEF CliSet, IInv, Types
  <1>2. Types'
    BY DEF CliSet, IInv, Types, ReloadStates
  <1>3. Phases'
    <2>1. Empty' = Empty /\ InUse' = InUse
      BY DEF Empty, InUse
    <2> QED BY <1>1, <2>1 DEF IInv, Phases
  <1>4. \A k \in Keys, d \in Commands : cli'[d].map[k] \in Now(k)
    BY <1>1 DEF Now
  <1>5. \A k \in Keys : held'[k] \in Now(k)
    BY DEF Now
  <1>6. Recordings'
    BY <1>1, <1>4, <1>5, SoundKept
  <1>7. Quiet'
    <2>1. ASSUME NEW d \in Commands PROVE QuietOf(d)'
      <3>1. reload' = "replace" => reload = "replace" /\ \A k \in Keys :
                stores'[fresh'].entries[k] = stores[fresh].entries[k]
        OBVIOUS
      <3>2. cli'[d].at \in {"saved", "reloading"} /\ ~cli'[d].disturbed =>
               /\ cli[d].at \in {"saved", "reloading"} /\ ~cli[d].disturbed
               /\ cli'[d].keys = cli[d].keys
               /\ reload' = "replace" => cli'[d].at = cli[d].at
        BY <1>1
      <3> QED BY <1>4, <1>5, <3>1, <3>2, QuietKept
    <2> QED BY <2>1 DEF Quiet
  <1> QED BY <1>2, <1>3, <1>6, <1>7 DEF IInv

\* The write of an invalidation that finds nobody at work leaves its keys nowhere.
LEMMA WriteStep ==
    ASSUME IInv, NEW c \in Commands, CliSave(c)
    PROVE  IInv'
  <1> USE DEF IInv
  <1> DEFINE state == [cli[c] EXCEPT !.at = "saved", !.map = Empty, !.disturbed = OthersAtWork(c)]
  <1>1. /\ UNCHANGED <<clock, pulled, stores, serving, fresh, request, reload, held>>
        /\ cli[c].at = "opened" /\ cli' = [cli EXCEPT ![c] = state]
        /\ file' = [k \in Keys |-> IF k \in cli[c].keys THEN NoEntry ELSE cli[c].map[k]]
    BY DEF CliSave, CliSet, server
  <1>2. /\ Types /\ cli \in [Commands -> CliStates] /\ cli[c] \in CliStates /\ cli[c].map \in Maps
    BY CliFields DEF Types
  <1>3. OthersAtWork(c) \in BOOLEAN
    BY DEF OthersAtWork
  <1>4. /\ state \in CliStates /\ state.at = "saved" /\ state.map = Empty
        /\ state.keys = cli[c].keys /\ state.disturbed = OthersAtWork(c)
    BY <1>2, <1>3, EmptyMap DEF CliStates
  <1> HIDE DEF state
  <1>5. \A d \in Commands : cli'[d] = IF d = c THEN state ELSE cli[d]
    BY <1>1, <1>2
  <1>6. file' \in Maps
    BY <1>1, <1>2 DEF Maps
  <1>7. Types'
    BY <1>1, <1>2, <1>4, <1>6 DEF Types
  <1>8. Phases'
    <2>1. Empty' = Empty /\ InUse' = InUse
      BY <1>1 DEF Empty, InUse
    <2> QED BY <1>1, <1>4, <1>5, <2>1 DEF Phases
  <1>9. \A k \in Keys : /\ file'[k] \in Now(k) /\ held'[k] \in Now(k)
                        /\ \A d \in Commands : cli'[d].map[k] \in Now(k)
    BY <1>1, <1>4, <1>5, EmptyMap DEF Now
  <1>10. Recordings'
    BY <1>1, <1>4, <1>5, <1>9, SoundKept
  <1>11. ASSUME NEW d \in Commands PROVE QuietOf(d)'
    <2>1. CASE d # c
      BY <1>1, <1>5, <1>9, <2>1, QuietKept
    <2>2. CASE d = c
      <3> SUFFICES ASSUME ~OthersAtWork(c)
                   PROVE  /\ \A r \in Requests : request'[r] = Idle
                          /\ \A k \in cli[c].keys :
                               /\ file'[k] = NoEntry /\ held'[k] = NoEntry
                               /\ \A x \in Commands : cli'[x].map[k] = NoEntry
        BY <1>4, <1>5, <2>2 DEF QuietOf
      <3>1. cli[c].keys \subseteq Keys
        BY <1>2, CliFields
      <3>2. /\ \A r \in Requests : request'[r] = Idle
            /\ held' = Empty /\ \A x \in Commands : cli'[x].map = Empty
        BY <1>1, <1>4, <1>5 DEF OthersAtWork, Phases
      <3> QED BY <1>1, <3>1, <3>2, EmptyMap
    <2> QED BY <2>1, <2>2
  <1> QED BY <1>7, <1>8, <1>10, <1>11 DEF Quiet

LEMMA InvalidateStep ==
    ASSUME IInv, Invalidate
    PROVE  IInv'
  <1> USE DEF IInv
  <1>0. Types /\ file \in Maps
    BY DEF Types
  <1>1. ASSUME NEW c \in Commands
        PROVE  /\ cli[c] \in CliStates /\ cli[c].map \in Maps /\ cli[c].keys \subseteq Keys
               /\ cli[c].disturbed \in BOOLEAN
               /\ \A k \in Keys : {cli[c].map[k], file[k], NoEntry} \subseteq Now(k)
    BY <1>0, CliFields DEF Now
  <1>2. ASSUME NEW c \in Commands, NEW keys \in Scopes, CliOpen(c, keys) PROVE IInv'
    <2> DEFINE state == [at |-> IF Pruned(file) = file THEN "opened" ELSE "pruning",
                         keys |-> keys, map |-> Pruned(file), disturbed |-> FALSE]
    <2>1. /\ UNCHANGED <<clock, pulled, file, stores, serving, fresh, request, reload, held>>
          /\ cli[c].at = "none" /\ CliSet(c, state)
      BY <1>2 DEF CliOpen, server
    <2>2. /\ Pruned(file) \in Maps
          /\ \A k \in Keys : Pruned(file)[k] \in {file[k], NoEntry}
      BY <1>0, PrunedMap
    <2>3. state \in CliStates /\ state.at \in {"opened", "pruning"} /\ state.map = Pruned(file)
      BY <2>2, LeaseAssumption DEF CliStates
    <2> HIDE DEF state
    <2>4. \A k \in Keys : state.map[k] \in Now(k) /\ file'[k] \in Now(k)
      BY <1>1, <2>1, <2>2, <2>3
    <2> QED BY <1>0, <2>1, <2>3, <2>4, CliStep
  <1>3. ASSUME NEW c \in Commands, CliPrunes(c) PROVE IInv'
    <2> DEFINE state == [cli[c] EXCEPT !.at = "opened"]
    <2>1. /\ UNCHANGED <<clock, pulled, stores, serving, fresh, request, reload, held>>
          /\ cli[c].at = "pruning" /\ file' = cli[c].map /\ CliSet(c, state)
      BY <1>3 DEF CliPrunes, server
    <2>2. state \in CliStates /\ state.at = "opened" /\ state.map = cli[c].map
      BY <1>1 DEF CliStates
    <2> HIDE DEF state
    <2> QED BY <1>1, <2>1, <2>2, CliStep
  <1>4. ASSUME NEW c \in Commands, CliReload(c) PROVE IInv'
    <2> DEFINE state == [cli[c] EXCEPT !.at = "reloading"]
    <2>1. /\ UNCHANGED <<clock, pulled, file, stores, serving, fresh, request, held>>
          /\ cli[c].at = "saved" /\ reload = "none" /\ InUse # 1..MaxStores
          /\ reload' \in {"clear", "open"} /\ CliSet(c, state)
      BY <1>4 DEF CliReload, server
    <2>2. /\ state \in CliStates /\ state.at = "reloading" /\ state.map = cli[c].map
          /\ state.keys = cli[c].keys /\ state.disturbed = cli[c].disturbed
      BY <1>1 DEF CliStates
    <2>3. state.map = Empty
      BY <2>1, <2>2 DEF Phases
    <2>4. \E s \in 1..MaxStores : s \notin InUse
      BY <1>0, <2>1, RequestFields DEF InUse, Types
    <2> HIDE DEF state
    <2> QED BY <1>0, <1>1, <2>1, <2>2, <2>3, <2>4, CliStep
  <1>5. ASSUME NEW c \in Commands, CliFails(c) PROVE IInv'
    <2>1. /\ UNCHANGED <<clock, pulled, file, stores, serving, fresh, request, reload, held>>
          /\ cli[c].at # "done" /\ CliSet(c, NoCli)
      BY <1>5 DEF CliFails, server
    <2> QED BY <1>0, <1>1, <2>1, NoCliState, EmptyMap, CliStep
  <1> QED BY <1>2, <1>3, <1>4, <1>5, WriteStep DEF Invalidate

LEMMA WorldStep ==
    ASSUME IInv, World \/ UNCHANGED vars
    PROVE  IInv'
  <1> USE DEF IInv
  <1>0. Types /\ cli \in [Commands -> CliStates]
    BY DEF Types
  <1>1. CASE Tick \/ UNCHANGED vars
    <2>1. UNCHANGED <<pulled, file, stores, serving, fresh, request, reload, held, cli>>
      BY <1>1 DEF Tick, vars, server
    <2>2. clock' \in 0..MaxClock
      BY <1>1, LeaseAssumption DEF Tick, vars, Types
    <2>3. InUse' = InUse /\ Empty' = Empty /\ \A k : Firm(k)' = Firm(k)
      BY <2>1 DEF InUse, Empty, Firm
    <2>4. Types' /\ Phases'
      BY <2>1, <2>2, <2>3 DEF Types, Phases
    <2>5. Recordings'
      BY <2>1, <2>3 DEF Recordings, SoundMap, Sound
    <2>6. Quiet'
      BY <2>1 DEF Quiet, QuietOf
    <2> QED BY <2>4, <2>5, <2>6
  <1>2. CASE Crash
    <2>1. /\ UNCHANGED <<clock, pulled, file>>
          /\ serving' = 0 /\ fresh' = 0 /\ reload' = "none" /\ held' = Empty
          /\ stores' = [s \in 1..MaxStores |-> NoStore]
          /\ request' = [r \in Requests |-> Idle]
          /\ cli' = [c \in Commands |-> IF cli[c].at = "reloading" THEN NoCli ELSE cli[c]]
      BY <1>2 DEF Crash
    <2>2. /\ cli' = [c \in Commands |-> cli'[c]]
          /\ \A c \in Commands : cli'[c] = cli[c] \/ (cli[c].at # "done" /\ cli'[c] = NoCli)
      BY <2>1
    <2>3. /\ cli' \in [Commands -> CliStates]
          /\ \A c \in Commands :
               /\ cli'[c].at \notin {"pruning", "opened"} => cli'[c].map = Empty
               /\ \A k \in Keys : cli'[c].map[k] \in Now(k)
               /\ cli'[c].at = "done" <=> cli[c].at = "done"
               /\ cli[c].at = "done" => cli'[c].keys = cli[c].keys
               /\ cli'[c].at \in {"saved", "reloading"} => cli'[c] = cli[c]
      BY <2>2, CliDropped
    <2>4. stores' \in Stores /\ \A s \in 1..MaxStores : stores'[s].entries = Empty
      <3>1. NoStore \in [entries : Maps, backed : BOOLEAN] /\ NoStore.entries = Empty
        BY EmptyMap DEF NoStore
      <3> QED BY <2>1, <3>1 DEF Stores
    <2>5. Types'
      <3>1. request' \in [Requests -> RequestStates]
        BY <2>1 DEF RequestStates
      <3>2. serving' \in 0..MaxStores /\ fresh' \in 0..MaxStores /\ reload' \in ReloadStates
        BY <2>1, LeaseAssumption DEF ReloadStates
      <3> QED BY <2>1, <2>3, <2>4, <3>1, <3>2, EmptyMap DEF Types
    <2>6. Phases'
      <3>1. Empty' = Empty
        BY DEF Empty
      <3>2. \A r \in Requests : request'[r] = Idle
        BY <2>1
      <3> QED BY <2>1, <2>3, <3>1, <3>2 DEF Phases
    <2>7. \A k \in Keys : /\ file'[k] \in Now(k) /\ held'[k] \in Now(k)
                          /\ \A s \in 1..MaxStores : stores'[s].entries[k] \in Now(k)
      BY <2>1, <2>4, EmptyMap DEF Now
    <2>8. Recordings'
      BY <2>1, <2>3, <2>7, SoundKept
    <2>9. Quiet'
      <3>1. ASSUME NEW c \in Commands PROVE QuietOf(c)'
        BY <2>1, <2>3, <2>7, QuietKept
      <3> QED BY <3>1 DEF Quiet
    <2> QED BY <2>5, <2>6, <2>8, <2>9
  <1>3. CASE Restart
    <2>1. /\ UNCHANGED <<clock, pulled, file, stores, serving, fresh, request, held, cli>>
          /\ serving = 0 /\ reload = "none" /\ reload' = "open" /\ fresh = 0
          /\ \A r \in Requests : request[r] = Idle
      BY <1>3 DEF Restart, Phases, server
    <2>2. InUse' = {} /\ 1 \in 1..MaxStores
      BY <2>1, LeaseAssumption DEF InUse
    <2>3. /\ stores \in Stores /\ file \in Maps /\ held \in Maps /\ fresh \in 0..MaxStores
          /\ held = Empty /\ "open" \in ReloadStates
      BY <1>0, <2>1 DEF Types, Phases, ReloadStates
    <2>4. \A k \in Keys : file[k] \in Now(k) /\ held[k] \in Now(k)
      BY DEF Now
    <2> QED BY <1>0, <2>1, <2>2, <2>3, <2>4, ServerStep
  <1> QED BY <1>1, <1>2, <1>3 DEF World

LEMMA IInvInit == Init => IInv
  <1> SUFFICES ASSUME Init PROVE IInv
    OBVIOUS
  <1>1. NoStore \in [entries : Maps, backed : BOOLEAN] /\ NoStore.entries = Empty
    BY EmptyMap DEF NoStore
  <1>2. \A c \in Commands : cli[c] = NoCli
    BY DEF Init
  <1>3. Types
    <2>1. request \in [Requests -> RequestStates] /\ cli \in [Commands -> CliStates]
      BY NoCliState DEF Init, RequestStates
    <2>2. stores \in Stores /\ file \in Maps /\ held \in Maps
      BY <1>1, EmptyMap DEF Init, Stores
    <2>3. clock \in 0..MaxClock /\ serving \in 0..MaxStores /\ fresh \in 0..MaxStores
      BY LeaseAssumption DEF Init
    <2> QED BY <2>1, <2>2, <2>3 DEF Init, Types, ReloadStates
  <1>4. Phases
    BY <1>2, NoCliState DEF Init, Phases
  <1>5. Recordings
    <2>1. SoundMap(Empty)
      BY EmptyMap DEF SoundMap, Sound
    <2>2. \A s \in 1..MaxStores : stores[s].entries = Empty
      BY <1>1 DEF Init
    <2>3. \A c \in Commands : SoundMap(cli[c].map)
      BY <1>2, <2>1, NoCliState
    <2> QED BY <2>1, <2>2, <2>3 DEF Init, Recordings, Idle
  <1>6. Quiet
    BY <1>2, NoCliState DEF Quiet, QuietOf
  <1> QED BY <1>3, <1>4, <1>5, <1>6 DEF IInv

LEMMA IInvNext == IInv /\ [Next]_vars => IInv'
  BY ManifestStep, ReloadStep, ReplaceStep, InvalidateStep, WorldStep DEF Next

-----------------------------------------------------------------------------
(* The theorems.                                                           *)

\* Whatever requests, reloads, invalidations, crashes and restarts meet, every Store
\* and the file hold only decisions whose manifest a Provider has served
\* (store.go:34-144, router.go:150-178).
THEOREM LeasesArePulled == Spec => []LeaseInv
  <1>1. IInv => LeaseInv
    <2> SUFFICES ASSUME IInv PROVE TypeOK /\ LeaseWasPulled
      BY DEF LeaseInv
    <2>1. Types /\ Phases
      BY DEF IInv
    <2>2. ASSUME NEW r \in Requests
          PROVE  /\ request[r].at \in {"idle", "lookup", "resolving", "pulling", "putting"}
                 /\ request[r] # Idle => request[r].key \in Keys /\ request[r].store \in 1..MaxStores
      BY <2>1, RequestFields DEF RequestStates, Idle
    <2>3. TypeOK
      BY <2>1, <2>2 DEF TypeOK, Types, Phases, Stores, CliStates, ReloadStates
    <2>4. InUse \subseteq 1..MaxStores
      BY <2>1, <2>2 DEF InUse, Types
    <2>5. LeaseWasPulled
      BY <2>4 DEF IInv, Recordings, SoundMap, Sound, LeaseWasPulled, Recorded
    <2> QED BY <2>3, <2>5
  <1> QED BY <1>1, IInvInit, IInvNext, PTL DEF Spec

\* Any number of invalidations may overlap with each other, with reloads, restarts and
\* requests: one that is reported done, and that met nobody with an older state when it
\* wrote, and no request before its reload, is final.  What it removed comes back only
\* by a later resolution (store.go:33-153, cli.go:843-870, 1593-1620).
THEOREM QuietInvalidationIsFinal == Spec => []QuietInvalidationHolds
  <1>1. IInv => QuietInvalidationHolds
    <2> SUFFICES ASSUME IInv PROVE QuietInvalidationHolds
      OBVIOUS
    <2>1. /\ \A k \in Keys : Sound(k, file[k])
          /\ \A s \in 1..MaxStores, k \in Keys : Sound(k, stores[s].entries[k])
          /\ {serving} \ {0} \subseteq 1..MaxStores
      BY DEF IInv, Recordings, SoundMap, Types
    <2> QED BY <2>1 DEF Sound, QuietInvalidationHolds
  <1> QED BY <1>1, IInvInit, IInvNext, PTL DEF Spec

-----------------------------------------------------------------------------
(* Numbers.                                                                *)

\* A set of numbers has a least one, the form in which the library's induction
\* over the natural numbers is used here.
LEMMA LeastNumber ==
    ASSUME NEW T \in SUBSET Nat, T # {}
    PROVE  \E n \in T : \A m \in T : n <= m
  <1> DEFINE less == OpToRel(<, Nat)
  <1>1. IsWellFoundedOn(less, Nat)
    BY NatLessThanWellFounded
  <1>2. \A x, y \in Nat : <<x, y>> \in less <=> x < y
    BY DEF OpToRel
  <1> HIDE DEF less
  <1>3. PICK n \in T : \A m \in T : ~ (<<m, n>> \in less)
    BY <1>1, WFMin
  <1>4. n \in Nat /\ \A m \in T : m \in Nat
    OBVIOUS
  <1>5. \A m \in T : ~(m < n)
    BY <1>2, <1>3, <1>4, Zenon
  <1> QED BY <1>4, <1>5

\* Numbers with an upper bound have a greatest one.
LEMMA GreatestNumber ==
    ASSUME NEW T \in SUBSET Nat, T # {}, NEW b \in Nat, \A x \in T : x <= b
    PROVE  \E m \in T : \A x \in T : x <= m
  <1> DEFINE U == {n \in Nat : \A x \in T : x <= n}
  <1>1. U \in SUBSET Nat /\ U # {}
    OBVIOUS
  <1>2. PICK m \in U : \A n \in U : m <= n
    BY <1>1, LeastNumber
  <1>3. m \in T
    <2> SUFFICES ASSUME m \notin T PROVE FALSE
      OBVIOUS
    <2>1. m # 0
      <3>1. PICK x \in T : TRUE
        OBVIOUS
      <3>2. x <= m /\ x \in Nat /\ x # m /\ m \in Nat
        BY <1>2
      <3> QED BY <3>2
    <2>2. m - 1 \in U
      <3>1. m - 1 \in Nat
        BY <2>1, <1>2
      <3>2. \A x \in T : x <= m - 1
        BY <1>2
      <3> QED BY <3>1, <3>2
    <2> QED BY <2>2, <1>2
  <1> QED BY <1>2, <1>3

\* A finite set of numbers is bounded.
LEMMA FiniteBounded ==
    ASSUME NEW S \in SUBSET Nat, IsFiniteSet(S)
    PROVE  \E b \in Nat : \A x \in S : x <= b
  <1> DEFINE T == {Cardinality(U) : U \in {V \in SUBSET S : ~ \E b \in Nat : \A x \in V : x <= b}}
  <1>1. T \in SUBSET Nat
    BY FS_Subset, FS_CardinalityType
  <1>2. T = {}
    <2> SUFFICES ASSUME T # {} PROVE FALSE
      OBVIOUS
    <2>1. PICK n \in T : \A m \in T : n <= m
      BY <1>1, LeastNumber
    <2>2. PICK U \in SUBSET S : n = Cardinality(U) /\ ~ \E b \in Nat : \A x \in U : x <= b
      OBVIOUS
    <2>3. PICK y \in U : y \in Nat
      <3>1. U # {}
        BY <2>2
      <3> QED BY <3>1
    <2>4. IsFiniteSet(U) /\ Cardinality(U \ {y}) = n - 1 /\ n \in Nat
      BY <2>2, <2>3, FS_Subset, FS_RemoveElement, FS_CardinalityType
    <2>5. n - 1 \notin T
      BY <2>1, <2>4, <1>1
    <2>6. PICK b \in Nat : \A x \in U \ {y} : x <= b
      BY <2>4, <2>5
    <2>7. \A x \in U : x \in Nat /\ x <= b + y
      BY <2>6, <2>3
    <2>8. b + y \in Nat
      BY <2>3
    <2> QED BY <2>2, <2>7, <2>8
  <1>3. S \in SUBSET S /\ Cardinality(S) \notin T
    BY <1>2
  <1> QED BY <1>3

-----------------------------------------------------------------------------
(* The loop over the answers.                                              *)

\* f gathers, along the first n answers, the sources that named d.
Gathers(f, n, d) ==
    f = [k \in 0..n |-> IF k = 0 THEN <<>>
                        ELSE IF answers[k].digest = d THEN Append(f[k - 1], answers[k].from)
                        ELSE f[k - 1]]

\* There is such an f.
LEMMA GathersExists ==
    ASSUME NEW n \in Nat, NEW d
    PROVE  \E f : Gathers(f, n, d)
  <1> DEFINE T == {m \in Nat : ~ \E f : Gathers(f, m, d)}
  <1>1. T = {}
    <2> SUFFICES ASSUME T # {} PROVE FALSE
      OBVIOUS
    <2>1. T \in SUBSET Nat
      OBVIOUS
    <2>2. PICK m \in T : \A k \in T : m <= k
      BY <2>1, LeastNumber
    <2>3. m \in Nat /\ ~ \E f : Gathers(f, m, d)
      OBVIOUS
    <2>4. CASE m = 0
      <3> DEFINE g == [k \in 0..0 |-> <<>>]
      <3>1. Gathers(g, 0, d)
        BY DEF Gathers
      <3> QED BY <2>3, <2>4, <3>1
    <2>5. CASE m # 0
      <3>1. m - 1 \in Nat /\ m - 1 \notin T
        BY <2>2, <2>3, <2>5
      <3>2. PICK f : Gathers(f, m - 1, d)
        BY <3>1
      <3> DEFINE next == IF answers[m].digest = d THEN Append(f[m - 1], answers[m].from) ELSE f[m - 1]
                 g == [k \in 0..m |-> IF k = m THEN next ELSE f[k]]
      <3>3. \A k \in 0..(m - 1) : g[k] = f[k]
        BY <2>3
      <3>4. \A k \in 0..m : g[k] = IF k = 0 THEN <<>>
                                   ELSE IF answers[k].digest = d THEN Append(g[k - 1], answers[k].from)
                                   ELSE g[k - 1]
        <4> SUFFICES ASSUME NEW k \in 0..m
                     PROVE  g[k] = IF k = 0 THEN <<>>
                                   ELSE IF answers[k].digest = d THEN Append(g[k - 1], answers[k].from)
                                   ELSE g[k - 1]
          OBVIOUS
        <4>1. CASE k = m
          <5>1. g[m] = next /\ g[m - 1] = f[m - 1]
            BY <2>3, <3>1, <3>3
          <5> HIDE DEF g
          <5> QED BY <2>5, <4>1, <5>1
        <4>2. CASE k # m
          <5>1. k \in 0..(m - 1) /\ (k # 0 => k - 1 \in 0..(m - 1))
            BY <2>3, <4>2
          <5>2. f[k] = IF k = 0 THEN <<>>
                       ELSE IF answers[k].digest = d THEN Append(f[k - 1], answers[k].from)
                       ELSE f[k - 1]
            BY <3>2, <5>1 DEF Gathers
          <5>3. g[k] = f[k] /\ (k # 0 => g[k - 1] = f[k - 1])
            BY <3>3, <5>1
          <5> HIDE DEF g
          <5> QED BY <5>2, <5>3
        <4> QED BY <4>1, <4>2
      <3>5. Gathers(g, m, d)
        <4>1. g = [k \in 0..m |-> g[k]]
          OBVIOUS
        <4> HIDE DEF g
        <4> QED BY <3>4, <4>1 DEF Gathers
      <3> QED BY <2>3, <3>5
    <2> QED BY <2>4, <2>5
  <1> QED BY <1>1

\* The sources that named d are gathered so.
LEMMA ArrivedGathers ==
    ASSUME NEW d, Len(answers) \in Nat
    PROVE  \E f : Gathers(f, Len(answers), d) /\ ArrivedFor(d) = f[Len(answers)]
  <1> DEFINE arrived[k \in 0..Len(answers)] ==
                IF k = 0 THEN <<>>
                ELSE IF answers[k].digest = d THEN Append(arrived[k - 1], answers[k].from)
                ELSE arrived[k - 1]
             Equation(f) ==
                f = [k \in 0..Len(answers) |->
                        IF k = 0 THEN <<>>
                        ELSE IF answers[k].digest = d THEN Append(f[k - 1], answers[k].from)
                        ELSE f[k - 1]]
  <1>1. ArrivedFor(d) = arrived[Len(answers)]
    BY Zenon DEF ArrivedFor
  <1>2. arrived = CHOOSE f : Equation(f)
    OBVIOUS
  <1>3. \A f : Gathers(f, Len(answers), d) <=> Equation(f)
    BY DEF Gathers
  <1>4. \E f : Equation(f)
    BY <1>3, GathersExists
  <1> HIDE DEF arrived
  <1>5. Equation(arrived)
    <2> HIDE DEF Equation
    <2> QED BY <1>2, <1>4, Zenon
  <1> HIDE DEF Equation
  <1> QED BY <1>1, <1>3, <1>5

\* Every Resolver answers once.
Heard ==
    /\ answers \in Seq([from : Resolvers, what : Kinds, digest : Candidates \cup {NoDigest}])
    /\ \A k \in 1..Len(answers) : answers[k].what = "digest" <=> answers[k].digest # NoDigest
    /\ \A j, k \in 1..Len(answers) : answers[j].from = answers[k].from => j = k

\* What Heard says of an answer.
LEMMA HeardFields ==
    ASSUME Heard
    PROVE  /\ Len(answers) \in Nat /\ DOMAIN answers = 1..Len(answers)
           /\ \A k \in 1..Len(answers) :
                 /\ answers[k].from \in Resolvers /\ answers[k].from \in Nat
                 /\ answers[k].digest \in Candidates \cup {NoDigest}
                 /\ answers[k].what = "digest" <=> answers[k].digest # NoDigest
           /\ Candidates \subseteq Nat \ {0} /\ NoDigest \notin Candidates
  <1>1. Resolvers \subseteq Nat
    <2>1. \A n : 1..n \subseteq Nat
      OBVIOUS
    <2> QED BY <2>1, ResolutionAssumption
  <1> DEFINE A == [from : Resolvers, what : Kinds, digest : Candidates \cup {NoDigest}]
  <1>2. answers \in Seq(A)
    BY DEF Heard
  <1>3. Len(answers) \in Nat /\ DOMAIN answers = 1..Len(answers) /\ \A k \in 1..Len(answers) : answers[k] \in A
    <2> HIDE DEF A
    <2> QED BY <1>2
  <1>4. \A k \in 1..Len(answers) : answers[k].from \in Resolvers /\ answers[k].digest \in Candidates \cup {NoDigest}
    BY <1>3
  <1> HIDE DEF A
  <1> QED BY <1>1, <1>3, <1>4, ResolutionAssumption DEF Heard, NoDigest

\* The candidate of a digest holds each of its sources once.
LEMMA ArrivedVotes ==
    ASSUME Heard, NEW d \in Candidates
    PROVE  /\ Voters(d) = Votes(d) /\ IsFiniteSet(Votes(d))
           /\ Len(ArrivedFor(d)) = Cardinality(Votes(d)) /\ Cardinality(Votes(d)) \in Nat
  <1> DEFINE V(n) == {answers[j].from : j \in {i \in 1..n : answers[i].digest = d}}
             N == Len(answers)
  <1>1. /\ N \in Nat /\ DOMAIN answers = 1..N
        /\ \A k \in 1..N : answers[k].from \in Resolvers
    BY HeardFields
  <1>2. PICK f : Gathers(f, N, d) /\ ArrivedFor(d) = f[N]
    BY <1>1, ArrivedGathers
  <1> DEFINE Good(n) == /\ f[n] \in Seq(Resolvers)
                        /\ \A p : p \in V(n) <=> \E k \in 1..Len(f[n]) : f[n][k] = p
                        /\ IsFiniteSet(V(n)) /\ Cardinality(V(n)) = Len(f[n])
             T == {n \in 0..N : ~Good(n)}
  <1>3. \A n \in 0..N : f[n] = IF n = 0 THEN <<>>
                               ELSE IF answers[n].digest = d THEN Append(f[n - 1], answers[n].from)
                               ELSE f[n - 1]
    BY <1>2 DEF Gathers
  <1>4. T = {}
    <2> SUFFICES ASSUME T # {} PROVE FALSE
      OBVIOUS
    <2>1. T \in SUBSET Nat
      BY <1>1
    <2>2. PICK n \in T : \A m \in T : n <= m
      BY <2>1, LeastNumber
    <2>3. n \in 0..N /\ ~Good(n)
      OBVIOUS
    <2>4. n # 0
      <3> SUFFICES ASSUME n = 0 PROVE FALSE
        OBVIOUS
      <3>1. f[0] = <<>>
        BY <1>1, <1>3
      <3>2. V(0) = {}
        OBVIOUS
      <3>3. Good(0)
        BY <3>1, <3>2, FS_EmptySet
      <3> QED BY <3>3, <2>3
    <2>5. n - 1 \in 0..N /\ n \in 1..N
      BY <2>3, <2>4, <1>1
    <2>6. Good(n - 1)
      <3>1. n - 1 \notin T
        <4>1. n \in Nat /\ ~(n <= n - 1)
          BY <2>5, <1>1
        <4> QED BY <4>1, <2>2
      <3> QED BY <3>1, <2>5
    <2>7. CASE answers[n].digest = d
      <3>1. f[n] = Append(f[n - 1], answers[n].from)
        BY <1>3, <2>3, <2>4, <2>7
      <3>2. V(n) = V(n - 1) \cup {answers[n].from}
        <4>1. \A i : i \in 1..n <=> i \in 1..(n - 1) \/ i = n
          BY <2>5, <1>1
        <4> QED BY <4>1, <2>7
      <3>3. answers[n].from \notin V(n - 1)
        <4>1. \A i \in 1..(n - 1) : i \in 1..N /\ i # n
          BY <2>5, <1>1
        <4> QED BY <4>1, <2>5 DEF Heard
      <3>4. IsFiniteSet(V(n)) /\ Cardinality(V(n)) = Cardinality(V(n - 1)) + 1
        <4>1. IsFiniteSet(V(n - 1))
          BY <2>6
        <4> DEFINE W == V(n - 1)
        <4>2. V(n) = W \cup {answers[n].from} /\ answers[n].from \notin W /\ IsFiniteSet(W)
          BY <3>2, <3>3, <4>1
        <4> HIDE DEF W
        <4>3. IsFiniteSet(V(n)) /\ Cardinality(V(n)) = Cardinality(W) + 1
          <5> HIDE DEF Good, V
          <5> QED BY <4>2, FS_AddElement
        <4> QED BY <4>3 DEF W
      <3>5. answers[n].from \in Resolvers
        BY <1>1, <2>5
      <3>6. /\ f[n] \in Seq(Resolvers) /\ Len(f[n]) = Len(f[n - 1]) + 1
            /\ \A k \in 1..Len(f[n - 1]) : f[n][k] = f[n - 1][k]
            /\ f[n][Len(f[n - 1]) + 1] = answers[n].from
            /\ Len(f[n - 1]) \in Nat
        <4> HIDE DEF V
        <4> QED BY <2>6, <3>1, <3>5
      <3>7. \A k : k \in 1..Len(f[n]) <=> k \in 1..Len(f[n - 1]) \/ k = Len(f[n - 1]) + 1
        BY <3>6
      <3>8. \A p : p \in V(n) <=> \E k \in 1..Len(f[n]) : f[n][k] = p
        <4> HIDE DEF V
        <4> QED BY <2>6, <3>2, <3>6, <3>7
      <3>9. Cardinality(V(n)) = Len(f[n])
        BY <3>4, <3>6, <2>6
      <3> QED BY <2>3, <3>4, <3>6, <3>8, <3>9
    <2>8. CASE answers[n].digest # d
      <3>1. f[n] = f[n - 1]
        BY <1>3, <2>3, <2>4, <2>8
      <3>2. V(n) = V(n - 1)
        <4>1. \A i : i \in 1..n <=> i \in 1..(n - 1) \/ i = n
          BY <2>5, <1>1
        <4> QED BY <4>1, <2>8
      <3> HIDE DEF V
      <3> QED BY <2>3, <2>6, <3>1, <3>2
    <2> QED BY <2>7, <2>8
  <1>5. Good(N)
    <2>1. N \in 0..N
      BY <1>1
    <2> QED BY <1>4, <2>1
  <1>6. Votes(d) = V(N)
    BY <1>1 DEF Votes
  <1> HIDE DEF V
  <1>7. Voters(d) = V(N)
    <2>1. DOMAIN f[N] = 1..Len(f[N])
      BY <1>5
    <2> QED BY <1>2, <1>5, <2>1 DEF Voters
  <1>8. Len(f[N]) \in Nat
    BY <1>5
  <1> QED BY <1>2, <1>5, <1>6, <1>7, <1>8

\* Those that named a digest are counted once each.
LEMMA SuccessfulVotes ==
    ASSUME Heard
    PROVE  IsFiniteSet(AllVotes) /\ Successful = Cardinality(AllVotes) /\ Cardinality(AllVotes) \in Nat
  <1> DEFINE K == {k \in DOMAIN answers : answers[k].what = "digest"}
             b == [k \in K |-> answers[k].from]
  <1>1. AllVotes = {answers[k].from : k \in K}
    BY HeardFields DEF AllVotes, Votes
  <1>2. b \in [K -> AllVotes]
    BY <1>1
  <1>3. b \in Injection(K, AllVotes)
    BY <1>2, HeardFields DEF Heard, Injection, IsInjective
  <1>4. b \in Surjection(K, AllVotes)
    BY <1>1, <1>2 DEF Surjection
  <1>5. ExistsBijection(K, AllVotes)
    BY <1>3, <1>4 DEF ExistsBijection, Bijection
  <1>6. IsFiniteSet(K)
    <2>1. K \subseteq 1..Len(answers) /\ Len(answers) \in Nat
      BY HeardFields
    <2>2. IsFiniteSet(1..Len(answers))
      BY <2>1, FS_Interval
    <2> HIDE DEF K
    <2> QED BY <2>1, <2>2, FS_Subset
  <1>7. IsFiniteSet(AllVotes) /\ Cardinality(AllVotes) = Cardinality(K)
    <2> HIDE DEF K, b
    <2> QED BY <1>5, <1>6, FS_Bijection
  <1>8. Cardinality(AllVotes) \in Nat
    BY <1>7, FS_CardinalityType
  <1> QED BY <1>7, <1>8 DEF Successful

\* The digests that were named are those with votes.
LEMMA NamedVoted ==
    ASSUME Heard
    PROVE  Named = {d \in Candidates : Votes(d) # {}}
  <1>1. \A d \in Candidates : Votes(d) # {} <=> \E k \in 1..Len(answers) : answers[k].digest = d
    BY HeardFields DEF Votes
  <1> QED BY <1>1, HeardFields DEF Named

\* One candidate comes before all others.
LEMMA FirstCandidateNamed ==
    ASSUME Heard, Named # {}
    PROVE  /\ FirstCandidate \in Named
           /\ \A d \in Named : Cardinality(Votes(d)) <= Cardinality(Votes(FirstCandidate))
  <1> DEFINE c(d) == Cardinality(Votes(d))
             S == {c(d) : d \in Named}
  <1>1. Named \subseteq Candidates /\ Candidates \subseteq Nat
    BY NamedVoted, HeardFields
  <1>2. \A d \in Named : c(d) \in Nat /\ Len(ArrivedFor(d)) = c(d) /\ c(d) <= Cardinality(AllVotes)
    <2> SUFFICES ASSUME NEW d \in Named
                 PROVE  c(d) \in Nat /\ Len(ArrivedFor(d)) = c(d) /\ c(d) <= Cardinality(AllVotes)
      OBVIOUS
    <2>1. d \in Candidates
      BY <1>1
    <2>2. Votes(d) \subseteq AllVotes
      BY <2>1 DEF AllVotes
    <2> QED BY <2>1, <2>2, ArrivedVotes, SuccessfulVotes, FS_Subset
  <1>3. S \in SUBSET Nat /\ S # {} /\ Cardinality(AllVotes) \in Nat /\ \A x \in S : x <= Cardinality(AllVotes)
    BY <1>2, SuccessfulVotes
  <1>4. PICK m \in S : \A x \in S : x <= m
    <2> HIDE DEF S
    <2> QED BY <1>3, GreatestNumber
  <1> DEFINE D == {d \in Named : c(d) = m}
  <1>5. D \in SUBSET Nat /\ D # {}
    BY <1>1, <1>4
  <1>6. PICK first \in D : \A d \in D : first <= d
    <2> HIDE DEF D
    <2> QED BY <1>5, LeastNumber
  <1>7. first \in Named /\ \A e \in Named \ {first} : Before(first, e)
    <2> SUFFICES ASSUME NEW e \in Named \ {first} PROVE Before(first, e)
      OBVIOUS
    <2>1. c(e) \in Nat /\ c(e) <= c(first) /\ c(first) = m /\ m \in Nat
      BY <1>2, <1>3, <1>4, <1>6
    <2>2. Len(ArrivedFor(e)) = c(e) /\ Len(ArrivedFor(first)) = c(first)
      BY <1>2, <1>6
    <2>3. e \in Nat /\ first \in Nat /\ e # first /\ (c(e) = m => first <= e)
      BY <1>1, <1>6
    <2> HIDE DEF c
    <2> QED BY <2>1, <2>2, <2>3 DEF Before
  <1>8. FirstCandidate \in Named /\ \A e \in Named \ {FirstCandidate} : Before(FirstCandidate, e)
    <2> DEFINE F(d) == d \in Named /\ \A e \in Named \ {d} : Before(d, e)
    <2>1. FirstCandidate = CHOOSE d : F(d)
      BY Zenon DEF FirstCandidate
    <2>2. \E d : F(d)
      BY <1>7
    <2> HIDE DEF F
    <2>3. F(FirstCandidate)
      BY <2>1, <2>2, Zenon
    <2> QED BY <2>3 DEF F
  <1>9. ASSUME NEW d \in Named PROVE c(d) <= c(FirstCandidate)
    <2>1. d = FirstCandidate \/ Before(FirstCandidate, d)
      BY <1>8
    <2>2. c(d) \in Nat /\ c(FirstCandidate) \in Nat /\ Len(ArrivedFor(d)) = c(d)
          /\ Len(ArrivedFor(FirstCandidate)) = c(FirstCandidate)
      BY <1>2, <1>8
    <2> HIDE DEF c
    <2> QED BY <2>1, <2>2 DEF Before
  <1> QED BY <1>8, <1>9

\* Those that named a digest are those that voted for one.
LEMMA VotersAll ==
    ASSUME Heard
    PROVE  /\ AllVotes = UNION {Voters(d) : d \in Named}
           /\ AllVotes \subseteq Nat
           /\ \A d \in Named : d \in Candidates /\ Voters(d) = Votes(d) /\ Votes(d) # {} /\ Votes(d) \subseteq Nat
  <1>1. \A d \in Named : d \in Candidates /\ Votes(d) # {}
    BY NamedVoted
  <1>2. \A d \in Named : Voters(d) = Votes(d)
    BY <1>1, ArrivedVotes
  <1>3. \A d \in Candidates : d \in Named \/ Votes(d) = {}
    BY NamedVoted
  <1>4. \A d : Votes(d) \subseteq Nat
    BY HeardFields DEF Votes
  <1>5. AllVotes = UNION {Votes(d) : d \in Named}
    BY <1>1, <1>3 DEF AllVotes
  <1>6. AllVotes = UNION {Voters(d) : d \in Named}
    BY <1>2, <1>5
  <1> QED BY <1>1, <1>2, <1>4, <1>5, <1>6

\* Among sources with a priority one is preferred to all others.
LEMMA PreferredExists ==
    ASSUME NEW V \in SUBSET Nat, V \subseteq DOMAIN Priority, V # {}
    PROVE  \E p \in V : \A q \in V : Preferred(p, q)
  <1> DEFINE S == {Priority[p] : p \in V}
  <1>1. S \in SUBSET Nat /\ S # {}
    BY ResolutionAssumption
  <1>2. PICK m \in S : \A x \in S : m <= x
    <2> HIDE DEF S
    <2> QED BY <1>1, LeastNumber
  <1> DEFINE B == {p \in V : Priority[p] = m}
  <1>3. B \in SUBSET Nat /\ B # {}
    BY <1>2
  <1>4. PICK p \in B : \A q \in B : p <= q
    <2> HIDE DEF B
    <2> QED BY <1>3, LeastNumber
  <1>5. ASSUME NEW q \in V PROVE Preferred(p, q)
    <2>1. /\ p \in V /\ Priority[p] = m /\ m <= Priority[q] /\ Priority[q] \in Nat /\ m \in Nat
          /\ Priority[q] = m => p <= q
      BY <1>1, <1>2, <1>4
    <2> QED BY <2>1 DEF Preferred
  <1> QED BY <1>4, <1>5

\* byProviderPriority: a digest of the preferred voter, none when no voter has a
\* priority.
LEMMA PriorityDigest ==
    ASSUME Heard
    PROVE  \/ AllVotes \cap DOMAIN Priority = {} /\ ByProviderPriority = NoDigest
           \/ /\ ByProviderPriority \in Named
              /\ \E p \in Votes(ByProviderPriority) \cap DOMAIN Priority :
                    \A q \in AllVotes \cap DOMAIN Priority : Preferred(p, q)
  <1> DEFINE V == DOMAIN Priority \cap UNION {Voters(d) : d \in Named}
             F(p) == p \in V /\ \A q \in V : Preferred(p, q)
             best == CHOOSE p \in V : \A q \in V : Preferred(p, q)
             G(d) == d \in Named /\ best \in Voters(d)
  <1>1. V = AllVotes \cap DOMAIN Priority /\ V \in SUBSET Nat
    BY VotersAll
  <1>2. ByProviderPriority = IF V = {} THEN NoDigest ELSE CHOOSE d \in Named : best \in Voters(d)
    BY Zenon DEF ByProviderPriority
  <1>3. CASE V = {}
    <2> HIDE DEF best
    <2> QED BY <1>1, <1>2, <1>3
  <1>4. CASE V # {}
    <2>1. \E p : F(p)
      <3>1. V \subseteq DOMAIN Priority
        OBVIOUS
      <3> HIDE DEF V
      <3> QED BY <1>1, <1>4, <3>1, PreferredExists
    <2>2. F(best)
      <3>1. best = CHOOSE p : F(p)
        BY Zenon
      <3> HIDE DEF F, best
      <3> QED BY <2>1, <3>1, Zenon
    <2> HIDE DEF best
    <2>3. \E d : G(d)
      BY <2>2
    <2>4. ByProviderPriority = CHOOSE d : G(d)
      <3>1. ByProviderPriority = CHOOSE d \in Named : best \in Voters(d)
        <4> HIDE DEF V
        <4> QED BY <1>2, <1>4, Zenon
      <3> QED BY <3>1, Zenon
    <2>5. G(ByProviderPriority)
      <3> HIDE DEF G
      <3> QED BY <2>3, <2>4, Zenon
    <2>6. best \in Votes(ByProviderPriority) /\ best \in DOMAIN Priority
      BY <2>2, <2>5, VotersAll
    <2>7. \A q \in AllVotes \cap DOMAIN Priority : Preferred(best, q)
      BY <1>1, <2>2
    <2> QED BY <2>5, <2>6, <2>7
  <1> QED BY <1>3, <1>4

\* breakTie by score.
LEMMA HighestScoreNamed ==
    ASSUME Heard, Named # {}
    PROVE  HighestScore \in Named /\ \A e \in Named : Score[HighestScore] >= Score[e]
  <1> DEFINE S == {Score[d] : d \in Named}
             F(d) == d \in Named /\ \A e \in Named : Score[d] >= Score[e]
  <1>1. Named \subseteq Candidates
    BY NamedVoted
  <1>2. S \in SUBSET Nat /\ S # {}
    BY <1>1, ResolutionAssumption
  <1>3. IsFiniteSet(S)
    <2> DEFINE f == [k \in 1..Len(answers) |-> Score[answers[k].digest]]
               T == {f[k] : k \in 1..Len(answers)}
    <2>1. IsFiniteSet(1..Len(answers))
      BY HeardFields, FS_Interval
    <2>2. f \in Surjection(1..Len(answers), T)
      BY DEF Surjection
    <2>3. S \subseteq T
      BY HeardFields DEF Named
    <2> HIDE DEF S, T, f
    <2>4. IsFiniteSet(T)
      BY <2>1, <2>2, FS_Surjection
    <2> QED BY <2>3, <2>4, FS_Subset
  <1>4. \E m \in S : \A x \in S : x <= m
    <2> HIDE DEF S
    <2> QED BY <1>2, <1>3, FiniteBounded, GreatestNumber
  <1>5. \E d : F(d)
    BY <1>2, <1>4
  <1>6. HighestScore = CHOOSE d : F(d)
    BY Zenon DEF HighestScore
  <1>7. F(HighestScore)
    <2> HIDE DEF F
    <2> QED BY <1>5, <1>6, Zenon
  <1> QED BY <1>7

\* breakTie by configured order.
LEMMA ConfiguredFirst ==
    ASSUME Heard, Named # {}, NEW t,
           t = CHOOSE d \in Named : \A e \in Named : FirstIndex(d) <= FirstIndex(e)
    PROVE  t \in Named /\ \E p \in Votes(t) : \A q \in AllVotes : p <= q
  <1> DEFINE F(d) == d \in Named /\ \A e \in Named : FirstIndex(d) <= FirstIndex(e)
             S == {FirstIndex(d) : d \in Named}
  <1>1. ASSUME NEW d \in Named
        PROVE  FirstIndex(d) \in Votes(d) /\ FirstIndex(d) \in Nat /\ \A q \in Votes(d) : FirstIndex(d) <= q
    <2> DEFINE G(p) == p \in Voters(d) /\ \A q \in Voters(d) : p <= q
    <2>1. Voters(d) = Votes(d) /\ Votes(d) # {} /\ Votes(d) \in SUBSET Nat
      BY VotersAll
    <2>2. \E p : G(p)
      BY <2>1, LeastNumber
    <2>3. FirstIndex(d) = CHOOSE p : G(p)
      BY Zenon DEF FirstIndex
    <2>4. G(FirstIndex(d))
      <3> HIDE DEF G
      <3> QED BY <2>2, <2>3, Zenon
    <2> QED BY <2>1, <2>4
  <1>2. S \in SUBSET Nat /\ S # {}
    BY <1>1
  <1>3. \E m \in S : \A x \in S : m <= x
    <2> HIDE DEF S
    <2> QED BY <1>2, LeastNumber
  <1>4. \E d : F(d)
    BY <1>3
  <1>5. t = CHOOSE d : F(d)
    BY Zenon
  <1>6. F(t)
    <2> HIDE DEF F
    <2> QED BY <1>4, <1>5, Zenon
  <1>7. ASSUME NEW q \in AllVotes PROVE FirstIndex(t) <= q
    <2>1. PICK e \in Named : q \in Votes(e)
      BY VotersAll
    <2>2. FirstIndex(t) <= FirstIndex(e) /\ FirstIndex(e) <= q /\ q \in Nat
      BY <1>1, <1>6, <2>1, VotersAll
    <2>3. FirstIndex(t) \in Nat /\ FirstIndex(e) \in Nat
      BY <1>1, <1>6
    <2> QED BY <2>2, <2>3
  <1> QED BY <1>1, <1>6, <1>7

\* The majority, when there is one, is the first candidate's.
LEMMA MajorityFirst ==
    ASSUME Heard, Named # {}
    PROVE  /\ Majority(FirstCandidate) <=> Len(ArrivedFor(FirstCandidate)) > Successful \div 2
           /\ (\E e \in Candidates : Majority(e)) => Majority(FirstCandidate)
  <1> DEFINE c(d) == Cardinality(Votes(d))
             n == Cardinality(AllVotes)
  <1>1. FirstCandidate \in Named /\ FirstCandidate \in Candidates
    BY FirstCandidateNamed, NamedVoted
  <1>2. \A d \in Candidates : c(d) \in Nat /\ Len(ArrivedFor(d)) = c(d) /\ (c(d) > 0 => d \in Named)
    <2>1. \A d \in Candidates : IsFiniteSet(Votes(d)) /\ c(d) \in Nat /\ Len(ArrivedFor(d)) = c(d)
      BY ArrivedVotes
    <2>2. \A d \in Candidates : Votes(d) = {} => c(d) = 0
      BY FS_EmptySet
    <2> HIDE DEF c
    <2> QED BY <2>1, <2>2, NamedVoted
  <1>3. n \in Nat /\ Successful = n
    BY SuccessfulVotes
  <1>4. \A d : Majority(d) <=> 2 * c(d) > n
    BY DEF Majority
  <1>5. \A d \in Named : c(d) <= c(FirstCandidate)
    BY FirstCandidateNamed
  <1> HIDE DEF c, n
  <1>6. \A a, b \in Nat : 2 * a > b <=> a > b \div 2
    OBVIOUS
  <1>7. c(FirstCandidate) \in Nat /\ Len(ArrivedFor(FirstCandidate)) = c(FirstCandidate)
    BY <1>1, <1>2
  <1>8. Majority(FirstCandidate) <=> Len(ArrivedFor(FirstCandidate)) > Successful \div 2
    BY <1>3, <1>4, <1>6, <1>7
  <1>9. ASSUME NEW e \in Candidates, Majority(e) PROVE Majority(FirstCandidate)
    <2>1. 2 * c(e) > n /\ c(e) \in Nat
      BY <1>2, <1>4, <1>9
    <2>2. c(e) <= c(FirstCandidate)
      BY <2>1, <1>2, <1>3, <1>5
    <2> QED BY <2>1, <2>2, <1>3, <1>4, <1>7
  <1> QED BY <1>8, <1>9

\* What is decided may be selected, and when nothing is, nothing may be.
LEMMA DecisionMay ==
    ASSUME Heard, Named # {}
    PROVE  \/ Decision \in Candidates /\ Decision # NoDigest /\ May(Decision)
           \/ Decision = NoDigest /\ \A d \in Candidates : ~May(d)
  <1>1. \A d \in Named : d \in Candidates /\ d # NoDigest /\ Votes(d) # {}
    BY NamedVoted, HeardFields
  <1>2. CASE strategy[1] = "provider_priority"
    <2>1. Decision = ByProviderPriority
      BY <1>2 DEF Decision
    <2>2. CASE AllVotes \cap DOMAIN Priority = {} /\ ByProviderPriority = NoDigest
      <3>1. \A d \in Candidates : Votes(d) \subseteq AllVotes
        BY DEF AllVotes
      <3> QED BY <1>2, <2>1, <2>2, <3>1 DEF May
    <2>3. CASE /\ ByProviderPriority \in Named
               /\ \E p \in Votes(ByProviderPriority) \cap DOMAIN Priority :
                     \A q \in AllVotes \cap DOMAIN Priority : Preferred(p, q)
      BY <1>1, <1>2, <2>1, <2>3 DEF May, Preferred
    <2> QED BY <2>2, <2>3, PriorityDigest
  <1>3. CASE strategy[1] # "provider_priority" /\ Majority(FirstCandidate)
    <2>1. Decision = FirstCandidate
      BY <1>3, MajorityFirst DEF Decision
    <2> QED BY <1>1, <1>3, <2>1, FirstCandidateNamed DEF May
  <1>4. CASE strategy[1] # "provider_priority" /\ ~Majority(FirstCandidate)
    <2>1. Decision = BreakTie
      BY <1>4, MajorityFirst DEF Decision
    <2>2. ~ \E e \in Candidates : Majority(e)
      BY <1>4, MajorityFirst
    <2>3. CASE strategy[2] = "fail"
      BY <1>4, <2>1, <2>2, <2>3 DEF BreakTie, May
    <2>4. CASE strategy[2] = "configured_order"
      <3>1. Decision = CHOOSE d \in Named : \A e \in Named : FirstIndex(d) <= FirstIndex(e)
        BY <2>1, <2>4 DEF BreakTie
      <3>2. Decision \in Named /\ \E p \in Votes(Decision) : \A q \in AllVotes : p <= q
        BY <3>1, ConfiguredFirst
      <3> QED BY <1>1, <1>4, <2>2, <2>4, <3>2 DEF May
    <2>5. CASE strategy[2] # "fail" /\ strategy[2] # "configured_order"
      <3>1. Decision = HighestScore
        BY <2>1, <2>5 DEF BreakTie
      <3>2. \A e \in Candidates : Votes(e) # {} => e \in Named
        BY NamedVoted
      <3> QED BY <1>1, <1>4, <2>2, <2>5, <3>1, <3>2, HighestScoreNamed DEF May
    <2> QED BY <2>3, <2>4, <2>5
  <1> QED BY <1>2, <1>3, <1>4

-----------------------------------------------------------------------------
(* The invariant.                                                          *)

\* How far the request is tells what it has.
Progress ==
    /\ pc = "idle" => answers = <<>>
    /\ pc = "resolving" => \A k \in 1..Len(answers) : answers[k].from \notin asked
    /\ pc \in {"idle", "resolving"} => selected = NoDigest
    /\ pc \in {"selected", "pulling"} => selected # NoDigest
    /\ pc # "done" => outcome = "none"

ResolutionIInv == Heard /\ Progress /\ SelectionInv

\* The range of the variables but the answers, which Heard tells.
Ranges ==
    /\ pc \in {"idle", "resolving", "selected", "pulling", "done"}
    /\ health \in [Sources -> SUBSET Holds]
    /\ asked \subseteq Resolvers /\ todo \subseteq Sources
    /\ selected \in Candidates \cup {NoDigest}
    /\ outcome \in {"none", "notfound", "limited", "unavailable", "served"}
    /\ served \in Candidates \cup {NoDigest}

\* Together they are the type of the state.
LEMMA RangesAndHeard ==
    /\ Heard => (ResolutionTypeOK <=> Ranges)
    /\ Heard' => (ResolutionTypeOK' <=> Ranges')
  BY DEF Heard, ResolutionTypeOK, Ranges

\* While the answers stay, so does what may be selected.
LEMMA MayStays ==
    ASSUME UNCHANGED <<strategy, answers>>
    PROVE  /\ May(selected)' <=> May(selected')
           /\ May(served)' <=> May(served')
           /\ \A d : May(d)' <=> May(d)
  BY DEF May, Majority, Votes, AllVotes

\* The invariant holds at first.
LEMMA ResolutionInitIInv == ResolutionInit => ResolutionIInv
  <1> SUFFICES ASSUME ResolutionInit PROVE ResolutionIInv
    OBVIOUS
  <1>1. Len(<<>>) = 0 /\ answers = <<>>
    BY DEF ResolutionInit
  <1>2. Heard
    BY <1>1 DEF Heard
  <1>3. Ranges
    BY DEF ResolutionInit, Ranges, NoDigest
  <1>4. Progress
    BY DEF ResolutionInit, Progress
  <1>5. SelectionFromVotes /\ SelectionMade /\ ServedIsSelected /\ NotFoundHeard
    BY DEF ResolutionInit, SelectionFromVotes, SelectionMade, ServedIsSelected, NotFoundHeard
  <1> QED BY <1>2, <1>3, <1>4, <1>5, RangesAndHeard DEF ResolutionIInv, SelectionInv

\* The steps that leave the answers as they are.
LEMMA AnswersStay ==
    ASSUME ResolutionIInv, UNCHANGED <<strategy, answers>>
    PROVE  /\ Heard'
           /\ SelectionFromVotes' <=> (selected' # NoDigest => May(selected'))
           /\ SelectionMade' <=> (pc' = "done" /\ selected' = NoDigest => \A d \in Candidates : ~May(d))
           /\ ServedIsSelected' <=> (outcome' = "served" => served' = selected' /\ May(served'))
           /\ NotFoundHeard' <=>
                 (outcome' = "notfound" => \A k \in DOMAIN answers : answers[k].what = "notfound")
  <1>1. /\ May(selected)' <=> May(selected')
        /\ May(served)' <=> May(served')
        /\ \A d : May(d)' <=> May(d)
    BY MayStays
  <1>2. Heard'
    BY DEF ResolutionIInv, Heard
  <1> QED BY <1>1, <1>2 DEF SelectionFromVotes, SelectionMade, ServedIsSelected, NotFoundHeard

\* resolveManifest begins.
LEMMA AskStep ==
    ASSUME ResolutionIInv, Ask
    PROVE  ResolutionIInv'
  <1>1. pc = "idle" /\ answers = <<>> /\ selected = NoDigest /\ UNCHANGED <<strategy, health, answers, selected, todo>>
    BY DEF ResolutionIInv, Progress, Ask
  <1>2. Heard' /\ Len(answers) = 0 /\ Len(answers') = 0
    BY <1>1, AnswersStay
  <1>3. /\ asked' \subseteq Resolvers
        /\ \/ pc' = "resolving" /\ outcome' = "none" /\ served' = served
           \/ pc' = "done" /\ outcome' \in {"limited", "unavailable"} /\ served' = NoDigest
    BY <1>1 DEF ResolutionIInv, Progress, Ask, RespondError, Respond, UnavailableError
  <1>4. Ranges'
    BY <1>1, <1>3, RangesAndHeard DEF ResolutionIInv, SelectionInv, Ranges
  <1>5. Progress'
    BY <1>1, <1>2, <1>3 DEF Progress
  <1>6. \A d : ~May(d)
    BY <1>1 DEF May, Votes
  <1>7. SelectionFromVotes' /\ SelectionMade' /\ ServedIsSelected' /\ NotFoundHeard'
    BY <1>1, <1>3, <1>6, AnswersStay
  <1> QED BY <1>2, <1>4, <1>5, <1>7, RangesAndHeard DEF ResolutionIInv, SelectionInv

\* One more answer.
LEMMA AnswerStep ==
    ASSUME ResolutionIInv, NEW p, NEW a \in Kinds, NEW d \in Candidates \cup {NoDigest}, Answer(p, a, d)
    PROVE  ResolutionIInv'
  <1> DEFINE A == [from : Resolvers, what : Kinds, digest : Candidates \cup {NoDigest}]
             r == [from |-> p, what |-> a, digest |-> d]
  <1>1. /\ pc = "resolving" /\ pc' = "resolving" /\ p \in asked /\ asked' = asked \ {p}
        /\ answers' = Append(answers, r) /\ (a = "digest" <=> d # NoDigest)
        /\ UNCHANGED <<strategy, health, selected, todo, outcome, served>>
    BY DEF Answer
  <1>2. answers \in Seq(A) /\ r \in A
    <2>1. asked \subseteq Resolvers
      BY DEF ResolutionIInv, SelectionInv, ResolutionTypeOK
    <2> QED BY <2>1, <1>1 DEF ResolutionIInv, Heard
  <1> DEFINE n == Len(answers)
  <1>3. /\ answers' \in Seq(A) /\ Len(answers') = n + 1 /\ n \in Nat /\ answers'[n + 1] = r
        /\ \A k \in 1..n : answers'[k] = answers[k]
    <2> HIDE DEF A, r
    <2> QED BY <1>1, <1>2
  <1>4. \A k : k \in 1..Len(answers') <=> k \in 1..n \/ k = n + 1
    BY <1>3
  <1>5. \A k \in 1..n : answers[k].from \notin asked
    BY <1>1 DEF ResolutionIInv, Progress
  <1> HIDE DEF n
  <1>6. Heard'
    <2>1. \A k \in 1..Len(answers') : answers'[k].what = "digest" <=> answers'[k].digest # NoDigest
      BY <1>1, <1>3, <1>4 DEF ResolutionIInv, Heard, n
    <2>2. \A j, k \in 1..Len(answers') : answers'[j].from = answers'[k].from => j = k
      BY <1>1, <1>3, <1>4, <1>5 DEF ResolutionIInv, Heard, n
    <2> QED BY <1>3, <2>1, <2>2 DEF Heard
  <1>7. Ranges'
    BY <1>1, RangesAndHeard DEF ResolutionIInv, SelectionInv, Ranges
  <1>8. Progress'
    BY <1>1, <1>3, <1>4, <1>5 DEF ResolutionIInv, Progress
  <1>9. SelectionFromVotes' /\ SelectionMade' /\ ServedIsSelected' /\ NotFoundHeard'
    <2>1. selected' = NoDigest /\ pc' = "resolving" /\ outcome' = "none"
      BY <1>1 DEF ResolutionIInv, Progress
    <2> QED BY <2>1 DEF SelectionFromVotes, SelectionMade, ServedIsSelected, NotFoundHeard
  <1> QED BY <1>6, <1>7, <1>8, <1>9, RangesAndHeard DEF ResolutionIInv, SelectionInv

\* The selection itself.
LEMMA SelectStep ==
    ASSUME ResolutionIInv, Select
    PROVE  ResolutionIInv'
  <1>1. pc = "resolving" /\ outcome = "none" /\ selected = NoDigest /\ UNCHANGED <<strategy, asked, answers, todo>>
    BY DEF ResolutionIInv, Progress, Select
  <1>2. Heard /\ Heard'
    BY <1>1, AnswersStay DEF ResolutionIInv
  <1>3. health' \in [Sources -> SUBSET Holds]
    <2>1. \A p \in Sources : health[p] \in SUBSET Holds
      BY DEF ResolutionIInv, SelectionInv, ResolutionTypeOK
    <2> QED BY <2>1 DEF Select
  <1>4. CASE Named = {}
    <2>1. /\ pc' = "done" /\ served' = NoDigest /\ selected' = NoDigest
          /\ outcome' \in {"notfound", "unavailable"}
          /\ outcome' = "notfound" => \A k \in DOMAIN answers : answers[k].what = "notfound"
      BY <1>1, <1>4 DEF Select, RespondError, Respond
    <2>2. \A d \in Candidates : ~May(d)
      BY <1>2, <1>4, NamedVoted DEF May
    <2>3. Ranges'
      BY <1>1, <1>3, <2>1 DEF ResolutionIInv, SelectionInv, ResolutionTypeOK, Ranges
    <2>4. Progress'
      BY <1>1, <2>1 DEF Progress
    <2>5. SelectionFromVotes' /\ SelectionMade' /\ ServedIsSelected' /\ NotFoundHeard'
      BY <1>1, <2>1, <2>2, AnswersStay
    <2> QED BY <1>2, <2>3, <2>4, <2>5, RangesAndHeard DEF ResolutionIInv, SelectionInv
  <1>5. CASE Named # {} /\ Decision = NoDigest
    <2>1. pc' = "done" /\ served' = NoDigest /\ selected' = NoDigest /\ outcome' = "unavailable"
      BY <1>1, <1>5 DEF Select, RespondError, Respond
    <2>2. \A d \in Candidates : ~May(d)
      BY <1>2, <1>5, DecisionMay
    <2>3. Ranges'
      BY <1>1, <1>3, <2>1 DEF ResolutionIInv, SelectionInv, ResolutionTypeOK, Ranges
    <2>4. Progress'
      BY <1>1, <2>1 DEF Progress
    <2>5. SelectionFromVotes' /\ SelectionMade' /\ ServedIsSelected' /\ NotFoundHeard'
      BY <1>1, <2>1, <2>2, AnswersStay
    <2> QED BY <1>2, <2>3, <2>4, <2>5, RangesAndHeard DEF ResolutionIInv, SelectionInv
  <1>6. CASE Named # {} /\ Decision # NoDigest
    <2>1. pc' = "selected" /\ selected' = Decision /\ UNCHANGED <<outcome, served>>
      BY <1>1, <1>6 DEF Select
    <2>2. Decision \in Candidates /\ May(Decision)
      BY <1>2, <1>6, DecisionMay
    <2>3. Ranges'
      BY <1>1, <1>3, <2>1, <2>2 DEF ResolutionIInv, SelectionInv, ResolutionTypeOK, Ranges
    <2>4. Progress'
      BY <1>1, <1>6, <2>1 DEF Progress
    <2>5. SelectionFromVotes' /\ SelectionMade' /\ ServedIsSelected' /\ NotFoundHeard'
      BY <1>1, <2>1, <2>2, AnswersStay
    <2> QED BY <1>2, <2>3, <2>4, <2>5, RangesAndHeard DEF ResolutionIInv, SelectionInv
  <1> QED BY <1>4, <1>5, <1>6

\* pullManifest.
LEMMA PullStep ==
    ASSUME ResolutionIInv,
           \/ BeginPull \/ PullFails
           \/ \E p \in Sources : \/ \E a \in Errors : PullRefused(p, a)
                                 \/ \E d \in Candidates : PullAnswers(p, d)
    PROVE  ResolutionIInv'
  <1>1. /\ UNCHANGED <<strategy, asked, answers, selected>> /\ selected # NoDigest
        /\ pc \in {"selected", "pulling"} /\ outcome = "none"
    BY DEF ResolutionIInv, Progress, BeginPull, PullFails, PullRefused, PullAnswers
  <1>2. Ranges
    BY RangesAndHeard DEF ResolutionIInv, SelectionInv
  <1>3. /\ todo' \subseteq Sources
        /\ \/ pc' = "pulling" /\ outcome' = "none" /\ served' = served
           \/ pc' = "done" /\ outcome' \in {"limited", "unavailable"} /\ served' = NoDigest
           \/ pc' = "done" /\ outcome' = "served" /\ served' = selected
    BY <1>1, <1>2 DEF Ranges, Available, BeginPull, PullFails, PullRefused, PullAnswers, Respond, RespondError,
                      UnavailableError
  <1>4. health' \in [Sources -> SUBSET Holds]
    <2>1. ASSUME NEW p \in Sources, NEW a \in Errors, PullRefused(p, a)
          PROVE  health' \in [Sources -> SUBSET Holds]
      BY <1>2, <2>1 DEF Ranges, PullRefused, RecordSourceFailure
    <2>2. CASE UNCHANGED health
      BY <1>2, <2>2 DEF Ranges
    <2> QED BY <2>1, <2>2 DEF BeginPull, PullFails, PullAnswers
  <1>5. Ranges'
    BY <1>1, <1>2, <1>3, <1>4 DEF Ranges
  <1>6. Progress'
    BY <1>1, <1>3 DEF Progress
  <1>7. SelectionFromVotes' /\ SelectionMade' /\ ServedIsSelected' /\ NotFoundHeard'
    BY <1>1, <1>3, AnswersStay DEF ResolutionIInv, SelectionInv, SelectionFromVotes
  <1> QED BY <1>1, <1>5, <1>6, <1>7, AnswersStay, RangesAndHeard DEF ResolutionIInv, SelectionInv

\* What others record of the sources.
LEMMA OthersStep ==
    ASSUME ResolutionIInv, Others \/ UNCHANGED resolutionVars
    PROVE  ResolutionIInv'
  <1>1. UNCHANGED <<strategy, pc, asked, answers, selected, todo, outcome, served>>
    BY DEF Others, OthersHold, OthersClear, resolutionVars
  <1>2. Ranges
    BY RangesAndHeard DEF ResolutionIInv, SelectionInv
  <1>3. health' \in [Sources -> SUBSET Holds]
    BY <1>2 DEF Ranges, Others, OthersHold, OthersClear, resolutionVars
  <1>4. Ranges'
    BY <1>1, <1>2, <1>3 DEF Ranges
  <1>5. Progress'
    BY <1>1 DEF ResolutionIInv, Progress
  <1>6. SelectionFromVotes' /\ SelectionMade' /\ ServedIsSelected' /\ NotFoundHeard'
    BY <1>1, AnswersStay
       DEF ResolutionIInv, SelectionInv, SelectionFromVotes, SelectionMade, ServedIsSelected, NotFoundHeard
  <1> QED BY <1>1, <1>4, <1>5, <1>6, AnswersStay, RangesAndHeard DEF ResolutionIInv, SelectionInv

\* The next request begins afresh.
LEMMA NextRequestStep ==
    ASSUME ResolutionIInv, NextRequest
    PROVE  ResolutionIInv'
  <1>1. /\ pc' = "idle" /\ answers' = <<>> /\ asked' = {} /\ selected' = NoDigest /\ todo' = {}
        /\ outcome' = "none" /\ served' = NoDigest /\ health' = health
    BY DEF NextRequest
  <1>2. Ranges
    BY RangesAndHeard DEF ResolutionIInv, SelectionInv
  <1>3. Heard' /\ Ranges' /\ Progress'
    <2>1. Len(answers') = 0
      BY <1>1
    <2> QED BY <1>1, <1>2, <2>1 DEF Heard, Ranges, Progress
  <1>4. SelectionFromVotes' /\ SelectionMade' /\ ServedIsSelected' /\ NotFoundHeard'
    BY <1>1 DEF SelectionFromVotes, SelectionMade, ServedIsSelected, NotFoundHeard
  <1> QED BY <1>3, <1>4, RangesAndHeard DEF ResolutionIInv, SelectionInv

\* Every step keeps the invariant.
LEMMA ResolutionNextIInv == ResolutionIInv /\ [ResolutionNext]_resolutionVars => ResolutionIInv'
  <1> SUFFICES ASSUME ResolutionIInv, [ResolutionNext]_resolutionVars PROVE ResolutionIInv'
    OBVIOUS
  <1>1. CASE Ask
    BY <1>1, AskStep
  <1>2. ASSUME NEW p \in Sources, NEW a \in Kinds, NEW d \in Candidates \cup {NoDigest}, Answer(p, a, d)
        PROVE  ResolutionIInv'
    BY <1>2, AnswerStep
  <1>3. CASE Select
    BY <1>3, SelectStep
  <1>4. CASE \/ BeginPull \/ PullFails
             \/ \E p \in Sources : \/ \E a \in Errors : PullRefused(p, a)
                                   \/ \E d \in Candidates : PullAnswers(p, d)
    BY <1>4, PullStep
  <1>5. CASE NextRequest
    BY <1>5, NextRequestStep
  <1>6. CASE Others \/ UNCHANGED resolutionVars
    BY <1>6, OthersStep
  <1> QED BY <1>1, <1>2, <1>3, <1>4, <1>5, <1>6 DEF ResolutionNext, Request

\* Whatever the sources, digests, priorities and scores, and in whatever order the
\* answers arrive: the digest that is selected follows from the votes and the strategy
\* alone, one is selected whenever the strategy singles one out, a client is served
\* that digest or an error, and a reference is reported unknown only when every
\* Resolver that was asked said so (router.go:180-371).
THEOREM SelectionIsOfTheVotes == ResolutionSpec => []SelectionInv
  <1>1. ResolutionIInv => SelectionInv
    BY DEF ResolutionIInv
  <1> QED BY <1>1, ResolutionInitIInv, ResolutionNextIInv, PTL DEF ResolutionSpec
=============================================================================
