# Formal verification of Docker Registry Gateway

This directory holds TLA+ specifications of the gateway in `src/`
(`docker-registry-gateway`, binary `drg`), the TLC configurations that
model-check them on small instances, and proofs, checked by TLAPS, of theorems
about them. Paths below are relative to `src/internal/` unless they begin with
a name at the root of the repository.

`PROJECT.json` is the machine-readable index: which definition models which
lines, what each run checks, which plausible bug (mutant) each property would
catch, which hazards of the code each property is aimed at, and what was found.

    tlc -workers 2 -config Switcher.cfg Switcher    # a run
    tlapm SwitcherProofs.tla                        # a proof

Contents: 1 the system, 2 the modules, 3 the runs, 4 fairness, 5 proofs,
6 what was met on the way, 7 what is not modelled, 8 the plan.

## 1. The system

The gateway is a local, read-only Docker registry. A pull of a manifest asks
several *Resolvers* which digest a tag names and selects one; a pull of a blob
streams it from one *Pull Provider* and goes on from another when that one
fails. Configuration can be replaced while pulls are under way. The gateway is
a process of its own; the commands of `drg` talk to it over a local HTTP
endpoint whose address and token are in `control.json`.

| Part (code) | State it keeps | Operations | What makes it correct | What is hard |
|---|---|---|---|---|
| Request limit (`gateway/request_limit.go`) | a buffered channel | take or refuse, release | every slot comes back | each exit path |
| Admission and hot swap (`gateway/runtime.go`) | `pullSlots`, atomic `queued` and `active`, `stopping`, `accepting`, `backend` | `Blob`, `Manifest`, `Replace`, `StopAccepting` | counters are exact; limits hold; a stop is final and drains; a pull keeps its backend | select takes any ready case; the counter is raised before it is compared |
| Blob streaming (`router/router.go`) | the reader: offset, current stream, attempted sources, stall timer | open, read, resume, restart and discard, close | bytes once and in order, one open body, an end to every pull | failure at any byte, timer against data, client gone at any time |
| Segmented download (`router/segment.go`) | plan, goroutine and file per segment, `TempBudget` | plan, reserve, download, compare overlaps, read, fall back, clean | the plan is a partition; disk within quota and given back; one failure ends all | 64-bit arithmetic on a claimed size; cancellation from three sides |
| Manifest resolution (`router/router.go`) | answers in flight | ask all, vote, break the tie, fetch | the selection depends on the votes, not on their order | answers in any order, partial failure |
| Decision leases (`lease/store.go`) | a map per Store, one file | `Get`, `Put`, `Invalidate`, `Open` | a lease is a pulled decision, stays within its term, and stays cleared | several Stores and processes over one file, each writing all of it |
| Provider health (`router/health.go`) | per Provider: rate limit, isolations, speeds | records, `available`, ordering, `Snapshot`/`Restore` | a hold has a reason of the Provider's own; the order is one order | written by all pulls and probes |
| Service lifecycle (`cli/cli.go` `runServe`, start, stop, restart; `control/`; `tempstate/`) | processes, port, `control.json`, workspaces | start, serve, drain, exit; prepare, reclaim | the served process is found; nothing stays behind; a live process keeps its files | crash or error between any two steps, processes of different ages |
| Configuration and reload (`cli/cli.go`) | `drg.yaml`, its backup, the served Router, `reloadMu` | add/remove, hand edit, reload, probe | file and gateway agree; no older state replaces a newer one | client timeout against a late reload |
| Provider probes (`cli/cli.go`, `provider/client.go`) | probe group, 15-minute ticker | launch, cancel, wait | one at a time, ended before the process | a lock between ticker and reload |
| Local CA and rotation (`localca/`) | eight files in `pki/` | reconcile, prepare, activate, clear | the files agree; interruptions are recoverable | no write is atomic with the next |
| Served certificate (`certmanager/`) | the loaded pair | load, reload | what is served is trusted and current | files replaced by a command |
| Docker trust (`trust/`) | files per name, or a store | install | each served root is trusted | the order of the steps of a rotation |
| Registry handler (`registry/`) | none | write a blob, verify, map failures | a mismatch cuts the response | the digest is known after the last byte |
| Provider client (`provider/`) | token cache | request, refresh once, probe | a request ends with its own answer | concurrent refreshes, a reload that replaces the client |
| Route guard (`routeguard/`) | instance ID, the trace of the request | refuse a loop, add itself | no request goes round; nothing is hidden but behind an ID that two gateways share | a ring of gateways, each with its own limits and its own view of who is held out |
| Event log (`eventlog/`) | a file a day, the follower's cursors | write, remove the old, read, follow | each event once; the log stays small | removal and half a line under a follower, several processes |
| Health history (`healthhistory/`) | `provider-health.json` | save every 10 s and at the end, load | the last process's knowledge is kept | a successor loads before the last save |
| Configuration file, onboarding, doctor, output, permissions | – | parse, validate, prompt, print | unit tests reach it | – |

How they interact. The HTTP server calls `LimitRequests`, which calls
`registry.Handler`, which calls `Switcher`; the Switcher holds the current
`Router`. The Router reads and writes `Health` and the lease `Store` and calls
`provider.Client`. The control endpoint's callbacks (`Reload`, `Stop`) run in
`runServe`'s process and change the Switcher, the listeners and the probes;
commands reach them only through `control.json` and HTTP with timeouts (10 s
for a reload, 2 s otherwise). `runServe`'s daily maintenance and the commands
`drg tls ...` share `pki/`, and `drg resolver invalidate` and the server share
the lease file, with no lock between processes; so do two processes the event log
and, while one stops, the health history. A gateway may be the Provider of
another: the request carries the gateways it came by in headers that the route
guard reads before the Switcher and `provider.Client` adds to.

The hazards (`PROJECT.json`, 40 of them, each at its line) name what of this a
test would hardly reach, and which property is aimed at it.

## 2. The modules

Each module models the functions named at its definitions; a step is one
channel, mutex, file or network operation of the code where another actor
could come in between, and otherwise as long as the code goes undisturbed.
Definitions keep the source's names where possible. A definition introduced by
"a plausible slip" is a wrong form of the one after it, used by a mutant only.

| Module | What it models | State ↔ code |
|---|---|---|
| `PullAdmission` | what the gateway promises about pulls: abstract, no code | reservations, waiters, pulls being served, open or closed |
| `Switcher` | `LimitRequests` and `Switcher`: goroutines as program counters | `slots` = `len(pullSlots)`, `queued`, `active`, `accepting`, `stopping` as in the struct; `captured` = the backend snapshot of `Blob` |
| `SwitcherProofs` | theorems on `Switcher` and on `EventLog` | |
| `BlobDelivery` | what the gateway promises about the body of a blob: abstract, no code | the stretch announced, the positions sent, how it ended |
| `BlobStream` | one pull as a resumable stream: `openBlob`, `resumableBlobReader`, the stall timer, `streamBlob`, and eligibility in `Health` | bytes are positions; `offset` = `reader.offset`; `streams` counts the upstream bodies that are open; `dead` = the attempt's context |
| `SegmentPlan` | `planSegments`, `segmentStorageBytes`, the overlap window, in machine integers | operators on a size, no state; `Wrap` is int64 |
| `SegmentedBlob` | `trySegmentedBlob`, the goroutines, `segmentedReader`, its fallback, `TempBudget`; extends `SegmentPlan` | `size` = what the Provider claims; `goroutine[i]`, `ready[i]` = the result channel, `files`, `used` = `TempBudget.used` |
| `Resolution` | `Manifest`'s resolution: parallel answers, strategies, tie breaks, the fetch | `answers` in order of arrival; `strategy` = the two configured names; `Score` stands for the rendezvous hash |
| `DecisionLease` | `lease.Store` under requests, reloads, `drg resolver invalidate`, crash and restart | a map per Store opened, one file; `held` = the map a Store being opened is about to write back; `cli` = the step and the map of each invalidation; `pulled`, `disturbed` and the `after` of an entry (the invalidations reported done before it was decided) are history for the properties |
| `ServiceLifecycle` | `runServe`, `control.Start/Close`, the Stop callback, `tempstate`, and start, stop, restart | processes numbered by launch; `info` = whom `control.json` names; `workspace[i]`; `pull[p]` = the process that serves it; `gone`, `raced`, `slow` are history variables |
| `RootRotation` | `Reconcile`, `PrepareRootRotation`, `ActivateRootRotation`, `ClearPreviousRoot`, `certmanager`, `trust.Install` | one field of `disk` per file, holding which root or leaf it is; `presented` = the leaf of the `certmanager.Manager`; `slots` = the trust is a file per name (Linux) or a store; `uninstalled` = the roots in use whose last installation was skipped, refused or interrupted; `broken` records interruptions |
| `ConfigReload` | `provider add/remove`, hand edits, the Reload callback, probes, the end of `runServe` | a configuration is the set of changes in it and the number of the write; `lock` = `reloadMu`; `regime` picks the circumstances |
| `ProviderHealth` | `healthState`, every `Record...`, `available`, the comparison that orders Providers, `Snapshot` and `Restore` | operators on one Provider's record, no state |
| `ProviderUse` | one Provider under requests, token refreshes, probes, reloads, the periodic and the last save, and the next process; extends `ProviderHealth` | `health[p]`, `token[p]`, `probe[p]` per process; `busy` = recent activity; `saving` = the snapshot before its rename; `file` = `provider-health.json` |
| `GatewayRing` | `routeguard`, the refusals of `LimitRequests`, `AcquirePull`, the forwarding of a pull by gateways that are each other's Providers | one frame per client and gateway on the way; `Instance` = the ID of each gateway; `trace` = the route header; `past` = the Providers already asked or held out when the pull began; `crowded` and `passed` of a client are history: whether a limit turned its chain away, which Providers were held out, where |
| `EventLog` | `Log.Write` with its cleanup, `Read`, `Follow` | a file is a sequence of half lines; `order` = by modification time; `cursor` as in `Follow`; `shown` and `again` are what `Follow` printed, once and a second time; `owed` is a history variable |
| `BlobStreamProofs`, `SegmentedProofs`, `ProviderUseProofs`, `GatewayRingProofs`, `DecisionLeaseProofs`, `ServiceLifecycleProofs`, `ConfigReloadProofs` | theorems on the module each is named after and on what it extends (section 5); `ConfigReloadProofs` also on `RootRotation`, `DecisionLeaseProofs` on `Resolution` | |
| `MCBlobStream`, `MCResolution`, `MCDecisionLease`, `MCConfigReload`, `MCProviderUse`, `MCGatewayRing` | instances for TLC: model values, circumstances, networks, symmetry | |

`SegmentedBlob` composes with `SegmentPlan` (EXTENDS: the reader works on the
plan's own segments) and `ProviderUse` with `ProviderHealth` (requests, probes
and processes apply the same records). Two abstract modules are implemented
(`INSTANCE ... WITH`): `PullAdmission` by `Switcher` (`ImplementsAdmission`), and
`BlobDelivery` by both `BlobStream` and `SegmentedBlob`
(`ImplementsDelivery` in either), so that a client sees the same promise whichever way
a blob is fetched. `RootRotation`, `Resolution` and `EventLog` have names of their
own where the others say `Init`, `Next` or `Spec`, so that their proofs can stand
beside those of `ConfigReload` (commands and a running gateway share the files of
either), `DecisionLease` (a lease is of a digest that a resolution selected) and
`Switcher`.
`GatewayRing` composes gateways, each of which is a limit on requests, a route
guard, a limit on pulls and a Router that asks its Providers in turn. The other
components meet at small interfaces, modelled on either side as a
nondeterministic environment that allows whatever the neighbour can do:

* `Switcher` sees of a Router that `Blob` returns or fails and that a stream
  ends; `BlobStream` and `SegmentedBlob` say how.
* `SegmentedBlob` sees of a stream that it opens or not, and reads or fails;
  `BlobStream` says how.
* `BlobStream` and `Resolution` allow other pulls and probes to hold out or
  readmit any Provider at any time (`World`); `ProviderUse` says when they do.
* `GatewayRing` leaves open the order in which Providers are tried and which of
  them are held out when a pull begins; `ProviderHealth` defines the one and
  `ProviderUse` says how the other comes about. It leaves open when the limit
  on requests is reached, and has of the queue that it is full or not; `Switcher` has the counters of both.
* `ProviderUse` sees of the configuration which credentials a reload brings;
  `ConfigReload` says which file is loaded and that there is one probe at a time.
* `ServiceLifecycle` has the end of a process as steps; the goroutines that
  `runServe` waits for in it (ticker, probes, reloads) are in `ConfigReload`.

Abstractions used throughout. Bytes are positions and corruption is a property
of the Provider that sent them (a digest matches exactly when no corrupt
Provider contributed). Providers are listed in any order, because the code
orders them by measured speeds. Names, headers, tokens, error texts and log
events are left out. Errors are kept as far as the code tells them apart (not
found, rate limited, isolating, other).

## 3. The runs

Seconds are those of a run with two workers beside another such run.

| Run (cfg) | Distinct states | Bounds |
|---|---|---|
| `switcher` (`Switcher.cfg`) | 76 thousand (56 s) | 3 requests, 1 slot, 1 queue place, 1 replacement; fair |
| `blob` (`Blob.cfg`) | 653 thousand (183 s) | 2 of 3 Providers (honest, corrupt, without Range) with `Health` shared, or all 3 alone; 2 bytes, all of them or the last one asked for; discard budget 0 or 1; fair |
| `segmented` (`Segmented.cfg`) | 93 thousand (24 s) | 8-bit word, any size it holds, up to 3 segments, overlap 3, quota 12; fair |
| `resolution` (`Resolution.cfg`) | 3.5 million (114 s) | 3 Resolvers, 2 candidate digests, every strategy and tie breaker |
| `lease` (`Lease.cfg`) | 4.2 million (136 s) | 2 keys, 1 digest, 2 requests, 2 invalidations (of one reference or all), at most 2 of these at work at a time, 2 Stores, clock 1, symmetry |
| `lifecycle` (`Lifecycle.cfg`) | 5.1 million (159 s) | 3 processes, 1 command, 1 pull, crashes, failing steps, late answers |
| `rotation` (`Rotation.cfg`) | 10.6 million (146 s) | 3 roots, 2 leaves, 1 kind of interruption, both kinds of trust; any installation may come to nothing |
| `config` (`Config.cfg`) | 918 thousand (78 s) | 2 commands: overlapping, with late answers and 1 write; or in turn, with faults and 4 writes; fair |
| `providers` (`Providers.cfg`) | 1.3 million (183 s) | 1 Provider; 2 requests with expiring tokens, rate limits and refused credentials; 1 request with one other fault; 1 request and 2 processes; fair |
| `ring` (`Ring.cfg`) | 235 thousand (120 s) | 4 gateways, two with one ID, 4 networks, 2 Providers that may be held out, 2 clients, 3 hops, 1 slot and 1 queue place a gateway; fair |
| `events` (`Events.cfg`) | 715 thousand (72 s) | 2 processes, 2 days, 4 events, room for 2, 1 event of history; the follower is fair |
| `lifecycle_drain` (`LifecycleDrain.cfg`) | violation | 1 process, 1 command, 2 pulls |

A module's type invariant is checked with the safety invariant it belongs to:
`StreamInv`, `BudgetInv`, `SelectionInv`, `LeaseInv`, `LifecycleInv`,
`RotationInv`, `ConfigInv`, `UseInv` and `LogInv` each contain the module's `TypeOK`, and `RouteInv` says of
`GatewayRing` what a frame may hold. `Switcher`'s `TypeOK` is proved (section 5)
and not run. What each run asks and shows:

* `switcher`: the counters are exact on every path out of a pull
  (`Accounting`); a stop empties the queue even if streams hang, and drains if
  they end (`StopDrains`); a pull keeps the backend it began with across a
  reload (`BackendKept`); each step implements `PullAdmission`, so limits hold while the queue
  counter overshoots and a stop is final.
* `blob`: with every failure, stall, switch, restart and departure, and other
  pulls changing `Health` under it, the response implements `BlobDelivery`:
  bytes once and in order, a status only in their place, a proper end only after
  the last. No upstream body is lost (`StreamInv`), a pull nobody interferes with
  is given up only after every admitted Provider (`AbortedOnlyWhenExhausted`), a
  hanging upstream is ended by the stall timer where there is another one
  (`StallEnds`), and by the client's departure (`DepartureFrees`); and where
  upstreams answer every pull ends (`PullEnds`), since no round of failures, stalls,
  slow sources and restarts goes on for ever, although others keep readmitting what
  the pull has left.
* `segmented`: whatever size is claimed, a plan that is followed partitions the
  blob; the response implements `BlobDelivery` across segments, files and
  fallback; the disk stays within its quota (`BudgetInv`); nothing is left
  behind; one failure or a departure ends all downloads.
* `resolution`: the digest selected follows from the votes, not their order,
  one is selected whenever the strategy allows it, only it is served, and "not
  found" is the answer of every Resolver that was asked (`SelectionInv`).
* `lease`: only pulled decisions become leases (`LeaseInv`), and an
  invalidation that is reported done stays, unless somebody with an older state of
  the file was at work when it wrote (a request, another invalidation, a Store being
  opened) or a request began before its reload (`QuietInvalidationHolds`). Other
  invalidations may come at any other time, of the same reference or another.
* `lifecycle`: no live process loses its directory and dead ones' are reclaimed
  (`WorkspaceInv`), an exit leaves nothing (`LifecycleInv`), `control.json` names
  the serving process (unless another one's `Close` took it away meanwhile), and
  a stop that reports the end has closed the listener of the process it asked.
* `rotation`: files disagree only after an interruption in a named window
  between two writes (`RotationInv`); and no certificate is served whose root is
  not trusted (`ServedTrusted`), with the exceptions that the property names: the
  last installation of that root came to nothing (`uninstalled`: the gateway
  serves all the same), the root was replaced between the `Reconcile` of a start
  and its installation, and on Linux a certificate that is no longer the one on disk.
* `config`: reloads apply in the order of the file, probes are one at a time
  and end before the process, the process ends; and one command at a time, file
  and gateway agree when it is over, also after a reload that was refused.
* `providers`: a Provider is held out only for something it did, never because
  a token expired, a slower refresh or a reload overtook a request, or a client
  went away (`HoldsEarned`); what a process knew is what it left in the file,
  unless the next one wrote later (`HistoryKept` in `UseInv`); a process that is left alone comes to the
  verdict the Provider deserves, in either direction (`ProbesSettle`).
* `ring`: no request goes round or is worked on beyond the limit (`RouteInv`);
  nobody is served along a way that is too long or leads back to an ID, and a request
  fails only if a limit turned one of its chain away, on requests or on waiting
  pulls, or no allowed way is left without the Providers that were held out for
  it (`FoundIfReachable`); where gateways are in
  layers every request ends, however few slots there are (`RequestsEnd`); and a
  client that goes away frees the slots of the whole chain (`DepartureFrees`).
* `events`: an event is shown once although history and first drain overlap and
  lines are seen half written (`FollowedOnce`); each that is appended while one
  follows is shown, unless it is removed first or its file took the place of a
  removed one (`FollowedAll`); the log is no larger than it may be but for one
  event of each other process (`SizeBounded` in `LogInv`).

Why the bounds are enough, per module:

* *Switcher*. The interesting case is more pulls than slots and queue places
  together: with one slot and one place the third request overflows the queue
  while the second wins a slot, gives up or is stopped. More requests repeat
  these roles; the safety part is proved for any number (section 5).
* *BlobStream*. A pull concerns at most a source that fails, one that cannot
  continue, and one that completes: each pair the code treats differently is
  run with other pulls disturbing `Health`, and the three together without.
  Two bytes have an interior offset for a resume, and a request for the last
  one has a byte before it. A discard budget of one byte makes a restart
  possible at offset 1, one of none refuses it. All but the three liveness
  properties is proved for every size and any Providers.
* *SegmentedBlob*. The code's arithmetic depends on the width only through
  `Wrap`; an 8-bit word lets every size be enumerated, those whose products
  overflow included. Three segments have a first, a middle and a last one,
  hence two overlaps; the overlap is as long as the shortest segments, so it is
  cut off at the blob's start in some plans; the quota admits some plans with a
  byte or more to spare for other pulls and refuses others. Plans, cleanup,
  the quota and delivery are proved for every width and quota.
* *Resolution*. Three voters are the least with a majority against a minority
  and with a tie after one failure; priorities include a missing one. Proved for
  any Resolvers, digests, priorities and scores.
* *DecisionLease*. Two commands and two references are what it takes for one
  command to write back what the other has removed, two requests what they take
  to meet in one Store; that no more than two work at a time (`MaxAtWork`) keeps the
  pairs and leaves out the triples. Two Stores are the one a reload opened and the one an older
  request still holds. Proved for any numbers of them, at work at once too.
* *ServiceLifecycle*. Three processes are the one that ends, its successor,
  and one launched by hand beside them. All four properties are proved for any
  number of processes and commands.
* *RootRotation*. Three roots are a rotation and the one that follows an
  interrupted one; two leaves are one of either root, or one and its renewal;
  `MaxFaults` counts the *kinds* of interruption, so that one that recurs stays
  within the bound, and an installation that comes to nothing is not counted. Both properties are proved for any number of all three.
* *ConfigReload*. Two commands and a hand edit are the parties that can
  overwrite each other; four writes are a change and its undoing for each. The
  two `Regimes` keep the product of both circumstances out of the run; the
  proofs hold for any regime, with any number of commands and writes.
* *ProviderUse*. Two requests are what it takes for one's refresh or transfer to
  meet the other's. The faults do not meet except where they interact (an
  expired token needs none; a rate limit meets a transfer that began before it; refused
  credentials meet a reload): `Scenes` pairs each with the requests it needs. Two
  processes overlap only while one stops; one request of either is enough for
  what a save may miss. What is charged for any mixture of faults is proved.
* *GatewayRing*. The four networks are two gateways that name each other, a
  chain of four, longer than the three hops, a ring of three with a way out
  past a Provider that lacks the content, and two ways from one gateway, of which one leads
  to a gateway with the same ID. In the ring the way on and the way out may be
  held out, in the last network the way that the guard leaves open, so that each
  of them decides some request. One slot and one queue place are the
  smallest limits, where waiting for each other begins; two clients contend. `RouteInv` and
  `FoundIfReachable` are proved for any networks, IDs, held-out Providers, clients and limits.
* *EventLog*. Two processes race to remove the oldest file; two days and no
  retention make a file be removed for its age, room for two events one for
  size; four events leave some to be written after the follower has caught up,
  and one event of history leaves some unseen before it. That nothing is shown
  twice and that the log keeps its size is proved for any number of all these.

Each bound is a CONSTANT named in the guard it limits (`MaxReplacements`,
`MaxClock`, `MaxStores`, `MaxAtWork`, `MaxRoots`, `MaxLeaves`,
`MaxFaults`, `MaxWrites`, `MaxFailures`, `Days`, `MaxEvents`) or a set the instance
chooses from (`Deployments`, `Regimes`, `Scenes`, `Networks`, `Unsteady`, `Scopes`); `Limit`,
`Maximum`, `Half`, `MaxHops` and `MaxSize` are the code's own. `CHECK_DEADLOCK
FALSE` stands only in the configurations of `ServiceLifecycle`, where every
process may have ended and no command is left, and of `RootRotation`, where no
root or leaf may be created any more.

The run `lifecycle_drain` is expected to find a violation; see section 6.

## 4. Fairness

Where a run's specification is a `Spec` (`RotationSpec`, `ResolutionSpec`), no
fairness is assumed; that of `EventLog` (`LogSpec`) is fair to the follower. Liveness is checked under weak fairness of what Go's
scheduler and local system calls guarantee; an upstream is never assumed to
answer where the code does not bound the wait itself.

* *Switcher* (`FairSpec`): goroutines that can step do; a blocked sender gets
  a slot in its turn (`SF` of `WinSlot`: the runtime queues senders first come,
  first served). Nothing is assumed of upstreams: the first half of
  `StopDrains`, that the queue empties, holds while every stream hangs. Its second half and
  `EveryRequestEnds` have the hypothesis `UpstreamsProgress` in their own
  statement (backend calls return and streams end), which the stall timer and
  the client's departure bring about in `BlobStream`. Neither arrivals nor stops
  are assumed to come.
* *BlobStream*: the request's goroutine and the timer's run. Answers and bodies
  may hang for ever; they end once their context is cancelled. `PullEnds` has the
  hypothesis that they do not hang (`UpstreamsAnswer`) in its own statement.
* *SegmentedBlob*: goroutines run and local files answer; upstreams may hang.
* *ConfigReload*: a callback ends, since each probe in it has 15 seconds, but
  it need not succeed; the ticker, probes and main go on when nothing holds
  them.
* *ProviderUse*: a probe goes on, or times out after 15 seconds, and the
  ticker ticks. Nothing is assumed of requests, operators, the Provider or the
  time a rate limit takes: `ProbesSettle` speaks of processes that are left
  alone and Providers that stay as they are.
* *GatewayRing*: gateways work and registries answer; the limit on requests need
  not turn anybody away; a channel hands a slot to
  whoever has waited longest (`SF` of `Handed`). Clients need not go away, so a
  mutual wait may last, which is why `RequestsEnd` is about networks in layers.
* *EventLog*: the follower's loop goes on; nothing is assumed of the gateways,
  which may stop between the parts of a line.

## 5. Proofs

`SwitcherProofs` proves, for any finite set of requests and any limits of at
least one (`SwitcherAssumption`, what `config.Validate` guarantees):

| Theorem | Property |
|---|---|
| `TypeCorrect` | `TypeOK`: no counter goes below zero |
| `ExactAccounting` | `Accounting`: each counter equals the requests it stands for |
| `BoundedUpstream` | `UpstreamBounded` |
| `BoundedWaiters` | `WaitersBounded` |
| `RefusedOnlyWhenCrowded` | `RejectedOnlyWhenCrowded` |
| `StopIsFinal` | `NoPullAfterStop` |
| `Refinement` | `ImplementsAdmission` |
| `PullKeepsBackend` | `BackendKept`: a reload changes no backend under a pull |

The run `switcher` checks `Accounting`, `BackendKept` and `ImplementsAdmission` on the
instance. `UpstreamBounded`, `WaitersBounded`, `RejectedOnlyWhenCrowded` and
`NoPullAfterStop` are stated for a reader in the code's own counters and proved
directly; the refinement says the same of the limits and of the stop in
`PullAdmission`'s terms, so the run does not repeat them.

The inductive invariant is `IInv`: types, exact accounting, `inflight` and
`slots` within their capacity, and `WaitersBounded`. The limit on waiters does
not follow from a limit on `queued`, which overshoots while rejected requests
are still counted; a request becomes a waiter only when the counter it has
just raised is within the limit, and by exact accounting that counter is an
upper bound of the waiters, so the bound is inductive only together with the
accounting. The argument has three layers: moving one request changes the
cardinality of any set of places by `Delta` (`CountMove`); every action of a
request is such a move with matching changes of the counters (`Moves`); such a
move keeps the accounting (`MovesKeepAccounting`). The limits then follow from
the guards, and the refinement from mapping held, waiting and served requests
to sets of places.

It also holds the proofs of `EventLog`, for any finite set of processes and any
numbers of days and events, any retention, history and size of at least one event
(`EventLogAssumption`):

| Theorem | Property |
|---|---|
| `ShownOnce` | `FollowedOnce`: a follower shows no event twice |
| `LogBounded` | `LogInv`: types, and the log is no larger than it may be but for one event of each other process |

Neither property is inductive; `LogIInv` adds what they rest on, and TLC checked
it on the run's instance before it was proved. A line that has ended is of an
event whose writing is over, and it ended once, in one file (`Recorded`); so
are the events a follower has shown or has seen (`Known`). Then a line whose
event was shown is behind the cursor of its file, or it was shown with the
history and the first drain, which knows it, is still to come to that file
(`Followed`). What a drain decodes are lines that end after the cursor (a pending part is
never the end of one), so their events were not shown, or are known to it. The difficulty is that cursors are captured first
and the history is read after, so that a line appended between is met by both;
that a file may be removed and made again under a cursor; and that the event of
a line is known only when its second half is there.

The size is bounded through what the cleanups under way have decided. Each of
them will append its event when the files it counted out are gone, whoever
removes them, so the bound must hold for *every* set of cleanups that might end
before the others (`Sized`): the parts in the files that such a set spares, two
for each cleanup that has ended or is in the set, and one for each line begun
are at most `MaxSize` and two for each process but one. A cleanup that begins
has made room for itself among the files it has listed, and each of the others adds
at most one event to them. That cleanups remove the least
recently modified first is not needed for it.

`SegmentedProofs` proves of the plan, for every width of the word, every
overlap of at least one, and every size and limit a word can hold: an accepted
plan (`segmentStorageBytes` positive) is an ordered partition of the blob
(`AcceptedPlanPartitions`), its segments have at least `min_segment_size` bytes
(`AcceptedPlanLongEnough`), and a segment repeats only bytes its left
neighbour holds (`AcceptedPlanOverlaps`). The run `segmented` checks the same
for the instance as `AcceptedPlans` (`AcceptedPartitions`,
`AcceptedLongEnough` and `AcceptedOverlaps`). The core is that a plan with an overflowing boundary has an
empty or negative segment somewhere and is refused: if no product overflows,
the cuts are the quotients of the true products, hence ordered.

It proves of a segmented pull, for every width, claimed size,
number of segments, minimum and quota (`SegmentedAssumption`: the configured
numbers are integers, the maximum and the quota not negative):

| Theorem | Property |
|---|---|
| `NothingIsLeft` | `NothingLeft`: a pull that is over has no file, reservation or goroutine |
| `CompleteIsKept` | `CompleteKept`: a segment reported complete stays on disk until cleanup |
| `PlansAreSound` | `AcceptedPlans`: the three properties of the plan, in every reachable state |
| `SegmentsDeliver` | `ImplementsDelivery` |
| `DiskStaysWithinBudget` | `BudgetInv`: what all pulls have on disk is within the quota, and the counter says no less |

`NothingLeft` speaks only of the end of a pull, so its inductive invariant
(`IInv`) says what each phase owes it: nothing is on disk before the goroutines
start (`Untouched`); only planned segments have a goroutine, and one that
copies has its file (`Goroutines`); the cleanup runs once, and only a cleaned
reader opens the single stream (`CleanedOnce`); after the wait of the cleanup
nobody can put a file back (`Swept`); and the budget's counter is the others'
share plus ours exactly between `Reserve` and the release (`Accounted`), which
needs that the release comes at most once. There is one lemma per group of
actions (`AdmissionStep`, `DownloadStep`, `ReaderStep`, `CleanupStep`,
`WorldStep`). `PlansAreSound` needs of the state only that the claimed size
fits the word, and cites the theorems on the plan.

The refinement needs more of the reader (`DInv`): while it reads, the plan is one of those
that partition the blob (`Planned`), the bytes delivered reach exactly to the
position in the segment it is at, whether that is read from a file or from the
single stream (`Placed`), and an outcome is settled once (`Settled`). Each
action is then a step of `BlobDelivery` or a stutter: `NextBytes` is a `Send` of
the bytes that follow, because a segment begins where its left neighbour ends
(`PlanBounds`, from the theorems on the plan).

`BudgetInv` compares what is on disk, the sum over the files, each reckoned at
its full length, with the reservation, the sum over all segments. The sums are
recursive functions over any number of segments; that they exist and that a sum
of smaller parts is smaller (`SumExists`, `SumMonotone`) is shown by a least
counterexample instead of an induction.

`BlobStreamProofs` proves for any Providers, blob, stretch of it, discard
budget and disturbance of `Health` (`BlobAssumption`):

| Theorem | Property |
|---|---|
| `StreamDelivers` | `ImplementsDelivery` |
| `NothingLeaks` | `StreamInv`: one upstream body at most, none once the client has its end |
| `GivenUpLast` | `AbortedOnlyWhenExhausted`: undisturbed, a pull is given up after every admitted Provider |

The invariant of the refinement says that what was delivered is the run of
positions from the start of the stretch to the offset (`Counted`), that the
upstream in use stands at that offset whenever its bytes may be delivered
(`InStep`), which is what a resume and a restart have to establish, and what
each phase knows of the outcome (`Phases`). For the others (`SInv`) it is added
that exactly the body in use is open (`Bodies`), and that as long as nobody else
disturbs the pull, every admitted Provider it has not tried is still on the list
that the resume walks (`Asked`).

`ProviderUseProofs` proves that `Precedes` is a strict total order on
Providers at different places of the configuration (`PrecedesIrreflexive`,
`PrecedesTotal`, `PrecedesTransitive`), for any health and priorities, so the
order of a request's attempts depends on no map order and no sorting. It proves
further, for any sets of requests and processes and any mixture of faults
(`UseAssumption`):

| Theorem | Property |
|---|---|
| `HoldsAreEarned` | `HoldsEarned`: a Provider is held out only for what it did |
| `HistoryIsKept` | `UseInv`: types, one running process, and `HistoryKept` |

Every step of a request is a `Move`: it charges one record to the process it is in, and the
record raises no flag without its reason (`Earned`). Steps of a process that
keep it running or stopping are `Inside` it. What ends or begins a process is
treated by itself. `HistoryKept` is inductive with `Lifetimes`: a process that
has saved has no probe, no request and no periodic save that could still change
what it knew or what the file says, which is why `runServe` waits for them in that
order.

`GatewayRingProofs` proves for any gateways, instance IDs, networks, Providers
that may be held out, clients, slots and hop limit (`RingAssumption`):

| Theorem | Property |
|---|---|
| `RouteAlwaysKnown` | `RouteInv`: no chain meets an ID twice, none is worked on beyond the limit |
| `ContentIsFoundIfReachable` | `FoundIfReachable`: what is served lies on an allowed way; what fails was turned away by a limit, or no allowed way is left without the Providers held out for it |

A way is allowed if it is within the hop limit and no two of its gateways have
one ID; that a way without loops is allowed is not claimed, since IDs may
coincide (section 6).

`RouteInv` is inductive only together with the shape of the chain (`ChainInv`):
in front of a request that has not been forwarded there is nobody. So a request
that is forwarded meets a free place on the way, and its trace grows by the ID of
the gateway that admitted it, which the guard has found not to be in it. For
`FoundIfReachable` the requests of a client are read as a search of the
network, depth first (`SearchInv`): of the Providers that are past at a request,
each but the one it waits for was held out there, or leads to the content on no
way that keeps off the trace, within the hops left and over none of the Providers held out so far (`Left`), unless a
limit turned the client away; and a request that streams has found a way. `Reach`
says that such a way exists, three lemmas how it begins and goes on (`ReachHere`,
`ReachThrough`, `ReachGoesOn`), and one that there are no more ways where more
Providers are left out (`MoreWays`), so that what a search has excluded stays
excluded when another gateway lists its Providers. A request that fails has been
past all Providers of its gateway, so no way that is left leads through it, and
the request before it may count it among those that lead nowhere.

`DecisionLeaseProofs` proves for any references, digests, requests, Stores,
invalidations and what they name, any number of them at work at a time, and any
length of a lease (`LeaseAssumption`):

| Theorem | Property |
|---|---|
| `LeasesArePulled` | `LeaseInv`: types, and each lease is of a manifest that was pulled |
| `QuietInvalidationIsFinal` | `QuietInvalidationHolds`: what an undisturbed invalidation removed comes back only by a resolution that began after it was reported done |

The second has a hypothesis, as the code takes no lock: the invalidation met
nobody with an older state. Its write is `disturbed` by a request under way, by
another command between its reading and its writing, and by a Store that is being
opened and has a map to write back; until its reload is over it is disturbed by a
request that begins. Everything else may overlap with it: earlier and later
steps of other commands, reloads, crashes and restarts.

The invariant follows an entry wherever it is kept: in the file, in any of the
Stores, in the map of each command and of a Store being opened, and in what a
request is about to put (`Recordings`); an entry is *sound* when its digest was
pulled and every invalidation of its key that is done and undisturbed was done before the
request that decided it looked it up. Between the write of such an invalidation
and the end of its reload no request runs, and whatever was read since (the file,
the maps of other commands, the map and the Store of an opening) has none of its
keys (`Quiet`); what was read before was written before, or the
invalidation is disturbed. Every operation of a Store copies, prunes or replaces
entries, so that soundness survives it.

It also holds the proof of `Resolution`, for any sources, Resolvers, candidate
digests and priorities and any scores that tell digests apart
(`ResolutionAssumption`; that two digests have different rendezvous hashes is
what makes the hash a tie breaker):

| Theorem | Property |
|---|---|
| `SelectionIsOfTheVotes` | `SelectionInv`: the digest selected is one the strategy allows for these votes, in whatever order they came; one is selected if the strategy allows any; only it is served |

`May` says what a strategy allows of the votes as sets; `Select` computes from the
sequence of answers, as the code does. `Heard` says what such a sequence is (at
most one answer from each Resolver). From it the proof derives that the list of
indexes of a candidate holds exactly its voters, each once (`ArrivedVotes`), so
that the length of the one is the number of the other, and that of the
candidates sorted by votes only the first can have a majority
(`MajorityFirst`); `DecisionMay` then compares the two, one strategy and tie
breaker at a time. `Progress` adds which of it is settled at each step of the
request. The invariant is `ResolutionIInv`.

`Resolution` and `EventLog` compute with recursive functions (the voters of a
digest in order of arrival, the lines that can be decoded, the parts in the
files). As for the sums of the budget, that such a function exists
and what it returns are shown by a least counterexample.

`ServiceLifecycleProofs` proves for any number of processes and any commands
and pulls, with or without faults, launches by hand and late answers
(`LifecycleAssumption`: processes are numbered from one):

| Theorem | Property |
|---|---|
| `DirectoriesAreReclaimed` | `WorkspaceInv`: a live process keeps its directory, a dead one's is reclaimed by the next start |
| `ExitIsClean` | `LifecycleInv`: types, and an exit leaves no listener, endpoint or file of its own |
| `WhoServesIsFound` | `ServingIsFound`: `control.json` names the process that serves, except `raced` |
| `StopMeansStopped` | `StoppedIsStopped`: a stop that reports the end has seen its process off the port |

The invariant says what a process has published at each step and takes back in
the reverse order (`Owned`), that whoever had ended at a launch has still ended
(`Reclaimed`), that a stop reaches only a process that has served (`Stopping`)
and that a command which waits has asked such a process (`Asked`); `Found` adds
to `ServingIsFound` that the file about to be removed is the remover's own,
which is what `Close` decided when it read the file, and what `raced` breaks.

`ConfigReloadProofs` proves for any commands, writes and regime
(`ConfigAssumption`; `"none"`, the lock's value when nobody has it, names no
command):

| Theorem | Property |
|---|---|
| `LockAndProbes` | `ConfigInv`: types, one reload and one group of probes at a time |
| `FileAndGatewayAgree` | `FileIsServed`: commands in turn and timely leave file and gateway in agreement |
| `ReloadsGoForward` | `NoStaleReload`: no older state of the file replaces a newer one |

`NoStaleReload` needs that what is served, what a reload has loaded and the
file were written in this order (`Ordered`), which holds because `reloadMu`
covers loading and adopting (`Locked`). `FileIsServed` speaks of the end of a
command; under way, what the gateway serves is what the command found and will
put back (`InForce`), as nobody else is at work (`Serial`).

It also holds the proofs of `RootRotation`, for any number of roots,
certificates and kinds of interruption (`RotationAssumption`):

| Theorem | Property |
|---|---|
| `RotationKeepsFiles` | `RotationInv`: types, and the files are torn only in the windows it names |
| `PresentedIsTrusted` | `ServedTrusted`, with its exceptions |

Both follow from one invariant, `RotationIInv`. The windows are those of the
property and the actors that are inside one (`Torn`), which needs how far a
rotation is and what it has noted (`Rotating`, `Places`), that until the
gateway has its identity nobody else is at work (`Identity`), and that an older
root is never mistaken for a newer one (`Order`). Trust has two parts. The root in
use (`RootTrusted`) is trusted or `uninstalled`: before the promotion it is trusted
as the pending one, and afterwards under a name that no rotation overwrites,
unless the installation under that name came to nothing; in between, on Linux, it
may be the name `next`, but only as long as nothing else is prepared. The same is said of each
certificate that the gateway presents, is loading or will find on disk
(`LeafTrusted`), where trust is a store that only grows. The theorem says nothing
of a root that was not installed, and the code nothing either: it reports the
notices of `trust.Install` and goes on. There is one lemma per part of the code
(`Reconciles`, `Serves`, `Prepares`, `Promotes`, `Names`, `Operates`, `Begins`)
and per way of ending (`Stops`, `Fails`, `Interrupts`).

Model-checked only is liveness under fairness (`StopDrains`, `EveryRequestEnds`,
`StallEnds`, `PullEnds`, the two `DepartureFrees`, `DepartureFreesDisk`,
`FailureEndsDownloads`, `ExitEnds`, `ProbesSettle`, `RequestsEnd`, `FollowedAll`),
which is out of the prover's reach. Every invariant and every action property of
the passing runs, and all three refinements, are theorems.

## 6. What was met on the way

One run has TLC show a behaviour of the code against what it says of itself:

* `lifecycle_drain` – `README.md:188` says that `drg stop` waits for pulls to
  drain. `Shutdown` runs in a goroutine of the Stop callback; main waits only
  for `Serve`, which returns as soon as the listeners are closed, and the
  process exits with the pulls it had.

Other places are modelled as the code has them, and the properties say where
they begin. Each is part of the passing runs:

| Code | What happens | Where it shows |
|---|---|---|
| `registry/handler.go:251` | a digest mismatch at the end cuts the response and isolates no Provider | `Finish` of `BlobStream` leaves `health` |
| `router/router.go:465` | a stalled stream is given up for a candidate that then cannot continue it | `AbortedOnlyWhenExhausted` counts the candidate as asked |
| `router/segment.go:174` | one segment's disk error cancels those still opening, whose failure is not a storage failure, so the pull may abort and not fall back | `Fail` of `SegmentedBlob` |
| `router/router.go:234` | "not found" although a Resolver that was held out was not asked | `NotFoundHeard`, part of `SelectionInv`, is about the Resolvers that were asked |
| `lease/store.go:85` | a request under way puts an invalidated lease back, and so does one that began before the reload of the invalidation was over | `QuietInvalidationHolds` is about invalidations that met none (`disturbed`) |
| `cli/cli.go:1593` | two invalidations of different references at once take no lock: each writes all of the map it has read, and the second brings back what the first has removed, though line 16 of `lease/store.go` calls the Store process-safe | the other command in `OthersAtWork` of `DecisionLease` |
| `lease/store.go:52` | a Store that is opened while an entry expires writes back what it has read: an invalidation between the two is lost | "pruning" in `OthersAtWork` |
| `router/router.go:174` | of two first requests for a tag the second replaces the first's valid lease | `LeaseWasPulled`, part of `LeaseInv`, asks only that some request pulled it |
| `router/health.go:75` | `RecordSuccess` zeroes the rate limit, so a transfer that began before a 429 lifts it as it completes, though line 139 says it lasts until the retry window has passed | `Finish` of `ProviderUse` and `BlobStream` |
| `router/router.go:425` | the failure of a request whose client went away is charged to the Provider, which falls behind in the order | `Depart` of `ProviderUse`; `HoldsEarned` says that it is never held out for it |
| `provider/client.go:142` | the probe takes any refusal of the blob (429, 401, wrong content) for a missing Range, and with `allow_non_range_providers` reports success, which lifts every hold, though `health.go:181` speaks of a fresh manifest and blob probe | `ProbeBlob`; `ProbesSettle` says of such a Provider (`gated`) nothing |
| `cli/cli.go:795`, `1024` | while pulls come more often than every 15 minutes no probe runs, and a reload's is dropped (line 800), so a Provider that was held out stays so | `ProbesSettle` is about a process that is left alone |
| `router/health.go:253` | after a restart every Provider is eligible at once; `CONTEXT.md:171` has it wait for a quick probe | `Start` of `ProviderUse` |
| `cli/cli.go:793` | requests that the process did not wait for are charged after its last save, and lost | process state "cut" of `ProviderUse` |
| `provider/client.go:88` | a redirect drops the route headers, so that a ring through a redirecting gateway is not seen; `CONTEXT.md:71` promises a limit | `GatewayRing` has no redirects |
| `cli/cli.go:1199` | without `local_ca` the instance ID is a hash of the path of the data directory, so gateways on two hosts or in two containers can have one ID, and the guard (`routeguard/guard.go:58`) refuses a way over both although it has no loop | `Instance` of `GatewayRing`; `LeadsOn` counts no such way |
| `router/health.go:286` | a gateway leaves out the Providers it holds out, so content that only they lead to is not found until they are readmitted; a peer's 429 or failed Range probe is enough | `List` of `GatewayRing`; `passed` in `FoundIfReachable` |
| `gateway/request_limit.go:18` | the limit on requests answers 503 before the guard and the pull queue are asked | `OverLimit`; `crowded` in `FoundIfReachable` |
| `router/router.go:376` | a pull in segments has a chain for each of its downloads, so more gateways than the hop limit may work for one client | `RouteInv` is about one chain |
| `gateway/runtime.go:129` | two gateways that are each other's Providers can each hold a slot and wait for the other's until a client leaves | `RequestsEnd` is about networks in layers, `DepartureFrees` about all |
| `gateway/runtime.go:103` | `ActivePulls` counts pulls whose backend has answered, so a probe may run while one waits longer than the interval for its first byte | `MayProbe` of `ProviderUse` |
| `eventlog/eventlog.go:224` | a file that was removed and made again, and has grown to the cursor, is taken for the old one: events at its start are not shown, though line 188 says that every one is | `removed` in `owed` of `EventLog` |
| `eventlog/eventlog.go:217` | a file that is removed between the listing and the reading ends `Follow` at its start with an error | `Fail` of `EventLog` |
| `eventlog/eventlog.go:136` | an event whose line follows a torn one is not decoded; one that meets a file another process removed first is not written | `Decoded`, `RemoveNext` |
| `control/control.go:273` | `Close` removes a successor's `control.json` | `ServingIsFound` and `StoppedIsStopped` except `raced` |
| `localca/reconcile.go:218` | activation is several writes; after a crash between them start is refused | `OnlyWindowsBreak` names the windows |
| `localca/reconcile.go:117` | a leaf and a key of different pairs are taken for current | windows "leafKey", "promoteLeafKey" and "race" of `OnlyWindowsBreak` |
| `cli/cli.go:204` | on Linux a rotation that is interrupted, or fails, before it has given its roots their lasting names leaves the root in use trusted only under `drg-ca-next.crt`, which the next rotation overwrites, while the gateway presents a certificate of that root; line 204 says that "the pending trust file keeps the new root valid throughout promotion" and a failure is "non-fatal to trust continuity" | `Lapses` of `RootRotation`; such a root is `uninstalled` in `ServedTrusted` |
| `trust/install.go:147` | `Install` returns no error when the platform refuses, in a container and on a platform it does not know; with `install_trust: false` (`cli/cli.go:558`) it is not called. `reconcileTLS` goes on, and the gateway serves a certificate that Docker does not trust until the operator follows the instructions | `NotInstalled` of `RootRotation`; `uninstalled` in `ServedTrusted` |
| `cli/cli.go:708` | maintenance does not load a leaf that a command renewed | `Reconciled` of `RootRotation` |
| `trust/install.go:214` | on Linux the file name of the root is overwritten, so a gateway still serving the older root finds it gone | `ServedTrusted` on Linux |
| `cli/cli.go:460` | a reload outlives its client and is adopted after the file was restored | `FileIsServed` is about timely answers |
| `cli/cli.go:454` | of two provider commands at once the later write loses the earlier's change, though both succeed | `FileIsServed` is about one command at a time |

## 7. What is not modelled

* Parsing and validation of the configuration (`config`), onboarding, `doctor`
  and the output of `cli`: functions of one value, without state shared with
  anything.
* Headers, media types and ranges as text (`registry`, `provider`): a request
  is for a stretch of a blob. How long a token lasts is not modelled either: one
  from the cache may have expired whenever it is used.
* Redirects of an upstream (see the table above). In `GatewayRing` registries do
  not fail and gateways do not stop; what failures do to a pull is in
  `BlobStream`, what they do to later ones in `ProviderUse`.
* Platform calls of `trust` and `localca/permissions_*`. What `trust.Install` can
  leave behind is modelled, a root under its name, one more in the store, or
  nothing without an error (`Install`, `NotInstalled`); how each platform does it is not. A refused
  permission is one of the failing steps of `RootRotation`.
* The measured speeds: an average is any value between the old one and the
  observation, and the modules that pick Providers allow any order. The
  consequences for latency are out of scope.
* HTTP itself: requests answer, fail or hang.
* Time: deadlines are nondeterministic (a timer may fire whenever it is armed)
  except in `DecisionLease`, which has a clock, as a lease's term is what its
  properties are about, and `EventLog`, which counts days. Where a run assumes a
  deadline is not met it says so (`timely`).

## 8. The plan

Done, in this order: admission (`PullAdmission`, `Switcher`, proofs), blob
streaming, segments with their plan and the proofs of both, resolution, leases,
lifecycle, root rotation, configuration and reload; then Provider health and
its use, rings of gateways, the event log, the abstract delivery with both
refinements, and their proofs; then the proofs about leases, lifecycle,
configuration, rotation, the budget, and what the ring finds; then those about
resolution and the event log; then two invalidations at once, installations that
come to nothing, and in the rings shared instance IDs, held-out Providers and the
limit on requests, with the proofs of the theorems they changed.

Next, by weight of the behaviour:

1. Redirects between gateways in `GatewayRing`, and the order of Providers by
   `ProviderHealth` in `BlobStream`, whose pulls would then share one tracker.
2. A second `drg logs --follow`, and `Read` against a removal, in `EventLog`.
