----------------------------- MODULE ConfigReload -----------------------------
(***************************************************************************)
(* How a configuration comes into force: `drg provider add/remove' and an  *)
(* operator's own edits of the file, `drg reload', the Reload callback     *)
(* under reloadMu, the probes that a reload, a start and a 15-minute ticker *)
(* launch, and the end of runServe, which waits for the ticker and for the *)
(* probes.  The client of a reload waits 10 seconds; the callback does not *)
(* know of that.  What a reload does to the leases is in DecisionLease.    *)
(***************************************************************************)
EXTENDS Naturals, FiniteSets

CONSTANTS Commands,   \* drg commands under way at a time, each with its change
          MaxWrites,  \* bound on the times the file is replaced
          Regimes     \* the circumstances to be looked at, each with a bound of its own

ASSUME ConfigAssumption ==
    /\ MaxWrites \in Nat /\ "none" \notin Commands
    /\ Regimes \subseteq [overlap : BOOLEAN, timely : BOOLEAN, faults : BOOLEAN,
                          writes : 0..MaxWrites]

VARIABLES
    file,      \* drg.yaml: the changes in it, and the number of the write
    backup,    \* drg.yaml.bak
    info,      \* control.json is there
    gateway,   \* where runServe is
    served,    \* the configuration of the Router that takes new requests
    lock,      \* who holds reloadMu
    handler,   \* the Reload callback of each command's request
    ticker,    \* the goroutine of startPeriodicProviderProbes
    probes,    \* the writes whose configuration a probe goroutine works through
    probesRunning,
    busy,      \* pulls are under way, or were in the last 15 minutes
    command,   \* the commands under way
    edited,    \* the last write that waits for a reload or a start, 0 if none
    regime     \* the circumstances, which do not change

process == <<info, gateway, served, lock, handler, ticker, probes, probesRunning>>
state == <<file, backup, process, busy, command, edited>>
vars == <<state, regime>>

Overlap == regime.overlap  \* commands, edits, stops and starts come at any time
Timely  == regime.timely   \* no reload outlasts the client's 10 seconds
Faults  == regime.faults   \* the gateway may crash, a write of the file may fail

Changes == Commands \cup {"hand"}
Configurations == [changes : SUBSET Changes, write : 0..MaxWrites]

NoHandler == [at |-> "none"]
NoCommand == [at |-> "idle"]
Resting   == [at |-> "idle"]

Init ==
    /\ file = [changes |-> {}, write |-> 0] /\ backup = {}
    /\ info = FALSE /\ gateway = "down" /\ served = file
    /\ lock = "none" /\ handler = [c \in Commands |-> NoHandler]
    /\ ticker = Resting /\ probes = {} /\ probesRunning = FALSE
    /\ busy = FALSE
    /\ command = [c \in Commands |-> NoCommand]
    /\ edited = 0
    /\ regime \in Regimes

At(c, l) == command[c].at = l
NoCommandRuns == \A c \in Commands : At(c, "idle")
Alive == gateway # "down"

\* A write of the file may fail; at the bound it does.
MayFail == Faults \/ file.write = regime.writes

\* The file is replaced by rename.
Replace(changes) ==
    /\ file.write < regime.writes
    /\ file' = [changes |-> changes, write |-> file.write + 1]

Set(c, value) == command' = [command EXCEPT ![c] = value]

-----------------------------------------------------------------------------
(* The commands.                                                           *)

\* provider add and remove load the file; add then probes the Provider.
LoadConfig(c) ==
    /\ At(c, "idle") /\ (Overlap \/ NoCommandRuns)
    /\ Set(c, [at |-> "loaded", base |-> file.changes])
    /\ UNCHANGED <<file, backup, process, busy, edited>>

\* The candidate is invalid, or the Provider is not admitted.
Rejected(c) ==
    /\ At(c, "loaded")
    /\ Set(c, NoCommand)
    /\ UNCHANGED <<file, backup, process, busy, edited>>

\* What a command or an editor adds, or takes away if it is there.
Toggle(changes, c) == IF c \in changes THEN changes \ {c} ELSE changes \cup {c}
Candidate(c) == Toggle(command[c].base, c)

\* writeConfigurationWithBackup reads the file again, for the backup only.
ReadOriginal(c) ==
    /\ At(c, "loaded")
    /\ Set(c, [at |-> "read", candidate |-> Candidate(c), original |-> file.changes])
    /\ UNCHANGED <<file, backup, process, busy, edited>>

WriteBackup(c) ==
    /\ At(c, "read")
    /\ backup' = command[c].original
    /\ Set(c, [command[c] EXCEPT !.at = "backed"])
    /\ UNCHANGED <<file, process, busy, edited>>

Activate(c) ==
    /\ At(c, "backed")
    /\ Replace(command[c].candidate)
    /\ Set(c, [at |-> "written", original |-> command[c].original])
    /\ UNCHANGED <<backup, process, busy, edited>>

WriteFails(c) ==
    /\ MayFail /\ command[c].at \in {"read", "backed"}
    /\ Set(c, NoCommand)
    /\ UNCHANGED <<file, backup, process, busy, edited>>

\* Without control.json the gateway is held to be down, and the command is done.
Saved(c) ==
    /\ At(c, "written") /\ ~info
    /\ Set(c, NoCommand)
    /\ edited' = file.write
    /\ UNCHANGED <<file, backup, process, busy>>

\* The control endpoint answers while the gateway is up.
Request(c) ==
    /\ At(c, "written") /\ info /\ gateway = "up" /\ handler[c] = NoHandler
    /\ Set(c, [command[c] EXCEPT !.at = "waiting"])
    /\ handler' = [handler EXCEPT ![c] = [at |-> "queued"]]
    /\ UNCHANGED <<file, backup, info, gateway, served, lock, ticker, probes,
                   probesRunning, busy, edited>>

\* drg reload, after an edit by hand.
RequestReload(c) ==
    /\ At(c, "idle") /\ (Overlap \/ NoCommandRuns)
    /\ info /\ gateway = "up" /\ handler[c] = NoHandler
    /\ Set(c, [at |-> "asking"])
    /\ handler' = [handler EXCEPT ![c] = [at |-> "queued"]]
    /\ UNCHANGED <<file, backup, info, gateway, served, lock, ticker, probes,
                   probesRunning, busy, edited>>

Ended(c, ok) ==
    IF At(c, "asking") \/ ok THEN NoCommand ELSE [command[c] EXCEPT !.at = "restore"]

\* Nobody answers: a crash has left control.json, or the gateway has stopped.
RequestFails(c) ==
    /\ \/ At(c, "written") /\ info /\ gateway # "up"
       \/ command[c].at \in {"waiting", "asking"} /\ gateway # "up"
    /\ Set(c, Ended(c, FALSE))
    /\ UNCHANGED <<file, backup, process, busy, edited>>

TimesOut(c) ==
    /\ ~Timely /\ command[c].at \in {"waiting", "asking"}
    /\ Set(c, Ended(c, FALSE))
    /\ UNCHANGED <<file, backup, process, busy, edited>>

Restore(c) ==
    /\ At(c, "restore")
    /\ Replace(command[c].original)
    /\ Set(c, NoCommand)
    /\ UNCHANGED <<backup, process, busy, edited>>

RestoreFails(c) ==
    /\ MayFail /\ At(c, "restore")
    /\ Set(c, NoCommand)
    /\ edited' = file.write
    /\ UNCHANGED <<file, backup, process, busy>>

\* The operator's editor; not in the middle of a command's write.
HandEdit ==
    /\ Overlap \/ \A c \in Commands : command[c].at \in {"idle", "loaded"}
    /\ Replace(Toggle(file.changes, "hand"))
    /\ edited' = file'.write
    /\ UNCHANGED <<backup, process, busy, command>>

CommandStep(c) ==
    \/ LoadConfig(c) \/ Rejected(c) \/ ReadOriginal(c) \/ WriteBackup(c) \/ Activate(c)
    \/ WriteFails(c) \/ Saved(c) \/ Request(c) \/ RequestReload(c) \/ RequestFails(c)
    \/ TimesOut(c) \/ Restore(c) \/ RestoreFails(c)

-----------------------------------------------------------------------------
(* The Reload callback, under reloadMu.                                    *)

probesStopping == gateway \in {"cancelled", "waited"}

\* A plausible slip: a reload that ends late launches a probe all the same.
LaunchProbeLate(write) ==
    IF probesRunning \/ busy
    THEN UNCHANGED <<probes, probesRunning>>
    ELSE probes' = probes \cup {write} /\ probesRunning' = TRUE

\* launchProbe: dropped when one runs, or when there is traffic.
launchProbe(write) ==
    IF probesStopping \/ probesRunning \/ busy
    THEN UNCHANGED <<probes, probesRunning>>
    ELSE probes' = probes \cup {write} /\ probesRunning' = TRUE

\* A plausible slip: the file is loaded before the lock is taken, and the lock
\* held for the replacement only.
ReloadLoadUnlocked(c) ==
    /\ handler[c].at = "queued"
    /\ handler' = [handler EXCEPT ![c] = [at |-> "loaded", candidate |-> file]]
    /\ UNCHANGED <<file, backup, info, gateway, served, lock, ticker, probes, probesRunning,
                   busy, command, edited>>

\* A plausible slip: the candidate is the current one before it is admitted.
ReloadLoadEarly(c) ==
    /\ handler[c].at = "queued" /\ lock = "none"
    /\ lock' = c
    /\ handler' = [handler EXCEPT ![c] = [at |-> "loaded", candidate |-> file]]
    /\ served' = file
    /\ UNCHANGED <<file, backup, info, gateway, ticker, probes, probesRunning,
                   busy, command, edited>>

\* The callback has the lock and loads the file that is there now.
ReloadLoad(c) ==
    /\ handler[c].at = "queued" /\ lock = "none"
    /\ lock' = c
    /\ handler' = [handler EXCEPT ![c] = [at |-> "loaded", candidate |-> file]]
    /\ UNCHANGED <<file, backup, info, gateway, served, ticker, probes, probesRunning,
                   busy, command, edited>>

Answer(c, ok) ==
    command' = IF command[c].at \in {"waiting", "asking"} /\ gateway = "up"
               THEN [command EXCEPT ![c] = Ended(c, ok)] ELSE command

\* A plausible slip: the upstream has no 15 seconds, only the end of the process.
ReloadFailsCancelled(c) ==
    /\ handler[c].at = "loaded" /\ gateway \in {"cancelled", "waited"}
    /\ lock' = "none"
    /\ handler' = [handler EXCEPT ![c] = NoHandler]
    /\ Answer(c, FALSE)
    /\ UNCHANGED <<file, backup, info, gateway, served, ticker, probes, probesRunning,
                   busy, edited>>

\* The file is refused, needs a restart, or a Provider is not admitted within
\* its 15 seconds.
ReloadFails(c) ==
    /\ handler[c].at = "loaded"
    /\ lock' = "none"
    /\ handler' = [handler EXCEPT ![c] = NoHandler]
    /\ Answer(c, FALSE)
    /\ UNCHANGED <<file, backup, info, gateway, served, ticker, probes, probesRunning,
                   busy, edited>>

\* The new Router replaces the old one, and a probe is launched.
ReloadApply(c) ==
    /\ handler[c].at = "loaded"
    /\ served' = handler[c].candidate
    /\ launchProbe(handler[c].candidate.write)
    /\ lock' = "none"
    /\ handler' = [handler EXCEPT ![c] = NoHandler]
    /\ Answer(c, TRUE)
    /\ edited' = IF handler[c].candidate.write >= edited THEN 0 ELSE edited
    /\ UNCHANGED <<file, backup, info, gateway, ticker, busy>>

Reload(c) == ReloadLoad(c) \/ ReloadFails(c) \/ ReloadApply(c)

-----------------------------------------------------------------------------
(* The ticker, the probes and the traffic.                                 *)

Tick ==
    /\ gateway = "up" /\ ticker.at = "idle" /\ ~busy
    /\ ticker' = [at |-> "current"]
    /\ UNCHANGED <<file, backup, info, gateway, served, lock, handler, probes,
                   probesRunning, busy, command, edited>>

\* The current configuration is read under reloadMu, the probe launched after.
TickCurrent ==
    /\ ticker.at = "current" /\ lock = "none"
    /\ ticker' = [at |-> "launch", write |-> served.write]
    /\ UNCHANGED <<file, backup, info, gateway, served, lock, handler, probes,
                   probesRunning, busy, command, edited>>

TickLaunch ==
    /\ ticker.at = "launch"
    /\ launchProbe(ticker.write)
    /\ ticker' = Resting
    /\ UNCHANGED <<file, backup, info, gateway, served, lock, handler,
                   busy, command, edited>>

\* probeProviders, whose results go to the Health of modules BlobStream and
\* Resolution.
ProbeEnds(write) ==
    /\ write \in probes
    /\ probes' = probes \ {write} /\ probesRunning' = FALSE
    /\ UNCHANGED <<file, backup, info, gateway, served, lock, handler, ticker,
                   busy, command, edited>>

\* Pulls come and go.
Traffic ==
    /\ gateway = "up"
    /\ busy' \in BOOLEAN
    /\ UNCHANGED <<file, backup, process, command, edited>>

-----------------------------------------------------------------------------
(* The process.                                                            *)

\* runServe loads the file long before it writes control.json.
Start ==
    /\ gateway = "down" /\ (Overlap \/ NoCommandRuns)
    /\ gateway' = "starting"
    /\ served' = file
    /\ edited' = 0
    /\ UNCHANGED <<file, backup, info, lock, handler, ticker, probes, probesRunning,
                   busy, command>>

Publish ==
    /\ gateway = "starting"
    /\ gateway' = "up" /\ info' = TRUE
    /\ launchProbe(served.write)
    /\ UNCHANGED <<file, backup, served, lock, handler, ticker, busy, command, edited>>

\* Serve has returned: the control endpoint is closed, the ticker told to stop.
CloseControl ==
    /\ gateway = "up" /\ (Overlap \/ NoCommandRuns)
    /\ gateway' = "closed" /\ info' = FALSE
    /\ UNCHANGED <<file, backup, served, lock, handler, ticker, probes, probesRunning,
                   busy, command, edited>>

StopPeriodicProbes ==
    /\ gateway = "closed" /\ ticker.at = "idle"
    /\ gateway' = "cancelled"
    /\ UNCHANGED <<file, backup, info, served, lock, handler, ticker, probes, probesRunning,
                   busy, command, edited>>

\* stopProbing has cancelled the probes; main waits for them.
WaitForProbes ==
    /\ gateway = "cancelled" /\ probes = {}
    /\ gateway' = "waited"
    /\ UNCHANGED <<file, backup, info, served, lock, handler, ticker, probes, probesRunning,
                   busy, command, edited>>

\* With the process go the callbacks that are still at work.
Gone ==
    /\ gateway' = "down"
    /\ lock' = "none" /\ handler' = [c \in Commands |-> NoHandler]
    /\ ticker' = Resting /\ busy' = FALSE
    /\ probes' = {} /\ probesRunning' = FALSE
    /\ UNCHANGED <<file, backup, info, served, command, edited>>

Exit == gateway = "waited" /\ Gone
Crash == Faults /\ Alive /\ Gone

Next ==
    \/ \E c \in Commands : CommandStep(c) \/ Reload(c)
    \/ HandEdit \/ Tick \/ TickCurrent \/ TickLaunch \/ Traffic
    \/ \E write \in probes : ProbeEnds(write)
    \/ Start \/ Publish \/ CloseControl \/ StopPeriodicProbes
    \/ WaitForProbes \/ Exit \/ Crash

Spec == Init /\ [][Next /\ UNCHANGED regime]_vars

\* Every probe has its 15 seconds, so a callback ends, if only by failing; the
\* goroutines and main go on when nothing holds them.
FairSpec ==
    /\ Spec
    /\ \A c \in Commands : WF_state(ReloadLoad(c)) /\ WF_state(ReloadFails(c))
    /\ WF_state(TickCurrent) /\ WF_state(TickLaunch)
    /\ \A write \in 0..MaxWrites : WF_state(ProbeEnds(write))
    /\ WF_state(StopPeriodicProbes) /\ WF_state(WaitForProbes) /\ WF_state(Exit)

-----------------------------------------------------------------------------
\* The range of every variable; reloadMu is held exactly while its owner's handler has loaded.
TypeOK ==
    /\ regime \in Regimes
    /\ file \in Configurations /\ served \in Configurations /\ backup \subseteq Changes
    /\ {info, probesRunning, busy} \subseteq BOOLEAN
    /\ gateway \in {"down", "starting", "up", "closed", "cancelled", "waited"}
    /\ lock \in Commands \cup {"none"}
    /\ \A c \in Commands :
         /\ handler[c].at \in {"none", "queued", "loaded"}
         /\ (lock = c) <=> (handler[c].at = "loaded")
         /\ command[c].at \in {"idle", "loaded", "read", "backed", "written", "waiting",
                               "asking", "restore"}
    /\ ticker.at \in {"idle", "current", "launch"}
    /\ probes \subseteq 0..MaxWrites /\ edited \in 0..MaxWrites

\* CONTEXT.md: the main configuration is the only source of truth.  With nothing
\* under way, what the gateway serves is what the file says, but for an edit
\* that nobody has asked to reload; also after a reload that was refused.  So it
\* is while commands come one at a time and no reload outlasts its client.
FileIsServed ==
    /\ ~Overlap /\ Timely
    /\ NoCommandRuns /\ \A c \in Commands : handler[c] = NoHandler
    /\ gateway = "up" /\ edited = 0
    => served.changes = file.changes

\* Reloads of several clients, however late, never put an older state of the
\* file in force after a newer one (cli.go:840-869).
NoStaleReload ==
    [][gateway = "up" /\ gateway' = "up" => served'.write >= served.write]_vars

\* One probe goroutine at a time, and none after runServe has waited for them,
\* though reloads end later (cli.go:798-823).
ProbesAccounted ==
    /\ probesRunning <=> probes # {}
    /\ Cardinality(probes) <= 1
    /\ gateway \in {"waited", "down"} => probes = {}

\* reloadMu is held exactly while a reload loads, and probes are accounted for
\* (cli.go:798-869).
ConfigInv == TypeOK /\ ProbesAccounted

\* Once the control endpoint is closed the process ends, although the ticker may
\* wait for a lock that a reload holds (cli.go:824-829).
ExitEnds == (gateway = "closed") ~> (gateway = "down")
=============================================================================
