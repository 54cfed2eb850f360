-------------------------- MODULE ServiceLifecycle --------------------------
(***************************************************************************)
(* The life of gateway processes: `drg serve' from its temporary workspace *)
(* to the defers of runServe, the local control endpoint and its discovery *)
(* file control.json, the goroutines of the Stop callback, and the         *)
(* commands start, stop and restart that talk to them from processes of    *)
(* their own.  All processes share one configuration, hence one listening  *)
(* address, one data directory and one root of temporary workspaces.       *)
(***************************************************************************)
EXTENDS Integers, FiniteSets

CONSTANTS Processes,  \* 1..n, in order of launch: bound on the gateways launched
          Commands,   \* bound on the CLI commands given
          Pulls,      \* blob pulls of the Docker clients
          Timely,     \* no timer of the CLI or of Stop runs out
          Faults,     \* crashes and I/O errors happen
          Manual      \* `drg serve' is also run by hand

ASSUME LifecycleAssumption ==
    /\ IsFiniteSet(Processes) /\ Processes = 1..Cardinality(Processes) /\ Processes # {}
    /\ {Timely, Faults, Manual} \subseteq BOOLEAN

VARIABLES
    pc,         \* where each process's main goroutine is
    port,       \* the process that listens, 0 for none
    control,    \* processes whose control endpoint answers
    info,       \* the process that control.json names, 0 when it does not exist
    workspace,  \* each process's directory: none, bare or marked by owner.json
    accepting,  \* processes whose Switcher accepts pulls
    handler,    \* the Stop callback started by each command
    cli,        \* the commands
    pull,       \* the process that serves each pull under way
    gone,       \* processes that had ended when each process was launched
    raced,      \* a discovery file was replaced while it was being removed
    slow        \* commands that took a status that was merely slow for an end

files    == <<info, workspace>>
ghosts   == <<gone, raced, slow>>
vars == <<pc, port, control, files, accepting, handler, cli, pull, ghosts>>

Verbs == {"start", "stop", "stop --force", "restart", "restart --force"}
Nobody == [at |-> 0, force |-> FALSE, pc |-> "none"]

Alive(i) == pc[i] \notin {"none", "exited", "dead"}
Goto(i, l) == pc' = [pc EXCEPT ![i] = l]

\* Every pull of process i that is under way is broken off, by something that may
\* do so or by the mere end of the process.
EndPulls(i, how) == pull' = [p \in Pulls |-> IF pull[p] = i THEN how ELSE pull[p]]
NoPull == 0
Cut == -1

\* What closing the listeners of process i leaves of the port.
Unbind(i) == port' = IF port = i THEN 0 ELSE port

\* What a process holds in memory ends with it.
Forget(i) ==
    /\ accepting' = accepting \ {i}
    /\ handler' = [c \in Commands |-> IF handler[c].at = i THEN Nobody ELSE handler[c]]
    /\ gone' = [gone EXCEPT ![i] = {}]

Init ==
    /\ pc = [i \in Processes |-> IF i = 1 THEN "prepare" ELSE "none"]
    /\ port = 0 /\ control = {} /\ info = 0 /\ accepting = {}
    /\ workspace = [i \in Processes |-> "none"]
    /\ handler = [c \in Commands |-> Nobody]
    /\ cli = [c \in Commands |-> [verb |-> "none", pc |-> "idle", target |-> 0]]
    /\ pull = [p \in Pulls |-> NoPull]
    /\ gone = [i \in Processes |-> {}] /\ raced = FALSE /\ slow = {}

-----------------------------------------------------------------------------
(* The process: runServe.                                                  *)

Spawn(i) ==
    /\ pc[i] = "none" /\ pc[i - 1] # "none"
    /\ Goto(i, "prepare")
    /\ gone' = [gone EXCEPT ![i] = {j \in Processes : pc[j] \in {"exited", "dead"}}]

Launch ==
    /\ Manual
    /\ \E i \in Processes \ {1} : Spawn(i)
    /\ UNCHANGED <<port, control, files, accepting, handler, cli, pull, raced, slow>>

\* A plausible slip: whatever has no live owner on record is removed.
ReclaimUnmarked(i) ==
    /\ pc[i] = "prepare"
    /\ workspace' = [j \in Processes |->
           IF workspace[j] = "bare" \/ ~Alive(j) THEN "none" ELSE workspace[j]]
    /\ Goto(i, "make")
    /\ UNCHANGED <<port, control, info, accepting, handler, cli, pull, ghosts>>

\* A process that ended never comes back, so the loop is one step.
reclaimExitedWorkspaces(i) ==
    /\ pc[i] = "prepare"
    /\ workspace' = [j \in Processes |->
           IF workspace[j] = "marked" /\ ~Alive(j) THEN "none" ELSE workspace[j]]
    /\ Goto(i, "make")
    /\ UNCHANGED <<port, control, info, accepting, handler, cli, pull, ghosts>>

MakeWorkspace(i) ==
    /\ pc[i] = "make"
    /\ workspace' = [workspace EXCEPT ![i] = "bare"]
    /\ Goto(i, "mark")
    /\ UNCHANGED <<port, control, info, accepting, handler, cli, pull, ghosts>>

MarkWorkspace(i) ==
    /\ pc[i] = "mark"
    /\ workspace' = [workspace EXCEPT ![i] = "marked"]
    /\ Goto(i, "listen")
    /\ UNCHANGED <<port, control, info, accepting, handler, cli, pull, ghosts>>

PrepareFails(i) ==
    /\ Faults /\ pc[i] \in {"prepare", "make", "mark"}
    /\ workspace' = [workspace EXCEPT ![i] = "none"]
    /\ Goto(i, "exited") /\ Forget(i)
    /\ UNCHANGED <<port, control, info, cli, pull, raced, slow>>

Listen(i) ==
    /\ pc[i] = "listen" /\ port = 0
    /\ port' = i
    /\ Goto(i, "publish")
    /\ UNCHANGED <<control, files, accepting, handler, cli, pull, ghosts>>

ListenFails(i) ==
    /\ pc[i] = "listen" /\ port # 0
    /\ Goto(i, "clean")
    /\ UNCHANGED <<port, control, files, accepting, handler, cli, pull, ghosts>>

\* control.Start publishes control.json by rename; then the server serves.
Publish(i) ==
    /\ pc[i] = "publish"
    /\ info' = i /\ control' = control \cup {i} /\ accepting' = accepting \cup {i}
    /\ raced' = (raced \/ \E j \in Processes : pc[j] = "remove")
    /\ Goto(i, "serving")
    /\ UNCHANGED <<port, workspace, handler, cli, pull, gone, slow>>

PublishFails(i) ==
    /\ Faults /\ pc[i] = "publish"
    /\ Unbind(i)
    /\ Goto(i, "finish")
    /\ UNCHANGED <<control, files, accepting, handler, cli, pull, ghosts>>

\* Serve returns ErrServerClosed as soon as the listeners are closed.
ServeEnds(i) ==
    /\ pc[i] = "serving" /\ port # i
    /\ Goto(i, "close control")
    /\ UNCHANGED <<port, control, files, accepting, handler, cli, pull, ghosts>>

\* Serve returns for an error of the listener, and the server is closed.
ServeBreaks(i) ==
    /\ Faults /\ pc[i] = "serving" /\ port = i
    /\ Unbind(i) /\ EndPulls(i, NoPull)
    /\ Goto(i, "close control")
    /\ UNCHANGED <<control, files, accepting, handler, cli, ghosts>>

CloseControl(i) ==
    /\ pc[i] = "close control"
    /\ control' = control \ {i}
    /\ Goto(i, "read info")
    /\ UNCHANGED <<port, files, accepting, handler, cli, pull, ghosts>>

\* A plausible slip: the discovery file is removed whosever it is.
ReadInfoNever(i) ==
    /\ pc[i] = "read info"
    /\ Goto(i, "remove")
    /\ UNCHANGED <<port, control, files, accepting, handler, cli, pull, ghosts>>

\* A plausible slip: the endpoint is closed, the discovery file forgotten.
ReadInfoSkips(i) ==
    /\ pc[i] = "read info"
    /\ Goto(i, "finish")
    /\ UNCHANGED <<port, control, files, accepting, handler, cli, pull, ghosts>>

\* removeOwnedInfo reads the file, compares the token, then removes the path.
ReadInfo(i) ==
    /\ pc[i] = "read info"
    /\ Goto(i, IF info = i THEN "remove" ELSE "finish")
    /\ UNCHANGED <<port, control, files, accepting, handler, cli, pull, ghosts>>

RemoveInfo(i) ==
    /\ pc[i] = "remove"
    /\ info' = 0
    /\ Goto(i, "finish")
    /\ UNCHANGED <<port, control, workspace, accepting, handler, cli, pull, ghosts>>

\* Probes, health history and certificate maintenance are stopped and awaited.
StopMaintenance(i) ==
    /\ pc[i] = "finish"
    /\ Goto(i, "clean")
    /\ UNCHANGED <<port, control, files, accepting, handler, cli, pull, ghosts>>

\* A failure is only logged; the next launch retries.
CloseWorkspace(i) ==
    /\ pc[i] = "clean"
    /\ \E left \in {"none"} \cup (IF Faults THEN {workspace[i]} ELSE {}) :
           workspace' = [workspace EXCEPT ![i] = left]
    /\ Goto(i, "exit")
    /\ UNCHANGED <<port, control, info, accepting, handler, cli, pull, ghosts>>

Exit(i) ==
    /\ pc[i] = "exit"
    /\ Unbind(i) /\ EndPulls(i, Cut)
    /\ Goto(i, "exited") /\ Forget(i)
    /\ UNCHANGED <<control, files, cli, raced, slow>>

Crash(i) ==
    /\ Faults /\ Alive(i)
    /\ Goto(i, "dead") /\ Forget(i)
    /\ Unbind(i) /\ EndPulls(i, NoPull)
    /\ control' = control \ {i}
    /\ UNCHANGED <<files, cli, raced, slow>>

Process(i) ==
    \/ reclaimExitedWorkspaces(i) \/ MakeWorkspace(i) \/ MarkWorkspace(i)
    \/ Listen(i) \/ ListenFails(i) \/ Publish(i) \/ ServeEnds(i) \/ CloseControl(i)
    \/ ReadInfo(i) \/ RemoveInfo(i) \/ StopMaintenance(i) \/ CloseWorkspace(i) \/ Exit(i)

Fault(i) == PrepareFails(i) \/ PublishFails(i) \/ ServeBreaks(i) \/ Crash(i)

-----------------------------------------------------------------------------
(* The pulls.                                                              *)

StartPull(p) ==
    /\ pull[p] = NoPull
    /\ \E i \in accepting :
           /\ pc[i] = "serving" /\ port = i
           /\ pull' = [pull EXCEPT ![p] = i]
    /\ UNCHANGED <<pc, port, control, files, accepting, handler, cli, ghosts>>

FinishPull(p) ==
    /\ pull[p] \in Processes
    /\ pull' = [pull EXCEPT ![p] = NoPull]
    /\ UNCHANGED <<pc, port, control, files, accepting, handler, cli, ghosts>>

-----------------------------------------------------------------------------
(* The Stop callback, a goroutine that outlives the control request.       *)

At(c, l) == handler[c].pc = l

StopAccepting(c) ==
    /\ At(c, "begin")
    /\ accepting' = accepting \ {handler[c].at}
    /\ handler' = [handler EXCEPT ![c].pc = "shut"]
    /\ UNCHANGED <<pc, port, control, files, cli, pull, ghosts>>

\* server.Close closes the listeners and every connection.
ForceClose(c) ==
    /\ At(c, "shut") /\ handler[c].force
    /\ Unbind(handler[c].at) /\ EndPulls(handler[c].at, NoPull)
    /\ handler' = [handler EXCEPT ![c] = Nobody]
    /\ UNCHANGED <<pc, control, files, accepting, cli, ghosts>>

\* server.Shutdown closes the listeners at once, then waits for connections.
Shutdown(c) ==
    /\ At(c, "shut") /\ ~handler[c].force
    /\ Unbind(handler[c].at)
    /\ handler' = [handler EXCEPT ![c].pc = "drain"]
    /\ UNCHANGED <<pc, control, files, accepting, cli, pull, ghosts>>

Drained(c) ==
    /\ At(c, "drain")
    /\ \A p \in Pulls : pull[p] # handler[c].at
    /\ handler' = [handler EXCEPT ![c] = Nobody]
    /\ UNCHANGED <<pc, port, control, files, accepting, cli, pull, ghosts>>

DrainExpires(c) ==
    /\ ~Timely /\ At(c, "drain")
    /\ EndPulls(handler[c].at, NoPull)
    /\ handler' = [handler EXCEPT ![c] = Nobody]
    /\ UNCHANGED <<pc, port, control, files, accepting, cli, ghosts>>

Stop(c) == StopAccepting(c) \/ ForceClose(c) \/ Shutdown(c) \/ Drained(c)

-----------------------------------------------------------------------------
(* The commands.                                                           *)

Step(c, l) == cli' = [cli EXCEPT ![c].pc = l]
Is(c, l) == cli[c].pc = l
Graceful(c) == cli[c].verb \in {"stop", "restart"}
Restarts(c) == cli[c].verb \in {"restart", "restart --force"}

\* A status request is answered by the process that control.json names.
Answers == info \in control
StatusFails == ~Answers \/ ~Timely

\* A status that is taken for an end although the process is only slow.
Mistaken(c) == slow' = IF Answers THEN slow \cup {c} ELSE slow

Issue(c, verb) ==
    /\ Is(c, "idle")
    /\ cli' = [cli EXCEPT ![c].verb = verb,
                          ![c].pc = IF verb = "start" THEN "check" ELSE "send"]
    /\ UNCHANGED <<pc, port, control, files, accepting, handler, pull, ghosts>>

\* The process replies before it starts the callback.
StopRequest(c) ==
    /\ Is(c, "send") /\ Answers
    /\ handler' = [handler EXCEPT ![c] =
                      [at |-> info, force |-> ~Graceful(c), pc |-> "begin"]]
    /\ cli' = [cli EXCEPT ![c].target = info,
                          ![c].pc = IF Graceful(c) THEN "wait"
                                    ELSE IF Restarts(c) THEN "settle" ELSE "ok"]
    /\ UNCHANGED <<pc, port, control, files, accepting, pull, ghosts>>

StopRequestFails(c) ==
    /\ Is(c, "send") /\ ~Answers
    /\ Step(c, "failed")
    /\ UNCHANGED <<pc, port, control, files, accepting, handler, pull, ghosts>>

waitForGatewayStop(c) ==
    /\ Is(c, "wait") /\ StatusFails
    /\ Step(c, IF Restarts(c) THEN "settle" ELSE "ok")
    /\ Mistaken(c)
    /\ UNCHANGED <<pc, port, control, files, accepting, handler, pull, gone, raced>>

\* A plausible slip: restart does not wait for the old process.
SettleNever(c) ==
    /\ Is(c, "settle")
    /\ Step(c, "check")
    /\ UNCHANGED <<pc, port, control, files, accepting, handler, pull, ghosts>>

Settle(c) ==
    /\ Is(c, "settle") /\ StatusFails
    /\ Step(c, "check")
    /\ Mistaken(c)
    /\ UNCHANGED <<pc, port, control, files, accepting, handler, pull, gone, raced>>

AlreadyRunning(c) ==
    /\ Is(c, "check") /\ Answers
    /\ Step(c, "failed")
    /\ UNCHANGED <<pc, port, control, files, accepting, handler, pull, ghosts>>

SpawnChild(c) ==
    /\ Is(c, "check") /\ StatusFails
    /\ \E i \in Processes \ {1} :
           /\ Spawn(i)
           /\ cli' = [cli EXCEPT ![c].pc = "started", ![c].target = i]
    /\ UNCHANGED <<port, control, files, accepting, handler, pull, raced, slow>>

ChildReady(c) ==
    /\ Is(c, "started") /\ Answers /\ info = cli[c].target
    /\ Step(c, "ok")
    /\ UNCHANGED <<pc, port, control, files, accepting, handler, pull, ghosts>>

\* The waits of 35, 35 and 10 seconds; nothing else notices that a child died.
GiveUp(c) ==
    /\ \/ ~Timely /\ cli[c].pc \in {"wait", "settle", "started"}
       \/ Is(c, "started") /\ ~Alive(cli[c].target)
    /\ Step(c, "failed")
    /\ UNCHANGED <<pc, port, control, files, accepting, handler, pull, ghosts>>

Command(c) ==
    \/ StopRequest(c) \/ StopRequestFails(c) \/ waitForGatewayStop(c) \/ Settle(c)
    \/ AlreadyRunning(c) \/ SpawnChild(c) \/ ChildReady(c) \/ GiveUp(c)

Next ==
    \/ Launch
    \/ \E i \in Processes : Process(i) \/ Fault(i)
    \/ \E p \in Pulls : StartPull(p) \/ FinishPull(p)
    \/ \E c \in Commands : Stop(c) \/ DrainExpires(c) \/ Command(c)
    \/ \E c \in Commands, verb \in Verbs : Issue(c, verb)

Spec == Init /\ [][Next]_vars

-----------------------------------------------------------------------------
\* The range of every variable; a handler that is at work has a process.
TypeOK ==
    /\ pc \in [Processes -> {"none", "prepare", "make", "mark", "listen", "publish",
                             "serving", "close control", "read info", "remove", "finish",
                             "clean", "exit", "exited", "dead"}]
    /\ port \in {0} \cup Processes /\ info \in {0} \cup Processes
    /\ control \subseteq Processes /\ accepting \subseteq Processes
    /\ workspace \in [Processes -> {"none", "bare", "marked"}]
    /\ handler \in [Commands -> [at : {0} \cup Processes, force : BOOLEAN,
                                 pc : {"none", "begin", "shut", "drain"}]]
    /\ \A c \in Commands : handler[c].pc # "none" => handler[c].at \in Processes
    /\ cli \in [Commands -> [verb : Verbs \cup {"none"}, target : {0} \cup Processes,
                             pc : {"idle", "send", "wait", "settle", "check", "started",
                                   "ok", "failed"}]]
    /\ pull \in [Pulls -> Processes \cup {NoPull, Cut}]
    /\ raced \in BOOLEAN /\ slow \subseteq Commands
    /\ gone \in [Processes -> SUBSET Processes]

\* A process that may download keeps its directory: no other process that starts,
\* whatever it finds half made beside its own, takes it away
\* (tempstate/workspace.go:81-100).
WorkspaceKept ==
    \A i \in Processes :
        /\ pc[i] \in {"mark", "listen", "publish", "serving"} => workspace[i] # "none"
        /\ pc[i] \in {"listen", "publish", "serving"} => workspace[i] = "marked"

\* The marked directories of processes that had ended before a process was
\* launched are gone when it serves, also those whose own removal failed.
StrayReclaimed ==
    \A i \in Processes : pc[i] \in {"listen", "publish", "serving"} =>
        \A j \in gone[i] : workspace[j] # "marked"

\* Directories are reclaimed when, and only when, nobody may use them any more
\* (tempstate/workspace.go:30-137).
WorkspaceInv == WorkspaceKept /\ StrayReclaimed

\* A process that returns from main leaves no endpoint, no listener and no
\* discovery file of its own, whichever step of its start failed.
ExitLeavesNothing ==
    \A i \in Processes : pc[i] = "exited" => port # i /\ i \notin control /\ info # i

\* Handlers and commands name processes that exist, and an exit leaves nothing
\* (cli.go:883-920).
LifecycleInv == TypeOK /\ ExitLeavesNothing

\* The listening process can be found by status, stop and reload, unless its
\* file was replaced inside another process's removeOwnedInfo.
ServingIsFound ==
    \A i \in Processes : pc[i] = "serving" /\ port = i /\ ~raced => info = i

\* When stop reports the end, or restart goes on to launch the next process, the
\* one that took the stop has closed its listener: no pull starts there any more
\* and the port is free; unless a status request was merely slow or, again, a
\* discovery file was lost.
StoppedIsStopped ==
    \A c \in Commands \ slow :
        /\ \/ cli[c].pc = "ok" /\ cli[c].verb = "stop"
           \/ cli[c].pc = "check" /\ Restarts(c)
        /\ ~raced
        => port # cli[c].target

\* README.md:188: a graceful stop waits for the pulls under way; only a forced
\* stop, the end of the drain period, a fault or a crash cuts one.
GracefulStopDrains == \A p \in Pulls : pull[p] # Cut
=============================================================================
