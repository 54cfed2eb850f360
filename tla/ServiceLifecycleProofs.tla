------------------------ MODULE ServiceLifecycleProofs ------------------------
(***************************************************************************)
(* ServiceLifecycle for every number of processes, commands and pulls, with  *)
(* or without timers, faults and processes launched by hand: directories are *)
(* reclaimed when nobody may use them, who serves is found, and who is said   *)
(* to have stopped has.                                                      *)
(***************************************************************************)
EXTENDS ServiceLifecycle, FiniteSetTheorems, TLAPS

-----------------------------------------------------------------------------
(* The inductive invariant.                                                *)

Unserved == {"none", "prepare", "make", "mark", "listen", "publish"}

\* What a process has published it takes back in order, and a crash leaves at most
\* the discovery file.
Owned ==
    \A i \in Processes :
        /\ i \in control => pc[i] \in {"serving", "close control"}
        /\ pc[i] = "serving" => i \in control
        /\ info = i => pc[i] \in {"serving", "close control", "read info", "remove", "dead"}
        /\ port = i => pc[i] \in {"publish", "serving"}
        /\ pc[i] = "publish" => port = i

\* As long as no file was replaced while it was being removed, the file that is
\* about to be removed is the remover's, and that of the listening process is there.
Found ==
    ~raced => \A i \in Processes :
        /\ pc[i] = "remove" => info = i
        /\ pc[i] = "serving" /\ port = i => info = i

\* Whoever had ended at a launch still has, and its marked directory is found once.
Reclaimed ==
    \A i \in Processes : \A j \in gone[i] :
        /\ pc[j] \in {"exited", "dead"}
        /\ pc[i] \in {"make", "mark", "listen", "publish", "serving"} => workspace[j] # "marked"

\* Only a process that has served is asked to stop.
Stopping == \A c \in Commands : handler[c].pc # "none" => pc[handler[c].at] \notin Unserved

\* The commands whose target is the process that took their stop.
Took(c) ==
    \/ cli[c].pc \in {"wait", "settle"}
    \/ cli[c].pc = "check" /\ Restarts(c)
    \/ cli[c].pc = "ok" /\ cli[c].verb = "stop"

Asked ==
    \A c \in Commands :
        /\ cli[c].pc \in {"settle", "check", "started"} =>
              cli[c].verb \in {"start", "restart", "restart --force"}
        /\ Took(c) => cli[c].target \in Processes /\ pc[cli[c].target] \notin Unserved

IInv ==
    /\ TypeOK /\ WorkspaceKept /\ Reclaimed /\ Owned /\ Found /\ Stopping
    /\ Asked /\ StoppedIsStopped

-----------------------------------------------------------------------------
Locations == {"none", "prepare", "make", "mark", "listen", "publish", "serving",
              "close control", "read info", "remove", "finish", "clean", "exit",
              "exited", "dead"}

LEMMA ProcessesArePositive == (\A i \in Processes : i \in Nat /\ i > 0) /\ 0 \notin Processes
  <1>1. Cardinality(Processes) \in Nat
    BY LifecycleAssumption, FS_CardinalityType
  <1>2. Processes = 1..Cardinality(Processes)
    BY LifecycleAssumption
  <1> QED BY <1>1, <1>2

LEMMA Moves ==
    ASSUME TypeOK, NEW i \in Processes, NEW l \in Locations, Goto(i, l)
    PROVE  /\ pc' \in [Processes -> Locations] /\ pc'[i] = l
           /\ \A j \in Processes : j # i => pc'[j] = pc[j]
  BY DEF TypeOK, Goto, Locations

\* A process forgets only what is its own.
LEMMA Forgets ==
    ASSUME TypeOK, Stopping, NEW i \in Processes, Forget(i)
    PROVE  /\ accepting' \subseteq Processes
           /\ gone' \in [Processes -> SUBSET Processes] /\ gone'[i] = {}
           /\ \A j \in Processes : j # i => gone'[j] = gone[j]
           /\ handler' \in [Commands -> [at : {0} \cup Processes, force : BOOLEAN,
                                         pc : {"none", "begin", "shut", "drain"}]]
           /\ \A c \in Commands : handler'[c].pc # "none" =>
                 handler'[c] = handler[c] /\ handler[c].at \in Processes \ {i}
  <1>1. Nobody \in [at : {0} \cup Processes, force : BOOLEAN, pc : {"none", "begin", "shut", "drain"}]
        /\ Nobody.pc = "none"
    BY DEF Nobody
  <1>2. /\ handler' = [c \in Commands |-> IF handler[c].at = i THEN Nobody ELSE handler[c]]
        /\ gone' = [gone EXCEPT ![i] = {}] /\ accepting' = accepting \ {i}
    BY DEF Forget
  <1> HIDE DEF Nobody
  <1> QED BY <1>1, <1>2 DEF TypeOK

LEMMA HandlersKept ==
    ASSUME TypeOK, Stopping, NEW i \in Processes, NEW l \in Locations, Goto(i, l),
           pc[i] \in Unserved \/ l \notin Unserved,
           \A c \in Commands : handler'[c].pc # "none" => handler'[c] = handler[c]
    PROVE  Stopping'
  <1>1. pc'[i] = l /\ \A j \in Processes : j # i => pc'[j] = pc[j]
    BY Moves
  <1>2. \A j \in Processes : pc[j] \notin Unserved => pc'[j] \notin Unserved
    BY <1>1
  <1>3. \A c \in Commands : handler[c].pc # "none" =>
            handler[c].at \in Processes /\ pc[handler[c].at] \notin Unserved
    BY DEF TypeOK, Stopping
  <1> QED BY <1>2, <1>3 DEF Stopping

\* A process that moves on, before or after it has served, leaves the commands as
\* they were.
LEMMA CommandsKept ==
    ASSUME TypeOK, Asked, StoppedIsStopped, NEW i \in Processes, NEW l \in Locations, Goto(i, l),
           pc[i] \in Unserved \/ l \notin Unserved,
           UNCHANGED <<cli, slow>>, raced => raced',
           port' \in {0, port} \/ (port' = i /\ pc[i] \in Unserved)
    PROVE  Asked' /\ StoppedIsStopped'
  <1>1. /\ pc'[i] = l /\ \A j \in Processes : j # i => pc'[j] = pc[j]
    BY Moves
  <1>2. \A j \in Processes : pc[j] \notin Unserved => pc'[j] \notin Unserved
    BY <1>1
  <1>3. \A c \in Commands : Took(c)' <=> Took(c)
    BY DEF Took, Restarts
  <1>4. Asked'
    BY <1>2, <1>3 DEF Asked
  <1>5. ASSUME NEW c \in Commands, c \notin slow, ~raced',
               \/ cli[c].pc = "ok" /\ cli[c].verb = "stop"
               \/ cli[c].pc = "check" /\ Restarts(c)
        PROVE  port' # cli[c].target
    <2>1. /\ Took(c) /\ ~raced
      BY <1>5 DEF Took
    <2>2. /\ port # cli[c].target /\ cli[c].target \in Processes
          /\ pc[cli[c].target] \notin Unserved
      BY <1>5, <2>1 DEF Asked, StoppedIsStopped
    <2> QED BY <2>2, ProcessesArePositive
  <1>6. StoppedIsStopped'
    BY <1>5 DEF StoppedIsStopped, Restarts
  <1> QED BY <1>4, <1>6

\* The steps of a process that touch nothing but its directory: those before it
\* listens, and those with which it ends.
LEMMA PreparingStep ==
    ASSUME IInv, NEW i \in Processes,
           \/ reclaimExitedWorkspaces(i) \/ MakeWorkspace(i) \/ MarkWorkspace(i)
    PROVE  IInv'
  <1> USE DEF IInv
  <1>1. PICK l \in {"make", "mark", "listen"} :
            /\ Goto(i, l)
            /\ \/ /\ l = "make" /\ pc[i] = "prepare"
                  /\ workspace' = [j \in Processes |->
                         IF workspace[j] = "marked" /\ ~Alive(j) THEN "none" ELSE workspace[j]]
               \/ l = "mark" /\ pc[i] = "make" /\ workspace' = [workspace EXCEPT ![i] = "bare"]
               \/ l = "listen" /\ pc[i] = "mark" /\ workspace' = [workspace EXCEPT ![i] = "marked"]
    BY DEF reclaimExitedWorkspaces, MakeWorkspace, MarkWorkspace
  <1>2. UNCHANGED <<port, control, info, accepting, handler, cli, pull, gone, raced, slow>>
    BY DEF reclaimExitedWorkspaces, MakeWorkspace, MarkWorkspace, ghosts
  <1>3. /\ pc' \in [Processes -> Locations] /\ pc'[i] = l
        /\ \A j \in Processes : j # i => pc'[j] = pc[j]
        /\ pc[i] \in {"prepare", "make", "mark"} /\ l \in Locations
    BY <1>1, Moves DEF Locations
  <1>4. workspace' \in [Processes -> {"none", "bare", "marked"}]
    BY <1>1 DEF TypeOK
  <1>5. TypeOK'
    BY <1>2, <1>3, <1>4 DEF TypeOK, Locations
  <1>6. WorkspaceKept'
    <2>1. workspace \in [Processes -> {"none", "bare", "marked"}]
      BY DEF TypeOK
    <2>2. CASE l = "make"
      BY <1>1, <1>3, <2>1, <2>2 DEF WorkspaceKept, Alive
    <2>3. CASE l # "make"
      BY <1>1, <1>3, <2>1, <2>3 DEF WorkspaceKept
    <2> QED BY <2>2, <2>3
  <1>7. Reclaimed'
    <2>1. /\ gone' = gone /\ gone \in [Processes -> SUBSET Processes]
          /\ workspace \in [Processes -> {"none", "bare", "marked"}]
      BY <1>2 DEF TypeOK
    <2>2. CASE l = "make"
      BY <1>1, <1>3, <2>1, <2>2 DEF Reclaimed, Alive
    <2>3. CASE l # "make"
      BY <1>1, <1>3, <2>1, <2>3 DEF Reclaimed
    <2> QED BY <2>2, <2>3
  <1>8. Owned' /\ Found'
    BY <1>1, <1>2, <1>3 DEF Owned, Found
  <1>9. Stopping'
    BY <1>1, <1>2, <1>3, HandlersKept DEF Unserved
  <1>10. Asked' /\ StoppedIsStopped'
    BY <1>1, <1>2, <1>3, CommandsKept DEF Unserved
  <1> QED BY <1>5, <1>6, <1>7, <1>8, <1>9, <1>10

LEMMA ClosingStep ==
    ASSUME IInv, NEW i \in Processes,
           ListenFails(i) \/ ServeEnds(i) \/ ReadInfo(i) \/ StopMaintenance(i) \/ CloseWorkspace(i)
    PROVE  IInv'
  <1> USE DEF IInv
  <1>1. PICK l \in {"clean", "close control", "remove", "finish", "exit"} :
            /\ Goto(i, l)
            /\ \/ l = "clean" /\ pc[i] \in {"listen", "finish"} /\ (pc[i] = "listen" => port # 0)
               \/ l = "close control" /\ pc[i] = "serving" /\ port # i
               \/ l = "remove" /\ pc[i] = "read info" /\ info = i
               \/ l = "finish" /\ pc[i] = "read info" /\ info # i
               \/ l = "exit" /\ pc[i] = "clean"
            /\ \E left \in {"none", workspace[i]} :
                  workspace' = [workspace EXCEPT ![i] = left]
            /\ l # "exit" => workspace' = workspace
    <2>1. workspace = [workspace EXCEPT ![i] = workspace[i]]
      BY DEF TypeOK
    <2>2. CASE ListenFails(i) \/ ServeEnds(i) \/ StopMaintenance(i)
      BY <2>1, <2>2 DEF ListenFails, ServeEnds, StopMaintenance, files
    <2>3. CASE ReadInfo(i)
      BY <2>1, <2>3 DEF ReadInfo, files
    <2>4. CASE CloseWorkspace(i)
      BY <2>4 DEF CloseWorkspace
    <2> QED BY <2>2, <2>3, <2>4
  <1>2. UNCHANGED <<port, control, info, accepting, handler, cli, pull, gone, raced, slow>>
    BY DEF ListenFails, ServeEnds, ReadInfo, StopMaintenance, CloseWorkspace, ghosts, files
  <1>3. /\ pc' \in [Processes -> Locations] /\ pc'[i] = l
        /\ \A j \in Processes : j # i => pc'[j] = pc[j]
        /\ l \in Locations
    BY <1>1, Moves DEF Locations
  <1>4. /\ workspace' \in [Processes -> {"none", "bare", "marked"}]
        /\ \A j \in Processes : workspace'[j] \in {workspace[j], "none"}
        /\ \A j \in Processes : j # i => workspace'[j] = workspace[j]
    <2>1. workspace \in [Processes -> {"none", "bare", "marked"}]
      BY DEF TypeOK
    <2>2. PICK left \in {"none", workspace[i]} : workspace' = [workspace EXCEPT ![i] = left]
      BY <1>1
    <2> QED BY <2>1, <2>2
  <1>5. TypeOK'
    BY <1>2, <1>3, <1>4 DEF TypeOK, Locations
  <1>6. WorkspaceKept'
    BY <1>1, <1>3, <1>4 DEF WorkspaceKept
  <1>7. Reclaimed'
    <2>1. gone' = gone /\ gone \in [Processes -> SUBSET Processes]
      BY <1>2 DEF TypeOK
    <2>2. SUFFICES ASSUME NEW k \in Processes, NEW j \in gone[k]
                   PROVE  /\ pc'[j] \in {"exited", "dead"}
                          /\ pc'[k] \in {"make", "mark", "listen", "publish", "serving"} =>
                                workspace'[j] # "marked"
      BY <2>1 DEF Reclaimed
    <2>3. /\ j \in Processes /\ pc[j] \in {"exited", "dead"}
          /\ pc[k] \in {"make", "mark", "listen", "publish", "serving"} => workspace[j] # "marked"
      BY <2>1 DEF Reclaimed
    <2>4. pc'[j] = pc[j] /\ workspace'[j] = workspace[j]
      BY <1>1, <1>3, <1>4, <2>3
    <2>5. pc'[k] \in {"make", "mark", "listen", "publish", "serving"} => pc'[k] = pc[k]
      BY <1>1, <1>3
    <2> QED BY <2>3, <2>4, <2>5
  <1>8. Owned'
    BY <1>1, <1>2, <1>3 DEF Owned
  <1>9. Found'
    BY <1>1, <1>2, <1>3 DEF Found
  <1>10. Stopping'
    BY <1>1, <1>2, <1>3, HandlersKept DEF Unserved
  <1>11. Asked' /\ StoppedIsStopped'
    BY <1>1, <1>2, <1>3, CommandsKept DEF Unserved
  <1> QED BY <1>5, <1>6, <1>7, <1>8, <1>9, <1>10, <1>11

\* The listener, the endpoint and the discovery file come and go.
LEMMA EndpointStep ==
    ASSUME IInv, NEW i \in Processes,
           Listen(i) \/ Publish(i) \/ CloseControl(i) \/ RemoveInfo(i)
    PROVE  IInv'
  <1> USE DEF IInv
  <1>0. UNCHANGED <<workspace, handler, cli, pull, gone, slow>>
    BY DEF Listen, Publish, CloseControl, RemoveInfo, files, ghosts
  <1>1. ASSUME NEW l \in {"publish", "serving", "read info", "finish"}, Goto(i, l),
               pc[i] \in {"listen", "publish", "close control", "remove"},
               l \in {"publish", "serving"} => pc[i] \in {"listen", "publish"},
               raced => raced', raced' \in BOOLEAN,
               port' \in {0, port} \/ (port' = i /\ pc[i] \in Unserved),
               info' \in {0, i, info}, control' \subseteq control \cup {i},
               accepting' \subseteq accepting \cup {i},
               Owned', Found'
        PROVE  IInv'
    <2>1. /\ pc' \in [Processes -> Locations] /\ pc'[i] = l
          /\ \A j \in Processes : j # i => pc'[j] = pc[j]
          /\ l \in Locations
      BY <1>1, Moves DEF Locations
    <2>2. TypeOK'
      BY <1>0, <1>1, <2>1 DEF TypeOK, Locations
    <2>3. WorkspaceKept'
      BY <1>0, <1>1, <2>1 DEF WorkspaceKept
    <2>4. Reclaimed'
      <3>1. gone' = gone /\ gone \in [Processes -> SUBSET Processes]
        BY <1>0 DEF TypeOK
      <3> QED BY <1>0, <1>1, <2>1, <3>1 DEF Reclaimed
    <2>5. Stopping'
      BY <1>0, <1>1, <2>1, HandlersKept DEF Unserved
    <2>6. Asked' /\ StoppedIsStopped'
      BY <1>0, <1>1, <2>1, CommandsKept DEF Unserved
    <2> QED BY <1>1, <2>2, <2>3, <2>4, <2>5, <2>6
  <1>2. CASE Listen(i)
    <2>1. /\ pc[i] = "listen" /\ port = 0 /\ port' = i /\ Goto(i, "publish")
          /\ UNCHANGED <<control, info, accepting, raced>>
      BY <1>2 DEF Listen, files, ghosts
    <2>2. pc'[i] = "publish" /\ \A j \in Processes : j # i => pc'[j] = pc[j]
      BY <2>1, Moves DEF Locations
    <2>3. Owned' /\ Found'
      <3>1. \A j \in Processes : port # j
        BY <2>1, ProcessesArePositive
      <3>2. Owned'
        BY <2>1, <2>2, <3>1 DEF Owned
      <3>3. Found'
        BY <2>1, <2>2, <3>1 DEF Found
      <3> QED BY <3>2, <3>3
    <2>4. raced' \in BOOLEAN
      BY <2>1 DEF TypeOK
    <2> QED BY <1>1, <2>1, <2>3, <2>4 DEF Unserved
  <1>3. CASE Publish(i)
    <2>1. /\ pc[i] = "publish" /\ info' = i /\ Goto(i, "serving") /\ port' = port
          /\ control' = control \cup {i} /\ accepting' = accepting \cup {i}
          /\ raced' = (raced \/ \E j \in Processes : pc[j] = "remove")
      BY <1>3 DEF Publish
    <2>2. pc'[i] = "serving" /\ \A j \in Processes : j # i => pc'[j] = pc[j]
      BY <2>1, Moves DEF Locations
    <2>3. port = i
      BY <2>1 DEF Owned
    <2>4. Owned' /\ Found'
      BY <2>1, <2>2, <2>3 DEF Owned, Found
    <2>5. raced' \in BOOLEAN /\ (raced => raced')
      BY <2>1
    <2> QED BY <1>1, <2>1, <2>4, <2>5
  <1>4. CASE CloseControl(i)
    <2>1. /\ pc[i] = "close control" /\ control' = control \ {i} /\ Goto(i, "read info")
          /\ UNCHANGED <<port, info, accepting, raced>>
      BY <1>4 DEF CloseControl, files, ghosts
    <2>2. pc'[i] = "read info" /\ \A j \in Processes : j # i => pc'[j] = pc[j]
      BY <2>1, Moves DEF Locations
    <2>3. Owned' /\ Found'
      BY <2>1, <2>2 DEF Owned, Found
    <2>4. raced' \in BOOLEAN
      BY <2>1 DEF TypeOK
    <2> QED BY <1>1, <2>1, <2>3, <2>4
  <1>5. CASE RemoveInfo(i)
    <2>1. /\ pc[i] = "remove" /\ info' = 0 /\ Goto(i, "finish")
          /\ UNCHANGED <<port, control, accepting, raced>>
      BY <1>5 DEF RemoveInfo, ghosts
    <2>2. pc'[i] = "finish" /\ \A j \in Processes : j # i => pc'[j] = pc[j]
      BY <2>1, Moves DEF Locations
    <2>3. Owned'
      BY <2>1, <2>2, ProcessesArePositive DEF Owned
    <2>4. Found'
      <3>1. ~raced => info = i
        BY <2>1 DEF Found
      <3> QED BY <2>1, <2>2, <3>1 DEF Found
    <2>5. raced' \in BOOLEAN
      BY <2>1 DEF TypeOK
    <2> QED BY <1>1, <2>1, <2>3, <2>4, <2>5
  <1> QED BY <1>2, <1>3, <1>4, <1>5

LEMMA PullsTyped ==
    ASSUME TypeOK, NEW i, NEW how \in {NoPull, Cut}, EndPulls(i, how)
    PROVE  pull' \in [Pulls -> Processes \cup {NoPull, Cut}]
  BY DEF TypeOK, EndPulls

\* A process that ends keeps no listener, no endpoint and no handler; only a crash
\* leaves its directory and its discovery file.
LEMMA EndingStep ==
    ASSUME IInv, NEW i \in Processes, PrepareFails(i) \/ Exit(i) \/ Crash(i)
    PROVE  IInv'
  <1> USE DEF IInv
  <1>1. PICK l \in {"exited", "dead"} :
            /\ Goto(i, l) /\ pc[i] # "none"
            /\ l = "exited" => pc[i] \in {"prepare", "make", "mark", "exit"}
            /\ Forget(i)
            /\ port' = IF port = i THEN 0 ELSE port
            /\ control' = control \ {i}
            /\ workspace' = workspace \/ workspace' = [workspace EXCEPT ![i] = "none"]
            /\ UNCHANGED <<info, cli, raced, slow>>
    <2>1. CASE PrepareFails(i)
      <3>1. port # i /\ i \notin control
        BY <2>1 DEF PrepareFails, Owned
      <3> QED BY <2>1, <3>1 DEF PrepareFails
    <2>2. CASE Exit(i)
      <3>1. i \notin control
        BY <2>2 DEF Exit, Owned
      <3> QED BY <2>2, <3>1 DEF Exit, Unbind, files
    <2>3. CASE Crash(i)
      BY <2>3 DEF Crash, Unbind, Alive, files
    <2> QED BY <2>1, <2>2, <2>3
  <1>2. pull' \in [Pulls -> Processes \cup {NoPull, Cut}]
    BY PullsTyped DEF PrepareFails, Exit, Crash, TypeOK
  <1>3. /\ pc' \in [Processes -> Locations] /\ pc'[i] = l
        /\ \A j \in Processes : j # i => pc'[j] = pc[j]
        /\ l \in Locations
    BY <1>1, Moves DEF Locations
  <1>4. /\ accepting' \subseteq Processes
        /\ gone' \in [Processes -> SUBSET Processes] /\ gone'[i] = {}
        /\ \A j \in Processes : j # i => gone'[j] = gone[j]
        /\ handler' \in [Commands -> [at : {0} \cup Processes, force : BOOLEAN,
                                      pc : {"none", "begin", "shut", "drain"}]]
        /\ \A c \in Commands : handler'[c].pc # "none" =>
              handler'[c] = handler[c] /\ handler[c].at \in Processes \ {i}
    BY <1>1, Forgets
  <1>5. /\ workspace' \in [Processes -> {"none", "bare", "marked"}]
        /\ workspace \in [Processes -> {"none", "bare", "marked"}]
        /\ \A j \in Processes : workspace'[j] \in {workspace[j], "none"}
        /\ \A j \in Processes : j # i => workspace'[j] = workspace[j]
    <2>1. workspace \in [Processes -> {"none", "bare", "marked"}]
      BY DEF TypeOK
    <2> QED BY <1>1, <2>1
  <1>6. TypeOK'
    BY <1>1, <1>2, <1>3, <1>4, <1>5 DEF TypeOK, Locations
  <1>7. WorkspaceKept'
    BY <1>1, <1>3, <1>5 DEF WorkspaceKept
  <1>8. Reclaimed'
    <2>1. gone \in [Processes -> SUBSET Processes]
      BY DEF TypeOK
    <2> QED BY <1>1, <1>3, <1>4, <1>5, <2>1 DEF Reclaimed
  <1>9. Owned'
    BY <1>1, <1>3, ProcessesArePositive DEF Owned
  <1>10. Found'
    <2>1. \A j \in Processes : port' = j => port = j
      BY <1>1, ProcessesArePositive
    <2>2. info' = info /\ raced' = raced /\ pc'[i] \notin {"remove", "serving"}
      BY <1>1, <1>3
    <2> QED BY <1>3, <2>1, <2>2 DEF Found
  <1>11. Stopping'
    BY <1>1, <1>3, <1>4, HandlersKept DEF Unserved
  <1>12. Asked' /\ StoppedIsStopped'
    BY <1>1, <1>3, CommandsKept DEF Unserved
  <1> QED BY <1>6, <1>7, <1>8, <1>9, <1>10, <1>11, <1>12

\* A process that loses its listener goes on to its defers.
LEMMA BreakingStep ==
    ASSUME IInv, NEW i \in Processes, PublishFails(i) \/ ServeBreaks(i)
    PROVE  IInv'
  <1> USE DEF IInv
  <1>1. PICK l \in {"finish", "close control"} :
            /\ Goto(i, l)
            /\ \/ l = "finish" /\ pc[i] = "publish"
               \/ l = "close control" /\ pc[i] = "serving"
            /\ port' = IF port = i THEN 0 ELSE port
            /\ UNCHANGED <<control, info, workspace, accepting, handler, cli, gone, raced, slow>>
    BY DEF PublishFails, ServeBreaks, Unbind, files, ghosts
  <1>2. pull' \in [Pulls -> Processes \cup {NoPull, Cut}]
    BY PullsTyped DEF PublishFails, ServeBreaks, TypeOK
  <1>3. /\ pc' \in [Processes -> Locations] /\ pc'[i] = l
        /\ \A j \in Processes : j # i => pc'[j] = pc[j]
        /\ l \in Locations
    BY <1>1, Moves DEF Locations
  <1>4. TypeOK'
    BY <1>1, <1>2, <1>3 DEF TypeOK, Locations
  <1>5. WorkspaceKept'
    BY <1>1, <1>3 DEF WorkspaceKept
  <1>6. Reclaimed'
    <2>1. gone \in [Processes -> SUBSET Processes]
      BY DEF TypeOK
    <2> QED BY <1>1, <1>3, <2>1 DEF Reclaimed
  <1>7. Owned'
    BY <1>1, <1>3, ProcessesArePositive DEF Owned
  <1>8. Found'
    <2>1. \A j \in Processes : port' = j => port = j
      BY <1>1, ProcessesArePositive
    <2>2. info' = info /\ raced' = raced /\ pc'[i] \notin {"remove", "serving"}
      BY <1>1, <1>3
    <2> QED BY <1>3, <2>1, <2>2 DEF Found
  <1>9. Stopping'
    BY <1>1, <1>3, HandlersKept DEF Unserved
  <1>10. Asked' /\ StoppedIsStopped'
    BY <1>1, <1>3, CommandsKept DEF Unserved
  <1> QED BY <1>4, <1>5, <1>6, <1>7, <1>8, <1>9, <1>10

\* A launch notes who has ended by then.
LEMMA SpawnKeeps ==
    ASSUME IInv, NEW i \in Processes, Spawn(i),
           UNCHANGED <<port, control, files, accepting, handler, pull, raced, slow>>
    PROVE  /\ pc' \in [Processes -> Locations]
           /\ gone' \in [Processes -> SUBSET Processes]
           /\ WorkspaceKept' /\ Reclaimed' /\ Owned' /\ Found' /\ Stopping'
           /\ cli' = cli => Asked' /\ StoppedIsStopped'
  <1> USE DEF IInv
  <1>1. /\ pc[i] = "none" /\ Goto(i, "prepare")
        /\ gone' = [gone EXCEPT ![i] = {j \in Processes : pc[j] \in {"exited", "dead"}}]
        /\ UNCHANGED <<info, workspace>>
    BY DEF Spawn, files
  <1>2. /\ pc' \in [Processes -> Locations] /\ pc'[i] = "prepare"
        /\ \A j \in Processes : j # i => pc'[j] = pc[j]
    BY <1>1, Moves DEF Locations
  <1>3. /\ gone' \in [Processes -> SUBSET Processes]
        /\ gone'[i] = {j \in Processes : pc[j] \in {"exited", "dead"}}
        /\ \A j \in Processes : j # i => gone'[j] = gone[j]
        /\ gone \in [Processes -> SUBSET Processes]
    BY <1>1 DEF TypeOK
  <1>4. WorkspaceKept'
    BY <1>1, <1>2 DEF WorkspaceKept
  <1>5. Reclaimed'
    BY <1>1, <1>2, <1>3 DEF Reclaimed
  <1>6. Owned' /\ Found'
    BY <1>1, <1>2 DEF Owned, Found
  <1>7. Stopping'
    BY <1>1, <1>2, HandlersKept DEF Unserved, Locations
  <1>8. cli' = cli => Asked' /\ StoppedIsStopped'
    BY <1>1, <1>2, CommandsKept DEF Unserved, Locations
  <1> QED BY <1>2, <1>3, <1>4, <1>5, <1>6, <1>7, <1>8

LEMMA LaunchStep ==
    ASSUME IInv, Launch
    PROVE  IInv'
  <1>1. PICK i \in Processes : Spawn(i)
    BY DEF Launch
  <1>2. UNCHANGED <<port, control, files, accepting, handler, cli, pull, raced, slow>>
    BY DEF Launch
  <1>3. /\ pc' \in [Processes -> Locations]
        /\ gone' \in [Processes -> SUBSET Processes]
        /\ WorkspaceKept' /\ Reclaimed' /\ Owned' /\ Found' /\ Stopping'
        /\ Asked' /\ StoppedIsStopped'
    BY <1>1, <1>2, SpawnKeeps
  <1>4. TypeOK'
    BY <1>2, <1>3 DEF IInv, TypeOK, Locations, files
  <1> QED BY <1>3, <1>4 DEF IInv

LEMMA PullStep ==
    ASSUME IInv, NEW p \in Pulls, StartPull(p) \/ FinishPull(p)
    PROVE  IInv'
  <1>1. UNCHANGED <<pc, port, control, info, workspace, accepting, handler, cli, gone, raced, slow>>
    BY DEF StartPull, FinishPull, files, ghosts
  <1>2. pull' \in [Pulls -> Processes \cup {NoPull, Cut}]
    BY DEF StartPull, FinishPull, IInv, TypeOK
  <1>3. TypeOK'
    BY <1>1, <1>2 DEF IInv, TypeOK
  <1>4. WorkspaceKept' /\ Reclaimed' /\ Owned' /\ Found' /\ Stopping'
    BY <1>1 DEF IInv, WorkspaceKept, Reclaimed, Owned, Found, Stopping
  <1>5. Asked' /\ StoppedIsStopped'
    BY <1>1 DEF IInv, Asked, Took, StoppedIsStopped, Restarts
  <1> QED BY <1>3, <1>4, <1>5 DEF IInv

-----------------------------------------------------------------------------
Handlers == [at : {0} \cup Processes, force : BOOLEAN, pc : {"none", "begin", "shut", "drain"}]

\* The Stop callback closes listeners and breaks off pulls, of a process that has
\* served.
LEMMA StopStep ==
    ASSUME IInv, NEW c \in Commands, Stop(c) \/ DrainExpires(c)
    PROVE  IInv'
  <1> USE DEF IInv
  <1>1. /\ handler[c].pc # "none" /\ handler[c].at \in Processes
        /\ pc[handler[c].at] \notin Unserved
        /\ handler \in [Commands -> Handlers]
    <2>1. handler[c].pc # "none"
      BY DEF Stop, StopAccepting, ForceClose, Shutdown, Drained, DrainExpires, At
    <2> QED BY <2>1 DEF TypeOK, Stopping, Handlers
  <1>2. UNCHANGED <<pc, control, info, workspace, cli, gone, raced, slow>>
    BY DEF Stop, StopAccepting, ForceClose, Shutdown, Drained, DrainExpires, files, ghosts
  <1>3. port' = port \/ port' = (IF port = handler[c].at THEN 0 ELSE port)
    BY DEF Stop, StopAccepting, ForceClose, Shutdown, Drained, DrainExpires, Unbind
  <1>4. accepting' \subseteq Processes
    BY DEF TypeOK, Stop, StopAccepting, ForceClose, Shutdown, Drained, DrainExpires
  <1>5. pull' \in [Pulls -> Processes \cup {NoPull, Cut}]
    BY PullsTyped DEF TypeOK, Stop, StopAccepting, ForceClose, Shutdown, Drained, DrainExpires
  <1>6. \/ \E l \in {"shut", "drain"} : handler' = [handler EXCEPT ![c].pc = l]
        \/ handler' = [handler EXCEPT ![c] = Nobody]
    BY DEF Stop, StopAccepting, ForceClose, Shutdown, Drained, DrainExpires
  <1>7. /\ handler' \in [Commands -> Handlers]
        /\ \A d \in Commands : handler'[d].pc # "none" =>
              handler[d].pc # "none" /\ handler'[d].at = handler[d].at
    <2>1. CASE \E l \in {"shut", "drain"} : handler' = [handler EXCEPT ![c].pc = l]
      BY <1>1, <2>1 DEF Handlers
    <2>2. CASE handler' = [handler EXCEPT ![c] = Nobody]
      <3>1. Nobody \in Handlers /\ Nobody.pc = "none"
        BY DEF Nobody, Handlers
      <3> HIDE DEF Nobody
      <3> QED BY <1>1, <2>2, <3>1
    <2> QED BY <1>6, <2>1, <2>2
  <1>8. /\ \A j \in Processes : port' = j => port = j
        /\ \A j \in Processes : pc[j] = "publish" => port' = j
        /\ port' \in {0} \cup Processes
    <2>1. port \in {0} \cup Processes
      BY DEF TypeOK
    <2>2. \A j \in Processes : pc[j] = "publish" => port = j /\ j # handler[c].at
      BY <1>1 DEF Owned, Unserved
    <2> QED BY <1>3, <2>1, <2>2, ProcessesArePositive
  <1>9. TypeOK'
    <2>1. \A d \in Commands : handler'[d].pc # "none" => handler'[d].at \in Processes
      BY <1>7 DEF TypeOK
    <2> QED BY <1>2, <1>4, <1>5, <1>7, <1>8, <2>1 DEF TypeOK, Handlers
  <1>10. WorkspaceKept' /\ Reclaimed'
    BY <1>2 DEF WorkspaceKept, Reclaimed
  <1>11. Owned'
    BY <1>2, <1>8 DEF Owned
  <1>12. Found'
    BY <1>2, <1>8 DEF Found
  <1>13. Stopping'
    BY <1>2, <1>7 DEF Stopping
  <1>14. Asked'
    BY <1>2 DEF Asked, Took, Restarts
  <1>15. StoppedIsStopped'
    <2>1. \A d \in Commands : Took(d) => cli[d].target \in Processes
      BY DEF Asked
    <2>2. ASSUME NEW d \in Commands, d \notin slow, ~raced,
                 \/ cli[d].pc = "ok" /\ cli[d].verb = "stop"
                 \/ cli[d].pc = "check" /\ Restarts(d)
          PROVE  port' # cli[d].target
      <3>1. cli[d].target \in Processes /\ port # cli[d].target
        BY <2>1, <2>2 DEF Took, StoppedIsStopped
      <3> QED BY <1>8, <3>1
    <2> QED BY <1>2, <2>2 DEF StoppedIsStopped, Restarts
  <1> QED BY <1>9, <1>10, <1>11, <1>12, <1>13, <1>14, <1>15

-----------------------------------------------------------------------------
Calls == [verb : Verbs \cup {"none"}, target : {0} \cup Processes,
          pc : {"idle", "send", "wait", "settle", "check", "started", "ok", "failed"}]

\* The steps of a command but the launch: what has to be shown is that the command
\* itself is where it may be, and that who is asked to stop has served.
LEMMA CallStep ==
    ASSUME IInv, NEW c \in Commands, NEW call \in Calls, cli' = [cli EXCEPT ![c] = call],
           UNCHANGED <<pc, port, control, info, workspace, accepting, pull, gone, raced>>,
           slow' \in {slow, slow \cup {c}},
           handler' \in [Commands -> Handlers], Stopping',
           \A d \in Commands : handler'[d].pc # "none" => handler'[d].at \in Processes,
           call.pc \in {"settle", "check", "started"} =>
              call.verb \in {"start", "restart", "restart --force"},
           (\/ call.pc \in {"wait", "settle"}
            \/ call.pc = "check" /\ call.verb \in {"restart", "restart --force"}
            \/ call.pc = "ok" /\ call.verb = "stop") =>
              call.target \in Processes /\ pc[call.target] \notin Unserved,
           (/\ c \notin slow' /\ ~raced
            /\ \/ call.pc = "ok" /\ call.verb = "stop"
               \/ call.pc = "check" /\ call.verb \in {"restart", "restart --force"})
              => port # call.target
    PROVE  IInv'
  <1>1. /\ cli \in [Commands -> Calls] /\ cli' \in [Commands -> Calls] /\ cli'[c] = call
        /\ \A d \in Commands : d # c => cli'[d] = cli[d]
    BY DEF IInv, TypeOK, Calls
  <1>2. slow' \subseteq Commands
    BY DEF IInv, TypeOK
  <1>3. TypeOK'
    BY <1>1, <1>2 DEF IInv, TypeOK, Calls, Handlers
  <1>4. WorkspaceKept' /\ Reclaimed' /\ Owned' /\ Found'
    BY DEF IInv, WorkspaceKept, Reclaimed, Owned, Found
  <1>5. Asked'
    BY <1>1 DEF IInv, Asked, Took, Restarts
  <1>6. StoppedIsStopped'
    BY <1>1 DEF IInv, StoppedIsStopped, Restarts
  <1> QED BY <1>3, <1>4, <1>5, <1>6 DEF IInv

\* A command that asks nothing of a process, and is or is not mistaken about it.
LEMMA QuietCall ==
    ASSUME IInv, NEW c \in Commands, NEW call \in Calls, cli' = [cli EXCEPT ![c] = call],
           call.target = cli[c].target,
           UNCHANGED <<pc, port, control, files, accepting, handler, pull, gone, raced>>,
           slow' \in {slow, slow \cup {c}},
           call.pc \in {"settle", "check"} => call.verb \in {"start", "restart", "restart --force"},
           call.pc \notin {"wait", "started"},
           (\/ call.pc = "settle"
            \/ call.pc = "check" /\ call.verb # "start"
            \/ call.pc = "ok" /\ call.verb = "stop") => Took(c),
           (/\ c \notin slow' /\ ~raced
            /\ \/ call.pc = "ok" /\ call.verb = "stop"
               \/ call.pc = "check" /\ call.verb # "start")
              => port # call.target
    PROVE  IInv'
  <1>1. /\ handler \in [Commands -> Handlers]
        /\ \A d \in Commands : handler[d].pc # "none" => handler[d].at \in Processes
    BY DEF IInv, TypeOK, Handlers
  <1>2. UNCHANGED <<info, workspace>> /\ Stopping'
    BY DEF IInv, files, Stopping
  <1>3. Took(c) => cli[c].target \in Processes /\ pc[cli[c].target] \notin Unserved
    BY DEF IInv, Asked
  <1>4. UNCHANGED <<pc, port, control, info, workspace, accepting, pull, gone, raced>>
    BY <1>2
  <1>5. \A d \in Commands : handler'[d].pc # "none" => handler'[d].at \in Processes
    BY <1>1
  <1>6. call.pc \in {"settle", "check", "started"} =>
            call.verb \in {"start", "restart", "restart --force"}
    OBVIOUS
  <1>7. (\/ call.pc \in {"wait", "settle"}
         \/ call.pc = "check" /\ call.verb \in {"restart", "restart --force"}
         \/ call.pc = "ok" /\ call.verb = "stop") =>
            call.target \in Processes /\ pc[call.target] \notin Unserved
    BY <1>3
  <1>8. (/\ c \notin slow' /\ ~raced
         /\ \/ call.pc = "ok" /\ call.verb = "stop"
            \/ call.pc = "check" /\ call.verb \in {"restart", "restart --force"})
           => port # call.target
    OBVIOUS
  <1>9. handler' \in [Commands -> Handlers]
    BY <1>1
  <1> QED BY <1>2, <1>4, <1>5, <1>6, <1>7, <1>8, <1>9, CallStep

LEMMA CommandStep ==
    ASSUME IInv, NEW c \in Commands, Command(c)
    PROVE  IInv'
  <1> USE DEF IInv
  <1>1. cli \in [Commands -> Calls] /\ cli[c] \in Calls
    BY DEF TypeOK, Calls
  <1>2. \A l : Step(c, l) => cli' = [cli EXCEPT ![c] = [cli[c] EXCEPT !.pc = l]]
    BY <1>1 DEF Step, Calls
  <1>3. /\ handler \in [Commands -> Handlers]
        /\ \A d \in Commands : handler[d].pc # "none" => handler[d].at \in Processes
    BY DEF TypeOK, Handlers
  <1>4. /\ cli[c].pc \in {"settle", "check", "started"} =>
              cli[c].verb \in {"start", "restart", "restart --force"}
        /\ Took(c) => cli[c].target \in Processes /\ pc[cli[c].target] \notin Unserved
    BY DEF Asked
  <1>5. CASE StopRequest(c)
    <2> DEFINE l == IF Graceful(c) THEN "wait" ELSE IF Restarts(c) THEN "settle" ELSE "ok"
               h == [at |-> info, force |-> ~Graceful(c), pc |-> "begin"]
               call == [cli[c] EXCEPT !.target = info, !.pc = l]
    <2>1. /\ info \in Processes /\ pc[info] \notin Unserved
          /\ handler' = [handler EXCEPT ![c] = h]
          /\ UNCHANGED <<pc, port, control, info, workspace, accepting, pull, gone, raced, slow>>
      BY <1>5 DEF StopRequest, Answers, Owned, TypeOK, Unserved, files, ghosts
    <2>2. cli' = [cli EXCEPT ![c].target = info, ![c].pc = l]
      BY <1>5 DEF StopRequest
    <2>3. cli' = [cli EXCEPT ![c] = call] /\ call \in Calls
      BY <1>1, <2>1, <2>2 DEF Calls
    <2>4. h \in Handlers /\ h.pc # "none" /\ h.at = info
      BY <2>1 DEF Handlers, Graceful
    <2>5. /\ call.pc = l /\ call.verb = cli[c].verb /\ call.target = info
          /\ l = "settle" => cli[c].verb \in {"restart", "restart --force"}
          /\ l = "ok" => cli[c].verb # "stop"
          /\ l \in {"wait", "settle", "ok"}
      BY <1>1 DEF Calls, Graceful, Restarts
    <2> HIDE DEF h, l, call
    <2>6. /\ handler' \in [Commands -> Handlers]
          /\ \A d \in Commands : handler'[d].pc # "none" => handler'[d].at \in Processes
          /\ \A d \in Commands : handler'[d].pc # "none" => pc[handler'[d].at] \notin Unserved
      BY <1>3, <2>1, <2>4 DEF Stopping
    <2>7. Stopping'
      BY <2>1, <2>6 DEF Stopping
    <2> QED BY <2>1, <2>3, <2>5, <2>6, <2>7, CallStep
  <1>6. ASSUME NEW l \in {"settle", "check", "ok", "failed"}, Step(c, l)
        PROVE  \E call \in Calls : /\ call.pc = l /\ call.verb = cli[c].verb
                                   /\ call.target = cli[c].target
                                   /\ cli' = [cli EXCEPT ![c] = call]
    <2> DEFINE call == [cli[c] EXCEPT !.pc = l]
    <2>1. /\ call \in Calls /\ call.pc = l /\ call.verb = cli[c].verb
          /\ call.target = cli[c].target /\ cli' = [cli EXCEPT ![c] = call]
      BY <1>1, <1>6 DEF Calls, Step
    <2> HIDE DEF call
    <2> QED BY <2>1
  <1>7. CASE StopRequestFails(c) \/ AlreadyRunning(c) \/ GiveUp(c)
    <2>1. Step(c, "failed") /\ slow' = slow
          /\ UNCHANGED <<pc, port, control, files, accepting, handler, pull, gone, raced>>
      BY <1>7 DEF StopRequestFails, AlreadyRunning, GiveUp, ghosts
    <2> QED BY <1>6, <2>1, QuietCall
  <1>8. CASE waitForGatewayStop(c) \/ Settle(c)
    <2>1. PICK l \in {"settle", "check", "ok"} :
              /\ Step(c, l) /\ cli[c].pc \in {"wait", "settle"}
              /\ l = "settle" => Restarts(c)
              /\ l = "check" => cli[c].pc = "settle"
              /\ slow' = IF Answers THEN slow \cup {c} ELSE slow
              /\ UNCHANGED <<pc, port, control, files, accepting, handler, pull, gone, raced>>
      BY <1>8 DEF waitForGatewayStop, Settle, Is, Mistaken
    <2>2. Took(c)
      BY <2>1 DEF Took
    <2>3. ASSUME c \notin slow', ~raced
          PROVE  port # cli[c].target
      <3>1. info \notin control
        BY <2>1, <2>3 DEF Answers
      <3>2. cli[c].target \in Processes /\ pc[cli[c].target] \notin Unserved
        BY <1>4, <2>2
      <3> QED BY <2>3, <3>1, <3>2 DEF Owned, Found, Unserved
    <2>4. PICK call \in Calls : /\ call.pc = l /\ call.verb = cli[c].verb
                                /\ call.target = cli[c].target
                                /\ cli' = [cli EXCEPT ![c] = call]
      BY <1>6, <2>1
    <2>5. call.pc \in {"settle", "check"} => call.verb \in {"start", "restart", "restart --force"}
      BY <1>4, <2>1, <2>4 DEF Restarts
    <2> QED BY <2>1, <2>2, <2>3, <2>4, <2>5, QuietCall
  <1>9. CASE ChildReady(c)
    <2>1. /\ Step(c, "ok") /\ cli[c].pc = "started" /\ slow' = slow
          /\ UNCHANGED <<pc, port, control, files, accepting, handler, pull, gone, raced>>
      BY <1>9 DEF ChildReady, Is, ghosts
    <2>2. cli[c].verb # "stop"
      BY <1>4, <2>1
    <2> QED BY <1>6, <2>1, <2>2, QuietCall
  <1>10. CASE SpawnChild(c)
    <2>1. PICK i \in Processes \ {1} :
              Spawn(i) /\ cli' = [cli EXCEPT ![c].pc = "started", ![c].target = i]
      BY <1>10 DEF SpawnChild
    <2>2. UNCHANGED <<port, control, files, accepting, handler, pull, raced, slow>>
      BY <1>10 DEF SpawnChild
    <2>3. /\ pc' \in [Processes -> Locations]
          /\ gone' \in [Processes -> SUBSET Processes]
          /\ WorkspaceKept' /\ Reclaimed' /\ Owned' /\ Found' /\ Stopping'
      BY <2>1, <2>2, SpawnKeeps
    <2>4. /\ cli' \in [Commands -> Calls] /\ cli'[c].pc = "started"
          /\ cli'[c].verb = cli[c].verb
          /\ \A d \in Commands : d # c => cli'[d] = cli[d]
      BY <1>1, <2>1 DEF Calls
    <2>5. TypeOK'
      BY <2>2, <2>3, <2>4 DEF TypeOK, Locations, Calls, files
    <2>6. \A j \in Processes : pc[j] \notin Unserved => pc'[j] = pc[j]
      BY <2>1 DEF Spawn, Goto, TypeOK, Unserved
    <2>7. Asked'
      <3>1. cli[c].pc = "check"
        BY <1>10 DEF SpawnChild, Is
      <3>2. SUFFICES ASSUME NEW d \in Commands
                     PROVE  /\ cli'[d].pc \in {"settle", "check", "started"} =>
                                  cli'[d].verb \in {"start", "restart", "restart --force"}
                            /\ Took(d)' => /\ cli'[d].target \in Processes
                                           /\ pc'[cli'[d].target] \notin Unserved
        BY DEF Asked
      <3>3. CASE d = c
        BY <1>4, <2>4, <3>1, <3>3 DEF Took, Restarts
      <3>4. CASE d # c
        <4>1. cli'[d] = cli[d]
          BY <2>4, <3>4
        <4>2. /\ cli[d].pc \in {"settle", "check", "started"} =>
                    cli[d].verb \in {"start", "restart", "restart --force"}
              /\ Took(d) => cli[d].target \in Processes /\ pc[cli[d].target] \notin Unserved
          BY DEF Asked
        <4> QED BY <2>6, <4>1, <4>2 DEF Took, Restarts
      <3> QED BY <3>3, <3>4
    <2>8. StoppedIsStopped'
      BY <2>2, <2>4 DEF StoppedIsStopped, Restarts
    <2> QED BY <2>3, <2>5, <2>7, <2>8
  <1> QED BY <1>5, <1>7, <1>8, <1>9, <1>10 DEF Command

LEMMA IssueStep ==
    ASSUME IInv, NEW c \in Commands, NEW verb \in Verbs, Issue(c, verb)
    PROVE  IInv'
  <1> DEFINE l == IF verb = "start" THEN "check" ELSE "send"
             call == [cli[c] EXCEPT !.verb = verb, !.pc = l]
  <1>1. cli \in [Commands -> Calls] /\ cli[c] \in Calls
    BY DEF IInv, TypeOK, Calls
  <1>2. /\ call \in Calls /\ call.pc = l /\ call.verb = verb /\ call.target = cli[c].target
        /\ cli' = [cli EXCEPT ![c] = call]
        /\ l \in {"check", "send"} /\ (l = "check" => verb = "start")
    BY <1>1 DEF Calls, Issue
  <1>3. slow' = slow /\ UNCHANGED <<pc, port, control, files, accepting, handler, pull, gone, raced>>
    BY DEF Issue, ghosts
  <1> HIDE DEF call, l
  <1> QED BY <1>2, <1>3, QuietCall

-----------------------------------------------------------------------------
LEMMA IInvInit == Init => IInv
  <1> SUFFICES ASSUME Init PROVE IInv
    OBVIOUS
  <1> USE DEF Init
  <1>1. Nobody \in Handlers /\ Nobody.pc = "none"
    BY DEF Nobody, Handlers
  <1>2. handler \in [Commands -> Handlers] /\ \A c \in Commands : handler[c].pc = "none"
    <2> HIDE DEF Nobody
    <2> QED BY <1>1
  <1>3. TypeOK
    BY <1>2 DEF TypeOK, Handlers, NoPull, Cut
  <1>4. WorkspaceKept /\ Reclaimed /\ Owned /\ Found
    BY ProcessesArePositive DEF WorkspaceKept, Reclaimed, Owned, Found
  <1>5. Stopping /\ Asked /\ StoppedIsStopped
    BY <1>2 DEF Stopping, Asked, Took, StoppedIsStopped, Restarts
  <1> QED BY <1>3, <1>4, <1>5 DEF IInv

LEMMA IInvNext == IInv /\ [Next]_vars => IInv'
  <1> SUFFICES ASSUME IInv, [Next]_vars PROVE IInv'
    OBVIOUS
  <1>1. CASE Launch
    BY <1>1, LaunchStep
  <1>2. ASSUME NEW i \in Processes, Process(i)
        PROVE  IInv'
    BY <1>2, PreparingStep, ClosingStep, EndpointStep, EndingStep DEF Process
  <1>3. ASSUME NEW i \in Processes, Fault(i)
        PROVE  IInv'
    BY <1>3, EndingStep, BreakingStep DEF Fault
  <1>4. ASSUME NEW p \in Pulls, StartPull(p) \/ FinishPull(p)
        PROVE  IInv'
    BY <1>4, PullStep
  <1>5. ASSUME NEW c \in Commands, Stop(c) \/ DrainExpires(c) \/ Command(c)
        PROVE  IInv'
    BY <1>5, StopStep, CommandStep
  <1>6. ASSUME NEW c \in Commands, NEW verb \in Verbs, Issue(c, verb)
        PROVE  IInv'
    BY <1>6, IssueStep
  <1>7. CASE UNCHANGED vars
    <2>1. UNCHANGED <<pc, port, control, info, workspace, accepting, handler, cli, pull,
                      gone, raced, slow>>
      BY <1>7 DEF vars, files, ghosts
    <2>2. TypeOK'
      BY <2>1 DEF IInv, TypeOK
    <2>3. WorkspaceKept' /\ Reclaimed' /\ Owned' /\ Found' /\ Stopping'
      BY <2>1 DEF IInv, WorkspaceKept, Reclaimed, Owned, Found, Stopping
    <2>4. Asked' /\ StoppedIsStopped'
      BY <2>1 DEF IInv, Asked, Took, StoppedIsStopped, Restarts
    <2> QED BY <2>2, <2>3, <2>4 DEF IInv
  <1> QED BY <1>1, <1>2, <1>3, <1>4, <1>5, <1>6, <1>7 DEF Next

LEMMA Inductive == Spec => []IInv
  <1> QED BY IInvInit, IInvNext, PTL DEF Spec

-----------------------------------------------------------------------------
\* For any number of processes, however they overlap, crash or fail to start: a
\* directory in use is never reclaimed, and one whose owner had ended is gone before
\* the next process serves (tempstate/workspace.go:30-137).
THEOREM DirectoriesAreReclaimed == Spec => []WorkspaceInv
  <1>1. IInv => WorkspaceInv
    BY DEF IInv, WorkspaceInv, StrayReclaimed, Reclaimed
  <1> QED BY <1>1, Inductive, PTL

\* For any number of processes: one that returns from main leaves no listener, no
\* endpoint and no discovery file of its own (cli.go:883-920).
THEOREM ExitIsClean == Spec => []LifecycleInv
  <1>1. IInv => LifecycleInv
    BY DEF IInv, LifecycleInv, ExitLeavesNothing, Owned
  <1> QED BY <1>1, Inductive, PTL

\* For any number of processes and commands: the listening process is the one that
\* control.json names, unless the file was replaced inside removeOwnedInfo.
THEOREM WhoServesIsFound == Spec => []ServingIsFound
  <1>1. IInv => ServingIsFound
    BY DEF IInv, ServingIsFound, Found
  <1> QED BY <1>1, Inductive, PTL

\* For any number of processes and commands: a stop or a restart that goes on has
\* seen its process off the port, unless a status request was merely slow or a
\* discovery file was lost.
THEOREM StopMeansStopped == Spec => []StoppedIsStopped
  <1>1. IInv => StoppedIsStopped
    BY DEF IInv
  <1> QED BY <1>1, Inductive, PTL
=============================================================================
