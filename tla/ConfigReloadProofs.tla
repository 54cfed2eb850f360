-------------------------- MODULE ConfigReloadProofs --------------------------
(***************************************************************************)
(* What the commands of an operator and a running gateway share, for every *)
(* number of commands, writes, roots and certificates.  ConfigReload:      *)
(* reloads apply in the order of the file, one probe runs at a time and    *)
(* none when it has been waited for, and commands that come one at a time  *)
(* leave file and gateway in agreement.  RootRotation: the files of the    *)
(* certificates are torn only in the windows it names, and the gateway     *)
(* presents no certificate that Docker does not trust, but those of a root *)
(* whose installation did not come through.                                *)
(***************************************************************************)
EXTENDS ConfigReload, RootRotation, FiniteSetTheorems, SequenceTheorems, TLAPS

-----------------------------------------------------------------------------
(* The inductive invariant.                                                *)

HandlerStates ==
    {NoHandler} \cup [at : {"queued"}] \cup [at : {"loaded"}, candidate : Configurations]

CommandStates ==
    [at : {"idle", "asking"}]
    \cup [at : {"loaded"}, base : SUBSET Changes]
    \cup [at : {"read", "backed"}, candidate : SUBSET Changes, original : SUBSET Changes]
    \cup [at : {"written", "waiting", "restore"}, original : SUBSET Changes]

TickerStates == [at : {"idle", "current"}] \cup [at : {"launch"}, write : 0..MaxWrites]

Types ==
    /\ regime \in Regimes
    /\ file \in Configurations /\ served \in Configurations /\ backup \in SUBSET Changes
    /\ info \in BOOLEAN /\ probesRunning \in BOOLEAN /\ busy \in BOOLEAN
    /\ gateway \in {"down", "starting", "up", "closed", "cancelled", "waited"}
    /\ lock \in Commands \cup {"none"}
    /\ handler \in [Commands -> HandlerStates]
    /\ command \in [Commands -> CommandStates]
    /\ ticker \in TickerStates
    /\ probes \in SUBSET (0..MaxWrites) /\ edited \in 0..MaxWrites

\* reloadMu has one owner, whose handler has loaded; a process that is down has no
\* goroutines.
Locked ==
    /\ \A c \in Commands : lock = c <=> handler[c].at = "loaded"
    /\ gateway = "down" => ticker = Resting /\ \A c \in Commands : handler[c] = NoHandler

Probed ==
    /\ ~probesRunning => probes = {}
    /\ probesRunning => \E write \in 0..MaxWrites : probes = {write}
    /\ gateway \in {"waited", "down"} => probes = {}

\* What is served, what a reload has loaded and the file were written in this order.
Ordered ==
    /\ served.write <= file.write /\ edited <= file.write
    /\ \A c \in Commands : handler[c].at = "loaded" =>
          served.write <= handler[c].candidate.write /\ handler[c].candidate.write <= file.write

Changed == {"written", "waiting", "restore"}

\* One command at a time, none outlasted by its reload: what a command may put back
\* is what is served, and what a reload has loaded is what the file says.
Serial ==
    ~Overlap /\ Timely =>
        /\ \A c, d \in Commands : ~At(c, "idle") /\ ~At(d, "idle") => c = d
        /\ \A c \in Commands :
             /\ handler[c] # NoHandler => gateway = "up" /\ command[c].at \in {"waiting", "asking"}
             /\ handler[c].at = "loaded" => handler[c].candidate = file
             /\ command[c].at \in {"read", "backed"} => command[c].original = file.changes
             /\ command[c].at \in Changed => file.write > 0

InForce ==
    ~Overlap /\ Timely /\ edited = 0 /\ gateway \in {"starting", "up"} =>
        /\ \A c \in Commands : command[c].at \in Changed => served.changes = command[c].original
        /\ (\A c \in Commands : command[c].at \notin Changed) => served.changes = file.changes

IInv == Types /\ Locked /\ Probed /\ Ordered /\ Serial /\ InForce

-----------------------------------------------------------------------------
(* The commands.                                                           *)

Alone(c) == \A d \in Commands : handler[d] = NoHandler /\ (d # c => At(d, "idle"))

\* A command that takes its turn is the only one, and its reload is not under way.
LEMMA TakesTurns ==
    ASSUME IInv, ~Overlap, Timely, NEW c \in Commands,
           \/ NoCommandRuns
           \/ ~At(c, "idle") /\ command[c].at \notin {"waiting", "asking"}
           \/ ~At(c, "idle") /\ gateway # "up"
    PROVE  Alone(c)
  <1>1. \A d \in Commands : handler[d] # NoHandler =>
            gateway = "up" /\ command[d].at \in {"waiting", "asking"}
    BY DEF IInv, Serial
  <1>2. \A d, e \in Commands : ~At(d, "idle") /\ ~At(e, "idle") => d = e
    BY DEF IInv, Serial
  <1>3. \A d \in Commands : d # c => At(d, "idle")
    BY <1>2 DEF NoCommandRuns
  <1>4. \A d \in Commands : handler[d] = NoHandler
    BY <1>1, <1>3 DEF NoCommandRuns, At
  <1> QED BY <1>3, <1>4 DEF Alone

\* A step of a command that leaves the gateway alone.
LEMMA CallStep ==
    ASSUME IInv, NEW c \in Commands, NEW call \in CommandStates, Set(c, call),
           UNCHANGED <<process, busy, regime>>,
           file' \in Configurations, backup' \in SUBSET Changes, edited' \in 0..MaxWrites,
           file.write <= file'.write, edited' <= file'.write,
           ~Overlap /\ Timely =>
              /\ Alone(c)
              /\ call.at \in {"read", "backed"} => call.original = file'.changes
              /\ call.at \in Changed => file'.write > 0,
           ~Overlap /\ Timely /\ edited' = 0 /\ gateway \in {"starting", "up"} =>
              /\ call.at \in Changed => served.changes = call.original
              /\ call.at \notin Changed => served.changes = file'.changes
    PROVE  IInv'
  <1>1. /\ command \in [Commands -> CommandStates] /\ command' \in [Commands -> CommandStates]
        /\ command'[c] = call /\ \A d \in Commands : d # c => command'[d] = command[d]
    BY DEF IInv, Types, Set
  <1>2. UNCHANGED <<info, gateway, served, lock, handler, ticker, probes, probesRunning, busy,
                    regime>>
    BY DEF process
  <1>3. Types'
    BY <1>1, <1>2 DEF IInv, Types
  <1>4. Locked' /\ Probed'
    BY <1>2 DEF IInv, Locked, Probed
  <1>5. Ordered'
    <2>1. file \in Configurations /\ served \in Configurations
      BY DEF IInv, Types
    <2>2. \A d \in Commands : handler[d].at = "loaded" => handler[d].candidate \in Configurations
      BY DEF IInv, Types, HandlerStates, NoHandler
    <2> QED BY <1>2, <2>1, <2>2 DEF IInv, Ordered, Configurations
  <1>6. Serial'
    BY <1>1, <1>2 DEF Serial, Alone, At, Overlap, Timely, Changed, NoHandler
  <1>7. InForce'
    BY <1>1, <1>2 DEF InForce, Alone, At, Overlap, Timely, Changed
  <1> QED BY <1>3, <1>4, <1>5, <1>6, <1>7 DEF IInv

LEMMA Replaces ==
    ASSUME IInv, NEW changes \in SUBSET Changes, Replace(changes)
    PROVE  /\ file' \in Configurations /\ file'.changes = changes
           /\ file'.write = file.write + 1 /\ file.write \in Nat
  <1>1. /\ regime \in [overlap : BOOLEAN, timely : BOOLEAN, faults : BOOLEAN, writes : 0..MaxWrites]
        /\ MaxWrites \in Nat /\ file \in Configurations
    BY ConfigAssumption DEF IInv, Types
  <1> QED BY <1>1 DEF Replace, Configurations

LEMMA EntryStep ==
    ASSUME IInv, UNCHANGED regime, NEW c \in Commands,
           LoadConfig(c) \/ Rejected(c) \/ ReadOriginal(c) \/ WriteBackup(c) \/ WriteFails(c)
    PROVE  IInv'
  <1> USE DEF IInv
  <1>1. /\ command \in [Commands -> CommandStates] /\ command[c] \in CommandStates
        /\ file \in Configurations /\ file.changes \in SUBSET Changes /\ file.write \in Nat
        /\ edited \in 0..MaxWrites /\ backup \in SUBSET Changes
    BY DEF Types, Configurations
  <1>2. UNCHANGED <<file, process, busy, edited>>
    BY DEF LoadConfig, Rejected, ReadOriginal, WriteBackup, WriteFails
  <1>3. \/ NoCommandRuns \/ (Overlap /\ At(c, "idle"))
        \/ ~At(c, "idle") /\ command[c].at \notin {"waiting", "asking"}
    BY DEF LoadConfig, Rejected, ReadOriginal, WriteBackup, WriteFails, At
  <1>4. ~Overlap /\ Timely => Alone(c)
    BY <1>3, TakesTurns
  <1>5. command[c].at \in {"idle", "loaded", "read", "backed"}
    BY DEF LoadConfig, Rejected, ReadOriginal, WriteBackup, WriteFails, At
  <1>6. \E call \in CommandStates :
            /\ Set(c, call) /\ call.at \in {"idle", "loaded", "read", "backed"}
            /\ ~Overlap /\ Timely /\ call.at \in {"read", "backed"} => call.original = file.changes
    <2>1. CASE LoadConfig(c)
      <3> DEFINE call == [at |-> "loaded", base |-> file.changes]
      <3>1. call \in CommandStates /\ call.at = "loaded"
        BY <1>1 DEF CommandStates
      <3> QED BY <2>1, <3>1 DEF LoadConfig
    <2>2. CASE Rejected(c) \/ WriteFails(c)
      <3>1. NoCommand \in CommandStates /\ NoCommand.at = "idle"
        BY DEF CommandStates, NoCommand
      <3> QED BY <2>2, <3>1 DEF Rejected, WriteFails
    <2>3. CASE ReadOriginal(c)
      <3> DEFINE call == [at |-> "read", candidate |-> Candidate(c), original |-> file.changes]
      <3>1. command[c].base \in SUBSET Changes
        BY <1>1, <2>3 DEF ReadOriginal, At, CommandStates
      <3>2. Candidate(c) \in SUBSET Changes
        BY <3>1 DEF Candidate, Toggle, Changes
      <3>3. call \in CommandStates /\ call.at = "read" /\ call.original = file.changes
        BY <1>1, <3>2 DEF CommandStates
      <3> QED BY <2>3, <3>3 DEF ReadOriginal
    <2>4. CASE WriteBackup(c)
      <3> DEFINE call == [command[c] EXCEPT !.at = "backed"]
      <3>1. call \in CommandStates /\ call.at = "backed" /\ call.original = command[c].original
        BY <1>1, <2>4 DEF WriteBackup, At, CommandStates
      <3>2. ~Overlap /\ Timely => command[c].original = file.changes
        BY <2>4 DEF WriteBackup, At, Serial
      <3> QED BY <2>4, <3>1, <3>2 DEF WriteBackup
    <2> QED BY <2>1, <2>2, <2>3, <2>4
  <1>7. backup' \in SUBSET Changes
    BY <1>1 DEF LoadConfig, Rejected, ReadOriginal, WriteBackup, WriteFails, At, CommandStates
  <1>8. ~Overlap /\ Timely /\ edited = 0 /\ gateway \in {"starting", "up"} =>
            served.changes = file.changes
    BY <1>4, <1>5 DEF InForce, Alone, At, Changed
  <1>9. edited <= file.write
    BY DEF Ordered
  <1>10. PICK call \in CommandStates :
            /\ Set(c, call) /\ call.at \in {"idle", "loaded", "read", "backed"}
            /\ ~Overlap /\ Timely /\ call.at \in {"read", "backed"} => call.original = file.changes
    BY <1>6
  <1> QED BY <1>1, <1>2, <1>4, <1>7, <1>8, <1>9, <1>10, CallStep DEF Changed

LEMMA WriteStep ==
    ASSUME IInv, UNCHANGED regime, NEW c \in Commands, Activate(c) \/ Restore(c)
    PROVE  IInv'
  <1> USE DEF IInv
  <1>1. /\ command[c] \in CommandStates /\ edited \in 0..MaxWrites /\ edited <= file.write
        /\ backup \in SUBSET Changes
    BY DEF Types, Ordered
  <1>2. UNCHANGED <<backup, process, busy, edited>>
    BY DEF Activate, Restore
  <1>3. command[c].at \in {"backed", "restore"}
    BY DEF Activate, Restore, At
  <1>4. ~Overlap /\ Timely => Alone(c)
    BY <1>3, TakesTurns DEF At
  <1>5. \E call \in CommandStates, changes \in SUBSET Changes :
            /\ Set(c, call) /\ Replace(changes)
            /\ \/ /\ command[c].at = "backed" /\ call.at = "written"
                  /\ call.original = command[c].original
               \/ /\ command[c].at = "restore" /\ call.at = "idle"
                  /\ changes = command[c].original
    <2>1. CASE Activate(c)
      <3> DEFINE call == [at |-> "written", original |-> command[c].original]
      <3>1. /\ command[c].candidate \in SUBSET Changes /\ command[c].original \in SUBSET Changes
        BY <1>1, <2>1 DEF Activate, At, CommandStates
      <3>2. call \in CommandStates /\ call.at = "written" /\ call.original = command[c].original
        BY <3>1 DEF CommandStates
      <3> QED BY <2>1, <3>1, <3>2 DEF Activate, At
    <2>2. CASE Restore(c)
      <3>1. command[c].original \in SUBSET Changes
        BY <1>1, <2>2 DEF Restore, At, CommandStates
      <3>2. NoCommand \in CommandStates /\ NoCommand.at = "idle"
        BY DEF CommandStates, NoCommand
      <3> QED BY <2>2, <3>1, <3>2 DEF Restore, At
    <2> QED BY <2>1, <2>2
  <1>6. PICK call \in CommandStates, changes \in SUBSET Changes :
            /\ Set(c, call) /\ Replace(changes)
            /\ \/ /\ command[c].at = "backed" /\ call.at = "written"
                  /\ call.original = command[c].original
               \/ /\ command[c].at = "restore" /\ call.at = "idle"
                  /\ changes = command[c].original
    BY <1>5
  <1>7. /\ file' \in Configurations /\ file'.changes = changes
        /\ file'.write = file.write + 1 /\ file.write \in Nat
    BY <1>6, Replaces
  <1>8. file.write <= file'.write /\ edited <= file'.write /\ file'.write > 0
    BY <1>1, <1>7
  <1>9. ASSUME ~Overlap, Timely, edited = 0, gateway \in {"starting", "up"}
        PROVE  /\ call.at \in Changed => served.changes = call.original
               /\ call.at \notin Changed => served.changes = file'.changes
    <2>1. CASE command[c].at = "backed"
      <3>1. served.changes = file.changes
        BY <1>4, <1>9, <2>1 DEF InForce, Alone, At, Changed
      <3>2. command[c].original = file.changes
        BY <1>9, <2>1 DEF Serial
      <3> QED BY <1>6, <2>1, <3>1, <3>2 DEF Changed
    <2>2. CASE command[c].at = "restore"
      <3>1. served.changes = command[c].original
        BY <1>9, <2>2 DEF InForce, Changed
      <3> QED BY <1>6, <1>7, <2>2, <3>1 DEF Changed
    <2> QED BY <1>3, <2>1, <2>2
  <1>10. call.at \notin {"read", "backed"}
    BY <1>6
  <1> QED BY <1>1, <1>2, <1>4, <1>6, <1>7, <1>8, <1>9, <1>10, CallStep

\* A command that ends with the file as it wrote it waits for the next reload.
LEMMA SavedStep ==
    ASSUME IInv, UNCHANGED regime, NEW c \in Commands, Saved(c) \/ RestoreFails(c)
    PROVE  IInv'
  <1> USE DEF IInv
  <1>1. file \in Configurations /\ file.write \in 0..MaxWrites /\ backup \in SUBSET Changes
    BY DEF Types, Configurations
  <1>2. UNCHANGED <<file, backup, process, busy>> /\ edited' = file.write /\ Set(c, NoCommand)
    BY DEF Saved, RestoreFails
  <1>3. command[c].at \in {"written", "restore"}
    BY DEF Saved, RestoreFails, At
  <1>4. ~Overlap /\ Timely => Alone(c)
    BY <1>3, TakesTurns DEF At
  <1>5. ~Overlap /\ Timely => edited' # 0
    BY <1>2, <1>3 DEF Serial, Changed
  <1>6. NoCommand \in CommandStates /\ NoCommand.at = "idle"
    BY DEF CommandStates, NoCommand
  <1>7. edited' <= file'.write /\ file.write <= file'.write
    BY <1>1, <1>2, ConfigAssumption
  <1> HIDE DEF NoCommand
  <1> QED BY <1>1, <1>2, <1>4, <1>5, <1>6, <1>7, CallStep DEF Changed

LEMMA UnansweredStep ==
    ASSUME IInv, UNCHANGED regime, NEW c \in Commands, RequestFails(c) \/ TimesOut(c)
    PROVE  IInv'
  <1> USE DEF IInv
  <1>1. /\ file \in Configurations /\ file.write \in 0..MaxWrites /\ backup \in SUBSET Changes
        /\ edited \in 0..MaxWrites /\ edited <= file.write /\ command[c] \in CommandStates
    BY DEF Types, Configurations, Ordered
  <1>2. UNCHANGED <<file, backup, process, busy, edited>> /\ Set(c, Ended(c, FALSE))
    BY DEF RequestFails, TimesOut
  <1>3. /\ command[c].at \in {"written", "waiting", "asking"}
        /\ Timely /\ command[c].at # "written" => gateway # "up"
    BY DEF RequestFails, TimesOut, At
  <1>4. ~Overlap /\ Timely => Alone(c)
    BY <1>3, TakesTurns DEF At
  <1>5. \E call \in CommandStates :
            /\ call = Ended(c, FALSE)
            /\ \/ command[c].at = "asking" /\ call.at = "idle"
               \/ /\ command[c].at \in {"written", "waiting"} /\ call.at = "restore"
                  /\ call.original = command[c].original
    <2>1. NoCommand \in CommandStates /\ NoCommand.at = "idle"
      BY DEF CommandStates, NoCommand
    <2>2. CASE command[c].at = "asking"
      BY <2>1, <2>2 DEF Ended, At
    <2>3. CASE command[c].at # "asking"
      <3> DEFINE call == [command[c] EXCEPT !.at = "restore"]
      <3>1. call \in CommandStates /\ call.at = "restore" /\ call.original = command[c].original
        BY <1>1, <1>3, <2>3 DEF CommandStates
      <3>2. call = Ended(c, FALSE)
        BY <2>3 DEF Ended, At
      <3> QED BY <1>3, <2>3, <3>1, <3>2
    <2> QED BY <2>2, <2>3
  <1>6. PICK call \in CommandStates :
            /\ call = Ended(c, FALSE)
            /\ \/ command[c].at = "asking" /\ call.at = "idle"
               \/ /\ command[c].at \in {"written", "waiting"} /\ call.at = "restore"
                  /\ call.original = command[c].original
    BY <1>5
  <1>7. ~Overlap /\ Timely /\ call.at \in Changed => file.write > 0
    BY <1>6 DEF Serial, Changed
  <1>8. ASSUME ~Overlap, Timely, edited = 0, gateway \in {"starting", "up"}
        PROVE  /\ call.at \in Changed => served.changes = call.original
               /\ call.at \notin Changed => served.changes = file.changes
    BY <1>4, <1>6, <1>8 DEF InForce, Alone, At, Changed
  <1>9. Set(c, call) /\ call.at \notin {"read", "backed"}
    BY <1>2, <1>6
  <1>10. file'.write = file.write /\ file.write <= file'.write /\ edited' <= file'.write
    BY <1>1, <1>2, ConfigAssumption
  <1> QED BY <1>1, <1>2, <1>4, <1>7, <1>8, <1>9, <1>10, CallStep

LEMMA HandEditStep ==
    ASSUME IInv, UNCHANGED regime, HandEdit
    PROVE  IInv'
  <1> USE DEF IInv
  <1>1. UNCHANGED <<backup, info, gateway, served, lock, handler, ticker, probes, probesRunning,
                    busy, command, regime>>
    BY DEF HandEdit, process
  <1>2. PICK changes \in SUBSET Changes : Replace(changes)
    <2>1. Toggle(file.changes, "hand") \in SUBSET Changes
      BY DEF Toggle, Types, Configurations, Changes
    <2> QED BY <2>1 DEF HandEdit
  <1>3. /\ file' \in Configurations /\ file'.changes = changes
        /\ file'.write = file.write + 1 /\ file.write \in Nat
    BY <1>2, Replaces
  <1>4. edited' = file'.write
    BY DEF HandEdit
  <1>5. Types'
    BY <1>1, <1>3, <1>4 DEF Types, Configurations
  <1>6. Locked' /\ Probed'
    BY <1>1 DEF Locked, Probed
  <1>7. Ordered'
    <2>1. file \in Configurations /\ served \in Configurations
      BY DEF Types
    <2>2. \A d \in Commands : handler[d].at = "loaded" => handler[d].candidate \in Configurations
      BY DEF Types, HandlerStates, NoHandler
    <2>3. \A d \in Commands : handler[d].at = "loaded" => handler[d].candidate.write \in Nat
      BY <2>2, ConfigAssumption DEF Configurations
    <2> QED BY <1>1, <1>3, <1>4, <2>1, <2>3, ConfigAssumption DEF Ordered, Configurations
  <1>8. Serial'
    <2>1. ~Overlap => \A c \in Commands : command[c].at \in {"idle", "loaded"}
      BY DEF HandEdit
    <2>2. ~Overlap /\ Timely => \A c \in Commands : handler[c] = NoHandler
      BY <2>1 DEF Serial
    <2> QED BY <1>1, <2>1, <2>2 DEF Serial, At, Overlap, Timely, Changed, NoHandler
  <1>9. InForce'
    BY <1>3, <1>4 DEF InForce
  <1> QED BY <1>5, <1>6, <1>7, <1>8, <1>9

\* The gateway answers the control request, and its callback will take the lock.
LEMMA RequestStep ==
    ASSUME IInv, UNCHANGED regime, NEW c \in Commands, Request(c) \/ RequestReload(c)
    PROVE  IInv'
  <1> USE DEF IInv
  <1>1. /\ UNCHANGED <<file, backup, info, gateway, served, lock, ticker, probes, probesRunning,
                       busy, edited, regime>>
        /\ handler' = [handler EXCEPT ![c] = [at |-> "queued"]]
        /\ gateway = "up" /\ handler[c] = NoHandler
    BY DEF Request, RequestReload
  <1>2. \E call \in CommandStates :
            /\ Set(c, call)
            /\ \/ /\ command[c].at = "written" /\ call.at = "waiting"
                  /\ call.original = command[c].original
               \/ command[c].at = "idle" /\ call.at = "asking"
    <2>1. CASE Request(c)
      <3> DEFINE call == [command[c] EXCEPT !.at = "waiting"]
      <3>1. command[c] \in CommandStates /\ command[c].at = "written"
        BY <2>1 DEF Types, Request, At
      <3>2. call \in CommandStates /\ call.at = "waiting" /\ call.original = command[c].original
        BY <3>1 DEF CommandStates
      <3> QED BY <2>1, <3>1, <3>2 DEF Request
    <2>2. CASE RequestReload(c)
      <3>1. [at |-> "asking"] \in CommandStates
        BY DEF CommandStates
      <3> QED BY <2>2, <3>1 DEF RequestReload, At
    <2> QED BY <2>1, <2>2
  <1>3. PICK call \in CommandStates :
            /\ Set(c, call)
            /\ \/ /\ command[c].at = "written" /\ call.at = "waiting"
                  /\ call.original = command[c].original
               \/ command[c].at = "idle" /\ call.at = "asking"
    BY <1>2
  <1>4. ~Overlap /\ Timely => Alone(c)
    BY TakesTurns DEF Request, RequestReload, At
  <1>5. /\ command \in [Commands -> CommandStates] /\ command' \in [Commands -> CommandStates]
        /\ command'[c] = call /\ \A d \in Commands : d # c => command'[d] = command[d]
    BY <1>3 DEF Types, Set
  <1>6. /\ handler \in [Commands -> HandlerStates] /\ handler' \in [Commands -> HandlerStates]
        /\ handler'[c].at = "queued" /\ \A d \in Commands : d # c => handler'[d] = handler[d]
    <2>1. [at |-> "queued"] \in HandlerStates
      BY DEF HandlerStates
    <2> QED BY <1>1, <2>1 DEF Types
  <1>7. Types'
    BY <1>1, <1>5, <1>6 DEF Types
  <1>8. Locked'
    <2>1. lock # c
      BY <1>1 DEF Locked, NoHandler
    <2> QED BY <1>1, <1>6, <2>1 DEF Locked
  <1>9. Probed' /\ Ordered'
    BY <1>1, <1>6 DEF Probed, Ordered
  <1>10. Serial'
    <2>1. ~Overlap /\ Timely /\ call.at = "waiting" => file.write > 0
      BY <1>3 DEF Serial, Changed
    <2> QED BY <1>1, <1>3, <1>4, <1>5, <1>6, <2>1
            DEF Serial, Alone, At, Overlap, Timely, Changed, NoHandler
  <1>11. InForce'
    BY <1>1, <1>3, <1>4, <1>5 DEF InForce, Alone, At, Overlap, Timely, Changed
  <1> QED BY <1>7, <1>8, <1>9, <1>10, <1>11

-----------------------------------------------------------------------------
(* The Reload callback.                                                    *)

LEMMA LoadStep ==
    ASSUME IInv, UNCHANGED regime, NEW c \in Commands, ReloadLoad(c)
    PROVE  IInv'
  <1> USE DEF IInv
  <1> DEFINE h == [at |-> "loaded", candidate |-> file]
  <1>1. /\ UNCHANGED <<file, backup, info, gateway, served, ticker, probes, probesRunning, busy,
                       command, edited, regime>>
        /\ handler[c].at = "queued" /\ lock = "none" /\ lock' = c
        /\ handler' = [handler EXCEPT ![c] = h]
    BY DEF ReloadLoad
  <1>2. h \in HandlerStates /\ h.at = "loaded" /\ h.candidate = file
    BY DEF HandlerStates, Types
  <1> HIDE DEF h
  <1>3. /\ handler' \in [Commands -> HandlerStates] /\ handler'[c] = h
        /\ \A d \in Commands : d # c => handler'[d] = handler[d]
    BY <1>1, <1>2 DEF Types
  <1>4. Types'
    BY <1>1, <1>3 DEF Types
  <1>5. Locked'
    <2>1. \A d \in Commands : handler[d].at # "loaded"
      BY <1>1, ConfigAssumption DEF Locked
    <2>2. gateway # "down"
      BY <1>1 DEF Locked, NoHandler
    <2> QED BY <1>1, <1>2, <1>3, <2>1, <2>2 DEF Locked
  <1>6. Probed'
    BY <1>1 DEF Probed
  <1>7. Ordered'
    <2>1. file.write <= file.write
      BY ConfigAssumption DEF Types, Configurations
    <2> QED BY <1>1, <1>2, <1>3, <2>1 DEF Ordered
  <1>8. Serial'
    <2>1. handler[c] # NoHandler
      BY <1>1 DEF NoHandler
    <2> QED BY <1>1, <1>2, <1>3, <2>1 DEF Serial, At, Overlap, Timely
  <1>9. InForce'
    BY <1>1 DEF InForce, Overlap, Timely
  <1> QED BY <1>4, <1>5, <1>6, <1>7, <1>8, <1>9

\* What the client of a reload makes of its answer.
LEMMA Answers ==
    ASSUME IInv, NEW c \in Commands, NEW ok \in BOOLEAN, Answer(c, ok)
    PROVE  /\ command' \in [Commands -> CommandStates]
           /\ \A d \in Commands : d # c => command'[d] = command[d]
           /\ \/ /\ command'[c] = command[c]
                 /\ command[c].at \notin {"waiting", "asking"} \/ gateway # "up"
              \/ command[c].at \in {"waiting", "asking"} /\ command'[c].at = "idle" /\ ok
              \/ command[c].at = "asking" /\ command'[c].at = "idle"
              \/ /\ command[c].at = "waiting" /\ ~ok /\ command'[c].at = "restore"
                 /\ command'[c].original = command[c].original
  <1>1. command \in [Commands -> CommandStates] /\ command[c] \in CommandStates
    BY DEF IInv, Types
  <1>2. CASE ~(command[c].at \in {"waiting", "asking"} /\ gateway = "up")
    BY <1>1, <1>2 DEF Answer
  <1>3. CASE command[c].at \in {"waiting", "asking"} /\ gateway = "up"
    <2>1. command' = [command EXCEPT ![c] = Ended(c, ok)]
      BY <1>3 DEF Answer
    <2>2. CASE command[c].at = "asking" \/ ok
      <3>1. NoCommand \in CommandStates /\ NoCommand.at = "idle"
        BY DEF CommandStates, NoCommand
      <3>2. Ended(c, ok) = NoCommand
        BY <2>2 DEF Ended, At
      <3> HIDE DEF NoCommand
      <3> QED BY <1>1, <1>3, <2>1, <2>2, <3>1, <3>2
    <2>3. CASE command[c].at = "waiting" /\ ~ok
      <3> DEFINE call == [command[c] EXCEPT !.at = "restore"]
      <3>1. call \in CommandStates /\ call.at = "restore" /\ call.original = command[c].original
        BY <1>1, <2>3 DEF CommandStates
      <3>2. Ended(c, ok) = call
        BY <2>3 DEF Ended, At
      <3> HIDE DEF call
      <3> QED BY <1>1, <2>1, <2>3, <3>1, <3>2
    <2> QED BY <1>3, <2>2, <2>3
  <1> QED BY <1>2, <1>3

LEMMA ProbeLaunched ==
    ASSUME IInv, NEW write \in 0..MaxWrites, launchProbe(write)
    PROVE  /\ probes' \in SUBSET (0..MaxWrites) /\ probesRunning' \in BOOLEAN
           /\ ~probesRunning' => probes' = {}
           /\ probesRunning' => \E w \in 0..MaxWrites : probes' = {w}
           /\ gateway \in {"cancelled", "waited"} => UNCHANGED <<probes, probesRunning>>
  <1>1. CASE probesStopping \/ probesRunning \/ busy
    BY <1>1 DEF launchProbe, IInv, Types, Probed
  <1>2. CASE ~(probesStopping \/ probesRunning \/ busy)
    <2>1. probes' = {write} /\ probesRunning'
      BY <1>2 DEF launchProbe, IInv, Probed
    <2>2. probesRunning' \in BOOLEAN
      BY <1>2 DEF launchProbe
    <2> QED BY <1>2, <2>1, <2>2 DEF probesStopping
  <1> QED BY <1>1, <1>2

LEMMA ReloadEnds ==
    ASSUME IInv, UNCHANGED regime, NEW c \in Commands, ReloadFails(c) \/ ReloadApply(c)
    PROVE  /\ IInv'
           /\ served'.write >= served.write
  <1> USE DEF IInv
  <1>1. /\ UNCHANGED <<file, backup, info, gateway, ticker, busy, regime>>
        /\ handler[c].at = "loaded" /\ lock' = "none"
        /\ handler' = [handler EXCEPT ![c] = NoHandler]
    BY DEF ReloadFails, ReloadApply
  <1>2. /\ handler' \in [Commands -> HandlerStates] /\ handler'[c] = NoHandler
        /\ \A d \in Commands : d # c => handler'[d] = handler[d]
        /\ NoHandler.at = "none"
    <2>1. NoHandler \in HandlerStates /\ NoHandler.at = "none"
      BY DEF HandlerStates, NoHandler
    <2> HIDE DEF NoHandler
    <2> QED BY <1>1, <2>1 DEF Types
  <1>3. /\ handler[c].candidate \in Configurations
        /\ handler[c].candidate.write \in 0..MaxWrites
        /\ served \in Configurations /\ served.write \in Nat /\ file.write \in Nat
        /\ edited \in 0..MaxWrites
    <2>1. handler[c] \in HandlerStates /\ served \in Configurations /\ file \in Configurations
      BY DEF Types
    <2>2. handler[c].candidate \in Configurations
      BY <1>1, <2>1 DEF HandlerStates, NoHandler
    <2>3. edited \in 0..MaxWrites
      BY DEF Types
    <2> QED BY <2>1, <2>2, <2>3, ConfigAssumption DEF Configurations
  <1>4. \/ /\ ReloadFails(c) /\ UNCHANGED <<served, probes, probesRunning, edited>>
           /\ Answer(c, FALSE)
        \/ /\ ReloadApply(c) /\ served' = handler[c].candidate /\ Answer(c, TRUE)
           /\ launchProbe(handler[c].candidate.write) /\ edited' \in {0, edited}
    BY DEF ReloadFails, ReloadApply
  <1>5. /\ served.write <= handler[c].candidate.write
        /\ handler[c].candidate.write <= file.write
    BY <1>1 DEF Ordered
  <1>6. served' \in Configurations /\ served.write <= served'.write /\ served'.write <= file.write
    <2>1. CASE served' = served
      BY <1>3, <2>1 DEF Ordered
    <2>2. CASE served' = handler[c].candidate
      BY <1>3, <1>5, <2>2
    <2> QED BY <1>4, <2>1, <2>2
  <1>7. /\ probes' \in SUBSET (0..MaxWrites) /\ probesRunning' \in BOOLEAN
        /\ ~probesRunning' => probes' = {}
        /\ probesRunning' => \E w \in 0..MaxWrites : probes' = {w}
        /\ gateway \in {"cancelled", "waited"} => UNCHANGED <<probes, probesRunning>>
    <2>1. CASE ReloadFails(c)
      BY <2>1 DEF ReloadFails, Types, Probed
    <2>2. CASE ReloadApply(c)
      BY <1>3, <2>2, ProbeLaunched DEF ReloadApply
    <2> QED BY <1>4, <2>1, <2>2
  <1>8. /\ command' \in [Commands -> CommandStates]
        /\ \A d \in Commands : d # c => command'[d] = command[d]
        /\ \/ /\ command'[c] = command[c]
              /\ command[c].at \notin {"waiting", "asking"} \/ gateway # "up"
           \/ command[c].at \in {"waiting", "asking"} /\ command'[c].at = "idle" /\ ReloadApply(c)
           \/ command[c].at = "asking" /\ command'[c].at = "idle"
           \/ /\ command[c].at = "waiting" /\ ReloadFails(c) /\ command'[c].at = "restore"
              /\ command'[c].original = command[c].original
    <2>1. CASE ReloadFails(c)
      BY <2>1, Answers DEF ReloadFails
    <2>2. CASE ReloadApply(c)
      BY <2>2, Answers DEF ReloadApply
    <2> QED BY <1>4, <2>1, <2>2
  <1>9. edited' \in 0..MaxWrites /\ edited' <= file.write
    <2>1. edited' \in {0, edited}
      BY <1>4
    <2>2. edited <= file.write
      BY DEF Ordered
    <2> QED BY <1>3, <2>1, <2>2, ConfigAssumption
  <1>10. Types'
    BY <1>1, <1>2, <1>6, <1>7, <1>8, <1>9 DEF Types
  <1>11. Locked'
    <2>1. \A d \in Commands : d # c => handler[d].at # "loaded"
      BY <1>1 DEF Locked
    <2> QED BY <1>1, <1>2, <2>1, ConfigAssumption DEF Locked
  <1>12. Probed'
    <2>1. gateway # "down"
      BY <1>1, <1>2 DEF Locked
    <2> QED BY <1>1, <1>7, <2>1 DEF Probed
  <1>13. Ordered'
    <2>1. \A d \in Commands : handler'[d].at = "loaded" => FALSE
      BY <1>1, <1>2 DEF Locked
    <2> QED BY <1>1, <1>6, <1>9, <2>1 DEF Ordered
  <1>14. ASSUME ~Overlap, Timely
         PROVE  /\ gateway = "up" /\ command[c].at \in {"waiting", "asking"}
                /\ handler[c].candidate = file
                /\ \A d \in Commands : d # c => At(d, "idle") /\ handler[d] = NoHandler
                /\ command[c].at = "waiting" => file.write > 0
    <2>1. gateway = "up" /\ command[c].at \in {"waiting", "asking"} /\ handler[c].candidate = file
      BY <1>1, <1>2, <1>14 DEF Serial
    <2>2. \A d \in Commands : d # c => At(d, "idle")
      BY <1>14, <2>1 DEF Serial, At
    <2>3. \A d \in Commands : d # c => handler[d] = NoHandler
      BY <1>14, <2>2 DEF Serial, At
    <2>4. command[c].at = "waiting" => file.write > 0
      BY <1>14 DEF Serial, Changed
    <2> QED BY <2>1, <2>2, <2>3, <2>4
  <1>15. Serial'
    BY <1>1, <1>2, <1>8, <1>14 DEF Serial, At, Overlap, Timely, Changed
  <1>16. InForce'
    <2> SUFFICES ASSUME ~Overlap, Timely, edited' = 0
                 PROVE  /\ \A d \in Commands : command'[d].at \in Changed =>
                              served'.changes = command'[d].original
                        /\ (\A d \in Commands : command'[d].at \notin Changed) =>
                              served'.changes = file.changes
      BY <1>1 DEF InForce, Overlap, Timely
    <2>1. CASE ReloadApply(c)
      <3>1. command'[c].at = "idle" /\ served' = file
        <4>1. served' = file
          BY <1>14, <2>1 DEF ReloadApply
        <4>2. Answer(c, TRUE)
          BY <2>1 DEF ReloadApply
        <4>3. command'[c].at = "idle"
          BY <1>14, <4>2, Answers
        <4> QED BY <4>1, <4>3
      <3> QED BY <1>8, <1>14, <3>1 DEF At, Changed
    <2>2. CASE ReloadFails(c)
      <3>1. served' = served /\ edited = 0 /\ Answer(c, FALSE)
        BY <2>2 DEF ReloadFails
      <3>2. \/ command[c].at = "asking" /\ command'[c].at = "idle"
            \/ /\ command[c].at = "waiting" /\ command'[c].at = "restore"
               /\ command'[c].original = command[c].original
        BY <1>14, <3>1, Answers
      <3>3. CASE command[c].at = "asking"
        <4>1. served.changes = file.changes
          BY <1>14, <3>1, <3>3 DEF InForce, At, Changed
        <4> QED BY <1>8, <1>14, <3>1, <3>2, <3>3, <4>1 DEF At, Changed
      <3>4. CASE command[c].at = "waiting"
        <4>1. served.changes = command[c].original
          BY <1>14, <3>1, <3>4 DEF InForce, Changed
        <4> QED BY <1>8, <1>14, <3>1, <3>2, <3>4, <4>1 DEF At, Changed
      <3> QED BY <3>2, <3>3, <3>4
    <2> QED BY <1>4, <2>1, <2>2
  <1> QED BY <1>3, <1>6, <1>10, <1>11, <1>12, <1>13, <1>15, <1>16

-----------------------------------------------------------------------------
(* The goroutines and the process.                                         *)

Gateways == {"down", "starting", "up", "closed", "cancelled", "waited"}

\* The steps of a process that is up and stays up, as far as files, callbacks and
\* commands go.
LEMMA RunningStep ==
    ASSUME IInv,
           UNCHANGED <<file, backup, served, lock, handler, command, edited, regime>>,
           info' \in BOOLEAN, busy' \in BOOLEAN, ticker' \in TickerStates,
           gateway # "down", gateway' \in Gateways \ {"down"},
           gateway' \in {"starting", "up"} => gateway \in {"starting", "up"},
           gateway = "up" /\ gateway' # "up" => Overlap \/ NoCommandRuns,
           probes' \in SUBSET (0..MaxWrites), probesRunning' \in BOOLEAN, Probed'
    PROVE  IInv'
  <1> USE DEF IInv
  <1>1. Types'
    BY DEF Types, Gateways
  <1>2. Locked'
    BY DEF Locked
  <1>3. Ordered'
    BY DEF Ordered
  <1>4. Serial'
    <2>1. ASSUME ~Overlap, Timely, NEW c \in Commands, handler[c] # NoHandler
          PROVE  gateway' = "up"
      BY <2>1 DEF Serial, NoCommandRuns, At
    <2> QED BY <2>1 DEF Serial, At, Overlap, Timely
  <1>5. InForce'
    BY DEF InForce, Overlap, Timely
  <1> QED BY <1>1, <1>2, <1>3, <1>4, <1>5

LEMMA GoroutineStep ==
    ASSUME IInv, UNCHANGED regime,
           \/ Tick \/ TickCurrent \/ TickLaunch \/ Traffic
           \/ \E write \in probes : ProbeEnds(write)
    PROVE  IInv'
  <1> USE DEF IInv
  <1>1. /\ UNCHANGED <<file, backup, info, gateway, served, lock, handler, command, edited>>
        /\ info \in BOOLEAN /\ gateway \in Gateways /\ ticker \in TickerStates
        /\ probes \in SUBSET (0..MaxWrites) /\ served.write \in 0..MaxWrites
    BY DEF Tick, TickCurrent, TickLaunch, Traffic, ProbeEnds, process, Types, Gateways,
           Configurations
  <1>2. busy' \in BOOLEAN
    BY DEF Tick, TickCurrent, TickLaunch, Traffic, ProbeEnds, Types
  <1>3. CASE Tick \/ TickCurrent \/ Traffic
    <2>1. UNCHANGED <<probes, probesRunning>>
      BY <1>3 DEF Tick, TickCurrent, Traffic, process
    <2>2. probesRunning' \in BOOLEAN /\ Probed'
      BY <1>1, <2>1 DEF Types, Probed
    <2>3. gateway # "down"
      BY <1>3 DEF Tick, TickCurrent, Traffic, Locked, Resting
    <2>4. ticker' \in TickerStates
      <3>1. CASE Tick
        BY <3>1 DEF Tick, TickerStates
      <3>2. CASE TickCurrent
        BY <1>1, <3>2 DEF TickCurrent, TickerStates
      <3>3. CASE Traffic
        BY <1>1, <3>3 DEF Traffic, process
      <3> QED BY <1>3, <3>1, <3>2, <3>3
    <2> QED BY <1>1, <1>2, <2>1, <2>2, <2>3, <2>4, RunningStep
  <1>4. CASE TickLaunch
    <2>1. ticker.at = "launch" /\ launchProbe(ticker.write) /\ ticker' = Resting
      BY <1>4 DEF TickLaunch
    <2>2. ticker.write \in 0..MaxWrites /\ Resting \in TickerStates
      BY <1>1, <2>1 DEF TickerStates, Resting
    <2>3. /\ probes' \in SUBSET (0..MaxWrites) /\ probesRunning' \in BOOLEAN
          /\ ~probesRunning' => probes' = {}
          /\ probesRunning' => \E w \in 0..MaxWrites : probes' = {w}
          /\ gateway \in {"cancelled", "waited"} => UNCHANGED <<probes, probesRunning>>
      BY <2>1, <2>2, ProbeLaunched
    <2>4. gateway # "down"
      BY <2>1 DEF Locked, Resting
    <2>5. Probed'
      BY <1>1, <2>3, <2>4 DEF Probed
    <2> QED BY <1>1, <1>2, <2>1, <2>2, <2>3, <2>4, <2>5, RunningStep
  <1>5. CASE \E write \in probes : ProbeEnds(write)
    <2>1. PICK write \in probes : ProbeEnds(write)
      BY <1>5
    <2>2. /\ probes' = probes \ {write} /\ probesRunning' = FALSE /\ ticker' = ticker
      BY <2>1 DEF ProbeEnds
    <2>3. probes' = {}
      BY <2>1, <2>2 DEF Probed
    <2>4. gateway # "down" /\ gateway # "waited"
      BY <2>1 DEF Probed
    <2>5. Probed'
      BY <2>2, <2>3 DEF Probed
    <2> QED BY <1>1, <1>2, <2>2, <2>3, <2>4, <2>5, RunningStep
  <1> QED BY <1>3, <1>4, <1>5

\* A start loads the file; an end, by itself or by a crash, takes the callbacks along.
LEMMA ProcessStep ==
    ASSUME IInv, UNCHANGED regime,
           \/ Start \/ Publish \/ CloseControl \/ StopPeriodicProbes
           \/ WaitForProbes \/ Exit \/ Crash
    PROVE  IInv'
  <1> USE DEF IInv
  <1>1. /\ file \in Configurations /\ served \in Configurations /\ served.write \in 0..MaxWrites
        /\ file.write \in Nat /\ info \in BOOLEAN /\ busy \in BOOLEAN /\ ticker \in TickerStates
        /\ probes \in SUBSET (0..MaxWrites) /\ handler \in [Commands -> HandlerStates]
    BY DEF Types, Configurations
  <1>2. CASE Start
    <2>1. /\ UNCHANGED <<file, backup, info, lock, handler, ticker, probes, probesRunning, busy,
                         command, regime>>
          /\ gateway = "down" /\ gateway' = "starting" /\ served' = file /\ edited' = 0
          /\ ~Overlap => NoCommandRuns
      BY <1>2 DEF Start
    <2>2. Types'
      BY <1>1, <2>1, ConfigAssumption DEF Types
    <2>3. \A c \in Commands : handler[c] = NoHandler
      BY <2>1 DEF Locked
    <2>4. Locked' /\ Probed'
      BY <2>1 DEF Locked, Probed
    <2>5. Ordered'
      BY <1>1, <2>1, <2>3, ConfigAssumption DEF Ordered, NoHandler
    <2>6. Serial'
      BY <2>1, <2>3 DEF Serial, NoHandler, At, Overlap, Timely
    <2>7. InForce'
      BY <2>1 DEF InForce, NoCommandRuns, At, Changed, Overlap, Timely
    <2> QED BY <2>2, <2>4, <2>5, <2>6, <2>7
  <1>3. CASE Publish
    <2>1. /\ UNCHANGED <<file, backup, served, lock, handler, ticker, busy, command, edited>>
          /\ gateway = "starting" /\ gateway' = "up" /\ info' \in BOOLEAN
          /\ launchProbe(served.write)
      BY <1>3 DEF Publish
    <2>2. /\ probes' \in SUBSET (0..MaxWrites) /\ probesRunning' \in BOOLEAN
          /\ ~probesRunning' => probes' = {}
          /\ probesRunning' => \E w \in 0..MaxWrites : probes' = {w}
      BY <1>1, <2>1, ProbeLaunched
    <2>3. Probed'
      BY <2>1, <2>2 DEF Probed
    <2> QED BY <1>1, <2>1, <2>2, <2>3, RunningStep DEF Gateways
  <1>4. CASE CloseControl \/ StopPeriodicProbes \/ WaitForProbes
    <2>1. /\ UNCHANGED <<file, backup, served, lock, handler, ticker, probes, probesRunning, busy,
                         command, edited>>
          /\ info' \in BOOLEAN /\ gateway # "down"
          /\ gateway' \in Gateways \ {"down", "starting", "up"}
          /\ gateway = "up" => Overlap \/ NoCommandRuns
          /\ gateway' = "waited" => probes = {}
      BY <1>1, <1>4 DEF CloseControl, StopPeriodicProbes, WaitForProbes, Gateways
    <2>2. probesRunning' \in BOOLEAN /\ Probed'
      BY <2>1 DEF Types, Probed
    <2> QED BY <1>1, <2>1, <2>2, RunningStep
  <1>5. CASE Exit \/ Crash
    <2>1. /\ gateway' = "down" /\ lock' = "none" /\ ticker' = Resting /\ busy' = FALSE
          /\ handler' = [c \in Commands |-> NoHandler] /\ probes' = {} /\ probesRunning' = FALSE
          /\ UNCHANGED <<file, backup, info, served, command, edited, regime>>
      BY <1>5 DEF Exit, Crash, Gone
    <2>2. /\ \A c \in Commands : handler'[c] = NoHandler
          /\ handler' \in [Commands -> HandlerStates] /\ NoHandler.at = "none"
      <3>1. NoHandler \in HandlerStates /\ NoHandler.at = "none"
        BY DEF HandlerStates, NoHandler
      <3> HIDE DEF NoHandler
      <3> QED BY <2>1, <3>1
    <2>3. Types'
      <3>1. Resting \in TickerStates
        BY DEF Resting, TickerStates
      <3>2. busy' \in BOOLEAN /\ probesRunning' \in BOOLEAN /\ probes' \in SUBSET (0..MaxWrites)
        BY <2>1
      <3> QED BY <2>1, <2>2, <3>1, <3>2 DEF Types
    <2>4. Locked'
      BY <2>1, <2>2, ConfigAssumption DEF Locked
    <2>5. Probed'
      BY <2>1 DEF Probed
    <2>6. Ordered'
      BY <2>1, <2>2 DEF Ordered
    <2>7. Serial'
      BY <2>1, <2>2 DEF Serial, At, Overlap, Timely
    <2>8. InForce'
      BY <2>1 DEF InForce
    <2> QED BY <2>3, <2>4, <2>5, <2>6, <2>7, <2>8
  <1> QED BY <1>2, <1>3, <1>4, <1>5

-----------------------------------------------------------------------------
LEMMA IInvInit == Init => IInv
  <1> SUFFICES ASSUME Init PROVE IInv
    OBVIOUS
  <1>1. Types
    <2>1. file \in Configurations /\ served = file /\ backup \in SUBSET Changes
      BY ConfigAssumption DEF Init, Configurations
    <2>2. NoHandler \in HandlerStates /\ NoCommand \in CommandStates /\ Resting \in TickerStates
      BY DEF NoHandler, HandlerStates, NoCommand, CommandStates, Resting, TickerStates
    <2>3. handler \in [Commands -> HandlerStates] /\ command \in [Commands -> CommandStates]
      <3>1. /\ handler = [c \in Commands |-> NoHandler]
            /\ command = [c \in Commands |-> NoCommand]
        BY DEF Init
      <3> QED BY <2>2, <3>1
    <2>4. info \in BOOLEAN /\ probesRunning \in BOOLEAN /\ busy \in BOOLEAN
      BY DEF Init
    <2>5. /\ regime \in Regimes /\ gateway = "down" /\ lock = "none" /\ ticker = Resting
          /\ probes = {} /\ edited = 0
      BY DEF Init
    <2> QED BY <2>1, <2>2, <2>3, <2>4, <2>5, ConfigAssumption DEF Types
  <1>2. Locked
    BY ConfigAssumption DEF Init, Locked, NoHandler
  <1>3. Probed /\ Ordered
    BY DEF Init, Probed, Ordered, NoHandler
  <1>4. Serial /\ InForce
    BY DEF Init, Serial, InForce, At, NoCommand, NoHandler, Changed
  <1> QED BY <1>1, <1>2, <1>3, <1>4 DEF IInv

LEMMA CommandSteps ==
    ASSUME IInv, UNCHANGED regime, NEW c \in Commands, CommandStep(c)
    PROVE  IInv'
  BY EntryStep, WriteStep, SavedStep, UnansweredStep, RequestStep DEF CommandStep

LEMMA IInvNext == IInv /\ [Next /\ UNCHANGED regime]_vars => IInv'
  <1> SUFFICES ASSUME IInv, [Next /\ UNCHANGED regime]_vars PROVE IInv'
    OBVIOUS
  <1>1. ASSUME UNCHANGED regime, NEW c \in Commands, CommandStep(c) \/ Reload(c)
        PROVE  IInv'
    BY <1>1, CommandSteps, LoadStep, ReloadEnds DEF Reload
  <1>2. CASE UNCHANGED regime /\ HandEdit
    BY <1>2, HandEditStep
  <1>3. CASE UNCHANGED regime /\ (\/ Tick \/ TickCurrent \/ TickLaunch \/ Traffic
                                  \/ \E write \in probes : ProbeEnds(write))
    BY <1>3, GoroutineStep
  <1>4. CASE UNCHANGED regime /\ (\/ Start \/ Publish \/ CloseControl \/ StopPeriodicProbes
                                  \/ WaitForProbes \/ Exit \/ Crash)
    BY <1>4, ProcessStep
  <1>5. CASE UNCHANGED vars
    <2>1. UNCHANGED <<file, backup, info, gateway, served, lock, handler, ticker, probes,
                      probesRunning, busy, command, edited, regime>>
      BY <1>5 DEF vars, state, process
    <2>2. Types' /\ Locked' /\ Probed' /\ Ordered'
      BY <2>1 DEF IInv, Types, Locked, Probed, Ordered
    <2>3. Serial' /\ InForce'
      BY <2>1 DEF IInv, Serial, InForce, At, Overlap, Timely
    <2> QED BY <2>2, <2>3 DEF IInv
  <1> QED BY <1>1, <1>2, <1>3, <1>4, <1>5 DEF Next

LEMMA Inductive == Spec => []IInv
  <1> QED BY IInvInit, IInvNext, PTL DEF Spec

-----------------------------------------------------------------------------
\* For any number of commands: reloadMu has one owner at a time, one probe goroutine
\* runs at a time, and none once runServe has waited (cli.go:798-869).
THEOREM LockAndProbes == Spec => []ConfigInv
  <1>1. IInv => ConfigInv
    <2> SUFFICES ASSUME IInv PROVE ConfigInv
      OBVIOUS
    <2>1. TypeOK
      <3>1. \A c \in Commands :
              /\ handler[c].at \in {"none", "queued", "loaded"}
              /\ command[c].at \in {"idle", "loaded", "read", "backed", "written", "waiting",
                                    "asking", "restore"}
        BY DEF IInv, Types, HandlerStates, CommandStates, NoHandler
      <3>2. ticker.at \in {"idle", "current", "launch"}
        BY DEF IInv, Types, TickerStates
      <3> QED BY <3>1, <3>2 DEF IInv, Types, Locked, TypeOK
    <2>2. ProbesAccounted
      <3>1. CASE probesRunning
        <4>1. PICK write \in 0..MaxWrites : probes = {write}
          BY <3>1 DEF IInv, Probed
        <4>2. Cardinality(probes) = 1
          BY <4>1, FS_Singleton
        <4> QED BY <3>1, <4>1, <4>2 DEF IInv, Probed, ProbesAccounted
      <3>2. CASE ~probesRunning
        <4>1. probes = {} /\ Cardinality(probes) = 0
          BY <3>2, FS_EmptySet DEF IInv, Probed
        <4> QED BY <3>2, <4>1 DEF ProbesAccounted
      <3> QED BY <3>1, <3>2
    <2> QED BY <2>1, <2>2 DEF ConfigInv
  <1> QED BY <1>1, Inductive, PTL

\* For any number of commands, one at a time: with nothing under way the gateway
\* serves what the file says, but for an edit that nobody has asked to reload.
THEOREM FileAndGatewayAgree == Spec => []FileIsServed
  <1>1. IInv => FileIsServed
    BY DEF IInv, FileIsServed, InForce, NoCommandRuns, At, Changed
  <1> QED BY <1>1, Inductive, PTL

\* For any number of clients and however late their reloads end: an older state of the
\* file is never put in force after a newer one (cli.go:840-869).
THEOREM ReloadsGoForward == Spec => NoStaleReload
  <1>1. ASSUME IInv, [Next /\ UNCHANGED regime]_vars
        PROVE  [gateway = "up" /\ gateway' = "up" => served'.write >= served.write]_vars
    <2> SUFFICES ASSUME gateway = "up", gateway' = "up"
                 PROVE  served'.write >= served.write
      OBVIOUS
    <2>1. served.write \in Nat
      BY <1>1, ConfigAssumption DEF IInv, Types, Configurations
    <2>2. ASSUME NEW c \in Commands, UNCHANGED regime, ReloadFails(c) \/ ReloadApply(c)
          PROVE  served'.write >= served.write
      BY <1>1, <2>2, ReloadEnds
    <2>3. CASE served' = served
      BY <2>1, <2>3
    <2>4. ASSUME NEW c \in Commands, CommandStep(c) \/ ReloadLoad(c)
          PROVE  served' = served
      BY <2>4 DEF CommandStep, LoadConfig, Rejected, ReadOriginal, WriteBackup, Activate,
                  WriteFails, Saved, Request, RequestReload, RequestFails, TimesOut, Restore,
                  RestoreFails, ReloadLoad, process
    <2>5. HandEdit \/ Tick \/ TickCurrent \/ TickLaunch \/ Traffic => served' = served
      BY DEF HandEdit, Tick, TickCurrent, TickLaunch, Traffic, process
    <2>6. (\E write \in probes : ProbeEnds(write)) => served' = served
      BY DEF ProbeEnds
    <2>7. Publish \/ CloseControl \/ StopPeriodicProbes \/ WaitForProbes => served' = served
      BY DEF Publish, CloseControl, StopPeriodicProbes, WaitForProbes
    <2>8. ~Start /\ ~Exit /\ ~Crash
      BY DEF Start, Exit, Crash, Gone
    <2>9. UNCHANGED vars => served' = served
      BY DEF vars, state, process
    <2> QED BY <1>1, <2>2, <2>3, <2>4, <2>5, <2>6, <2>7, <2>8, <2>9 DEF Next, Reload
  <1> QED BY <1>1, Inductive, PTL DEF Spec, NoStaleReload

-----------------------------------------------------------------------------
(* RootRotation, for every number of roots, certificates and interruptions. *)

Reconciling == {"root", "key", "leaf", "leafKey", "reconciled"}
Promoting == {"promoteRoot", "promoteKey", "promoteIdentity", "promoteLeaf",
              "promoteLeafKey", "removeNext"}
Promoted == (Promoting \ {"promoteRoot"}) \cup {"removeNextKey", "installPrevious",
                                                 "installPromoted"}

\* Which actor may be where, and in which of its jobs.
Places ==
    /\ IF pc["gateway"] \in {"idle", "serving"} THEN job["gateway"] = "none"
       ELSE /\ pc["gateway"] \in Reconciling \cup {"createKey", "createIdentity",
                                                    "installCurrent", "load", "loadKey"}
            /\ job["gateway"] \in {"start", "maintain"}
    /\ IF pc["cli"] = "idle" THEN job["cli"] = "none"
       ELSE \/ /\ pc["cli"] \in Reconciling
               /\ job["cli"] \in {"reconcile", "rotate", "prepare", "activate", "promote"}
            \/ pc["cli"] = "installCurrent" /\ job["cli"] = "reconcile"
            \/ pc["cli"] \in {"prepare", "prepareKey"} /\ job["cli"] \in {"rotate", "prepare"}
            \/ pc["cli"] = "installNext" /\ job["cli"] = "rotate"
            \/ /\ pc["cli"] \in Promoting \cup {"preserve", "removeNextKey"}
               /\ job["cli"] \in {"activate", "promote"}
            \/ pc["cli"] \in {"installPrevious", "installPromoted"} /\ job["cli"] = "promote"

Files == [ca : Roots, caKey : Roots, identity : Roots, previous : Roots,
          next : Roots, nextKey : Roots, leaf : Leaves, leafKey : Leaves]
Reads == [root : Roots, key : Roots, leaf : Leaves]
Slots == {"current", "next", "previous"}

Kinds ==
    /\ disk \in Files /\ read \in [Actors -> Reads] /\ roots \in Roots
    /\ pc = [a \in Actors |-> pc[a]] /\ job = [a \in Actors |-> job[a]]
    /\ trust \in [Slots -> Roots]

Issued ==
    /\ signer \in Seq(1..MaxRoots) /\ Len(signer) <= MaxLeaves /\ presented \in 0..Len(signer)
    /\ disk.leaf <= Len(signer) /\ disk.leafKey <= Len(signer)
    /\ read["gateway"].leaf <= Len(signer) /\ read["cli"].leaf <= Len(signer)

Stored == store \subseteq 1..MaxRoots /\ uninstalled \subseteq 1..MaxRoots

Known(a) ==
    pc[a] \in {"createKey", "createIdentity", "key", "leaf", "leafKey", "reconciled",
              "installCurrent"} => read[a].root # 0

\* Until the gateway has its identity nothing else happens.
Identity ==
    /\ disk.identity = 0 => /\ pc["cli"] = "idle"
                            /\ disk.next = 0
                            /\ pc["gateway"] \in {"idle", "root", "createKey",
                                                  "createIdentity", "key"}
                            /\ presented = 0
    /\ job["gateway"] = "maintain" => disk.identity # 0
    /\ disk.identity # 0 => disk.ca # 0 /\ pc["gateway"] \notin {"createKey", "createIdentity"}
    /\ pc["gateway"] \in {"createKey", "createIdentity"} =>
          disk.ca = read["gateway"].root /\ read["gateway"].key = read["gateway"].root
    /\ pc["gateway"] = "createIdentity" => disk.caKey = disk.ca
    /\ Known("gateway") /\ Known("cli")

\* A gateway that has reconciled finds a leaf, and presents one as long as it serves.
Presenting ==
    /\ pc["gateway"] \in {"leafKey", "reconciled", "installCurrent", "load"} => disk.leaf # 0
    /\ pc["gateway"] = "loadKey" => read["gateway"].leaf # 0
    /\ pc["gateway"] = "serving" \/ job["gateway"] = "maintain" => presented # 0

Order ==
    /\ disk.ca <= roots /\ disk.next <= roots
    /\ disk.next # 0 => disk.ca <= disk.next
    /\ read["gateway"].root <= disk.ca
    /\ pc["cli"] \in {"key", "leaf", "promoteLeaf"} => read["cli"].root = disk.ca

\* How far a rotation is.
Rotating ==
    /\ disk.next # 0 /\ disk.nextKey # 0 => disk.nextKey = disk.next
    /\ pc["cli"] = "prepareKey" => /\ disk.next = read["cli"].key /\ disk.nextKey = 0
                                   /\ disk.ca < disk.next
    /\ pc["cli"] = "installNext" => disk.next # 0
    /\ pc["cli"] \in Promoting =>
          /\ disk.next = read["cli"].root /\ disk.next # 0 /\ disk.nextKey # 0
          /\ pc["cli"] \in {"promoteRoot", "promoteKey", "promoteIdentity"} =>
                read["cli"].key = disk.next
    /\ pc["cli"] \in Promoting \ {"promoteRoot"} => disk.ca = disk.next
    /\ pc["cli"] = "promoteIdentity" => disk.caKey = disk.next
    /\ pc["cli"] = "removeNextKey" => disk.next = 0 /\ disk.nextKey # 0
    /\ pc["cli"] \in Promoting \cup {"removeNextKey", "installPrevious"} => disk.previous # 0

Issuing(a) == pc[a] \in {"leafKey", "promoteLeafKey"}

\* The windows, with the actors that are in them.
Torn ==
    /\ ~Agree => \/ broken \cap {"createKey", "createIdentity",
                                  "promoteKey", "promoteIdentity"} # {}
                 \/ pc["gateway"] \in {"createKey", "createIdentity"}
                 \/ pc["cli"] \in {"promoteKey", "promoteIdentity"}
    /\ (disk.next = 0 <=> disk.nextKey # 0) =>
          \/ broken \cap {"prepareKey", "removeNextKey"} # {}
          \/ pc["cli"] \in {"prepareKey", "removeNextKey"}
    /\ disk.leaf # disk.leafKey =>
          \/ broken \cap {"leafKey", "promoteLeafKey", "race"} # {}
          \/ Issuing("gateway") \/ Issuing("cli")
    /\ "race" \notin broken => /\ Issuing("gateway") => read["gateway"].leaf = disk.leaf
                               /\ Issuing("cli") => read["cli"].leaf = disk.leaf
                               /\ ~(Issuing("gateway") /\ Issuing("cli"))

\* The gateway has come past the installation of its root.
Installed == presented # 0 \/ pc["gateway"] \in {"load", "loadKey"}
Held(r) == r \in store \/ (slots /\ r = trust["next"])

\* Before the new root of a rotation has a lasting name.
Lasting == {"installPrevious", "installPromoted"}

\* The root in use is trusted or was not installed, on Linux under a name that no
\* rotation will overwrite.
RootTrusted ==
    /\ job["cli"] = "promote" /\ pc["cli"] \in Reconciling \cup Promoting \cup {"preserve"} =>
          Held(disk.next)
    /\ job["cli"] = "activate" =>
          /\ pc["cli"] \in Reconciling \cup Promoting \cup {"preserve"} => disk.next \in store
          /\ pc["cli"] \in Promoted => disk.ca \in store
    /\ pc["cli"] \in Promoted => Held(disk.ca)
    /\ Installed /\ ~slots /\ "replaced" \notin broken => disk.ca \in store \cup uninstalled
    /\ Installed /\ slots /\ "replaced" \notin broken =>
          \/ disk.ca \in store \cup uninstalled \cup {trust["current"], trust["previous"]}
          \/ /\ disk.ca = trust["next"]
             /\ \/ disk.next \in {0, disk.ca} /\ disk.nextKey # 0
                \/ pc["cli"] \in Lasting

\* Without slots, so is the root of each certificate the gateway may come to present.
LeafTrusted ==
    ~slots /\ "replaced" \notin broken =>
        /\ presented # 0 => signer[presented] \in store \cup uninstalled
        /\ Installed /\ disk.leaf # 0 => signer[disk.leaf] \in store \cup uninstalled
        /\ pc["gateway"] = "loadKey" /\ read["gateway"].leaf # 0 =>
              signer[read["gateway"].leaf] \in store \cup uninstalled
        /\ Installed /\ pc["gateway"] \in {"key", "leaf", "leafKey", "reconciled"} =>
              read["gateway"].root \in store \cup uninstalled
        /\ /\ pc["gateway"] \in {"leafKey", "reconciled", "installCurrent"}
           /\ read["gateway"].root = disk.ca /\ disk.leaf # 0
           => signer[disk.leaf] \in store \cup uninstalled \cup {disk.ca}

RotationIInv ==
    /\ Kinds /\ Issued /\ Stored /\ Places /\ Identity /\ Presenting /\ Order /\ Rotating
    /\ Torn /\ RootTrusted /\ LeafTrusted

-----------------------------------------------------------------------------
(* Facts about numbers, and about who moves.                               *)

LEMMA Numbers ==
    /\ 0 \in Roots /\ 0 \in Leaves
    /\ \A r \in Roots : r \in Nat /\ (r # 0 => r \in 1..MaxRoots)
    /\ \A l \in Leaves : l \in Nat
    /\ "gateway" \in Actors /\ "cli" \in Actors
  BY RotationAssumption DEF Roots, Leaves, Actors

\* What is created next has not been there before.
LEMMA RootIsNew ==
    ASSUME roots \in Roots, roots < MaxRoots
    PROVE  NewRoot \in Roots /\ NewRoot # 0 /\ roots < NewRoot
  BY RotationAssumption DEF Roots, NewRoot

LEMMA LeafIsNew ==
    ASSUME Issued,
           Len(signer) < MaxLeaves, NEW r \in 1..MaxRoots, signer' = Append(signer, r)
    PROVE  /\ NewLeaf \in Leaves /\ Len(signer) \in Nat /\ Len(signer) < NewLeaf
           /\ signer' \in Seq(1..MaxRoots) /\ Len(signer') = NewLeaf /\ Len(signer') <= MaxLeaves
           /\ signer'[NewLeaf] = r /\ \A l \in 1..Len(signer) : signer'[l] = signer[l]
  BY RotationAssumption DEF Issued, Leaves, NewLeaf

\* The numbers of the files and notes, and the certificates they stand for.
LEMMA Sizes ==
    ASSUME Kinds, Issued
    PROVE  /\ Len(signer) \in Nat /\ disk.leaf \in Nat /\ disk.leafKey \in Nat
           /\ read["gateway"].leaf \in Nat /\ read["cli"].leaf \in Nat
           /\ roots \in Nat /\ disk.ca \in Nat /\ disk.next \in Nat
           /\ read["gateway"].root \in Nat /\ read["cli"].root \in Nat
           /\ presented # 0 => presented \in 1..Len(signer)
           /\ disk.leaf # 0 => disk.leaf \in 1..Len(signer)
           /\ read["gateway"].leaf # 0 => read["gateway"].leaf \in 1..Len(signer)
  <1>1. /\ read["gateway"] \in Reads /\ read["cli"] \in Reads /\ disk \in Files
        /\ roots \in Roots
    BY Numbers DEF Kinds
  <1>2. /\ disk.leaf \in Nat /\ disk.leafKey \in Nat /\ disk.ca \in Nat /\ disk.next \in Nat
        /\ roots \in Nat
    BY <1>1, Numbers DEF Files
  <1>3. /\ read["gateway"].leaf \in Nat /\ read["cli"].leaf \in Nat
        /\ read["gateway"].root \in Nat /\ read["cli"].root \in Nat
    BY <1>1, Numbers DEF Reads
  <1>4. Len(signer) \in Nat
    BY DEF Issued
  <1> QED BY <1>2, <1>3, <1>4 DEF Issued

\* Only a moves, to a place of a job; what it then notes.
Turn(a, l, j) == /\ pc'[a] = l /\ pc'[Other(a)] = pc[Other(a)]
                 /\ job'[a] = j /\ job'[Other(a)] = job[Other(a)]
Notes(a, r, k, l) == /\ read'[a].root = r /\ read'[a].key = k /\ read'[a].leaf = l
                     /\ read'[Other(a)] = read[Other(a)]

\* What an operator that moves an actor says of that actor and of the other.
LEMMA EndTurn ==
    ASSUME Kinds, NEW a \in Actors, End(a)
    PROVE  Turn(a, Rest(a), "none") /\ Notes(a, 0, 0, 0)
  BY DEF Kinds, End, Goto, Turn, Notes, Nothing, Other, Actors

LEMMA GotoTurn ==
    ASSUME Kinds, NEW a \in Actors, NEW l, Goto(a, l), UNCHANGED job
    PROVE  Turn(a, l, job[a])
  BY DEF Kinds, Goto, Turn, Other, Actors

LEMMA BeginTurn ==
    ASSUME Kinds, NEW a \in Actors, NEW j, NEW l, Begin(a, j, l)
    PROVE  /\ Turn(a, l, j)
           /\ UNCHANGED <<disk, roots, signer, due, read, presented, slots, trust, store, uninstalled, broken>>
  BY DEF Kinds, Begin, Goto, Turn, Other, Actors, files, docker

LEMMA WriteTurn ==
    ASSUME Kinds, NEW a \in Actors, NEW from, NEW name, NEW value, NEW to,
           Write(a, from, name, value, to), UNCHANGED job
    PROVE  /\ pc[a] = from /\ Turn(a, to, job[a])
           /\ UNCHANGED <<roots, signer, due, presented, slots, trust, store, uninstalled>>
  BY GotoTurn DEF Write, ActorAt, docker

-----------------------------------------------------------------------------
(* The kinds of what the variables hold.                                   *)

\* What an actor notes is a root, a key and a certificate.
LEMMA Noted ==
    ASSUME Kinds, NEW a \in Actors, NEW v,
           \/ v \in Reads /\ read' = [read EXCEPT ![a] = v]
           \/ v \in Roots /\ read' = [read EXCEPT ![a].root = v]
           \/ v \in Roots /\ read' = [read EXCEPT ![a].key = v]
           \/ v \in Roots /\ read' = [read EXCEPT ![a].root = v, ![a].key = v]
           \/ v \in Leaves /\ read' = [read EXCEPT ![a].leaf = v]
    PROVE  read' \in [Actors -> Reads]
  <1>1. read \in [Actors -> Reads]
    BY DEF Kinds
  <1>2. \E n \in Reads : read' = [read EXCEPT ![a] = n]
    <2>1. CASE \E n \in Reads : read' = [read EXCEPT ![a] = n]
      BY <2>1
    <2>2. CASE \/ v \in Roots /\ read' = [read EXCEPT ![a].root = v]
               \/ v \in Roots /\ read' = [read EXCEPT ![a].key = v]
      BY <1>1, <2>2 DEF Reads
    <2>3. CASE v \in Roots /\ read' = [read EXCEPT ![a].root = v, ![a].key = v]
      <3>1. [read[a] EXCEPT !.root = v, !.key = v] \in Reads
        BY <1>1, <2>3 DEF Reads
      <3>2. read' = [read EXCEPT ![a] = [read[a] EXCEPT !.root = v, !.key = v]]
        BY <2>3
      <3> QED BY <3>1, <3>2
    <2>4. CASE v \in Leaves /\ read' = [read EXCEPT ![a].leaf = v]
      <3>1. [read[a] EXCEPT !.leaf = v] \in Reads
        BY <1>1, <2>4 DEF Reads
      <3>2. read' = [read EXCEPT ![a] = [read[a] EXCEPT !.leaf = v]]
        BY <2>4
      <3> QED BY <3>1, <3>2
    <2> QED BY <2>1, <2>2, <2>3, <2>4
  <1> QED BY <1>1, <1>2

LEMMA NothingNoted == Nothing \in Reads
  BY Numbers DEF Nothing, Reads

LEMMA EndKinds ==
    ASSUME Kinds, NEW a \in Actors, End(a)
    PROVE  /\ read' \in [Actors -> Reads]
           /\ pc' = [b \in Actors |-> pc'[b]] /\ job' = [b \in Actors |-> job'[b]]
  <1>1. read' \in [Actors -> Reads]
    BY NothingNoted, Noted DEF End
  <1> QED BY <1>1 DEF Kinds, End, Goto

LEMMA FailKinds ==
    ASSUME Kinds, NEW a \in Actors, Fail(a)
    PROVE  Kinds'
  BY EndKinds DEF Fail, Kinds, files, docker

LEMMA BeginKinds ==
    ASSUME Kinds, NEW a \in Actors, NEW j, NEW l, Begin(a, j, l)
    PROVE  Kinds'
  BY DEF Kinds, Begin, Goto, files, docker

LEMMA IssueKinds ==
    ASSUME Kinds, Issued, NEW a \in Actors, NEW from, NEW to,
           issueLeaf(a, from, to)
    PROVE  Kinds'
  <1>1. CASE Fail(a)
    BY <1>1, FailKinds
  <1>2. CASE ~Fail(a)
    <2>1. NewLeaf \in Leaves
      BY <1>2, RotationAssumption DEF issueLeaf, Issued, NewLeaf, Leaves
    <2>2. read' \in [Actors -> Reads]
      BY <1>2, <2>1, Noted DEF issueLeaf
    <2>3. disk' \in Files
      BY <1>2, <2>1 DEF issueLeaf, Kinds, Files
    <2> QED BY <1>2, <2>2, <2>3 DEF issueLeaf, Kinds, Goto, docker
  <1> QED BY <1>1, <1>2

LEMMA InstallKinds ==
    ASSUME Kinds, NEW slot \in Slots, NEW root \in Roots,
           (\E a \in Actors : \E from : Install(a, from, slot, root)) \/ NotInstalled(slot, root)
    PROVE  trust' \in [Slots -> Roots]
  BY Numbers DEF Kinds, Install, NotInstalled

LEMMA ReconcileKinds ==
    ASSUME Kinds, Issued, NEW a \in Actors, Reconcile(a)
    PROVE  Kinds'
  <1>0. read[a] \in Reads /\ disk \in Files /\ roots \in Roots
    BY DEF Kinds
  <1>1. CASE LoadRoot(a)
    <2>1. read' \in [Actors -> Reads]
      BY <1>0, <1>1, RootIsNew, Noted DEF LoadRoot, Files
    <2>2. disk' \in Files /\ roots' \in Roots
      BY <1>0, <1>1, RootIsNew DEF LoadRoot, Files
    <2> QED BY <1>1, <2>1, <2>2 DEF LoadRoot, Kinds, Goto, docker
  <1>2. CASE RootRefused(a)
    BY <1>2, FailKinds DEF RootRefused
  <1>3. CASE CreateKey(a) \/ CreateIdentity(a)
    <2>1. disk' \in Files
      BY <1>0, <1>3 DEF CreateKey, CreateIdentity, Write, Files, Reads
    <2> QED BY <1>3, <2>1 DEF CreateKey, CreateIdentity, Write, Kinds, Goto, docker
  <1>4. CASE verifyIdentity(a)
    <2>1. CASE Fail(a)
      BY <2>1, FailKinds
    <2>2. CASE ~Fail(a)
      <3>1. read' \in [Actors -> Reads]
        BY <1>0, <1>4, <2>2, Noted DEF verifyIdentity, Files
      <3> QED BY <1>4, <2>2, <3>1 DEF verifyIdentity, Kinds, Goto, files, docker
    <2> QED BY <2>1, <2>2
  <1>5. CASE LeafCurrent(a)
    <2>1. [Nothing EXCEPT !.root = read[a].root] \in Reads
      BY <1>0, NothingNoted DEF Reads
    <2>2. read' \in [Actors -> Reads]
      BY <1>5, <2>1, Noted DEF LeafCurrent
    <2> QED BY <1>5, <2>2 DEF LeafCurrent, Kinds, Goto, files, docker
  <1>6. CASE RenewLeaf(a)
    BY <1>6, IssueKinds DEF RenewLeaf
  <1>7. CASE RenewLeafKey(a)
    <2>1. disk' \in Files
      BY <1>0, <1>7 DEF RenewLeafKey, Write, Files, Reads
    <2>2. read' \in [Actors -> Reads]
      BY <1>7, Noted, Numbers DEF RenewLeafKey
    <2> QED BY <1>7, <2>1, <2>2 DEF RenewLeafKey, Write, Kinds, Goto, docker
  <1> QED BY <1>1, <1>2, <1>3, <1>4, <1>5, <1>6, <1>7 DEF Reconcile

LEMMA ServeKinds ==
    ASSUME Kinds, NEW a \in Actors,
           Reconciled(a) \/ InstallCurrent(a) \/ LoadCertificate \/ ManagerReload \/ StopServing
    PROVE  Kinds'
  <1>0. disk \in Files /\ "gateway" \in Actors
    BY Numbers DEF Kinds
  <1>1. CASE Reconciled(a)
    <2>1. CASE Fail(a)
      BY <2>1, FailKinds
    <2>2. CASE ~Fail(a)
      BY <1>1, <2>2 DEF Reconciled, Kinds, Goto, files, docker
    <2> QED BY <2>1, <2>2
  <1>2. CASE InstallCurrent(a)
    <2>1. \A root \in {read[a].root, disk.ca} : root \in Roots
      BY <1>0 DEF Kinds, Files, Reads
    <2>4. trust' \in [Slots -> Roots]
      BY <1>2, <2>1, InstallKinds DEF InstallCurrent, Slots
    <2>2. CASE End(a)
      BY <1>2, <2>2, <2>4, EndKinds DEF InstallCurrent, Kinds, files
    <2>3. CASE ~End(a)
      BY <1>2, <2>3, <2>4 DEF InstallCurrent, Kinds, Goto, files
    <2> QED BY <2>2, <2>3
  <1>3. CASE LoadCertificate
    <2>1. read' \in [Actors -> Reads]
      BY <1>0, <1>3, Noted DEF LoadCertificate, Files
    <2> QED BY <1>3, <2>1 DEF LoadCertificate, Kinds, Goto, files, docker
  <1>4. CASE ManagerReload
    <2>1. CASE Fail("gateway")
      BY <1>0, <2>1, FailKinds
    <2>2. CASE ~Fail("gateway")
      <3>1. read' \in [Actors -> Reads]
        BY <1>0, <1>4, <2>2, NothingNoted, Noted DEF ManagerReload
      <3> QED BY <1>4, <2>2, <3>1 DEF ManagerReload, Kinds, Goto, files, docker
    <2> QED BY <2>1, <2>2
  <1>5. CASE StopServing
    BY <1>5 DEF StopServing, Kinds, Goto, files, docker
  <1> QED BY <1>1, <1>2, <1>3, <1>4, <1>5

LEMMA PrepareKinds ==
    ASSUME Kinds,
           \/ PrepareRefused \/ PrepareRootRotation \/ PrepareKey \/ InstallNext
           \/ InstallNextFails \/ PrepareKeyFails
    PROVE  Kinds'
  <1>0. disk \in Files /\ roots \in Roots /\ "cli" \in Actors /\ read["cli"] \in Reads
    BY Numbers DEF Kinds
  <1>a. ASSUME Prepared
        PROVE  /\ read' \in [Actors -> Reads]
               /\ pc' = [b \in Actors |-> pc'[b]] /\ job' = [b \in Actors |-> job'[b]]
    BY <1>0, <1>a, EndKinds DEF Prepared, Kinds, Goto
  <1>1. CASE PrepareRefused
    BY <1>0, <1>1, FailKinds DEF PrepareRefused
  <1>2. CASE PrepareRootRotation
    <2>1. CASE Prepared /\ UNCHANGED <<disk, roots>>
      BY <1>a, <1>2, <2>1 DEF PrepareRootRotation, Kinds, docker
    <2>2. CASE ~(Prepared /\ UNCHANGED <<disk, roots>>)
      <3>1. NewRoot \in Roots
        BY <1>0, <1>2, <2>2, RootIsNew DEF PrepareRootRotation
      <3>2. read' \in [Actors -> Reads] /\ disk' \in Files /\ roots' \in Roots
        BY <1>0, <1>2, <2>2, <3>1, Noted DEF PrepareRootRotation, Files
      <3> QED BY <1>2, <2>2, <3>2 DEF PrepareRootRotation, Kinds, Goto, docker
    <2> QED BY <2>1, <2>2
  <1>3. CASE PrepareKey
    <2>1. disk' \in Files
      BY <1>0, <1>3 DEF PrepareKey, Files, Reads
    <2> QED BY <1>a, <1>3, <2>1 DEF PrepareKey, Kinds, docker
  <1>4. CASE InstallNext
    <2>1. trust' \in [Slots -> Roots]
      BY <1>0, <1>4, InstallKinds DEF InstallNext, Slots, Files
    <2>2. read' \in [Actors -> Reads]
      BY <1>0, <1>4, NothingNoted, Noted DEF InstallNext
    <2> QED BY <1>4, <2>1, <2>2 DEF InstallNext, Kinds, Goto, files
  <1>6. CASE InstallNextFails
    <2>1. trust' \in [Slots -> Roots]
      BY <1>0, <1>6, InstallKinds DEF InstallNextFails, Slots, Files
    <2> QED BY <1>0, <1>6, <2>1, EndKinds DEF InstallNextFails, Kinds, files
  <1>5. CASE PrepareKeyFails
    <2>1. disk' \in Files
      BY <1>0, <1>5, Numbers DEF PrepareKeyFails, Files
    <2> QED BY <1>0, <1>5, <2>1, EndKinds DEF PrepareKeyFails, Kinds, docker
  <1> QED BY <1>1, <1>2, <1>3, <1>4, <1>5, <1>6

LEMMA PromoteKinds ==
    ASSUME Kinds, Issued,
           \/ ActivateRefused \/ PreserveRoot \/ PromoteRoot \/ PromoteKey
           \/ PromoteIdentity
           \/ PromoteLeaf \/ PromoteLeafKey \/ RemoveNext \/ RemoveNextKey
           \/ InstallPrevious \/ InstallPromoted
    PROVE  Kinds'
  <1>0. disk \in Files /\ "cli" \in Actors /\ read["cli"] \in Reads
    BY Numbers DEF Kinds
  <1>1. CASE ActivateRefused
    BY <1>0, <1>1, FailKinds DEF ActivateRefused
  <1>2. CASE PreserveRoot
    <2>1. [Nothing EXCEPT !.root = disk.next, !.key = disk.nextKey] \in Reads
      BY <1>0, NothingNoted DEF Reads, Files
    <2>2. read' \in [Actors -> Reads]
      BY <1>0, <1>2, <2>1, Noted DEF PreserveRoot
    <2>3. disk' \in Files
      BY <1>0, <1>2 DEF PreserveRoot, Write, Files
    <2> QED BY <1>2, <2>2, <2>3 DEF PreserveRoot, Write, Kinds, Goto, docker
  <1>3. CASE PromoteRoot \/ PromoteKey \/ PromoteIdentity \/ PromoteLeafKey \/ RemoveNext
    <2>1. disk' \in Files
      BY <1>0, <1>3, Numbers
      DEF PromoteRoot, PromoteKey, PromoteIdentity, PromoteLeafKey, RemoveNext,
          Write, Files, Reads
    <2> QED BY <1>3, <2>1
      DEF PromoteRoot, PromoteKey, PromoteIdentity, PromoteLeafKey, RemoveNext,
          Write, Kinds, Goto, docker
  <1>4. CASE PromoteLeaf
    BY <1>0, <1>4, IssueKinds DEF PromoteLeaf
  <1>5. CASE RemoveNextKey
    <2>1. disk' \in Files
      BY <1>0, <1>5, Numbers DEF RemoveNextKey, Files
    <2>2. CASE End("cli")
      BY <1>0, <1>5, <2>1, <2>2, EndKinds DEF RemoveNextKey, Kinds, docker
    <2>3. CASE ~End("cli")
      BY <1>5, <2>1, <2>3 DEF RemoveNextKey, Kinds, Goto, docker
    <2> QED BY <2>2, <2>3
  <1>6. CASE InstallPrevious
    <2>1. trust' \in [Slots -> Roots]
      BY <1>0, <1>6, InstallKinds DEF InstallPrevious, Slots, Files
    <2> QED BY <1>6, <2>1 DEF InstallPrevious, Kinds, Goto, files
  <1>7. CASE InstallPromoted
    <2>1. trust' \in [Slots -> Roots]
      BY <1>0, <1>7, InstallKinds DEF InstallPromoted, Slots, Files
    <2> QED BY <1>0, <1>7, <2>1, EndKinds DEF InstallPromoted, Kinds, files
  <1> QED BY <1>1, <1>2, <1>3, <1>4, <1>5, <1>6, <1>7

LEMMA KindsStep ==
    ASSUME Kinds, Issued, RotationNext
    PROVE  Kinds'
  <1>0. "gateway" \in Actors /\ "cli" \in Actors
    BY Numbers
  <1>1. ASSUME NEW a \in Actors, Reconcile(a) \/ Killed(a) \/ AtomicWriteFails(a)
        PROVE  Kinds'
    <2>1. CASE Reconcile(a)
      BY <2>1, ReconcileKinds
    <2>2. CASE Killed(a)
      <3>1. read' \in [Actors -> Reads]
        BY <2>2, NothingNoted, Noted DEF Killed
      <3>2. trust' \in [Slots -> Roots]
        BY <2>2, Numbers DEF Killed, Lapses, NotInstalled, Naming, Slots, Kinds, docker
      <3> QED BY <2>2, <3>1, <3>2 DEF Killed, Kinds, Goto, files
    <2>3. CASE AtomicWriteFails(a)
      BY <2>3, EndKinds DEF AtomicWriteFails, Kinds, files, docker
    <2> QED BY <1>1, <2>1, <2>2, <2>3
  <1>2. CASE Serve \/ Maintain \/ runTLS
    BY <1>0, <1>2, BeginKinds DEF Serve, Maintain, runTLS
  <1>3. CASE Gateway \/ StopServing \/ Reconciled("cli") \/ InstallCurrent("cli")
    BY <1>0, <1>3, ServeKinds DEF Gateway
  <1>4. CASE Rotation \/ PrepareKeyFails
    BY <1>0, <1>4, ServeKinds, PrepareKinds, PromoteKinds DEF Rotation
  <1>5. CASE ClearPreviousRoot
    BY <1>5, Numbers DEF ClearPreviousRoot, Kinds, Files, docker
  <1>6. CASE OperatorTrusts \/ LeafAges
    BY <1>6 DEF OperatorTrusts, LeafAges, Kinds, files, docker
  <1> QED BY <1>1, <1>2, <1>3, <1>4, <1>5, <1>6 DEF RotationNext

-----------------------------------------------------------------------------
(* The steps.                                                              *)

\* An actor that leaves without installing puts no root in danger but the pending
\* one, or the root in use, which is then noted.
LEMMA Lapsed ==
    ASSUME RotationIInv, NEW a \in Actors, Lapses(a)
    PROVE  /\ UNCHANGED <<slots, store>> /\ uninstalled \subseteq uninstalled'
           /\ uninstalled' \subseteq uninstalled \cup {disk.ca} /\ Stored'
           /\ trust'["next"] # trust["next"] => slots /\ pc[a] = "installNext"
           /\ trust' # trust => slots /\ pc[a] \in DOMAIN Naming
           /\ pc[a] \in DOMAIN Naming \ {"installNext"} => disk.ca \in uninstalled'
           /\ pc[a] = "installNext" =>
                 /\ trust'["current"] = trust["current"]
                 /\ trust'["previous"] = trust["previous"]
                 /\ disk.next = disk.ca => disk.ca \in uninstalled'
  <1>1. disk.ca \in Roots /\ disk.next \in Roots /\ trust \in [Slots -> Roots]
    BY DEF RotationIInv, Kinds, Files
  <1>2. CASE pc[a] \notin DOMAIN Naming
    BY <1>2 DEF Lapses, docker, Naming, RotationIInv, Stored
  <1>3. CASE pc[a] \in DOMAIN Naming
    <2>1. PICK root \in {disk.next, disk.ca} :
             /\ NotInstalled(Naming[pc[a]], root)
             /\ root = IF pc[a] = "installNext" THEN disk.next ELSE disk.ca
      BY <1>3 DEF Lapses
    <2>2. disk.ca # 0
      BY <1>3 DEF RotationIInv, Identity, Places, Naming, Actors
    <2>3. disk.ca \in 1..MaxRoots /\ pc[a] # "installNext" => root = disk.ca
      BY <1>1, <2>1, <2>2, Numbers
    <2>4. /\ UNCHANGED <<slots, store>> /\ uninstalled' = uninstalled \cup ({root} \cap {disk.ca})
          /\ trust' = trust \/ (slots /\ trust' = [trust EXCEPT ![Naming[pc[a]]] = 0])
      BY <2>1 DEF NotInstalled
    <2>5. /\ pc[a] = "installNext" => Naming[pc[a]] = "next"
          /\ pc[a] # "installNext" => Naming[pc[a]] \in {"current", "previous"}
      BY <1>3 DEF Naming
    <2>6. /\ trust'["next"] # trust["next"] => slots /\ pc[a] = "installNext"
          /\ pc[a] = "installNext" => /\ trust'["current"] = trust["current"]
                                      /\ trust'["previous"] = trust["previous"]
      BY <1>1, <2>4, <2>5 DEF Slots
    <2>7. Stored'
      BY <1>1, <2>2, <2>4, Numbers DEF RotationIInv, Stored
    <2> QED BY <1>3, <2>1, <2>3, <2>4, <2>6, <2>7
  <1> QED BY <1>2, <1>3

\* An actor stops: its process ends or it returns, and the window it is in is noted.
LEMMA Stops ==
    ASSUME RotationIInv, NEW a \in Actors, NEW l,
           Turn(a, l, "none"), Notes(a, 0, 0, 0), l = Rest(a) \/ l = "idle",
           UNCHANGED <<disk, roots, signer, due>>,
           Lapses(a),
           presented' = presented \/ (a = "gateway" /\ l = "idle" /\ presented' = 0),
           broken' = broken \cup ({pc[a]} \cap Windows),
           Kinds'
    PROVE  RotationIInv'
  <1> USE DEF RotationIInv, Issued, Stored, Places, Identity, Known, Presenting, Rotating,
              Torn, Agree, Issuing, RootTrusted, LeafTrusted, Installed, Held, Lasting,
              Windows, Reconciling, Promoting, Promoted, Turn, Notes, Other, Rest, Naming
  <1>0. /\ UNCHANGED <<slots, store>> /\ uninstalled \subseteq uninstalled'
        /\ uninstalled' \subseteq uninstalled \cup {disk.ca} /\ Stored'
        /\ trust'["next"] # trust["next"] => slots /\ pc[a] = "installNext"
        /\ trust' # trust => slots /\ pc[a] \in DOMAIN Naming
        /\ pc[a] \in DOMAIN Naming \ {"installNext"} => disk.ca \in uninstalled'
        /\ pc[a] = "installNext" =>
              /\ trust'["current"] = trust["current"] /\ trust'["previous"] = trust["previous"]
              /\ disk.next = disk.ca => disk.ca \in uninstalled'
    BY Lapsed
  <1>1. CASE a = "gateway"
    <2>1. Issued' /\ Order'
      BY <1>1, Sizes, Numbers DEF Order
    <2>2. Places' /\ Presenting' /\ Rotating'
      BY <1>1
    <2>3. Identity' /\ Torn'
      BY <1>1
    <2>4. RootTrusted'
      BY <1>0, <1>1
    <2>5. LeafTrusted'
      BY <1>0, <1>1
    <2> QED BY <1>0, <2>1, <2>2, <2>3, <2>4, <2>5
  <1>2. CASE a = "cli"
    <2>1. Issued' /\ Order'
      BY <1>2, Sizes, Numbers DEF Order
    <2>2. Places' /\ Presenting' /\ Rotating'
      BY <1>2
    <2>3. Identity' /\ Torn'
      BY <1>2
    <2>4. RootTrusted'
      BY <1>0, <1>2
    <2>5. LeafTrusted'
      BY <1>0, <1>2
    <2> QED BY <1>0, <2>1, <2>2, <2>3, <2>4, <2>5
  <1> QED BY <1>1, <1>2 DEF Actors

\* What is left of the invariant once the kinds are known, in the three parts in
\* which it is proved.
Safe == /\ Issued /\ Stored /\ Places /\ Identity /\ Presenting /\ Order /\ Rotating
        /\ Torn /\ RootTrusted /\ LeafTrusted

\* Jobs begin with nothing read.
LEMMA Begins ==
    ASSUME RotationIInv, Serve \/ Maintain \/ runTLS
    PROVE  Safe'
  <1> USE DEF RotationIInv, Safe, Issued, Stored, Places, Identity, Known, Presenting,
              Order, Rotating, Torn, Agree, Issuing, RootTrusted, LeafTrusted, Installed,
              Held, Lasting, Reconciling, Promoting, Promoted, Turn, Other
  <1>1. CASE Serve
    <2>1. /\ pc["gateway"] = "idle" /\ Turn("gateway", "root", "start")
          /\ UNCHANGED <<disk, roots, signer, due, read, presented, slots, trust, store, uninstalled, broken>>
      BY <1>1, BeginTurn, Numbers DEF Serve, ActorAt
    <2> QED BY <2>1
  <1>2. CASE Maintain
    <2>1. /\ pc["gateway"] = "serving" /\ Turn("gateway", "root", "maintain")
          /\ UNCHANGED <<disk, roots, signer, due, read, presented, slots, trust, store, uninstalled, broken>>
      BY <1>2, BeginTurn, Numbers DEF Maintain, ActorAt
    <2> QED BY <2>1
  <1>3. CASE runTLS
    <2>1. PICK j \in {"reconcile", "rotate", "prepare", "activate"} :
             /\ Begin("cli", j, "root") /\ pc["cli"] = "idle" /\ disk.identity # 0
             /\ j = "activate" => disk.next \in store
      BY <1>3 DEF runTLS, ActorAt
    <2>2. /\ Turn("cli", "root", j)
          /\ UNCHANGED <<disk, roots, signer, due, read, presented, slots, trust, store, uninstalled, broken>>
      BY <2>1, BeginTurn, Numbers
    <2> QED BY <2>1, <2>2
  <1> QED BY <1>1, <1>2, <1>3

\* The operator's other steps.
LEMMA Operates ==
    ASSUME RotationIInv,
           ClearPreviousRoot \/ OperatorTrusts \/ LeafAges \/ PrepareKeyFails
    PROVE  Safe'
  <1> USE DEF RotationIInv, Safe, Issued, Stored, Places, Identity, Known, Presenting,
              Order, Rotating, Torn, Agree, Issuing, RootTrusted, LeafTrusted, Installed,
              Held, Lasting, Reconciling, Promoting, Promoted
  <1>1. CASE ClearPreviousRoot
    <2>1. /\ pc["cli"] = "idle" /\ disk' = [disk EXCEPT !.previous = 0] /\ disk \in Files
          /\ UNCHANGED <<roots, signer, due, pc, job, read, presented, slots, trust, store, uninstalled, broken>>
      BY <1>1 DEF ClearPreviousRoot, ActorAt, Kinds, docker
    <2> QED BY <2>1 DEF Files
  <1>2. CASE OperatorTrusts
    <2>1. /\ store' = store \cup {disk.next} /\ disk.next # 0 /\ disk.next \in Roots
          /\ UNCHANGED <<disk, roots, signer, due, pc, job, read, presented, slots, trust,
                         uninstalled, broken>>
      BY <1>2 DEF OperatorTrusts, Kinds, Files, files
    <2>2. Stored'
      BY <2>1, Numbers
    <2>3. RootTrusted' /\ LeafTrusted'
      BY <2>1
    <2> QED BY <2>1, <2>2, <2>3
  <1>3. CASE LeafAges
    <2>1. UNCHANGED <<disk, roots, signer, pc, job, read, presented, slots, trust, store, uninstalled, broken>>
      BY <1>3 DEF LeafAges, docker
    <2> QED BY <2>1
  <1>4. CASE PrepareKeyFails
    <2>1. /\ pc["cli"] = "prepareKey" /\ Turn("cli", "idle", "none") /\ Notes("cli", 0, 0, 0)
      BY <1>4, EndTurn, Numbers DEF PrepareKeyFails, ActorAt, Rest
    <2>2. /\ disk' = [disk EXCEPT !.next = 0] /\ disk \in Files /\ roots \in Roots
          /\ UNCHANGED <<roots, signer, due, presented, slots, trust, store, uninstalled, broken>>
      BY <1>4 DEF PrepareKeyFails, Kinds, docker
    <2> USE <2>1, <2>2 DEF Files, Turn, Notes, Other
    <2>3. Issued' /\ Stored'
      BY Numbers
    <2>4. Places' /\ Identity' /\ Presenting' /\ Order'
      BY Numbers
    <2>5. Rotating' /\ Torn'
      OBVIOUS
    <2>6. RootTrusted'
      OBVIOUS
    <2>7. LeafTrusted'
      OBVIOUS
    <2> QED BY <2>3, <2>4, <2>5, <2>6, <2>7
  <1> QED BY <1>1, <1>2, <1>3, <1>4

\* One field is noted and the others stay.
LEMMA NotesField ==
    ASSUME Kinds, NEW a \in Actors, NEW v
    PROVE  /\ read' = [read EXCEPT ![a].root = v] => Notes(a, v, read[a].key, read[a].leaf)
           /\ read' = [read EXCEPT ![a].key = v] => Notes(a, read[a].root, v, read[a].leaf)
           /\ read' = [read EXCEPT ![a].leaf = v] => Notes(a, read[a].root, read[a].key, v)
           /\ read' = [read EXCEPT ![a].root = v, ![a].key = v] => Notes(a, v, v, read[a].leaf)
  BY DEF Kinds, Reads, Notes, Other, Actors

\* The old leaves remain, and the new one is signed by the root its issuer has read.
Issue(a, from, to) ==
    /\ pc[a] = from /\ Turn(a, to, job[a]) /\ read[a].key = read[a].root
    /\ Notes(a, read[a].root, read[a].key, NewLeaf)
    /\ disk' = [disk EXCEPT !.leaf = NewLeaf] /\ disk \in Files
    /\ NewLeaf \in Leaves /\ NewLeaf \in Nat /\ Len(signer) \in Nat /\ Len(signer) < NewLeaf
    /\ signer' \in Seq(1..MaxRoots) /\ Len(signer') = NewLeaf /\ Len(signer') <= MaxLeaves
    /\ signer'[NewLeaf] = read[a].root /\ \A l \in 1..Len(signer) : signer'[l] = signer[l]
    /\ broken' = IF pc[Other(a)] \in {"leafKey", "promoteLeafKey"}
                 THEN broken \cup {"race"} ELSE broken
    /\ UNCHANGED <<roots, presented, slots, trust, store, uninstalled>>

LEMMA Issues ==
    ASSUME RotationIInv, NEW a \in Actors, NEW from, NEW to,
           issueLeaf(a, from, to), ~Fail(a),
           read[a].root # 0
    PROVE  Issue(a, from, to)
  <1>1. /\ pc[a] = from /\ read[a].key = read[a].root /\ Len(signer) < MaxLeaves
        /\ signer' = Append(signer, read[a].root)
        /\ disk' = [disk EXCEPT !.leaf = NewLeaf]
        /\ read' = [read EXCEPT ![a].leaf = NewLeaf]
        /\ broken' = IF pc[Other(a)] \in {"leafKey", "promoteLeafKey"}
                     THEN broken \cup {"race"} ELSE broken
        /\ Goto(a, to) /\ UNCHANGED job
        /\ UNCHANGED <<roots, presented, slots, trust, store, uninstalled>>
    BY DEF issueLeaf, ActorAt, docker
  <1>2. Kinds /\ Issued /\ disk \in Files /\ read[a].root \in 1..MaxRoots
    BY Numbers DEF RotationIInv, Kinds, Reads
  <1>3. Turn(a, to, job[a])
    BY <1>1, <1>2, GotoTurn
  <1>4. Notes(a, read[a].root, read[a].key, NewLeaf)
    BY <1>1, <1>2, NotesField
  <1>5. /\ NewLeaf \in Leaves /\ Len(signer) \in Nat /\ Len(signer) < NewLeaf
        /\ signer' \in Seq(1..MaxRoots) /\ Len(signer') = NewLeaf /\ Len(signer') <= MaxLeaves
        /\ signer'[NewLeaf] = read[a].root /\ \A l \in 1..Len(signer) : signer'[l] = signer[l]
    BY <1>1, <1>2, LeafIsNew
  <1> QED BY <1>1, <1>2, <1>3, <1>4, <1>5, Numbers DEF Issue

\* A certificate more leaves every number within those issued.
LEMMA IssuedMore ==
    ASSUME Kinds, Issued, NEW a \in Actors, NEW from, NEW to,
           Issue(a, from, to)
    PROVE  Issued'
  <1>1. /\ disk'.leaf = NewLeaf /\ disk'.leafKey = disk.leafKey
    BY DEF Issue, Files
  <1>2. /\ read'["gateway"].leaf \in {read["gateway"].leaf, NewLeaf}
        /\ read'["cli"].leaf \in {read["cli"].leaf, NewLeaf}
    <2>1. CASE a = "gateway"
      BY <2>1 DEF Issue, Notes, Other
    <2>2. CASE a = "cli"
      BY <2>2 DEF Issue, Notes, Other
    <2> QED BY <2>1, <2>2 DEF Actors
  <1>3. /\ NewLeaf \in Nat /\ Len(signer) < NewLeaf /\ Len(signer') = NewLeaf
        /\ signer' \in Seq(1..MaxRoots) /\ Len(signer') <= MaxLeaves
        /\ presented' = presented
    BY DEF Issue
  <1>4. /\ Len(signer) \in Nat /\ presented \in 0..Len(signer)
        /\ disk.leafKey \in Nat /\ disk.leafKey <= Len(signer)
        /\ read["gateway"].leaf \in Nat /\ read["gateway"].leaf <= Len(signer)
        /\ read["cli"].leaf \in Nat /\ read["cli"].leaf <= Len(signer)
    BY Sizes DEF Issued
  <1>5. presented' \in 0..Len(signer')
    BY <1>3, <1>4
  <1>6. disk'.leaf <= Len(signer') /\ disk'.leafKey <= Len(signer')
    BY <1>1, <1>3, <1>4
  <1>7. read'["gateway"].leaf <= Len(signer') /\ read'["cli"].leaf <= Len(signer')
    BY <1>2, <1>3, <1>4
  <1> QED BY <1>3, <1>5, <1>6, <1>7 DEF Issued

\* The steps of Reconcile that do not refuse.
LEMMA Reconciles ==
    ASSUME RotationIInv, NEW a \in Actors, Reconcile(a),
           RootRefused(a) \/ verifyIdentity(a) \/ RenewLeaf(a) => ~Fail(a)
    PROVE  Safe'
  <1> USE DEF RotationIInv, Safe, Issued, Stored, Places, Identity, Known, Presenting,
              Order, Rotating, Torn, Agree, Issuing, RootTrusted, LeafTrusted, Installed,
              Held, Lasting, Reconciling, Promoting, Promoted, Turn, Notes, Other
  <1>0. a = "gateway" \/ a = "cli"
    BY DEF Actors
  <1>1. CASE LoadRoot(a)
    <2>1. CASE /\ disk.ca # 0 /\ read' = [read EXCEPT ![a].root = disk.ca] /\ Goto(a, "key")
               /\ UNCHANGED <<disk, roots>>
      <3>0. Notes(a, disk.ca, read[a].key, read[a].leaf)
        BY <2>1, NotesField
      <3>1. pc[a] = "root" /\ Turn(a, "key", job[a])
        BY <1>1, <2>1, GotoTurn DEF LoadRoot, ActorAt
      <3>2. UNCHANGED <<disk, roots, signer, due, presented, slots, trust, store, uninstalled, broken>>
        BY <1>1, <2>1 DEF LoadRoot, docker
      <3>3. CASE a = "gateway"
        <4> USE <2>1, <3>0, <3>1, <3>2, <3>3
        <4>1. Issued' /\ Stored' /\ Order'
          BY Sizes
        <4>2. Places' /\ Identity' /\ Presenting' /\ Rotating' /\ Torn'
          OBVIOUS
        <4>3. RootTrusted' /\ LeafTrusted'
          OBVIOUS
        <4> QED BY <4>1, <4>2, <4>3
      <3>4. CASE a = "cli"
        BY <2>1, <3>0, <3>1, <3>2, <3>4
      <3> QED BY <1>0, <3>3, <3>4
    <2>2. CASE /\ disk.ca = 0 /\ disk.caKey = 0 /\ disk.identity = 0 /\ roots < MaxRoots
               /\ roots' = NewRoot /\ disk' = [disk EXCEPT !.ca = NewRoot]
               /\ read' = [read EXCEPT ![a].root = NewRoot, ![a].key = NewRoot]
               /\ Goto(a, "createKey")
      <3>0. Notes(a, NewRoot, NewRoot, read[a].leaf)
        BY <2>2, NotesField
      <3>1. pc[a] = "root" /\ Turn(a, "createKey", job[a])
        BY <1>1, <2>2, GotoTurn DEF LoadRoot, ActorAt
      <3>2. UNCHANGED <<signer, due, presented, slots, trust, store, uninstalled, broken>>
        BY <1>1 DEF LoadRoot, docker
      <3>3. a = "gateway" /\ NewRoot # 0 /\ NewRoot \in Nat
        BY <1>0, <2>2, <3>1, RootIsNew, Numbers DEF Kinds
      <3> QED BY <2>2, <3>0, <3>1, <3>2, <3>3 DEF Kinds, Files
    <2> QED BY <1>1, <2>1, <2>2 DEF LoadRoot
  <1>2. CASE CreateKey(a)
    <2>1. /\ pc[a] = "createKey" /\ Turn(a, "createIdentity", job[a])
          /\ UNCHANGED <<roots, signer, due, read, presented, slots, trust, store, uninstalled, broken>>
      BY <1>2, WriteTurn DEF CreateKey
    <2>2. disk' = [disk EXCEPT !.caKey = read[a].key] /\ disk \in Files
      BY <1>2 DEF CreateKey, Write, Kinds
    <2>3. a = "gateway"
      BY <1>0, <2>1
    <2> QED BY <2>1, <2>2, <2>3 DEF Files
  <1>3. CASE CreateIdentity(a)
    <2>1. /\ pc[a] = "createIdentity" /\ Turn(a, "leaf", job[a])
          /\ UNCHANGED <<roots, signer, due, read, presented, slots, trust, store, uninstalled, broken>>
      BY <1>3, WriteTurn DEF CreateIdentity
    <2>2. disk' = [disk EXCEPT !.identity = read[a].root] /\ disk \in Files
      BY <1>3 DEF CreateIdentity, Write, Kinds
    <2>3. a = "gateway"
      BY <1>0, <2>1
    <2> QED BY <2>1, <2>2, <2>3 DEF Files
  <1>4. CASE verifyIdentity(a)
    <2>0. /\ pc[a] = "key" /\ disk.identity = read[a].root
          /\ read' = [read EXCEPT ![a].key = disk.caKey] /\ Goto(a, "leaf") /\ UNCHANGED job
          /\ UNCHANGED <<disk, roots, signer, due, presented, slots, trust, store, uninstalled, broken>>
      BY <1>4 DEF verifyIdentity, ActorAt, files, docker
    <2>1. Turn(a, "leaf", job[a])
      BY <2>0, GotoTurn
    <2>4. Notes(a, read[a].root, disk.caKey, read[a].leaf)
      BY <2>0, NotesField
    <2>2. CASE a = "gateway"
      BY <2>0, <2>1, <2>2, <2>4
    <2>3. CASE a = "cli"
      BY <2>0, <2>1, <2>3, <2>4
    <2> QED BY <1>0, <2>2, <2>3
  <1>5. CASE LeafCurrent(a)
    <2>1. /\ pc[a] = "leaf" /\ Turn(a, "reconciled", job[a]) /\ Notes(a, read[a].root, 0, 0)
          /\ UNCHANGED <<disk, roots, signer, due, presented, slots, trust, store, uninstalled, broken>>
      BY <1>5, GotoTurn
      DEF LeafCurrent, ActorAt, files, docker, Nothing, Kinds, Actors
    <2>2. disk.leaf \in 1..Len(signer) /\ signer[disk.leaf] = read[a].root
      BY <1>5 DEF LeafCurrent, leafNeedsRenewal
    <2>3. CASE a = "gateway"
      BY <2>1, <2>2, <2>3
    <2>4. CASE a = "cli"
      BY <2>1, <2>2, <2>4
    <2> QED BY <1>0, <2>3, <2>4
  <1>6. CASE RenewLeafKey(a)
    <2>1. /\ pc[a] = "leafKey" /\ Turn(a, "reconciled", job[a])
          /\ UNCHANGED <<roots, signer, due, presented, slots, trust, store, uninstalled, broken>>
      BY <1>6, WriteTurn DEF RenewLeafKey
    <2>2. /\ disk' = [disk EXCEPT !.leafKey = read[a].leaf] /\ disk \in Files
          /\ Notes(a, read[a].root, 0, read[a].leaf)
      BY <1>6, NotesField DEF RenewLeafKey, Write, Kinds
    <2>3. CASE a = "gateway"
      BY <2>1, <2>2, <2>3 DEF Files
    <2>4. CASE a = "cli"
      BY <2>1, <2>2, <2>4 DEF Files
    <2> QED BY <1>0, <2>3, <2>4
  <1>7. ~RootRefused(a)
    BY DEF RootRefused
  <1>8. CASE RenewLeaf(a)
    <2>1. issueLeaf(a, "leaf", "leafKey") /\ pc[a] = "leaf" /\ read[a].root # 0 /\ ~Fail(a)
      BY <1>0, <1>8 DEF RenewLeaf, issueLeaf, ActorAt, Fail
    <2>4. Issue(a, "leaf", "leafKey")
      BY <2>1, Issues
    <2> USE <2>4 DEF Issue, Files
    <2>2. CASE a = "gateway"
      <3>1. Issued'
        BY <2>4, IssuedMore
      <3>5. Stored' /\ Order'
        BY <2>2
      <3>2. Places' /\ Identity' /\ Presenting' /\ Rotating' /\ Torn'
        BY <2>2
      <3>3. RootTrusted'
        BY <2>2
      <3>6. presented # 0 => presented \in 1..Len(signer)
        BY Numbers
      <3>7. disk'.leaf = NewLeaf /\ signer'[disk'.leaf] = read[a].root /\ disk'.ca = disk.ca
        BY Numbers
      <3>4. LeafTrusted'
        BY <2>2, <3>6, <3>7
      <3> QED BY <3>1, <3>2, <3>3, <3>4, <3>5
    <2>3. CASE a = "cli"
      <3>1. Issued'
        BY <2>4, IssuedMore
      <3>5. Stored' /\ Order'
        BY <2>3
      <3>2. Places' /\ Identity' /\ Presenting' /\ Rotating' /\ Torn'
        BY <2>3
      <3>3. RootTrusted'
        BY <2>3
      <3>6. presented # 0 => presented \in 1..Len(signer)
        BY Numbers
      <3>7. disk'.leaf = NewLeaf /\ signer'[disk'.leaf] = read[a].root /\ disk'.ca = disk.ca
        BY Numbers
      <3>8. read["gateway"].leaf # 0 => read["gateway"].leaf \in 1..Len(signer)
        BY Sizes
      <3>9. /\ presented # 0 => signer'[presented] = signer[presented]
            /\ read["gateway"].leaf # 0 =>
                  signer'[read["gateway"].leaf] = signer[read["gateway"].leaf]
        BY <3>6, <3>8
      <3>4. LeafTrusted'
        BY <2>3, <3>7, <3>9
      <3> QED BY <3>1, <3>2, <3>3, <3>4, <3>5
    <2> QED BY <1>0, <2>2, <2>3
  <1> QED BY <1>1, <1>2, <1>3, <1>4, <1>5, <1>6, <1>7, <1>8 DEF Reconcile

\* A root is installed.
Put(slot, root) ==
    /\ IF slots THEN trust' = [trust EXCEPT ![slot] = root] /\ UNCHANGED store
       ELSE store' = store \cup {root} /\ UNCHANGED trust
    /\ uninstalled' = IF slot = "next" THEN uninstalled ELSE uninstalled \ {root}
    /\ UNCHANGED slots

\* What an installation adds to the store, or records as not installed, is a root.
LEMMA StillStored ==
    ASSUME Stored, NEW slot,
           \E root \in 1..MaxRoots : Put(slot, root) \/ NotInstalled(slot, root)
    PROVE  Stored'
  <1>1. store' \subseteq 1..MaxRoots
    BY DEF Stored, Put, NotInstalled
  <1>2. uninstalled' \subseteq 1..MaxRoots
    BY DEF Stored, Put, NotInstalled
  <1> QED BY <1>1, <1>2 DEF Stored

\* reconcileTLS and certmanager in the gateway.
LEMMA Serves ==
    ASSUME RotationIInv, Gateway \/ StopServing,
           Reconciled("gateway") \/ ManagerReload => ~Fail("gateway")
    PROVE  Safe'
  <1> USE DEF RotationIInv, Safe, Issued, Stored, Places, Identity, Known, Presenting,
              Order, Rotating, Torn, Agree, Issuing, RootTrusted, LeafTrusted, Installed,
              Held, Lasting, Reconciling, Promoting, Promoted, Turn, Notes, Other
  <1>1. CASE Reconciled("gateway")
    <2>1. PICK l \in {"installCurrent", "load"} :
             /\ pc["gateway"] = "reconciled" /\ Goto("gateway", l) /\ UNCHANGED job
             /\ IF job["gateway"] = "start" THEN l = "installCurrent" ELSE l = "load"
             /\ UNCHANGED <<disk, roots, signer, due, read, presented, slots, trust, store, uninstalled, broken>>
      BY <1>1 DEF Reconciled, ActorAt, files, docker
    <2>2. Turn("gateway", l, job["gateway"])
      BY <2>1, GotoTurn, Numbers
    <2> QED BY <2>1, <2>2
  <1>2. CASE InstallCurrent("gateway")
    <2>1. /\ pc["gateway"] = "installCurrent"
          /\ \/ \E root \in {read["gateway"].root, disk.ca} : Put("current", root)
             \/ NotInstalled("current", disk.ca)
          /\ broken' = IF disk.ca # read["gateway"].root THEN broken \cup {"replaced"} ELSE broken
          /\ Goto("gateway", "load") /\ UNCHANGED job
          /\ UNCHANGED <<disk, roots, signer, due, read, presented>>
      BY <1>2 DEF InstallCurrent, Install, Put, ActorAt, files
    <2>2. Turn("gateway", "load", job["gateway"])
      BY <2>1, GotoTurn, Numbers
    <2>3. disk.ca \in 1..MaxRoots /\ read["gateway"].root \in 1..MaxRoots
      BY <2>1, Numbers DEF Kinds, Files, Reads
    <2>4. trust \in [Slots -> Roots]
      BY DEF Kinds
    <2>5. Stored'
      BY <2>1, <2>3, StillStored
    <2>6. Issued' /\ Places' /\ Identity' /\ Presenting' /\ Order' /\ Rotating' /\ Torn'
      BY <2>1, <2>2
    <2>9. slots' = slots /\ trust'["next"] = trust["next"] /\ store \subseteq store'
      BY <2>1, <2>4 DEF Put, NotInstalled, Slots
    <2>10. "replaced" \notin broken' =>
             /\ \/ disk.ca \in uninstalled'
                \/ IF slots THEN disk.ca = trust'["current"] ELSE disk.ca \in store'
             /\ ~slots => store \cup uninstalled \subseteq store' \cup uninstalled'
      BY <2>1, <2>4 DEF Put, NotInstalled, Slots
    <2>11. "replaced" \notin broken' => "replaced" \notin broken
      BY <2>1
    <2>7. RootTrusted'
      BY <2>1, <2>2, <2>9, <2>10, <2>11
    <2>8. LeafTrusted'
      BY <2>1, <2>2, <2>9, <2>10, <2>11
    <2> QED BY <2>5, <2>6, <2>7, <2>8
  <1>3. CASE LoadCertificate
    <2>1. /\ pc["gateway"] = "load" /\ Goto("gateway", "loadKey") /\ UNCHANGED job
          /\ read' = [read EXCEPT !["gateway"].leaf = disk.leaf]
          /\ UNCHANGED <<disk, roots, signer, due, presented, slots, trust, store, uninstalled, broken>>
      BY <1>3 DEF LoadCertificate, ActorAt, files, docker
    <2>2. Turn("gateway", "loadKey", job["gateway"])
      BY <2>1, GotoTurn, Numbers
    <2>3. Notes("gateway", read["gateway"].root, read["gateway"].key, disk.leaf)
      BY <2>1, NotesField, Numbers
    <2> QED BY <2>1, <2>2, <2>3
  <1>4. CASE ManagerReload
    <2>1. /\ pc["gateway"] = "loadKey" /\ presented' = read["gateway"].leaf
          /\ Goto("gateway", "serving") /\ job' = [job EXCEPT !["gateway"] = "none"]
          /\ read' = [read EXCEPT !["gateway"] = Nothing]
          /\ UNCHANGED <<disk, roots, signer, due, slots, trust, store, uninstalled, broken>>
      BY <1>4 DEF ManagerReload, ActorAt, files, docker
    <2>2. /\ Turn("gateway", "serving", "none") /\ Notes("gateway", 0, 0, 0)
      BY <2>1 DEF Kinds, Goto, Nothing, Actors
    <2>3. read["gateway"].leaf \in 0..Len(signer)
      BY Numbers DEF Kinds, Reads
    <2>4. Issued' /\ Order'
      BY <2>1, <2>2, <2>3, Numbers DEF Kinds, Files
    <2> QED BY <2>1, <2>2, <2>4
  <1>5. CASE StopServing
    <2>1. /\ pc["gateway"] = "serving" /\ Goto("gateway", "idle") /\ presented' = 0
          /\ UNCHANGED job
          /\ UNCHANGED <<disk, roots, signer, due, read, slots, trust, store, uninstalled, broken>>
      BY <1>5 DEF StopServing, ActorAt, files, docker
    <2>2. Turn("gateway", "idle", job["gateway"])
      BY <2>1, GotoTurn, Numbers
    <2> QED BY <2>1, <2>2
  <1> QED BY <1>1, <1>2, <1>3, <1>4, <1>5 DEF Gateway

\* The command ends with the pending root prepared, or goes on to install it.
LEMMA PreparedTurn ==
    ASSUME Kinds, Prepared
    PROVE  \/ Turn("cli", "idle", "none") /\ Notes("cli", 0, 0, 0)
           \/ job["cli"] # "prepare" /\ Turn("cli", "installNext", job["cli"]) /\ UNCHANGED read
  BY EndTurn, GotoTurn, Numbers DEF Prepared, Rest

\* PrepareRootRotation, and the installation of the pending root.
LEMMA Prepares ==
    ASSUME RotationIInv, Reconciled("cli") => ~Fail("cli"),
           \/ Reconciled("cli") \/ InstallCurrent("cli")
           \/ PrepareRootRotation \/ PrepareKey \/ InstallNext
    PROVE  Safe'
  <1> USE DEF RotationIInv, Safe, Issued, Stored, Places, Identity, Known, Presenting,
              Order, Rotating, Torn, Agree, Issuing, RootTrusted, LeafTrusted, Installed,
              Held, Lasting, Reconciling, Promoting, Promoted, Turn, Notes, Other
  <1>1. CASE Reconciled("cli")
    <2>1. PICK l \in {"installCurrent", "prepare", "preserve"} :
             /\ pc["cli"] = "reconciled" /\ Goto("cli", l) /\ UNCHANGED job
             /\ l = "installCurrent" => job["cli"] = "reconcile"
             /\ l = "prepare" => job["cli"] \in {"rotate", "prepare"}
             /\ l = "preserve" => job["cli"] \in {"activate", "promote"}
             /\ UNCHANGED <<disk, roots, signer, due, read, presented, slots, trust, store, uninstalled, broken>>
      BY <1>1 DEF Reconciled, ActorAt, files, docker
    <2>2. Turn("cli", l, job["cli"])
      BY <2>1, GotoTurn, Numbers
    <2> QED BY <2>1, <2>2
  <1>2. CASE InstallCurrent("cli")
    <2>1. /\ pc["cli"] = "installCurrent" /\ End("cli")
          /\ \/ \E root \in {read["cli"].root, disk.ca} : Put("current", root)
             \/ NotInstalled("current", disk.ca)
          /\ broken' = IF disk.ca # read["cli"].root THEN broken \cup {"replaced"} ELSE broken
          /\ UNCHANGED <<disk, roots, signer, due, presented>>
      BY <1>2 DEF InstallCurrent, Install, Put, ActorAt, files
    <2>2. Turn("cli", "idle", "none") /\ Notes("cli", 0, 0, 0)
      BY <2>1, EndTurn, Numbers DEF Rest
    <2>3. /\ disk.ca \in 1..MaxRoots /\ read["cli"].root \in 1..MaxRoots
          /\ trust \in [Slots -> Roots]
      BY <2>1, Numbers DEF Kinds, Files, Reads
    <2>4. Issued' /\ Order'
      BY <2>1, <2>2, <2>3, Numbers DEF Kinds, Files
    <2>8. Stored'
      BY <2>1, <2>3, StillStored
    <2>5. Places' /\ Identity' /\ Presenting' /\ Rotating' /\ Torn'
      BY <2>1, <2>2
    <2>9. slots' = slots /\ trust'["next"] = trust["next"] /\ store \subseteq store'
      BY <2>1, <2>3 DEF Put, NotInstalled, Slots
    <2>10. "replaced" \notin broken' =>
             /\ \/ disk.ca \in uninstalled'
                \/ IF slots THEN disk.ca = trust'["current"] ELSE disk.ca \in store'
             /\ ~slots => store \cup uninstalled \subseteq store' \cup uninstalled'
      BY <2>1, <2>3 DEF Put, NotInstalled, Slots
    <2>11. "replaced" \notin broken' => "replaced" \notin broken
      BY <2>1
    <2>6. RootTrusted'
      BY <2>1, <2>2, <2>9, <2>10, <2>11
    <2>7. LeafTrusted'
      BY <2>1, <2>2, <2>9, <2>10, <2>11
    <2> QED BY <2>4, <2>5, <2>6, <2>7, <2>8
  <1>3. CASE PrepareRootRotation
    <2>1. /\ pc["cli"] = "prepare" /\ disk.previous = 0 /\ disk \in Files
          /\ UNCHANGED <<signer, due, presented, slots, trust, store, uninstalled, broken>>
      BY <1>3 DEF PrepareRootRotation, ActorAt, docker, Kinds
    <2>2. CASE disk.next # 0 /\ disk.nextKey # 0 /\ Prepared /\ UNCHANGED <<disk, roots>>
      <3>1. \/ Turn("cli", "idle", "none") /\ Notes("cli", 0, 0, 0)
            \/ /\ job["cli"] # "prepare" /\ Turn("cli", "installNext", job["cli"])
               /\ UNCHANGED read
        BY <2>2, PreparedTurn
      <3> QED BY <2>1, <2>2, <3>1, Numbers
    <2>3. CASE /\ disk.next = 0 /\ disk.nextKey = 0 /\ roots < MaxRoots /\ roots' = NewRoot
               /\ disk' = [disk EXCEPT !.next = NewRoot]
               /\ read' = [read EXCEPT !["cli"].key = NewRoot]
               /\ Goto("cli", "prepareKey") /\ UNCHANGED job
      <3>1. Turn("cli", "prepareKey", job["cli"])
        BY <2>3, GotoTurn, Numbers
      <3>2. Notes("cli", read["cli"].root, NewRoot, read["cli"].leaf)
        BY <2>3, NotesField, Numbers
      <3>3. /\ NewRoot # 0 /\ NewRoot \in Nat /\ roots < NewRoot
            /\ roots \in Nat /\ disk.ca \in Nat
        BY <2>3, RootIsNew, Numbers DEF Kinds, Files
      <3> USE <2>1, <2>3, <3>1, <3>2, <3>3 DEF Files
      <3>4. Issued' /\ Stored' /\ Order'
        OBVIOUS
      <3>5. Places' /\ Identity' /\ Presenting' /\ Rotating' /\ Torn'
        OBVIOUS
      <3>6. RootTrusted' /\ LeafTrusted'
        OBVIOUS
      <3> QED BY <3>4, <3>5, <3>6
    <2> QED BY <1>3, <2>2, <2>3 DEF PrepareRootRotation
  <1>4. CASE PrepareKey
    <2>1. /\ pc["cli"] = "prepareKey" /\ disk' = [disk EXCEPT !.nextKey = read["cli"].key]
          /\ disk \in Files
          /\ UNCHANGED <<roots, signer, due, presented, slots, trust, store, uninstalled, broken>>
      BY <1>4 DEF PrepareKey, ActorAt, docker, Kinds
    <2>2. \/ Turn("cli", "idle", "none") /\ Notes("cli", 0, 0, 0)
          \/ job["cli"] # "prepare" /\ Turn("cli", "installNext", job["cli"]) /\ UNCHANGED read
      BY <1>4, PreparedTurn DEF PrepareKey
    <2> USE <2>1, <2>2 DEF Files
    <2>3. Issued' /\ Stored' /\ Order'
      BY Numbers
    <2>4. Places' /\ Identity' /\ Presenting'
      OBVIOUS
    <2>8. disk.next # 0 /\ disk'.nextKey = disk.next /\ disk'.next = disk.next
      BY Numbers DEF Kinds
    <2>5. Rotating'
      BY <2>8
    <2>6. Torn'
      OBVIOUS
    <2>7. RootTrusted' /\ LeafTrusted'
      OBVIOUS
    <2> QED BY <2>3, <2>4, <2>5, <2>6, <2>7
  <1>5. CASE InstallNext
    <2>1. /\ pc["cli"] = "installNext" /\ Goto("cli", "root")
          /\ job' = [job EXCEPT !["cli"] = "promote"] /\ read' = [read EXCEPT !["cli"] = Nothing]
          /\ IF slots THEN trust' = [trust EXCEPT !["next"] = disk.next] /\ UNCHANGED store
             ELSE store' = store \cup {disk.next} /\ UNCHANGED trust
          /\ UNCHANGED <<disk, roots, signer, due, presented, slots, uninstalled, broken>>
      BY <1>5 DEF InstallNext, Install, ActorAt, files
    <2>2. Turn("cli", "root", "promote") /\ Notes("cli", 0, 0, 0)
      BY <2>1 DEF Kinds, Goto, Nothing, Actors
    <2>3. disk.next \in 1..MaxRoots /\ trust \in [Slots -> Roots]
      BY <2>1, Numbers DEF Kinds, Files
    <2>4. Issued' /\ Stored' /\ Order'
      BY <2>1, <2>2, <2>3, Numbers DEF Kinds, Files
    <2>5. Places' /\ Identity' /\ Presenting' /\ Rotating' /\ Torn'
      BY <2>1, <2>2
    <2>6. RootTrusted'
      BY <2>1, <2>2, <2>3 DEF Slots
    <2>7. LeafTrusted'
      BY <2>1, <2>2
    <2> QED BY <2>4, <2>5, <2>6, <2>7
  <1> QED BY <1>1, <1>2, <1>3, <1>4, <1>5

\* ActivateRootRotation.
LEMMA Promotes ==
    ASSUME RotationIInv, PromoteLeaf => ~Fail("cli"),
           \/ PreserveRoot \/ PromoteRoot \/ PromoteKey \/ PromoteIdentity
           \/ PromoteLeaf \/ PromoteLeafKey \/ RemoveNext
    PROVE  Safe'
  <1> USE DEF RotationIInv, Safe, Issued, Stored, Places, Identity, Known, Presenting,
              Order, Rotating, Torn, Agree, Issuing, RootTrusted, LeafTrusted, Installed,
              Held, Lasting, Reconciling, Promoting, Promoted, Turn, Notes, Other
  <1>1. CASE PreserveRoot
    <2>1. /\ pc["cli"] = "preserve" /\ Turn("cli", "promoteRoot", job["cli"])
          /\ disk.next # 0 /\ disk.nextKey # 0
          /\ UNCHANGED <<roots, signer, due, presented, slots, trust, store, uninstalled, broken>>
      BY <1>1, WriteTurn, Numbers DEF PreserveRoot
    <2>2. disk' = [disk EXCEPT !.previous = disk.ca] /\ disk \in Files
      BY <1>1 DEF PreserveRoot, Write, Kinds
    <2>3. Notes("cli", disk.next, disk.nextKey, 0)
      BY <1>1 DEF PreserveRoot, Kinds, Nothing, Actors
    <2>4. Issued' /\ Stored' /\ Order'
      BY <2>1, <2>2, <2>3, Numbers DEF Kinds, Files
    <2>5. Places' /\ Identity' /\ Presenting' /\ Rotating' /\ Torn'
      BY <2>1, <2>2, <2>3 DEF Files
    <2>6. RootTrusted' /\ LeafTrusted'
      BY <2>1, <2>2, <2>3 DEF Files
    <2> QED BY <2>4, <2>5, <2>6
  <1>2. CASE PromoteRoot
    <2>1. /\ pc["cli"] = "promoteRoot" /\ Turn("cli", "promoteKey", job["cli"])
          /\ UNCHANGED <<roots, signer, due, read, presented, slots, trust, store, uninstalled, broken>>
      BY <1>2, WriteTurn, Numbers DEF PromoteRoot
    <2>2. disk' = [disk EXCEPT !.ca = read["cli"].root] /\ disk \in Files
      BY <1>2 DEF PromoteRoot, Write, Kinds
    <2>3. Issued' /\ Stored'
      BY <2>1, <2>2 DEF Files
    <2>4. Order'
      BY <2>1, <2>2, Numbers DEF Kinds, Files, Reads
    <2>5. Places' /\ Identity' /\ Presenting' /\ Rotating' /\ Torn'
      BY <2>1, <2>2 DEF Files
    <2>6. RootTrusted'
      BY <2>1, <2>2 DEF Files
    <2>7. LeafTrusted'
      BY <2>1, <2>2, Numbers DEF Kinds, Files, Reads
    <2> QED BY <2>3, <2>4, <2>5, <2>6, <2>7
  <1>3. CASE PromoteKey
    <2>1. /\ pc["cli"] = "promoteKey" /\ Turn("cli", "promoteIdentity", job["cli"])
          /\ UNCHANGED <<roots, signer, due, read, presented, slots, trust, store, uninstalled, broken>>
      BY <1>3, WriteTurn, Numbers DEF PromoteKey
    <2>2. disk' = [disk EXCEPT !.caKey = read["cli"].key] /\ disk \in Files
      BY <1>3 DEF PromoteKey, Write, Kinds
    <2> QED BY <2>1, <2>2 DEF Files
  <1>4. CASE PromoteIdentity
    <2>1. /\ pc["cli"] = "promoteIdentity" /\ Turn("cli", "promoteLeaf", job["cli"])
          /\ UNCHANGED <<roots, signer, due, read, presented, slots, trust, store, uninstalled, broken>>
      BY <1>4, WriteTurn, Numbers DEF PromoteIdentity
    <2>2. disk' = [disk EXCEPT !.identity = read["cli"].root] /\ disk \in Files
      BY <1>4 DEF PromoteIdentity, Write, Kinds
    <2> QED BY <2>1, <2>2 DEF Files
  <1>5. CASE PromoteLeaf
    <2>1. /\ issueLeaf("cli", "promoteLeaf", "promoteLeafKey") /\ pc["cli"] = "promoteLeaf"
          /\ ~Fail("cli")
      BY <1>5 DEF PromoteLeaf, issueLeaf, ActorAt, Fail
    <2>2. Issue("cli", "promoteLeaf", "promoteLeafKey")
      BY <2>1, Issues, Numbers
    <2> USE <2>2 DEF Issue, Files
    <2>3. Issued'
      BY <2>2, IssuedMore, Numbers
    <2>4. Stored' /\ Order'
      OBVIOUS
    <2>5. Places' /\ Identity' /\ Presenting' /\ Rotating' /\ Torn'
      OBVIOUS
    <2>6. RootTrusted'
      OBVIOUS
    <2>7. presented # 0 => presented \in 1..Len(signer)
      BY Numbers
    <2>8. disk'.leaf = NewLeaf /\ signer'[disk'.leaf] = read["cli"].root /\ disk'.ca = disk.ca
      BY Numbers
    <2>9. read["gateway"].leaf # 0 => read["gateway"].leaf \in 1..Len(signer)
      BY Numbers DEF Kinds, Reads
    <2>10. LeafTrusted'
      BY <2>7, <2>8, <2>9
    <2> QED BY <2>3, <2>4, <2>5, <2>6, <2>10
  <1>6. CASE PromoteLeafKey
    <2>1. /\ pc["cli"] = "promoteLeafKey" /\ Turn("cli", "removeNext", job["cli"])
          /\ UNCHANGED <<roots, signer, due, read, presented, slots, trust, store, uninstalled, broken>>
      BY <1>6, WriteTurn, Numbers DEF PromoteLeafKey
    <2>2. disk' = [disk EXCEPT !.leafKey = read["cli"].leaf] /\ disk \in Files
      BY <1>6 DEF PromoteLeafKey, Write, Kinds
    <2> QED BY <2>1, <2>2 DEF Files
  <1>7. CASE RemoveNext
    <2>1. /\ pc["cli"] = "removeNext" /\ Turn("cli", "removeNextKey", job["cli"])
          /\ UNCHANGED <<roots, signer, due, read, presented, slots, trust, store, uninstalled, broken>>
      BY <1>7, WriteTurn, Numbers DEF RemoveNext
    <2>2. disk' = [disk EXCEPT !.next = 0] /\ disk \in Files
      BY <1>7 DEF RemoveNext, Write, Kinds
    <2>3. Issued' /\ Stored'
      BY <2>1, <2>2 DEF Files
    <2>4. Order'
      BY <2>1, <2>2, Numbers DEF Kinds, Files, Reads
    <2>5. Places' /\ Identity' /\ Presenting' /\ Rotating' /\ Torn'
      BY <2>1, <2>2 DEF Files
    <2>6. RootTrusted'
      BY <2>1, <2>2 DEF Files
    <2>7. LeafTrusted'
      BY <2>1, <2>2, Numbers DEF Kinds, Files, Reads
    <2> QED BY <2>3, <2>4, <2>5, <2>6, <2>7
  <1> QED BY <1>1, <1>2, <1>3, <1>4, <1>5, <1>6, <1>7

\* The last file of a rotation, and the lasting names.
LEMMA Names ==
    ASSUME RotationIInv,
           RemoveNextKey \/ InstallPrevious \/ InstallPromoted
    PROVE  Safe'
  <1> USE DEF RotationIInv, Safe, Issued, Stored, Places, Identity, Known, Presenting,
              Order, Rotating, Torn, Agree, Issuing, RootTrusted, LeafTrusted, Installed,
              Held, Lasting, Reconciling, Promoting, Promoted, Turn, Notes, Other
  <1>1. CASE RemoveNextKey
    <2>1. /\ pc["cli"] = "removeNextKey" /\ disk' = [disk EXCEPT !.nextKey = 0] /\ disk \in Files
          /\ UNCHANGED <<roots, signer, due, presented, slots, trust, store, uninstalled, broken>>
      BY <1>1 DEF RemoveNextKey, ActorAt, docker, Kinds
    <2>2. \/ /\ job["cli"] = "activate" /\ Turn("cli", "idle", "none") /\ Notes("cli", 0, 0, 0)
          \/ /\ job["cli"] # "activate" /\ Turn("cli", "installPrevious", job["cli"])
             /\ UNCHANGED read
      BY <1>1, EndTurn, GotoTurn, Numbers DEF RemoveNextKey, Rest
    <2> USE <2>1, <2>2 DEF Files
    <2>3. Issued' /\ Stored' /\ Order'
      BY Numbers
    <2>4. Places' /\ Identity' /\ Presenting' /\ Rotating' /\ Torn'
      OBVIOUS
    <2>5. RootTrusted' /\ LeafTrusted'
      OBVIOUS
    <2> QED BY <2>3, <2>4, <2>5
  <1>2. CASE InstallPrevious
    <2>1. /\ pc["cli"] = "installPrevious" /\ Goto("cli", "installPromoted") /\ UNCHANGED job
          /\ Put("previous", disk.previous) \/ NotInstalled("previous", disk.previous)
          /\ UNCHANGED <<disk, roots, signer, due, read, presented, broken>>
      BY <1>2 DEF InstallPrevious, Install, Put, ActorAt, files
    <2>2. Turn("cli", "installPromoted", job["cli"])
      BY <2>1, GotoTurn, Numbers
    <2>3. disk.previous \in 1..MaxRoots /\ trust \in [Slots -> Roots]
      BY <2>1, Numbers DEF Kinds, Files
    <2>4. Issued' /\ Order'
      BY <2>1, <2>2, <2>3
    <2>8. Stored'
      BY <2>1, <2>3, StillStored
    <2>5. Places' /\ Identity' /\ Presenting' /\ Rotating' /\ Torn'
      BY <2>1, <2>2
    <2>9. /\ slots' = slots /\ trust'["next"] = trust["next"] /\ store \subseteq store'
          /\ trust'["current"] = trust["current"]
          /\ ~slots => store \cup uninstalled \subseteq store' \cup uninstalled'
      BY <2>1, <2>3 DEF Put, NotInstalled, Slots
    <2>6. RootTrusted'
      BY <2>1, <2>2, <2>9
    <2>7. LeafTrusted'
      BY <2>1, <2>2, <2>9
    <2> QED BY <2>4, <2>5, <2>6, <2>7, <2>8
  <1>3. CASE InstallPromoted
    <2>1. /\ pc["cli"] = "installPromoted" /\ End("cli")
          /\ Put("current", disk.ca) \/ NotInstalled("current", disk.ca)
          /\ UNCHANGED <<disk, roots, signer, due, presented, broken>>
      BY <1>3 DEF InstallPromoted, Install, Put, ActorAt, files
    <2>2. Turn("cli", "idle", "none") /\ Notes("cli", 0, 0, 0)
      BY <2>1, EndTurn, Numbers DEF Rest
    <2>3. disk.ca \in 1..MaxRoots /\ trust \in [Slots -> Roots]
      BY <2>1, Numbers DEF Kinds, Files
    <2>4. Issued' /\ Order'
      BY <2>1, <2>2, <2>3, Numbers DEF Kinds, Files
    <2>8. Stored'
      BY <2>1, <2>3, StillStored
    <2>5. Places' /\ Identity' /\ Presenting' /\ Rotating' /\ Torn'
      BY <2>1, <2>2
    <2>9. /\ slots' = slots /\ trust'["next"] = trust["next"] /\ store \subseteq store'
          /\ \/ disk.ca \in uninstalled'
             \/ IF slots THEN disk.ca = trust'["current"] ELSE disk.ca \in store'
          /\ ~slots => store \cup uninstalled \subseteq store' \cup uninstalled'
      BY <2>1, <2>3 DEF Put, NotInstalled, Slots
    <2>6. RootTrusted'
      BY <2>1, <2>2, <2>9
    <2>7. LeafTrusted'
      BY <2>1, <2>2, <2>9
    <2> QED BY <2>4, <2>5, <2>6, <2>7, <2>8
  <1> QED BY <1>1, <1>2, <1>3

-----------------------------------------------------------------------------
(* Every step.                                                             *)

\* An actor that returns an error is in no window.
LEMMA Fails ==
    ASSUME RotationIInv, NEW a \in Actors, Fail(a),
           pc[a] \notin Windows \cup DOMAIN Naming, Kinds'
    PROVE  RotationIInv'
  <1>1. Turn(a, Rest(a), "none") /\ Notes(a, 0, 0, 0)
    BY EndTurn DEF RotationIInv, Fail
  <1>2. UNCHANGED <<disk, roots, signer, due, presented, broken>> /\ Lapses(a)
    BY DEF Fail, files, Lapses
  <1>3. broken' = broken \cup ({pc[a]} \cap Windows)
    BY <1>2
  <1> QED BY <1>1, <1>2, <1>3, Stops

\* One whose process ends, or whose write fails, leaves its window in broken.
LEMMA Interrupts ==
    ASSUME RotationIInv, NEW a \in Actors,
           Killed(a) \/ AtomicWriteFails(a), Kinds'
    PROVE  RotationIInv'
  <1>1. CASE Killed(a)
    <2>1. Turn(a, "idle", "none") /\ Notes(a, 0, 0, 0)
      BY <1>1
      DEF Killed, RotationIInv, Kinds, Goto, Nothing, Turn, Notes, Other, Actors
    <2>2. /\ UNCHANGED <<disk, roots, signer, due>> /\ Lapses(a)
          /\ presented' = presented \/ (a = "gateway" /\ presented' = 0)
          /\ broken' = broken \cup ({pc[a]} \cap Windows)
      BY <1>1 DEF Killed, Interrupted, files
    <2> QED BY <2>1, <2>2, Stops
  <1>2. CASE AtomicWriteFails(a)
    <2>1. Turn(a, Rest(a), "none") /\ Notes(a, 0, 0, 0)
      BY <1>2, EndTurn DEF AtomicWriteFails, RotationIInv
    <2>2. /\ UNCHANGED <<disk, roots, signer, due, presented>> /\ Lapses(a)
          /\ broken' = broken \cup ({pc[a]} \cap Windows)
      BY <1>2 DEF AtomicWriteFails, Interrupted, files, Lapses, Naming, Writing
    <2> QED BY <2>1, <2>2, Stops
  <1> QED BY <1>1, <1>2

\* Every step of the model, by who takes it.
LEMMA Steps ==
    ASSUME RotationIInv, RotationNext
    PROVE  RotationIInv'
  <1>0. "gateway" \in Actors /\ "cli" \in Actors
    BY Numbers
  <1>1. Kinds'
    BY KindsStep DEF RotationIInv
  <1>2. ASSUME Safe'
        PROVE  RotationIInv'
    BY <1>1, <1>2 DEF Safe, RotationIInv
  <1>3. ASSUME NEW a \in Actors, Fail(a),
               pc[a] \in {"root", "key", "leaf", "reconciled", "loadKey", "prepare",
                          "preserve", "promoteLeaf"}
        PROVE  RotationIInv'
    BY <1>1, <1>3, Fails DEF Windows, Naming
  <1>4. ASSUME NEW a \in Actors, Reconcile(a) \/ Killed(a) \/ AtomicWriteFails(a)
        PROVE  RotationIInv'
    <2>1. CASE Killed(a) \/ AtomicWriteFails(a)
      BY <1>1, <2>1, Interrupts
    <2>2. CASE (RootRefused(a) \/ verifyIdentity(a) \/ RenewLeaf(a)) /\ Fail(a)
      BY <1>3, <2>2 DEF RootRefused, verifyIdentity, RenewLeaf, issueLeaf, ActorAt
    <2>3. CASE /\ Reconcile(a)
               /\ RootRefused(a) \/ verifyIdentity(a) \/ RenewLeaf(a) => ~Fail(a)
      BY <1>2, <2>3, Reconciles
    <2> QED BY <1>4, <2>1, <2>2, <2>3
  <1>5. CASE Serve \/ Maintain \/ runTLS
    BY <1>2, <1>5, Begins
  <1>6. CASE Gateway \/ StopServing
    <2>1. CASE (Reconciled("gateway") \/ ManagerReload) /\ Fail("gateway")
      BY <1>0, <1>3, <2>1 DEF Reconciled, ManagerReload, ActorAt
    <2>2. CASE Reconciled("gateway") \/ ManagerReload => ~Fail("gateway")
      BY <1>2, <1>6, <2>2, Serves
    <2> QED BY <2>1, <2>2
  <1>7. CASE Rotation
    <2>1. CASE PrepareRefused \/ ActivateRefused
      BY <1>0, <1>3, <2>1 DEF PrepareRefused, ActivateRefused, ActorAt
    <2>4. CASE InstallNextFails
      <3>1. Turn("cli", Rest("cli"), "none") /\ Notes("cli", 0, 0, 0)
        BY <1>0, <2>4, EndTurn DEF InstallNextFails, RotationIInv
      <3>2. /\ UNCHANGED <<disk, roots, signer, due, presented, broken>>
            /\ Lapses("cli") /\ {pc["cli"]} \cap Windows = {}
        BY <2>4 DEF InstallNextFails, ActorAt, Lapses, Naming, Windows, files
      <3> QED BY <1>0, <1>1, <3>1, <3>2, Stops
    <2>2. CASE (Reconciled("cli") \/ PromoteLeaf) /\ Fail("cli")
      BY <1>0, <1>3, <2>2 DEF Reconciled, PromoteLeaf, issueLeaf, ActorAt
    <2>3. CASE /\ Reconciled("cli") \/ PromoteLeaf => ~Fail("cli")
               /\ ~(PrepareRefused \/ InstallNextFails \/ ActivateRefused)
      BY <1>2, <1>7, <2>3, Prepares, Promotes, Names DEF Rotation
    <2> QED BY <2>1, <2>2, <2>3, <2>4
  <1>8. CASE ClearPreviousRoot \/ OperatorTrusts \/ LeafAges \/ PrepareKeyFails
    BY <1>2, <1>8, Operates
  <1> QED BY <1>4, <1>5, <1>6, <1>7, <1>8 DEF RotationNext

LEMMA Stutters ==
    ASSUME RotationIInv, UNCHANGED rotationVars
    PROVE  RotationIInv'
  <1>1. UNCHANGED <<disk, roots, signer, pc, job, read, presented, slots, trust, store, uninstalled, broken>>
    BY DEF rotationVars, files, docker
  <1>2. Kinds'
    BY <1>1 DEF RotationIInv, Kinds
  <1>3. (Issued /\ Stored /\ Places /\ Identity /\ Presenting /\ Order /\ Rotating)'
    BY <1>1
    DEF RotationIInv, Issued, Stored, Places, Identity, Known, Presenting, Order, Rotating
  <1>4. (Torn /\ RootTrusted /\ LeafTrusted)'
    BY <1>1
    DEF RotationIInv, Torn, Agree, Issuing, RootTrusted, LeafTrusted, Installed, Held
  <1> QED BY <1>2, <1>3, <1>4 DEF RotationIInv

LEMMA Starts ==
    ASSUME RotationInit
    PROVE  RotationIInv
  <1> USE DEF RotationInit
  <1>1. Kinds
    BY Numbers DEF Kinds, Files, Reads, Slots, Nothing
  <1>2. Issued
    BY RotationAssumption, Numbers DEF Issued, Nothing
  <1>3. Stored /\ Places /\ Identity /\ Presenting /\ Order /\ Rotating
    BY Numbers DEF Stored, Places, Identity, Known, Presenting, Order, Rotating, Nothing,
       Reconciling, Promoting
  <1>4. Torn /\ RootTrusted /\ LeafTrusted
    BY Numbers
    DEF Torn, Agree, Issuing, RootTrusted, LeafTrusted, Installed, Held, Promoted,
        Promoting, Reconciling
  <1> QED BY <1>1, <1>2, <1>3, <1>4 DEF RotationIInv

\* The two that are never anything but true or false.
Switches == due \in BOOLEAN /\ slots \in BOOLEAN

LEMMA SwitchesStay ==
    ASSUME Switches, [RotationNext]_rotationVars
    PROVE  Switches'
  <1> USE DEF files, docker, Fail, Begin, Write, Install, NotInstalled, Lapses
  <1>1. slots' = slots
    <2>1. CASE UNCHANGED rotationVars
      BY <2>1 DEF rotationVars
    <2>2. ASSUME NEW a \in Actors, Reconcile(a) \/ Killed(a) \/ AtomicWriteFails(a)
          PROVE  slots' = slots
      BY <2>2
      DEF Reconcile, LoadRoot, RootRefused, CreateKey, CreateIdentity,
          verifyIdentity, LeafCurrent, RenewLeaf, RenewLeafKey, issueLeaf,
          Killed, AtomicWriteFails
    <2>3. CASE \/ Serve \/ Maintain \/ Gateway \/ StopServing \/ runTLS
               \/ ClearPreviousRoot
               \/ PrepareKeyFails \/ OperatorTrusts \/ LeafAges
      BY <2>3
      DEF Serve, Maintain, Gateway, Reconciled, InstallCurrent, LoadCertificate,
          ManagerReload, StopServing, runTLS, ClearPreviousRoot, PrepareKeyFails,
          OperatorTrusts, LeafAges
    <2>4. CASE Rotation
      BY <2>4
      DEF Rotation, PrepareRefused, PrepareRootRotation, PrepareKey, InstallNext,
          InstallNextFails, ActivateRefused, PreserveRoot, PromoteRoot,
          PromoteKey, PromoteIdentity, PromoteLeaf, issueLeaf, PromoteLeafKey,
          RemoveNext, RemoveNextKey, Reconciled, InstallPrevious, InstallPromoted,
          InstallCurrent
    <2> QED BY <2>1, <2>2, <2>3, <2>4 DEF RotationNext
  <1>2. due' = due \/ due' = TRUE \/ due' = FALSE
    <2>1. CASE UNCHANGED rotationVars
      BY <2>1 DEF rotationVars
    <2>2. ASSUME NEW a \in Actors, Reconcile(a) \/ Killed(a) \/ AtomicWriteFails(a)
          PROVE  due' = due \/ due' = TRUE \/ due' = FALSE
      BY <2>2
      DEF Reconcile, LoadRoot, RootRefused, CreateKey, CreateIdentity,
          verifyIdentity, LeafCurrent, RenewLeaf, RenewLeafKey, issueLeaf,
          Killed, AtomicWriteFails
    <2>3. CASE \/ Serve \/ Maintain \/ Gateway \/ StopServing \/ runTLS
               \/ ClearPreviousRoot
               \/ PrepareKeyFails \/ OperatorTrusts \/ LeafAges
      BY <2>3
      DEF Serve, Maintain, Gateway, Reconciled, InstallCurrent, LoadCertificate,
          ManagerReload, StopServing, runTLS, ClearPreviousRoot, PrepareKeyFails,
          OperatorTrusts, LeafAges
    <2>4. CASE Rotation
      BY <2>4
      DEF Rotation, PrepareRefused, PrepareRootRotation, PrepareKey, InstallNext,
          InstallNextFails, ActivateRefused, PreserveRoot, PromoteRoot,
          PromoteKey, PromoteIdentity, PromoteLeaf, issueLeaf, PromoteLeafKey,
          RemoveNext, RemoveNextKey, Reconciled, InstallPrevious, InstallPromoted,
          InstallCurrent
    <2> QED BY <2>1, <2>2, <2>3, <2>4 DEF RotationNext
  <1> QED BY <1>1, <1>2, Zenon DEF Switches

-----------------------------------------------------------------------------
(* What the invariant implies.                                             *)

LEMMA TypesHold ==
    ASSUME RotationIInv, Switches
    PROVE  RotationTypeOK
  <1>1. /\ disk \in Files /\ roots \in Roots /\ read \in [Actors -> Reads]
        /\ trust \in [Slots -> Roots] /\ signer \in Seq(1..MaxRoots)
        /\ presented \in 0..Len(signer) /\ store \subseteq 1..MaxRoots
        /\ uninstalled \subseteq 1..MaxRoots
    BY DEF RotationIInv, Kinds, Issued, Stored
  <1>2. job \in [Actors -> {"none", "start", "maintain", "reconcile", "rotate", "prepare",
                            "activate", "promote"}]
    BY DEF RotationIInv, Kinds, Places, Actors
  <1>3. pc \in [Actors -> Writing \cup {"idle", "serving", "root", "key", "reconciled",
                 "installCurrent", "load", "loadKey", "prepare", "installNext",
                 "installPrevious", "installPromoted"}]
    BY DEF RotationIInv, Kinds, Places, Actors, Writing, Reconciling, Promoting
  <1>4. due \in BOOLEAN /\ slots \in BOOLEAN
    BY DEF Switches
  <1> QED BY <1>1, <1>2, <1>3, <1>4 DEF RotationTypeOK, Files, Reads, Slots

LEMMA WindowsBreak ==
    ASSUME RotationIInv
    PROVE  OnlyWindowsBreak
  BY DEF RotationIInv, Torn, OnlyWindowsBreak, Quiet, ActorAt, Issuing

LEMMA Trusts ==
    ASSUME RotationIInv
    PROVE  ServedTrusted
  <1> SUFFICES ASSUME presented # 0, "replaced" \notin broken
               PROVE  \/ signer[presented] \in Trusted \cup uninstalled
                      \/ slots /\ signer[presented] # disk.ca
    BY DEF ServedTrusted
  <1>1. CASE slots /\ signer[presented] = disk.ca
    <2>1. disk.ca \in store \cup uninstalled \cup {trust["current"], trust["previous"], trust["next"]}
      BY <1>1 DEF RotationIInv, RootTrusted, Installed
    <2>2. DOMAIN trust = Slots
      BY DEF RotationIInv, Kinds
    <2> QED BY <1>1, <2>1, <2>2 DEF Trusted, Slots
  <1>2. CASE ~slots
    BY <1>2 DEF RotationIInv, LeafTrusted, Trusted
  <1> QED BY <1>1, <1>2

\* Reconcile, the rotation and the reload of the served pair keep files, trust and
\* actors well typed, and leave the root's three files, the pending root or the
\* pair of the certificate torn only when they are interrupted, or race, between
\* the two writes in question (reconcile.go:70-248).
THEOREM RotationKeepsFiles == RotationSpec => []RotationInv
  <1>1. RotationInit => RotationIInv /\ Switches
    BY Starts, Zenon DEF RotationInit, Switches
  <1>2. RotationIInv /\ Switches /\ [RotationNext]_rotationVars => RotationIInv' /\ Switches'
    <2>1. RotationIInv /\ [RotationNext]_rotationVars => RotationIInv'
      BY Steps, Stutters
    <2> QED BY <2>1, SwitchesStay
  <1>3. RotationIInv /\ Switches => RotationInv
    BY TypesHold, WindowsBreak DEF RotationInv
  <1> QED BY <1>1, <1>2, <1>3, PTL DEF RotationSpec

\* The gateway presents no certificate that Docker does not trust, but those of a
\* root whose installation under a lasting name was skipped, refused or interrupted:
\* a command that promotes a root has had it installed, the root in use is never
\* among those a later installation overwrites, and every certificate that may come
\* to be presented is signed by a root that was in use (cli.go:183-216, 551-587).
THEOREM PresentedIsTrusted == RotationSpec => []ServedTrusted
  <1>1. RotationInit => RotationIInv
    BY Starts
  <1>2. RotationIInv /\ [RotationNext]_rotationVars => RotationIInv'
    BY Steps, Stutters
  <1>3. RotationIInv => ServedTrusted
    BY Trusts
  <1> QED BY <1>1, <1>2, <1>3, PTL DEF RotationSpec
=============================================================================
