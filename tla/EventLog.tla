-------------------------------- MODULE EventLog --------------------------------
(***************************************************************************)
(* The daily files of drg's event log: gateway processes that append events  *)
(* and keep the log within its size and age, and a `drg logs --follow` that  *)
(* shows the newest events and then those that come.  Each process has a     *)
(* Log, and so a mutex, of its own.                                          *)
(*                                                                         *)
(* A line is written in two parts, so that a reader may see the first alone, *)
(* and a disk that is full or a process that ends may leave it so.  The      *)
(* system lets nobody write between the parts.  A file was last modified on  *)
(* its own day, give or take the write that midnight overtakes.              *)
(***************************************************************************)
EXTENDS Integers, Sequences, FiniteSets, Functions

CONSTANTS Writers,      \* gateway processes
          Days,         \* bound on the days that pass
          MaxEvents,    \* bound on the events that are written
          Retention,    \* event_retention, in days
          MaxSize,      \* event_max_bytes, in parts of lines
          Limit         \* how many events of the history are shown

ASSUME EventLogAssumption ==
    /\ Days \in Nat \ {0} /\ MaxEvents \in Nat /\ Retention \in Nat
    /\ MaxSize \in Nat /\ MaxSize >= 2 /\ Limit \in Nat \ {0}
    /\ IsFiniteSet(Writers)

VARIABLES
    day,        \* today
    file,       \* by day: the parts of lines in its file, or that there is none
    order,      \* the days that have a file, least recently modified first
    events,     \* how many events were to be written so far
    writer,     \* what each process does for its event
    follower,   \* what the follower does, and the paths it still has to do it for
    cursor,     \* by day: how far the follower has read, and the line it is in
    shown,      \* events shown
    again,      \* events shown a second time
    owed        \* history: events and removed files since the cursors were captured

logVars == <<day, file, order, events, writer, follower, cursor, shown, again, owed>>

NoFile == <<>>
Resting == [at |-> "idle", event |-> 0, day |-> 0, doomed |-> <<>>]
NoCursor == [offset |-> -1, pending |-> <<>>]

LogInit ==
    /\ day = 1 /\ events = 0 /\ order = <<>>
    /\ file = [d \in 1..Days |-> NoFile]
    /\ writer = [p \in Writers |-> Resting]
    /\ follower = [at |-> "idle", todo |-> {}, gathered |-> <<>>, seen |-> {}]
    /\ cursor = [d \in 1..Days |-> NoCursor]
    /\ shown = {} /\ again = {}
    /\ owed = [events |-> {}, removed |-> {}]

Present == {d \in 1..Days : file[d] # NoFile}

\* How many parts of lines these days' files hold.
Total(files, days) ==
    LET total[n \in 0..Days] ==
            IF n = 0 THEN 0 ELSE total[n - 1] + (IF n \in days THEN Len(files[n]) ELSE 0)
    IN  total[Days]

-----------------------------------------------------------------------------
(* Lines: the two parts of an event, the second with the newline.             *)

Begun(e) == [event |-> e, part |-> "first"]
Ended(e) == [event |-> e, part |-> "last"]

Ends(s) == {i \in 1..Len(s) : s[i].part = "last"}
LastEnd(s) == CHOOSE i \in {0} \cup Ends(s) : \A j \in Ends(s) : j <= i

\* A line that can be decoded ends here: one that begins with the torn first part of
\* another cannot.
WholeAt(s, i) ==
    /\ i \in Ends(s) /\ i > 1 /\ s[i - 1] = Begun(s[i].event)
    /\ i > 2 => s[i - 2].part = "last"

\* The events of the lines that can be decoded, in order.
Decoded(s) ==
    LET decoded[n \in 0..Len(s)] ==
            IF n = 0 THEN <<>>
            ELSE IF WholeAt(s, n) THEN Append(decoded[n - 1], s[n].event) ELSE decoded[n - 1]
    IN  decoded[Len(s)]

-----------------------------------------------------------------------------
(* Write: cleanupLocked, then one line is appended to today's file.           *)

\* A list of days without these.
Without(list, days) ==
    LET rest[n \in 0..Len(list)] ==
            IF n = 0 THEN <<>>
            ELSE IF list[n] \in days THEN rest[n - 1] ELSE Append(rest[n - 1], list[n])
    IN  rest[Len(list)]

\* What a cleanup removes to make room: the least recently modified files.
Doomed(kept, incoming) ==
    LET room(n) == Total(file, Range(SubSeq(kept, n + 1, Len(kept)))) + incoming <= MaxSize
    IN  SubSeq(kept, 1, CHOOSE n \in 0..Len(kept) :
                            /\ room(n) \/ n = Len(kept)
                            /\ \A m \in 0..(n - 1) : ~room(m))

RemoveFiles(days) ==
    /\ file' = [d \in 1..Days |-> IF d \in days THEN NoFile ELSE file[d]]
    /\ order' = Without(order, days)
    /\ owed' = [owed EXCEPT !.removed = @ \cup {d \in days : cursor[d] # NoCursor}]

\* The directory is listed and what is too old removed.  A plausible slip: the
\* event to come is not counted.
BeginUncounted(p) ==
    /\ writer[p] = Resting /\ events < MaxEvents
    /\ events' = events + 1
    /\ LET old == {d \in Present : d + Retention < day}
           kept == Without(order, old)
       IN  /\ RemoveFiles(old)
           /\ writer' = [writer EXCEPT ![p] = [at |-> "cleaning", event |-> events + 1,
                                               day |-> day, doomed |-> Doomed(kept, 0)]]
    /\ UNCHANGED <<day, follower, cursor, shown, again>>

\* The directory is listed and what is too old removed.
Begin(p) ==
    /\ writer[p] = Resting /\ events < MaxEvents
    /\ events' = events + 1
    /\ LET old == {d \in Present : d + Retention < day}
           kept == Without(order, old)
       IN  /\ RemoveFiles(old)
           /\ writer' = [writer EXCEPT ![p] = [at |-> "cleaning", event |-> events + 1,
                                               day |-> day, doomed |-> Doomed(kept, 2)]]
    /\ UNCHANGED <<day, follower, cursor, shown, again>>

\* A file that another process has removed meanwhile costs the event.
RemoveNext(p) ==
    /\ writer[p].at = "cleaning" /\ writer[p].doomed # <<>>
    /\ LET d == writer[p].doomed[1]
       IN  IF d \in Present
           THEN /\ RemoveFiles({d})
                /\ writer' = [writer EXCEPT ![p].doomed = SubSeq(@, 2, Len(@))]
           ELSE /\ writer' = [writer EXCEPT ![p] = Resting]
                /\ UNCHANGED <<file, order, owed>>
    /\ UNCHANGED <<day, events, follower, cursor, shown, again>>

\* The first part of the line that p writes is the last thing in its file.
Unfinished(p) ==
    LET w == writer[p]
    IN  w.at = "appending" /\ file[w.day] # NoFile /\ file[w.day][Len(file[w.day])] = Begun(w.event)

\* The file is opened, or made, and the line begun.
BeginLine(p) ==
    /\ writer[p].at = "cleaning" /\ writer[p].doomed = <<>>
    /\ LET d == writer[p].day
       IN  /\ \A q \in Writers : ~(Unfinished(q) /\ writer[q].day = d)
           /\ file' = [file EXCEPT ![d] = Append(@, Begun(writer[p].event))]
           /\ order' = Append(Without(order, {d}), d)
    /\ writer' = [writer EXCEPT ![p].at = "appending"]
    /\ UNCHANGED <<day, events, follower, cursor, shown, again, owed>>

\* The line ends, in a file that may have been removed meanwhile.
EndLine(p) ==
    /\ writer[p].at = "appending"
    /\ LET d == writer[p].day
           e == writer[p].event
       IN  IF Unfinished(p)
           THEN /\ file' = [file EXCEPT ![d] = Append(@, Ended(e))]
                /\ owed' = [owed EXCEPT !.events =
                       IF follower.at \in {"reading", "first", "draining"}
                          /\ d \notin owed.removed /\ e \in Range(Decoded(file'[d]))
                       THEN @ \cup {e} ELSE @]
           ELSE UNCHANGED <<file, owed>>
    /\ writer' = [writer EXCEPT ![p] = Resting]
    /\ UNCHANGED <<day, order, events, follower, cursor, shown, again>>

\* The disk is full, or the process ends.
Tear(p) ==
    /\ writer[p].at = "appending"
    /\ writer' = [writer EXCEPT ![p] = Resting]
    /\ UNCHANGED <<day, file, order, events, follower, cursor, shown, again, owed>>

Midnight ==
    /\ day < Days
    /\ day' = day + 1
    /\ UNCHANGED <<file, order, events, writer, follower, cursor, shown, again, owed>>

-----------------------------------------------------------------------------
(* Follow: captureCursors, Read, then drain again and again.                  *)

Paths(at) == follower' = [follower EXCEPT !.at = at, !.todo = Present]

\* Paths are taken in the order of their names.
Turn(d) == d \in follower.todo /\ \A e \in follower.todo : d <= e
Done(d) == [follower EXCEPT !.todo = @ \ {d}]
Fail == follower' = [follower EXCEPT !.at = "failed", !.todo = {}, !.gathered = <<>>]

\* The command is given, again if it failed: it had shown nothing then.
Follow ==
    /\ follower.at \in {"idle", "failed"}
    /\ follower' = [at |-> "capturing", todo |-> Present, gathered |-> <<>>, seen |-> {}]
    /\ cursor' = [d \in 1..Days |-> NoCursor]
    /\ owed' = [events |-> {}, removed |-> {}]
    /\ UNCHANGED <<day, file, order, events, writer, shown, again>>

\* A plausible slip: the cursor is the size of the file.
CaptureSize(d) ==
    /\ follower.at = "capturing" /\ Turn(d)
    /\ IF d \in Present
       THEN /\ cursor' = [cursor EXCEPT ![d] = [offset |-> Len(file[d]), pending |-> <<>>]]
            /\ follower' = Done(d)
       ELSE Fail /\ UNCHANGED cursor
    /\ UNCHANGED <<day, file, order, events, writer, shown, again, owed>>

\* lastCompleteOffset; a file that has vanished since the listing is an error.
Capture(d) ==
    /\ follower.at = "capturing" /\ Turn(d)
    /\ IF d \in Present
       THEN /\ cursor' = [cursor EXCEPT ![d] = [offset |-> LastEnd(file[d]), pending |-> <<>>]]
            /\ follower' = Done(d)
       ELSE Fail /\ UNCHANGED cursor
    /\ UNCHANGED <<day, file, order, events, writer, shown, again, owed>>

Captured ==
    /\ follower.at = "capturing" /\ follower.todo = {}
    /\ Paths("reading")
    /\ UNCHANGED <<day, file, order, events, writer, cursor, shown, again, owed>>

ReadPath(d) ==
    /\ follower.at = "reading" /\ Turn(d)
    /\ IF d \in Present
       THEN follower' = [Done(d) EXCEPT !.gathered = @ \o Decoded(file[d])]
       ELSE Fail
    /\ UNCHANGED <<day, file, order, events, writer, cursor, shown, again, owed>>

Show(new) ==
    /\ shown' = shown \cup new
    /\ again' = again \cup (shown \cap new)

\* The newest events are shown, and known to the first drain.
ShowHistory ==
    /\ follower.at = "reading" /\ follower.todo = {}
    /\ LET g == follower.gathered
           new == Range(SubSeq(g, IF Len(g) > Limit THEN Len(g) - Limit + 1 ELSE 1, Len(g)))
       IN  /\ Show(new)
           /\ follower' = [at |-> "first", todo |-> Present, gathered |-> <<>>, seen |-> new]
    /\ UNCHANGED <<day, file, order, events, writer, cursor, owed>>

\* A path that is new is read from its start, one that is shorter than it was, again.
Current(d) ==
    IF cursor[d] = NoCursor \/ Len(file[d]) < cursor[d].offset
    THEN [offset |-> 0, pending |-> <<>>] ELSE cursor[d]

\* A plausible slip: what the history has shown is not asked about.
DrainPathAgain(d) ==
    /\ follower.at \in {"first", "draining"} /\ Turn(d)
    /\ follower' = Done(d)
    /\ IF d \in Present
       THEN LET c == Current(d)
                s == c.pending \o SubSeq(file[d], c.offset + 1, Len(file[d]))
            IN  /\ cursor' = [cursor EXCEPT ![d] =
                       [offset |-> Len(file[d]), pending |-> SubSeq(s, LastEnd(s) + 1, Len(s))]]
                /\ Show(Range(Decoded(s)))
       ELSE UNCHANGED <<cursor, shown, again>>
    /\ UNCHANGED <<day, file, order, events, writer, owed>>

\* What was appended is shown, line by line; the rest of a line waits.
DrainPath(d) ==
    /\ follower.at \in {"first", "draining"} /\ Turn(d)
    /\ follower' = Done(d)
    /\ IF d \in Present
       THEN LET c == Current(d)
                s == c.pending \o SubSeq(file[d], c.offset + 1, Len(file[d]))
            IN  /\ cursor' = [cursor EXCEPT ![d] =
                       [offset |-> Len(file[d]), pending |-> SubSeq(s, LastEnd(s) + 1, Len(s))]]
                /\ Show(Range(Decoded(s)) \ follower.seen)
       ELSE UNCHANGED <<cursor, shown, again>>
    /\ UNCHANGED <<day, file, order, events, writer, owed>>

\* After the first drain nothing is remembered of the history.
Drained ==
    /\ follower.at \in {"first", "draining"} /\ follower.todo = {}
    /\ follower' = [at |-> "draining", todo |-> Present, gathered |-> <<>>, seen |-> {}]
    /\ UNCHANGED <<day, file, order, events, writer, cursor, shown, again, owed>>

-----------------------------------------------------------------------------
Writes == \E p \in Writers : Begin(p) \/ RemoveNext(p) \/ BeginLine(p) \/ EndLine(p) \/ Tear(p)

Follows ==
    \/ Captured \/ ShowHistory \/ Drained
    \/ \E d \in 1..Days : Capture(d) \/ ReadPath(d) \/ DrainPath(d)

LogNext == Writes \/ Midnight \/ Follow \/ Follows

\* A follower that has begun goes on; nothing is assumed of the gateways.
LogSpec == LogInit /\ [][LogNext]_logVars /\ WF_logVars(Follows)

-----------------------------------------------------------------------------
\* The range of every variable; the days in order are those that have a file.
LogTypeOK ==
    /\ day \in 1..Days /\ events \in 0..MaxEvents
    /\ \A d \in 1..Days : \A i \in 1..Len(file[d]) :
          file[d][i] \in [event : 1..events, part : {"first", "last"}]
    /\ Range(order) = Present /\ Len(order) = Cardinality(Present)
    /\ \A p \in Writers :
          /\ writer[p].at \in {"idle", "cleaning", "appending"}
          /\ writer[p] # Resting => writer[p].event \in 1..events /\ writer[p].day \in 1..day
    /\ follower.at \in {"idle", "capturing", "reading", "first", "draining", "failed"}
    /\ follower.todo \subseteq 1..Days
    /\ \A d \in 1..Days : cursor[d] # NoCursor => cursor[d].offset \in Nat
    /\ shown \cup again \cup owed.events \subseteq 1..events /\ owed.removed \subseteq 1..Days

\* An event is shown once, though the history and the first drain overlap, files
\* are cut off and made again, and lines are seen half written (eventlog.go:217-330).
FollowedOnce == again = {}

\* A whole line, appended after the cursors were captured to a file of which no
\* predecessor was followed, is still there and not shown.
Owing(e) ==
    /\ e \in owed.events \ shown /\ follower.at # "failed"
    /\ \E d \in 1..Days : Ended(e) \in Range(file[d]) /\ d \notin owed.removed

\* Every event that is appended afterwards is shown or removed with its file, unless
\* an earlier file of its day was removed while it was followed
\* (eventlog.go:188-224).
FollowedAll == \A e \in 1..MaxEvents : []<>~Owing(e)

\* The log is no larger than it may be, but for one event of each other process
\* that counted before (eventlog.go:103-146).
SizeBounded == Total(file, Present) <= MaxSize + 2 * (Cardinality(Writers) - 1)

\* Types, and the bound on the size of the log (eventlog.go:103-146).
LogInv == LogTypeOK /\ SizeBounded
=============================================================================
