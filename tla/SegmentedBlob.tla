---------------------------- MODULE SegmentedBlob ----------------------------
(***************************************************************************)
(* One segmented pull: trySegmentedBlob, the goroutines that download the  *)
(* segments to temporary files, the segmentedReader that hands them out in *)
(* order, its fallback to a single stream, and the TempBudget it shares    *)
(* with the other pulls.  Each stream behind it is one of openBlob's       *)
(* (module BlobStream), of which only the success or failure matters here. *)
(***************************************************************************)
EXTENDS SegmentPlan, Sequences, FiniteSets

CONSTANTS Maximum, Minimum,  \* max_segments_per_blob, min_segment_size
          Limit              \* temporary_disk_quota

ASSUME SegmentedAssumption ==
    /\ Maximum \in Nat /\ Minimum \in Int
    /\ Limit \in Nat

VARIABLES
    pc,         \* where the request's goroutine is
    size,       \* the blob's size as the Provider tells it, 0 before the probe
    gone,       \* the downstream client has left
    cancelled,  \* downloadContext is cancelled on its own account
    goroutine,  \* where each segment's goroutine is
    ready,      \* the result each has sent
    files,      \* segments whose temporary file is on disk
    used,       \* the budget's counter
    others,     \* bytes of it reserved by other pulls
    cleaned,    \* the reader's cleanup has run
    after,      \* what follows the cleanup in progress
    current,    \* segment being handed out
    position,   \* next byte of the open file, -1 when none is open
    pending,    \* the reader's pendingFallback is set
    delivered,  \* positions handed downstream, in order
    outcome     \* how the pull ended

client   == <<size, gone>>
budget   == <<used, others>>
download == <<cancelled, goroutine, ready, files>>
reader   == <<cleaned, after, current, position, pending, delivered>>
vars     == <<pc, client, download, budget, reader, outcome>>

Closed == -1

\* The plan: no segment, a few, or as many goroutines as are configured.
Count == SegmentCount(size, Maximum, Minimum)
Segments == 0..(Count - 1)
Storage == StorageBytes(size, Count)
Slots == 0..(Maximum - 1)

Init ==
    /\ pc = "idle" /\ size = 0 /\ gone = FALSE /\ cancelled = FALSE
    /\ goroutine = [i \in Slots |-> "none"]
    /\ ready = [i \in Slots |-> "empty"]
    /\ files = {}
    /\ used = 0 /\ others = 0
    /\ cleaned = FALSE /\ after = "none"
    /\ current = 0 /\ position = Closed /\ pending = FALSE /\ delivered = <<>>
    /\ outcome = "none"

\* A plausible slip: the downloads run on a context of their own.
CancelledDetached == cancelled

\* The context of the downloads derives from the client's.
Cancelled == cancelled \/ gone

-----------------------------------------------------------------------------
(* TempBudget.                                                             *)

Acquire(n) == n \in 1..(Limit - used)

\* Without a plan, a Range or room on the disk, the pull is a single stream.
GoSingle ==
    /\ pc \in {"idle", "planned"}
    /\ pc = "planned" => Count < 2 \/ ~Acquire(Storage)
    /\ pc' = "closed"
    /\ outcome' = "single"
    /\ UNCHANGED <<client, download, budget, reader>>

\* A Range of one byte tells the size, which is whatever the Provider claims.
Probe ==
    /\ pc = "idle" /\ ~gone
    /\ size' \in 1..(Half - 1)
    /\ pc' = "planned"
    /\ UNCHANGED <<gone, download, budget, reader, outcome>>

Reserve ==
    /\ pc = "planned"
    /\ Count >= 2 /\ Acquire(Storage)
    /\ used' = used + Storage
    /\ pc' = "reserved"
    /\ UNCHANGED <<client, download, others, reader, outcome>>

StartFails ==
    /\ pc = "reserved"
    /\ used' = used - Storage
    /\ pc' = "closed"
    /\ outcome' = "single"
    /\ UNCHANGED <<client, download, others, reader>>

Start ==
    /\ pc = "reserved"
    /\ goroutine' = [i \in Slots |-> IF i \in Segments THEN "opening" ELSE "none"]
    /\ pc' = "body"
    /\ UNCHANGED <<client, cancelled, ready, files, budget, reader, outcome>>

-----------------------------------------------------------------------------
(* downloadSegment, one goroutine per segment.                             *)

\* A plausible slip: a failed segment does not stop the others.
EndAlone(i, result) ==
    /\ goroutine' = [goroutine EXCEPT ![i] = "ended"]
    /\ ready' = [ready EXCEPT ![i] = result]
    /\ UNCHANGED <<pc, client, cancelled, budget, reader, outcome>>

\* The goroutine's end: a failure cancels all downloads, the result is sent.
End(i, result) ==
    /\ goroutine' = [goroutine EXCEPT ![i] = "ended"]
    /\ ready' = [ready EXCEPT ![i] = result]
    /\ cancelled' = (cancelled \/ result # "ok")
    /\ UNCHANGED <<pc, client, budget, reader, outcome>>

OpenSegment(i) ==
    /\ goroutine[i] = "opening" /\ ~Cancelled
    /\ goroutine' = [goroutine EXCEPT ![i] = "opened"]
    /\ UNCHANGED <<pc, client, cancelled, ready, files, budget, reader, outcome>>

\* No Provider serves the range, one serves another range, or the context ends.
OpenSegmentFails(i) ==
    /\ goroutine[i] = "opening"
    /\ End(i, "other")
    /\ UNCHANGED files

CreateFile(i) ==
    /\ goroutine[i] = "opened"
    /\ goroutine' = [goroutine EXCEPT ![i] = "copying"]
    /\ files' = files \cup {i}
    /\ UNCHANGED <<pc, client, cancelled, ready, budget, reader, outcome>>

CreateFileFails(i) ==
    /\ goroutine[i] = "opened"
    /\ End(i, "storage")
    /\ UNCHANGED files

CopyEnds(i) ==
    /\ goroutine[i] = "copying"
    /\ End(i, "ok")
    /\ UNCHANGED files

\* A full disk, a broken stream and a cancelled one all count as storage failures.
CopyFails(i) ==
    /\ goroutine[i] = "copying"
    /\ files' = files \ {i}
    /\ End(i, "storage")

-----------------------------------------------------------------------------
(* segmentedReader.                                                        *)

\* Read: the failures that shouldFallback accepts lead to the single stream,
\* all others end the pull.
Fail(cause) ==
    /\ after' = IF cause = "storage" /\ ~gone THEN "fallback" ELSE "abort"
    /\ pc' = "cleaning"
    /\ UNCHANGED <<client, download, budget, cleaned, current, position, pending,
                   delivered, outcome>>

InSegments == pc = "body" /\ after = "none" /\ ~pending

SegmentFailed ==
    /\ InSegments /\ position = Closed
    /\ ready[current] \in {"storage", "other"}
    /\ Fail(ready[current])

\* The overlap with the left neighbour disagrees.
OverlapDiffers ==
    /\ InSegments /\ position = Closed
    /\ ready[current] = "ok" /\ current > 0
    /\ Fail("other")

\* Opening, comparing or reading a file fails.
FileFails ==
    /\ InSegments /\ ready[current] = "ok"
    /\ Fail("storage")

\* A plausible slip: the file is read from its first byte, overlap included.
OpenFileUnseeked ==
    /\ InSegments /\ position = Closed
    /\ ready[current] = "ok" /\ current \in files
    /\ current > 0 => current - 1 \in files
    /\ position' = PhysicalFirst(size, Count, current)
    /\ UNCHANGED <<pc, client, download, budget, cleaned, after, current, pending,
                   delivered, outcome>>

\* The segment's file is opened where its own bytes begin.
OpenFile ==
    /\ InSegments /\ position = Closed
    /\ ready[current] = "ok" /\ current \in files
    /\ current > 0 => current - 1 \in files
    /\ position' = First(size, Count, current)
    /\ UNCHANGED <<pc, client, download, budget, cleaned, after, current, pending,
                   delivered, outcome>>

\* n bytes of the segment are read, with or without an error behind them (with
\* the client gone such an error ends the pull as in FileFails).
ReadFile(n, failed) ==
    /\ InSegments /\ position # Closed
    /\ n > 0 /\ position + n <= Last(size, Count, current) + 1
    /\ failed => ~gone
    /\ delivered' = delivered \o [k \in 1..n |-> position + k - 1]
    /\ pending' = failed
    /\ IF position + n = Last(size, Count, current) + 1 /\ ~failed
       THEN position' = Closed /\ current' = current + 1
       ELSE position' = position + n /\ UNCHANGED current
    /\ pc' = "write"
    /\ UNCHANGED <<client, download, budget, cleaned, after, outcome>>

\* A failure met behind delivered bytes is dealt with by the next Read.
PendingFallback ==
    /\ pc = "body" /\ pending
    /\ pending' = FALSE
    /\ after' = "fallback"
    /\ pc' = "cleaning"
    /\ UNCHANGED <<client, download, budget, cleaned, current, position, delivered, outcome>>

-----------------------------------------------------------------------------
(* cleanup, once: cancel, wait for every goroutine, close, remove, release. *)

CleanupCancels ==
    /\ pc = "cleaning" /\ ~cleaned
    /\ cancelled' = TRUE
    /\ pc' = "joining"
    /\ UNCHANGED <<client, goroutine, ready, files, budget, reader, outcome>>

\* A plausible slip: the files are removed without waiting for the goroutines.
CleanupRemovesUnjoined ==
    /\ pc = "joining"
    /\ files' = {}
    /\ position' = Closed
    /\ pc' = "removed"
    /\ UNCHANGED <<client, cancelled, goroutine, ready, budget, cleaned, after, current,
                   pending, delivered, outcome>>

CleanupRemoves ==
    /\ pc = "joining"
    /\ \A i \in Segments : goroutine[i] = "ended"
    /\ files' = {}
    /\ position' = Closed
    /\ pc' = "removed"
    /\ UNCHANGED <<client, cancelled, goroutine, ready, budget, cleaned, after, current,
                   pending, delivered, outcome>>

\* A plausible slip: no once, so that Close releases what a fallback released.
CleanupReleasesTwice ==
    /\ pc = "removed" \/ (pc = "cleaning" /\ cleaned)
    /\ used' = used - Storage
    /\ cleaned' = TRUE
    /\ pc' = after
    /\ UNCHANGED <<client, download, others, after, current, position, pending,
                   delivered, outcome>>

CleanupReleases ==
    /\ pc = "removed" \/ (pc = "cleaning" /\ cleaned)
    /\ used' = IF cleaned THEN used ELSE used - Storage
    /\ cleaned' = TRUE
    /\ pc' = after
    /\ UNCHANGED <<client, download, others, after, current, position, pending,
                   delivered, outcome>>

-----------------------------------------------------------------------------
(* The fallback and the handler.                                           *)

OpenFallback ==
    /\ pc = "fallback" /\ ~gone
    /\ pc' = "body"
    /\ UNCHANGED <<client, download, budget, reader, outcome>>

OpenFallbackFails ==
    /\ pc = "fallback"
    /\ pc' = "abort"
    /\ UNCHANGED <<client, download, budget, reader, outcome>>

\* The single stream continues at the byte owed.
ReadFallback(n) ==
    /\ pc = "body" /\ after = "fallback" /\ ~pending
    /\ n > 0 /\ Len(delivered) + n <= size
    /\ delivered' = delivered \o [k \in 1..n |-> Len(delivered) + k - 1]
    /\ pc' = "write"
    /\ UNCHANGED <<client, download, budget, cleaned, after, current, position,
                   pending, outcome>>

ReadFallbackFails ==
    /\ pc = "body" /\ after = "fallback" /\ ~pending
    /\ pc' = "abort"
    /\ UNCHANGED <<client, download, budget, reader, outcome>>

Finish(how) ==
    /\ outcome' = how
    /\ after' = "closed"
    /\ pc' = "cleaning"
    /\ UNCHANGED <<client, download, budget, cleaned, current, position, pending, delivered>>

\* The handler writes what it has read; its LimitReader ends the copy at the
\* blob's size, and its deferred Close cleans up.
Write ==
    /\ pc = "write" /\ Len(delivered) < size
    /\ pc' = "body"
    /\ UNCHANGED <<client, download, budget, reader, outcome>>

Complete == pc = "write" /\ Len(delivered) = size /\ Finish("complete")
WriteFails == pc = "write" /\ gone /\ Finish("gone")
Abort == pc = "abort" /\ Finish("aborted")

NextPull ==
    /\ pc = "closed"
    /\ pc' = "idle" /\ size' = 0 /\ gone' = FALSE /\ cancelled' = FALSE
    /\ goroutine' = [i \in Slots |-> "none"]
    /\ ready' = [i \in Slots |-> "empty"]
    /\ cleaned' = FALSE /\ after' = "none"
    /\ current' = 0 /\ position' = Closed /\ pending' = FALSE /\ delivered' = <<>>
    /\ outcome' = "none"
    /\ UNCHANGED <<files, budget>>

-----------------------------------------------------------------------------
(* The client and the other pulls.                                         *)

ClientLeaves ==
    /\ pc # "closed"
    /\ gone' = TRUE
    /\ UNCHANGED <<pc, size, download, budget, reader, outcome>>

OthersAcquire(n) ==
    /\ Acquire(n)
    /\ used' = used + n
    /\ others' = others + n
    /\ UNCHANGED <<pc, client, download, reader, outcome>>

OthersRelease ==
    /\ others > 0
    /\ used' = used - others
    /\ others' = 0
    /\ UNCHANGED <<pc, client, download, reader, outcome>>

-----------------------------------------------------------------------------
Admission == GoSingle \/ Probe \/ Reserve \/ StartFails \/ Start

\* What a goroutine does on its own, and what it can only do to its context's end.
Downloads ==
    \E i \in Segments : CreateFile(i) \/ CreateFileFails(i) \/ OpenSegment(i) \/ CopyEnds(i)

Interrupted(i) == OpenSegmentFails(i) \/ CopyFails(i)

Reads ==
    \/ SegmentFailed \/ OverlapDiffers \/ FileFails \/ OpenFile \/ PendingFallback
    \/ \E n \in 1..size : ReadFallback(n) \/ \E failed \in BOOLEAN : ReadFile(n, failed)
    \/ ReadFallbackFails

Cleanup == CleanupCancels \/ CleanupRemoves \/ CleanupReleases
Fallback == OpenFallback \/ OpenFallbackFails
Ending == Write \/ Complete \/ Abort \/ WriteFails

Next ==
    \/ Admission \/ Downloads \/ Reads \/ Cleanup \/ Fallback \/ Ending
    \/ \E i \in Segments : Interrupted(i)
    \/ NextPull \/ ClientLeaves
    \/ \E n \in 1..Limit : OthersAcquire(n)
    \/ OthersRelease

Spec == Init /\ [][Next]_vars

(***************************************************************************)
(* Fairness.  Goroutines run and local files answer; upstream requests and *)
(* bodies may hang for ever and are only sure to end when cancelled.       *)
(***************************************************************************)
FairSpec ==
    /\ Spec
    /\ WF_vars(GoSingle \/ Reserve \/ StartFails \/ Start)
    /\ \A i \in Slots :
         WF_vars(CreateFile(i) \/ CreateFileFails(i) \/ (Cancelled /\ Interrupted(i)))
    /\ WF_vars(SegmentFailed \/ FileFails \/ OpenFile \/ PendingFallback)
    /\ WF_vars(Cleanup \/ Ending \/ (gone /\ (Fallback \/ ReadFallbackFails)))

-----------------------------------------------------------------------------
\* The range of every variable: TempBudget's counter is never negative nor above the quota
\* (segment.go:31-48), and only planned segments have a file.
TypeOK ==
    /\ pc \in {"idle", "planned", "reserved", "body", "write", "cleaning", "joining", "removed",
               "fallback", "abort", "closed"}
    /\ size \in 0..(Half - 1) /\ gone \in BOOLEAN /\ cancelled \in BOOLEAN /\ cleaned \in BOOLEAN /\ pending \in BOOLEAN
    /\ goroutine \in [Slots -> {"none", "opening", "opened", "copying", "ended"}]
    /\ ready \in [Slots -> {"empty", "ok", "storage", "other"}]
    /\ files \subseteq Segments
    /\ used \in 0..Limit /\ others \in 0..Limit
    /\ after \in {"none", "fallback", "abort", "closed"}
    /\ current \in 0..Count /\ position \in Closed..size
    /\ delivered \in Seq(Nat)
    /\ outcome \in {"none", "single", "complete", "aborted", "gone"}

Ended ==
    IF outcome \in {"aborted", "gone"} THEN "cut"
    ELSE IF outcome = "single" THEN "none" ELSE outcome

\* A pull that goes on as a single stream has announced and sent nothing.
Delivery == INSTANCE BlobDelivery WITH first <- 0, length <- size,
                                       sent <- delivered, ended <- Ended

\* The client receives the blob's bytes once and in order, over every boundary
\* between segments and over a change to the single stream at any byte
\* (segment.go:254-420).
ImplementsDelivery == Delivery!Spec

\* A plan that is followed partitions the blob in order, whatever size is claimed:
\* a product that overflows never becomes a download.
AcceptedPartitions == Accepted(size, Maximum, Minimum) => Partition(size, Count)

\* Its segments respect min_segment_size.
AcceptedLongEnough == Accepted(size, Maximum, Minimum) => LongEnough(size, Count, Minimum)

\* Its overlaps lie in the neighbours' files, which verifySegmentOverlap reads.
AcceptedOverlaps == Accepted(size, Maximum, Minimum) => OverlapInLeft(size, Count)

\* The three together: what a pull may rely on once it follows a plan
\* (segment.go:92-133).
AcceptedPlans == AcceptedPartitions /\ AcceptedLongEnough /\ AcceptedOverlaps

BytesOnDisk ==
    LET bytes[i \in 0..Count] ==
          IF i = 0 THEN 0
          ELSE bytes[i - 1] + (IF i - 1 \in files THEN Length(size, Count, i - 1) ELSE 0)
    IN  bytes[Count]

\* Whatever is on the temporary disk is reserved, and all reservations together
\* stay within the quota.
DiskWithinBudget == others + BytesOnDisk <= used /\ used <= Limit

\* The budget, and with it every variable, stays in its range, and no file is
\* outside it (segment.go:31-48, 135-170, 446-470).
BudgetInv == TypeOK /\ DiskWithinBudget

\* A pull that is over leaves no file, no reservation and no goroutine behind.
NothingLeft ==
    pc = "closed" => /\ files = {}
                     /\ used = others
                     /\ \A i \in Segments : goroutine[i] \in {"none", "ended"}

\* A segment reported complete stays on disk until the reader cleans up, for
\* itself and for the comparison with its right neighbour.
CompleteKept ==
    \A i \in Segments :
        ready[i] = "ok" /\ pc \notin {"removed", "closed"} /\ ~cleaned => i \in files

\* A segment that fails ends the other downloads too, however long their
\* upstream would hang.
FailureEndsDownloads ==
    (\E i \in Slots : ready[i] \in {"storage", "other"})
        ~> (\A i \in Slots : goroutine[i] # "opening" /\ goroutine[i] # "copying")

\* A client that leaves gets its files removed and its reservation released.
DepartureFreesDisk == gone ~> (pc = "closed")
=============================================================================
