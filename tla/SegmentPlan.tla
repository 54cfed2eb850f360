----------------------------- MODULE SegmentPlan -----------------------------
(***************************************************************************)
(* How router/segment.go divides a blob: planSegments, the bytes of        *)
(* temporary disk that segmentStorageBytes asks for, and the window in     *)
(* which verifySegmentOverlap compares neighbours.  The blob's size is     *)
(* whatever a Provider claims, so integers keep their width.               *)
(***************************************************************************)
EXTENDS Integers

CONSTANTS Half,     \* int64 holds the values -Half .. Half - 1
          Overlap   \* segmentOverlap, 64 KiB in the code

ASSUME WidthAssumption == Half \in Nat \ {0}
ASSUME OverlapAssumption == Overlap \in Nat \ {0}

\* The value an int64 keeps of x.
Wrap(x) == ((x + Half) % (2 * Half)) - Half

\* Go's division, which rounds towards zero.
Quot(x, y) == IF x >= 0 THEN x \div y ELSE -((-x) \div y)

Smaller(x, y) == IF x <= y THEN x ELSE y

-----------------------------------------------------------------------------
\* The number of segments, 0 for a blob that is not divided.
SegmentCount(size, maximum, minimum) ==
    IF size <= 0 \/ maximum < 2 \/ minimum <= 0 \/ minimum > size \div 2
    THEN 0
    ELSE Smaller(maximum, size \div minimum)

\* Where segment i begins, as the machine computes it.
Cut(size, count, i) == Quot(Wrap(i * size), count)

First(size, count, i) == Cut(size, count, i)
Last(size, count, i) == Cut(size, count, i + 1) - 1

\* A segment is downloaded with the end of its left neighbour.
PhysicalFirst(size, count, i) ==
    LET first == First(size, count, i)
    IN  IF i > 0 THEN first - Smaller(Overlap, first) ELSE first

Length(size, count, i) == Last(size, count, i) - PhysicalFirst(size, count, i) + 1

TotalLength(size, count) ==
    LET total[n \in 0..count] ==
          IF n = 0 THEN 0 ELSE total[n - 1] + Length(size, count, n - 1)
    IN  total[count]

\* A plausible slip: only the sum is looked at.
StorageBytesUnchecked(size, count) ==
    LET total == TotalLength(size, count)
    IN  IF total >= Half THEN 0 ELSE total

\* segmentStorageBytes: 0, which the budget refuses, when a length is not
\* positive or the sum does not fit.
StorageBytes(size, count) ==
    IF \/ \E i \in 0..(count - 1) : Length(size, count, i) <= 0
       \/ TotalLength(size, count) >= Half
    THEN 0
    ELSE TotalLength(size, count)

-----------------------------------------------------------------------------
\* trySegmentedBlob goes on with a plan of two segments or more that asks for
\* some storage.
Accepted(size, maximum, minimum) ==
    LET count == SegmentCount(size, maximum, minimum)
    IN  count >= 2 /\ StorageBytes(size, count) # 0

\* An accepted plan is a partition of the blob in order, whatever size a
\* Provider claims: a product that overflows never becomes a download.
Partition(size, count) ==
    /\ First(size, count, 0) = 0
    /\ Last(size, count, count - 1) = size - 1
    /\ \A i \in 0..(count - 1) : First(size, count, i) <= Last(size, count, i)
    /\ \A i \in 0..(count - 2) : First(size, count, i + 1) = Last(size, count, i) + 1

\* No segment of an accepted plan is shorter than min_segment_size.
LongEnough(size, count, minimum) ==
    \A i \in 0..(count - 1) :
        Last(size, count, i) - First(size, count, i) + 1 >= minimum

\* The bytes a segment repeats are all in its left neighbour's file, so the
\* comparison never reads outside either file.
OverlapInLeft(size, count) ==
    \A i \in 1..(count - 1) :
        /\ PhysicalFirst(size, count, i) \in
               PhysicalFirst(size, count, i - 1)..First(size, count, i)
        /\ First(size, count, i) - 1 <= Last(size, count, i - 1)
=============================================================================
