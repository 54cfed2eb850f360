---------------------------- MODULE SegmentedProofs ----------------------------
(***************************************************************************)
(* SegmentedBlob for every width, size, number of segments and quota: what *)
(* a pull that follows a plan may rely on, that the pulls together keep    *)
(* within the quota of the disk, that one that is over has returned its    *)
(* disk, its reservation and its goroutines, and that what is sent is what *)
(* BlobDelivery promises.                                                  *)
(***************************************************************************)
EXTENDS SegmentedBlob, SequenceTheorems, WellFoundedInduction, TLAPS

-----------------------------------------------------------------------------
(* Arithmetic.                                                             *)

\* What a \div b is for a positive divisor, in the terms the solver reasons with.
LEMMA Division ==
    ASSUME NEW a \in Nat, NEW b \in Nat \ {0}
    PROVE  /\ a \div b \in Nat
           /\ b * (a \div b) <= a
           /\ a < b * (a \div b) + b
  OBVIOUS

\* A larger factor gives a larger product.
LEMMA ProductMonotone ==
    ASSUME NEW a \in Nat, NEW b \in Nat, NEW c \in Nat, a <= b
    PROVE  /\ a * c \in Nat /\ b * c \in Nat
           /\ a * c <= b * c
  OBVIOUS

\* A dividend that grows by m divisors grows the quotient by m.
LEMMA DivisionGrows ==
    ASSUME NEW a \in Nat, NEW b \in Nat, NEW c \in Nat \ {0}, NEW m \in Nat,
           b + c * m <= a
    PROVE  (b \div c) + m <= a \div c
  OBVIOUS

\* A multiple divides without remainder.
LEMMA DivisionExact ==
    ASSUME NEW c \in Nat \ {0}, NEW s \in Nat
    PROVE  (c * s) \div c = s
  OBVIOUS

\* A value that fits int64 is stored as it is.
LEMMA WrapFits ==
    ASSUME NEW x \in 0..(Half - 1)
    PROVE  Wrap(x) = x
  BY WidthAssumption DEF Wrap

\* A value just beyond int64 is stored as a negative one.
LEMMA WrapOverflows ==
    ASSUME NEW x \in Half..(2 * Half - 1)
    PROVE  Wrap(x) = x - 2 * Half
  BY WidthAssumption DEF Wrap

-----------------------------------------------------------------------------
(* Sums.                                                                   *)

\* f is the running sum of the n weights w.
Sums(f, n, w) == f = [i \in 0..n |-> IF i = 0 THEN 0 ELSE f[i - 1] + w[i - 1]]

\* A set of numbers has a least one, the form in which the library's induction
\* over the natural numbers is used here.
LEMMA LeastNumber ==
    ASSUME NEW T \in SUBSET Nat, T # {}
    PROVE  \E n \in T : \A m \in T : n <= m
  <1> DEFINE less == OpToRel(<, Nat)
  <1>1. IsWellFoundedOn(less, Nat)
    BY NatLessThanWellFounded
  <1>2. \A x, y \in Nat : <<x, y>> \in less <=> x < y
    BY DEF OpToRel
  <1> HIDE DEF less
  <1>3. PICK n \in T : \A m \in T : ~ (<<m, n>> \in less)
    BY <1>1, WFMin
  <1>4. n \in Nat /\ \A m \in T : m \in Nat
    OBVIOUS
  <1>5. \A m \in T : ~(m < n)
    BY <1>2, <1>3, <1>4, Zenon
  <1> QED BY <1>4, <1>5

\* The equation of a running sum has a solution.
LEMMA SumExists ==
    ASSUME NEW n \in Nat, NEW w
    PROVE  \E f : Sums(f, n, w)
  <1> DEFINE T == {m \in Nat : ~ \E f : Sums(f, m, w)}
  <1>1. T = {}
    <2> SUFFICES ASSUME T # {} PROVE FALSE
      OBVIOUS
    <2>1. T \in SUBSET Nat
      OBVIOUS
    <2>2. PICK m \in T : \A k \in T : m <= k
      BY <2>1, LeastNumber
    <2>3. m \in Nat /\ ~ \E f : Sums(f, m, w)
      OBVIOUS
    <2>4. CASE m = 0
      <3> DEFINE g == [i \in 0..0 |-> 0]
      <3>1. Sums(g, 0, w)
        BY DEF Sums
      <3> QED BY <2>3, <2>4, <3>1
    <2>5. CASE m # 0
      <3>1. m - 1 \in Nat /\ m - 1 \notin T
        BY <2>2, <2>3, <2>5
      <3>2. PICK f : Sums(f, m - 1, w)
        BY <3>1
      <3> DEFINE g == [i \in 0..m |-> IF i = m THEN f[m - 1] + w[m - 1] ELSE f[i]]
      <3>3. \A i \in 0..(m - 1) : g[i] = f[i]
        BY <2>3
      <3>4. \A i \in 0..m : g[i] = IF i = 0 THEN 0 ELSE g[i - 1] + w[i - 1]
        <4> SUFFICES ASSUME NEW i \in 0..m
                     PROVE  g[i] = IF i = 0 THEN 0 ELSE g[i - 1] + w[i - 1]
          OBVIOUS
        <4>1. CASE i = m
          <5>1. g[m] = f[m - 1] + w[m - 1] /\ g[m - 1] = f[m - 1]
            BY <2>3, <3>1, <3>3
          <5> HIDE DEF g
          <5> QED BY <2>5, <4>1, <5>1
        <4>2. CASE i # m
          <5>1. i \in 0..(m - 1) /\ (i # 0 => i - 1 \in 0..(m - 1))
            BY <2>3, <4>2
          <5>2. f[i] = IF i = 0 THEN 0 ELSE f[i - 1] + w[i - 1]
            BY <3>2, <5>1 DEF Sums
          <5>3. g[i] = f[i] /\ (i # 0 => g[i - 1] = f[i - 1])
            BY <3>3, <5>1
          <5> HIDE DEF g
          <5> QED BY <5>2, <5>3
        <4> QED BY <4>1, <4>2
      <3>5. Sums(g, m, w)
        <4>1. g = [i \in 0..m |-> g[i]]
          OBVIOUS
        <4> HIDE DEF g
        <4> QED BY <3>4, <4>1 DEF Sums
      <3> QED BY <2>3, <3>5
    <2> QED BY <2>4, <2>5
  <1> QED BY <1>1

\* Smaller weights have a smaller sum.
LEMMA SumMonotone ==
    ASSUME NEW n \in Nat, NEW v, NEW w, NEW f, NEW g, Sums(f, n, v), Sums(g, n, w),
           \A i \in 0..(n - 1) : v[i] \in Int /\ w[i] \in Int /\ v[i] <= w[i]
    PROVE  f[n] \in Int /\ g[n] \in Int /\ f[n] <= g[n]
  <1> DEFINE Good(m) == f[m] \in Int /\ g[m] \in Int /\ f[m] <= g[m]
             T == {m \in 0..n : ~Good(m)}
  <1>1. /\ \A i \in 0..n : f[i] = IF i = 0 THEN 0 ELSE f[i - 1] + v[i - 1]
        /\ \A i \in 0..n : g[i] = IF i = 0 THEN 0 ELSE g[i - 1] + w[i - 1]
    BY DEF Sums
  <1>2. T = {}
    <2> SUFFICES ASSUME T # {} PROVE FALSE
      OBVIOUS
    <2>1. T \in SUBSET Nat
      OBVIOUS
    <2>2. PICK m \in T : \A k \in T : m <= k
      BY <2>1, LeastNumber
    <2>3. m \in 0..n /\ ~Good(m)
      OBVIOUS
    <2>4. m # 0
      BY <1>1, <2>3
    <2>5. m - 1 \in 0..(n - 1) /\ m - 1 \in 0..n /\ m - 1 \notin T
      BY <2>2, <2>3, <2>4
    <2>6. Good(m - 1)
      BY <2>5
    <2>7. /\ f[m] = f[m - 1] + v[m - 1] /\ g[m] = g[m - 1] + w[m - 1]
      BY <1>1, <2>3, <2>4
    <2> QED BY <2>3, <2>5, <2>6, <2>7
  <1> QED BY <1>2

-----------------------------------------------------------------------------
(* The plan.                                                               *)

\* What a plan that is not refused at once knows of its count.
LEMMA CountBounds ==
    ASSUME NEW s \in -Half..(Half - 1), NEW maximum \in Int, NEW minimum \in Int,
           SegmentCount(s, maximum, minimum) >= 2
    PROVE  /\ SegmentCount(s, maximum, minimum) \in Nat \ {0}
           /\ s \in 1..(Half - 1)
           /\ minimum \in Nat \ {0}
           /\ SegmentCount(s, maximum, minimum) * minimum <= s
  <1> DEFINE count == SegmentCount(s, maximum, minimum)
  <1>1. s \in 1..(Half - 1) /\ minimum \in Nat \ {0} /\ maximum >= 2
    BY WidthAssumption DEF SegmentCount
  <1>2. /\ s \div minimum \in Nat
        /\ minimum * (s \div minimum) <= s
    BY <1>1, Division
  <1>3. count \in Nat /\ count <= s \div minimum
    BY <1>1, <1>2 DEF SegmentCount, Smaller
  <1>4. count * minimum <= (s \div minimum) * minimum
    BY <1>1, <1>2, <1>3, ProductMonotone
  <1>5. count * minimum <= s
    BY <1>1, <1>2, <1>3, <1>4
  <1> QED BY <1>1, <1>3, <1>5

\* No segment is downloaded from before the blob.
LEMMA PhysicalFirstNatural ==
    ASSUME NEW s \in Int, NEW count \in Nat \ {0}, NEW i \in Nat,
           Cut(s, count, i) \in Int, i = 0 => Cut(s, count, i) = 0
    PROVE  PhysicalFirst(s, count, i) >= 0
  BY OverlapAssumption DEF PhysicalFirst, First, Smaller

\* Every boundary between segments is an integer.
LEMMA CutInteger ==
    ASSUME NEW s \in Int, NEW count \in Nat \ {0}, NEW i \in Nat
    PROVE  Cut(s, count, i) \in Int
  <1>1. i * s \in Int
    OBVIOUS
  <1>2. Wrap(i * s) \in Int
    BY <1>1, WidthAssumption DEF Wrap
  <1> QED BY <1>2 DEF Cut, Quot

\* So is every length.
LEMMA LengthInteger ==
    ASSUME NEW s \in Int, NEW count \in Nat \ {0}, NEW i \in Nat
    PROVE  Length(s, count, i) \in Int
  <1>1. Cut(s, count, i) \in Int /\ Cut(s, count, i + 1) \in Int
    BY CutInteger
  <1> QED BY <1>1, OverlapAssumption DEF Length, Last, PhysicalFirst, First, Smaller

\* The first segment starts at the first byte.
LEMMA CutZero ==
    ASSUME NEW s \in Int, NEW count \in Nat \ {0}
    PROVE  Cut(s, count, 0) = 0
  <1>1. Wrap(0 * s) = 0
    BY WrapFits, WidthAssumption
  <1> QED BY <1>1 DEF Cut, Quot

\* A product that overflows leaves a segment without bytes: the first boundary
\* beyond the machine word is negative.
LEMMA OverflowIsSeen ==
    ASSUME NEW s \in 1..(Half - 1), NEW count \in Nat \ {0}, count * s >= Half
    PROVE  \E i \in 0..(count - 1) : Length(s, count, i) <= 0
  <1> DEFINE k == (Half - 1) \div s
  <1>1. k \in Nat /\ s * k <= Half - 1 /\ Half - 1 < s * k + s
    BY Division, WidthAssumption
  <1> HIDE DEF k
  <1>2. k \in 0..(count - 1)
    <2>1. ASSUME k >= count PROVE FALSE
      <3>1. count * s <= k * s /\ k * s \in Nat
        BY <1>1, <2>1, ProductMonotone
      <3>2. k * s = s * k
        BY <1>1
      <3> QED BY <1>1, <3>1, <3>2, WidthAssumption
    <2> QED BY <1>1, <2>1
  <1>3. (k + 1) * s \in Half..(2 * Half - 1)
    <2>1. (k + 1) * s = s * k + s
      BY <1>1
    <2> QED BY <1>1, <2>1, WidthAssumption
  <1>4. Cut(s, count, k + 1) <= 0 /\ Cut(s, count, k + 1) \in Int
    <2> DEFINE w == (k + 1) * s - 2 * Half
    <2>1. Wrap((k + 1) * s) = w
      BY <1>3, WrapOverflows
    <2>2. w \in Int /\ w < 0 /\ -w \in Nat
      BY <1>3, WidthAssumption
    <2>3. (-w) \div count \in Nat
      BY <2>2, Division
    <2>4. Cut(s, count, k + 1) = -((-w) \div count)
      BY <2>1, <2>2 DEF Cut, Quot
    <2> QED BY <2>3, <2>4
  <1>5. PhysicalFirst(s, count, k) >= 0 /\ PhysicalFirst(s, count, k) \in Int
    <2>1. Cut(s, count, k) \in Int
      BY <1>2, CutInteger
    <2>2. k = 0 => Cut(s, count, k) = 0
      BY CutZero
    <2>3. PhysicalFirst(s, count, k) >= 0
      BY <1>2, <2>1, <2>2, PhysicalFirstNatural
    <2> QED BY <2>1, <2>3, OverlapAssumption DEF PhysicalFirst, First, Smaller
  <1>6. Length(s, count, k) <= 0
    BY <1>4, <1>5 DEF Length, Last
  <1> QED BY <1>2, <1>6

\* An accepted plan is computed without overflow.
LEMMA AcceptedFits ==
    ASSUME NEW s \in -Half..(Half - 1), NEW maximum \in Int, NEW minimum \in Int,
           Accepted(s, maximum, minimum)
    PROVE  \A i \in 0..SegmentCount(s, maximum, minimum) :
               /\ i * s \in Nat
               /\ Cut(s, SegmentCount(s, maximum, minimum), i) =
                    (i * s) \div SegmentCount(s, maximum, minimum)
  <1> DEFINE count == SegmentCount(s, maximum, minimum)
  <1>1. count \in Nat \ {0} /\ s \in 1..(Half - 1)
    BY CountBounds DEF Accepted
  <1>2. \A i \in 0..(count - 1) : ~(Length(s, count, i) <= 0)
    BY DEF Accepted, StorageBytes
  <1>3. count * s \in Nat /\ count * s < Half
    <2> HIDE DEF count
    <2>1. ASSUME count * s >= Half PROVE FALSE
      BY <1>1, <1>2, <2>1, OverflowIsSeen
    <2> QED BY <1>1, <2>1, WidthAssumption
  <1> SUFFICES ASSUME NEW i \in 0..count
               PROVE  i * s \in Nat /\ Cut(s, count, i) = (i * s) \div count
    OBVIOUS
  <1>4. i * s \in Nat /\ i * s <= count * s
    BY <1>1, ProductMonotone
  <1>5. i * s \in 0..(Half - 1)
    BY <1>3, <1>4, WidthAssumption
  <1>6. Wrap(i * s) = i * s
    BY <1>5, WrapFits
  <1> QED BY <1>4, <1>6 DEF Cut, Quot

\* Each boundary of an accepted plan lies at least min_segment_size beyond the
\* one before.
LEMMA CutGrows ==
    ASSUME NEW s \in -Half..(Half - 1), NEW maximum \in Int, NEW minimum \in Int,
           Accepted(s, maximum, minimum),
           NEW i \in 0..(SegmentCount(s, maximum, minimum) - 1)
    PROVE  LET count == SegmentCount(s, maximum, minimum)
           IN  /\ Cut(s, count, i) \in Nat
               /\ Cut(s, count, i + 1) \in Nat
               /\ Cut(s, count, i) + minimum <= Cut(s, count, i + 1)
  <1> DEFINE count == SegmentCount(s, maximum, minimum)
  <1>1. /\ count \in Nat \ {0} /\ s \in 1..(Half - 1) /\ minimum \in Nat \ {0}
        /\ count * minimum <= s
    BY CountBounds DEF Accepted
  <1> HIDE DEF count
  <1>2. /\ i \in 0..count /\ i + 1 \in 0..count /\ i \in Nat
    BY <1>1 DEF count
  <1>3. /\ i * s \in Nat /\ Cut(s, count, i) = (i * s) \div count
        /\ (i + 1) * s \in Nat /\ Cut(s, count, i + 1) = ((i + 1) * s) \div count
    BY <1>2, AcceptedFits DEF count
  <1>4. (i + 1) * s = i * s + s
    BY <1>1, <1>2
  <1>5. i * s + count * minimum <= (i + 1) * s
    BY <1>1, <1>3, <1>4
  <1>6. ((i * s) \div count) + minimum <= ((i + 1) * s) \div count
    BY <1>1, <1>3, <1>5, DivisionGrows
  <1>7. (i * s) \div count \in Nat /\ ((i + 1) * s) \div count \in Nat
    BY <1>1, <1>3, Division
  <1> QED BY <1>3, <1>6, <1>7 DEF count

\* planSegments and segmentStorageBytes: whatever size a Provider claims, a plan
\* that the budget may be asked for is a partition of the blob, in order; a
\* product that overflows int64 is never downloaded.
THEOREM AcceptedPlanPartitions ==
    ASSUME NEW s \in -Half..(Half - 1), NEW maximum \in Int, NEW minimum \in Int,
           Accepted(s, maximum, minimum)
    PROVE  Partition(s, SegmentCount(s, maximum, minimum))
  <1> DEFINE count == SegmentCount(s, maximum, minimum)
  <1>1. count \in Nat \ {0} /\ s \in 1..(Half - 1) /\ minimum \in Nat \ {0} /\ count >= 2
    BY CountBounds DEF Accepted
  <1> HIDE DEF count
  <1>2. First(s, count, 0) = 0
    BY <1>1, CutZero DEF First
  <1>3. Last(s, count, count - 1) = s - 1
    <2>1. Cut(s, count, count) = (count * s) \div count
      <3>1. count \in 0..count
        BY <1>1
      <3> QED BY <3>1, AcceptedFits DEF count
    <2>2. (count * s) \div count = s
      BY <1>1, DivisionExact
    <2>3. (count - 1) + 1 = count
      BY <1>1
    <2> QED BY <1>1, <2>1, <2>2, <2>3 DEF Last
  <1>4. ASSUME NEW i \in 0..(count - 1)
        PROVE  First(s, count, i) <= Last(s, count, i)
    <2>1. /\ Cut(s, count, i) \in Nat /\ Cut(s, count, i + 1) \in Nat
          /\ Cut(s, count, i) + minimum <= Cut(s, count, i + 1)
      BY CutGrows DEF count
    <2> QED BY <1>1, <2>1 DEF First, Last
  <1>5. ASSUME NEW i \in 0..(count - 2)
        PROVE  First(s, count, i + 1) = Last(s, count, i) + 1
    <2>1. Cut(s, count, i + 1) \in Int
      BY <1>1, CutInteger
    <2> QED BY <2>1 DEF First, Last
  <1> QED BY <1>2, <1>3, <1>4, <1>5 DEF Partition, count

\* planSegments: no segment of such a plan is shorter than min_segment_size.
THEOREM AcceptedPlanLongEnough ==
    ASSUME NEW s \in -Half..(Half - 1), NEW maximum \in Int, NEW minimum \in Int,
           Accepted(s, maximum, minimum)
    PROVE  LongEnough(s, SegmentCount(s, maximum, minimum), minimum)
  <1> DEFINE count == SegmentCount(s, maximum, minimum)
  <1> SUFFICES ASSUME NEW i \in 0..(count - 1)
               PROVE  Last(s, count, i) - First(s, count, i) + 1 >= minimum
    BY DEF LongEnough
  <1>1. /\ Cut(s, count, i) \in Nat /\ Cut(s, count, i + 1) \in Nat
        /\ Cut(s, count, i) + minimum <= Cut(s, count, i + 1)
    BY CutGrows
  <1> QED BY <1>1 DEF First, Last

\* verifySegmentOverlap: the bytes a segment repeats all lie in its left
\* neighbour's file, so both ReadAt offsets are inside their files.
THEOREM AcceptedPlanOverlaps ==
    ASSUME NEW s \in -Half..(Half - 1), NEW maximum \in Int, NEW minimum \in Int,
           Accepted(s, maximum, minimum)
    PROVE  OverlapInLeft(s, SegmentCount(s, maximum, minimum))
  <1> DEFINE count == SegmentCount(s, maximum, minimum)
  <1>1. count \in Nat \ {0} /\ minimum \in Nat \ {0} /\ s \in Int
    <2>1. SegmentCount(s, maximum, minimum) >= 2
      BY DEF Accepted
    <2>2. /\ count \in Nat \ {0} /\ minimum \in Nat \ {0} /\ s \in 1..(Half - 1)
      BY <2>1, CountBounds
    <2> QED BY <2>2, WidthAssumption
  <1> HIDE DEF count
  <1> SUFFICES ASSUME NEW i \in 1..(count - 1)
               PROVE  /\ PhysicalFirst(s, count, i) \in
                             PhysicalFirst(s, count, i - 1)..First(s, count, i)
                      /\ First(s, count, i) - 1 <= Last(s, count, i - 1)
    BY DEF OverlapInLeft, count
  <1>2. i - 1 \in 0..(count - 1) /\ (i - 1) + 1 = i
    BY <1>1
  <1>3. /\ Cut(s, count, i - 1) \in Nat /\ Cut(s, count, i) \in Nat
        /\ Cut(s, count, i - 1) + minimum <= Cut(s, count, i)
    BY <1>2, CutGrows DEF count
  <1>4. PhysicalFirst(s, count, i) \in
            PhysicalFirst(s, count, i - 1)..First(s, count, i)
    <2>1. i - 1 = 0 => Cut(s, count, i - 1) = 0
      BY <1>1, CutZero
    <2> QED BY <1>1, <1>3, <2>1, OverlapAssumption DEF PhysicalFirst, First, Smaller
  <1>5. First(s, count, i) - 1 <= Last(s, count, i - 1)
    BY <1>2, <1>3 DEF First, Last
  <1> QED BY <1>4, <1>5

-----------------------------------------------------------------------------
(* The inductive invariant.                                                *)

Before == {"idle", "planned", "reserved"}
During == {"body", "write", "cleaning", "joining", "removed", "fallback", "abort"}

Bounds ==
    /\ pc \in Before \cup During \cup {"closed"}
    /\ size \in 0..(Half - 1)
    /\ cleaned \in BOOLEAN
    /\ goroutine \in [Slots -> {"none", "opening", "opened", "copying", "ended"}]
    /\ ready \in [Slots -> {"empty", "ok", "storage", "other"}]
    /\ others \in Nat

\* Nothing has been done before the downloads start.
Untouched ==
    pc \in Before =>
        /\ ~cleaned /\ after = "none" /\ files = {}
        /\ \A i \in Slots : goroutine[i] = "none" /\ ready[i] = "empty"

\* The cleanup runs once, and a single stream only follows it.
CleanedOnce ==
    /\ pc \in {"joining", "removed"} => ~cleaned
    /\ pc \in {"cleaning", "joining", "removed"} => after \in {"fallback", "abort", "closed"}
    /\ pc = "fallback" => after = "fallback" /\ cleaned
    /\ pc = "abort" => cleaned
    /\ pc \in {"body", "write"} => after = "none" \/ (after = "fallback" /\ cleaned)

\* Only planned segments have a goroutine, and one that copies has its file.
Goroutines ==
    /\ \A i \in Slots \ Segments : goroutine[i] = "none"
    /\ \A i \in Slots : goroutine[i] = "copying" => i \in files

\* After the cleanup's wait nothing is on disk and nobody will put it there.
Swept ==
    cleaned \/ pc \in {"removed", "closed"} =>
        /\ files = {}
        /\ \A i \in Slots : goroutine[i] \in {"none", "ended"}

Reserving == pc = "reserved" \/ (pc \in During /\ ~cleaned)

\* The counter is the other pulls' share and, from Reserve to the release, ours.
Accounted ==
    /\ Reserving => Storage \in Nat \ {0}
    /\ used = others + (IF Reserving THEN Storage ELSE 0)
    /\ used <= Limit

IInv ==
    /\ Bounds /\ Untouched /\ CleanedOnce /\ Goroutines /\ Swept /\ Accounted
    /\ CompleteKept

-----------------------------------------------------------------------------
\* No plan has more segments than there are goroutines.
LEMMA SegmentsInSlots ==
    ASSUME NEW s \in 0..(Half - 1)
    PROVE  0..(SegmentCount(s, Maximum, Minimum) - 1) \subseteq Slots
<1>1. CASE s <= 0 \/ Maximum < 2 \/ Minimum <= 0 \/ Minimum > s \div 2
  <2>1. SegmentCount(s, Maximum, Minimum) = 0
    BY <1>1 DEF SegmentCount
  <2>. QED BY <2>1
<1>2. CASE ~(s <= 0 \/ Maximum < 2 \/ Minimum <= 0 \/ Minimum > s \div 2)
  <2>1. /\ s \in Nat /\ Minimum \in Nat \ {0} /\ Maximum \in Nat
    BY <1>2, WidthAssumption, SegmentedAssumption
  <2>2. s \div Minimum \in Nat
    BY <2>1, Division
  <2>3. SegmentCount(s, Maximum, Minimum) = Smaller(Maximum, s \div Minimum)
    BY <1>2 DEF SegmentCount
  <2>4. /\ SegmentCount(s, Maximum, Minimum) \in Nat
        /\ SegmentCount(s, Maximum, Minimum) <= Maximum
    BY <2>1, <2>2, <2>3 DEF Smaller
  <2>. QED BY <2>1, <2>4 DEF Slots
<1>. QED BY <1>1, <1>2

\* The number of segments is a natural number.
LEMMA CountNatural ==
    ASSUME NEW s \in 0..(Half - 1)
    PROVE  SegmentCount(s, Maximum, Minimum) \in Nat
<1>1. CASE s <= 0 \/ Maximum < 2 \/ Minimum <= 0 \/ Minimum > s \div 2
  BY <1>1 DEF SegmentCount
<1>2. CASE ~(s <= 0 \/ Maximum < 2 \/ Minimum <= 0 \/ Minimum > s \div 2)
  <2>1. /\ s \in Nat /\ Minimum \in Nat \ {0} /\ Maximum \in Nat
    BY <1>2, WidthAssumption, SegmentedAssumption
  <2>2. s \div Minimum \in Nat
    BY <2>1, Division
  <2>3. SegmentCount(s, Maximum, Minimum) = Smaller(Maximum, s \div Minimum)
    BY <1>2 DEF SegmentCount
  <2>. QED BY <2>1, <2>2, <2>3 DEF Smaller
<1>. QED BY <1>1, <1>2

LEMMA IInvInit == Init => IInv
<1>. SUFFICES ASSUME Init PROVE IInv
  OBVIOUS
<1>1. Bounds
  <2>1. size \in 0..(Half - 1)
    BY WidthAssumption DEF Init
  <2>. QED BY <2>1 DEF Init, Bounds, Before, During
<1>2. Untouched /\ CleanedOnce /\ Goroutines /\ Swept /\ CompleteKept
  BY SegmentsInSlots, <1>1
     DEF Bounds, Init, Untouched, CleanedOnce, Goroutines, Swept, CompleteKept, Segments, Count
<1>3. Accounted
  BY SegmentedAssumption DEF Init, Accounted, Reserving, During
<1>. QED BY <1>1, <1>2, <1>3 DEF IInv

-----------------------------------------------------------------------------
(* One lemma per group of actions; in all but Probe and NextPull the plan  *)
(* stays what it is.                                                       *)

\* The steps before the downloads start, and the next pull.
LEMMA AdmissionStep ==
    ASSUME IInv, GoSingle \/ Probe \/ Reserve \/ StartFails \/ Start \/ NextPull
    PROVE  IInv'
<1>. USE SegmentedAssumption, WidthAssumption
<1>0. Segments \subseteq Slots
  BY SegmentsInSlots DEF IInv, Bounds, Segments, Count
<1>1. CASE GoSingle
  <2>1. UNCHANGED <<client, download, budget, reader>> /\ pc' = "closed" /\ pc \in Before
    BY <1>1 DEF GoSingle, Before
  <2>2. Segments' = Segments /\ Storage' = Storage
    BY <2>1 DEF client, Segments, Storage, Count
  <2>3. Bounds' /\ Untouched' /\ CleanedOnce' /\ Goroutines' /\ Swept' /\ CompleteKept'
    BY <2>1, <2>2 DEF client, download, budget, reader, Before, IInv, Bounds, Untouched,
                      CleanedOnce, Goroutines, Swept, CompleteKept
  <2>4. Accounted'
    BY <1>1, <2>1, <2>2 DEF GoSingle, budget, reader, Before, During, IInv, Untouched,
                            Accounted, Reserving
  <2>. QED BY <2>3, <2>4 DEF IInv
<1>2. CASE Probe
  <2>1. UNCHANGED <<gone, download, budget, reader>> /\ pc' = "planned" /\ pc = "idle"
        /\ size' \in 0..(Half - 1)
    BY <1>2 DEF Probe
  <2>2. Segments' \subseteq Slots
    BY <2>1, SegmentsInSlots DEF Segments, Count, Slots
  <2>3. Bounds' /\ Untouched' /\ CleanedOnce' /\ Goroutines' /\ Swept' /\ CompleteKept'
    BY <2>1, <2>2 DEF download, budget, reader, Before, IInv, Bounds, Untouched,
                      CleanedOnce, Goroutines, Swept, CompleteKept
  <2>4. Accounted'
    BY <2>1 DEF budget, reader, Before, During, IInv, Accounted, Reserving
  <2>. QED BY <2>3, <2>4 DEF IInv
<1>3. CASE Reserve
  <2>1. UNCHANGED <<client, download, others, reader>> /\ pc' = "reserved" /\ pc = "planned"
        /\ used' = used + Storage /\ Acquire(Storage)
    BY <1>3 DEF Reserve
  <2>2. Segments' = Segments /\ Storage' = Storage
    BY <2>1 DEF client, Segments, Storage, Count
  <2>3. Bounds' /\ Untouched' /\ CleanedOnce' /\ Goroutines' /\ Swept' /\ CompleteKept'
    BY <2>1, <2>2 DEF client, download, reader, Before, IInv, Bounds, Untouched,
                      CleanedOnce, Goroutines, Swept, CompleteKept
  <2>4. Accounted'
    BY <2>1, <2>2 DEF reader, Before, During, IInv, Bounds, Accounted, Reserving, Acquire
  <2>. QED BY <2>3, <2>4 DEF IInv
<1>4. CASE StartFails
  <2>1. UNCHANGED <<client, download, others, reader>> /\ pc' = "closed" /\ pc = "reserved"
        /\ used' = used - Storage
    BY <1>4 DEF StartFails
  <2>2. Segments' = Segments /\ Storage' = Storage
    BY <2>1 DEF client, Segments, Storage, Count
  <2>3. Bounds' /\ Untouched' /\ CleanedOnce' /\ Goroutines' /\ Swept' /\ CompleteKept'
    BY <2>1, <2>2 DEF client, download, reader, Before, IInv, Bounds, Untouched,
                      CleanedOnce, Goroutines, Swept, CompleteKept
  <2>4. Accounted'
    BY <2>1, <2>2 DEF reader, Before, During, IInv, Bounds, Accounted, Reserving
  <2>. QED BY <2>3, <2>4 DEF IInv
<1>5. CASE Start
  <2>1. UNCHANGED <<client, cancelled, ready, files, budget, reader>>
        /\ pc' = "body" /\ pc = "reserved"
        /\ goroutine' = [i \in Slots |-> IF i \in Segments THEN "opening" ELSE "none"]
    BY <1>5 DEF Start
  <2>2. Segments' = Segments /\ Storage' = Storage
    BY <2>1 DEF client, Segments, Storage, Count
  <2>3. Bounds' /\ Untouched' /\ CleanedOnce' /\ Goroutines' /\ Swept' /\ CompleteKept'
    BY <1>0, <2>1, <2>2 DEF client, budget, reader, Before, During, IInv, Bounds, Untouched,
                            CleanedOnce, Goroutines, Swept, CompleteKept
  <2>4. Accounted'
    BY <2>1, <2>2 DEF budget, reader, Before, During, IInv, Untouched, Accounted, Reserving
  <2>. QED BY <2>3, <2>4 DEF IInv
<1>6. CASE NextPull
  <2>1. /\ pc = "closed" /\ pc' = "idle" /\ size' = 0
        /\ goroutine' = [i \in Slots |-> "none"] /\ ready' = [i \in Slots |-> "empty"]
        /\ ~cleaned' /\ cleaned' \in BOOLEAN /\ after' = "none"
        /\ UNCHANGED <<files, used, others>>
    BY <1>6 DEF NextPull, budget
  <2>2. Segments' \subseteq Slots
    BY <2>1, SegmentsInSlots DEF Segments, Count, Slots
  <2>3. Bounds' /\ Untouched' /\ CleanedOnce' /\ Goroutines' /\ Swept' /\ CompleteKept'
    BY <2>1, <2>2 DEF Before, IInv, Bounds, Untouched, CleanedOnce, Goroutines, Swept, CompleteKept
  <2>4. Accounted'
    BY <2>1 DEF Before, During, IInv, Accounted, Reserving
  <2>. QED BY <2>3, <2>4 DEF IInv
<1>. QED BY <1>1, <1>2, <1>3, <1>4, <1>5, <1>6

\* A goroutine goes on or ends, whatever its result.
LEMMA DownloadStep ==
    ASSUME IInv, NEW i \in Segments,
           \/ OpenSegment(i) \/ OpenSegmentFails(i) \/ CreateFile(i) \/ CreateFileFails(i)
           \/ CopyEnds(i) \/ CopyFails(i)
    PROVE  IInv'
<1>0. i \in Slots
  BY SegmentsInSlots DEF IInv, Bounds, Segments, Count
<1>1. /\ UNCHANGED <<pc, client, budget, reader>>
      /\ goroutine[i] \in {"opening", "opened", "copying"}
  BY DEF OpenSegment, OpenSegmentFails, CreateFile, CreateFileFails, CopyEnds, CopyFails, End
<1>2. Segments' = Segments /\ Storage' = Storage
  BY <1>1 DEF client, Segments, Storage, Count
<1>3. ~cleaned /\ pc \notin Before \cup {"removed", "closed"}
  BY <1>0, <1>1 DEF IInv, Untouched, Swept
<1>4. Accounted'
  BY <1>1, <1>2 DEF IInv, Accounted, Reserving, budget, reader
<1>5. Untouched' /\ CleanedOnce' /\ Swept'
  BY <1>1, <1>3 DEF IInv, Untouched, CleanedOnce, Swept, reader
<1>6. CASE OpenSegment(i) \/ CreateFile(i)
  <2>1. /\ \E l \in {"opened", "copying"} :
              goroutine' = [goroutine EXCEPT ![i] = l] /\ (l = "copying" => i \in files')
        /\ files \subseteq files' /\ ready' = ready
    BY <1>6 DEF OpenSegment, CreateFile
  <2>2. Bounds' /\ Goroutines' /\ CompleteKept'
    BY <1>0, <1>1, <1>2, <2>1
       DEF IInv, Bounds, Goroutines, CompleteKept, client, budget, reader
  <2>. QED BY <1>4, <1>5, <2>2 DEF IInv
<1>7. CASE OpenSegmentFails(i) \/ CreateFileFails(i) \/ CopyEnds(i) \/ CopyFails(i)
  <2>1. \E result \in {"ok", "storage", "other"} :
            /\ goroutine' = [goroutine EXCEPT ![i] = "ended"]
            /\ ready' = [ready EXCEPT ![i] = result]
            /\ result = "ok" => goroutine[i] = "copying" /\ files' = files
            /\ files \ {i} \subseteq files'
    BY <1>7 DEF OpenSegmentFails, CreateFileFails, CopyEnds, CopyFails, End
  <2>2. Bounds' /\ Goroutines' /\ CompleteKept'
    BY <1>0, <1>1, <1>2, <2>1
       DEF IInv, Bounds, Goroutines, CompleteKept, client, budget, reader
  <2>. QED BY <1>4, <1>5, <2>2 DEF IInv
<1>. QED BY <1>6, <1>7

\* Reads, the change to a single stream and the end of the pull only move the
\* request's own goroutine.
LEMMA ReaderStep ==
    ASSUME IInv, Reads \/ Fallback \/ Ending
    PROVE  IInv'
<1>1. /\ UNCHANGED <<client, download, budget, cleaned>>
      /\ \/ pc \in {"body", "write"} /\ pc' \in {"body", "write"} /\ after' = after
         \/ pc = "fallback" /\ pc' = "body" /\ after' = after
         \/ pc \in {"body", "write"} /\ pc' = "cleaning" /\ after' \in {"fallback", "abort", "closed"}
         \/ pc = "abort" /\ pc' = "cleaning" /\ after' = "closed"
         \/ pc = "fallback" /\ pc' = "abort"
         \/ pc = "body" /\ after = "fallback" /\ pc' = "abort"
  BY DEF Reads, Fallback, Ending, SegmentFailed, OverlapDiffers, FileFails, OpenFile,
         PendingFallback, ReadFallback, ReadFile, ReadFallbackFails, OpenFallback,
         OpenFallbackFails, Write, Complete, Abort, WriteFails, Fail, Finish, InSegments, reader
<1>2. Segments' = Segments /\ Storage' = Storage
  BY <1>1 DEF client, Segments, Storage, Count
<1>3. Bounds' /\ Untouched' /\ Goroutines' /\ Swept' /\ CompleteKept'
  BY <1>1, <1>2 DEF IInv, Bounds, Untouched, Goroutines, Swept, CompleteKept, client, download,
                    budget, Before, During
<1>4. CleanedOnce'
  BY <1>1 DEF IInv, CleanedOnce
<1>5. Reserving' <=> Reserving
  <2>1. pc \in During /\ pc' \in During /\ cleaned' = cleaned
    BY <1>1 DEF During
  <2>2. pc # "reserved" /\ pc' # "reserved"
    BY <2>1 DEF During
  <2>. QED BY <2>1, <2>2 DEF Reserving
<1>6. Accounted'
  BY <1>1, <1>2, <1>5 DEF IInv, Accounted, budget
<1>. QED BY <1>3, <1>4, <1>6 DEF IInv

\* The cleanup cancels, waits, removes and releases.
LEMMA CleanupStep ==
    ASSUME IInv, Cleanup
    PROVE  IInv'
<1>0. Segments \subseteq Slots
  BY SegmentsInSlots DEF IInv, Bounds, Segments, Count
<1>1. UNCHANGED client /\ Segments' = Segments /\ Storage' = Storage
  BY DEF Cleanup, CleanupCancels, CleanupRemoves, CleanupReleases, client, Segments, Storage, Count
<1>2. CASE CleanupCancels
  <2>1. /\ UNCHANGED <<goroutine, ready, files, budget, reader>>
        /\ pc = "cleaning" /\ ~cleaned /\ pc' = "joining"
    BY <1>2 DEF CleanupCancels
  <2>2. Bounds' /\ Untouched' /\ CleanedOnce' /\ Goroutines' /\ Swept' /\ CompleteKept'
    BY <1>1, <2>1 DEF client, budget, reader, Before, During, IInv, Bounds, Untouched,
                      CleanedOnce, Goroutines, Swept, CompleteKept
  <2>3. Accounted'
    BY <1>1, <2>1 DEF budget, reader, During, IInv, Accounted, Reserving
  <2>. QED BY <2>2, <2>3 DEF IInv
<1>3. CASE CleanupRemoves
  <2>1. /\ UNCHANGED <<goroutine, ready, budget, cleaned, after>>
        /\ pc = "joining" /\ pc' = "removed" /\ files' = {}
        /\ \A i \in Segments : goroutine[i] = "ended"
    BY <1>3 DEF CleanupRemoves
  <2>2. \A i \in Slots : goroutine[i] \in {"none", "ended"}
    BY <2>1 DEF IInv, Goroutines
  <2>3. Bounds' /\ Untouched' /\ CleanedOnce' /\ Goroutines' /\ Swept' /\ CompleteKept'
    BY <1>1, <2>1, <2>2 DEF client, budget, Before, During, IInv, Bounds, Untouched,
                            CleanedOnce, Goroutines, Swept, CompleteKept
  <2>4. Accounted'
    BY <1>1, <2>1 DEF budget, During, IInv, Accounted, Reserving
  <2>. QED BY <2>3, <2>4 DEF IInv
<1>4. CASE CleanupReleases
  <2>1. /\ UNCHANGED <<download, others, after>>
        /\ pc = "removed" \/ (pc = "cleaning" /\ cleaned)
        /\ used' = IF cleaned THEN used ELSE used - Storage
        /\ cleaned' = TRUE /\ pc' = after
        /\ after \in {"fallback", "abort", "closed"}
    BY <1>4 DEF CleanupReleases, IInv, CleanedOnce
  <2>2. Bounds' /\ Untouched' /\ CleanedOnce' /\ Goroutines' /\ Swept' /\ CompleteKept'
    BY <1>1, <2>1 DEF client, download, Before, During, IInv, Bounds, Untouched,
                      CleanedOnce, Goroutines, Swept, CompleteKept
  <2>3. Accounted'
    BY <1>1, <2>1, SegmentedAssumption
       DEF Before, During, IInv, Bounds, CleanedOnce, Accounted, Reserving
  <2>. QED BY <2>2, <2>3 DEF IInv
<1>. QED BY <1>2, <1>3, <1>4 DEF Cleanup

\* Other pulls share the budget, and the client may leave.
LEMMA WorldStep ==
    ASSUME IInv,
           \/ ClientLeaves \/ OthersRelease \/ UNCHANGED vars
           \/ \E n \in 1..Limit : OthersAcquire(n)
    PROVE  IInv'
<1>1. /\ UNCHANGED <<pc, size, download, reader>>
      /\ \/ UNCHANGED budget
         \/ \E n \in 1..Limit : n \in 1..(Limit - used) /\ used' = used + n /\ others' = others + n
         \/ used' = used - others /\ others' = 0
  BY DEF ClientLeaves, OthersRelease, OthersAcquire, Acquire, vars, client
<1>2. Segments' = Segments /\ Storage' = Storage
  BY <1>1 DEF Segments, Storage, Count
<1>3. Untouched' /\ CleanedOnce' /\ Goroutines' /\ Swept' /\ CompleteKept'
  BY <1>1, <1>2 DEF IInv, Untouched, CleanedOnce, Goroutines, Swept, CompleteKept, download, reader
<1>4. Reserving' = Reserving
  BY <1>1 DEF Reserving, reader
<1>5. Bounds'
  BY <1>1 DEF IInv, Bounds, download, reader, budget
<1>6. Accounted'
  BY <1>1, <1>2, <1>4, SegmentedAssumption DEF IInv, Bounds, Accounted, budget
<1>. QED BY <1>3, <1>5, <1>6 DEF IInv

LEMMA IInvNext == IInv /\ [Next]_vars => IInv'
<1>. SUFFICES ASSUME IInv, [Next]_vars PROVE IInv'
  OBVIOUS
<1>1. CASE Admission \/ NextPull
  BY <1>1, AdmissionStep DEF Admission
<1>2. CASE Downloads \/ \E i \in Segments : Interrupted(i)
  BY <1>2, DownloadStep DEF Downloads, Interrupted
<1>3. CASE Reads \/ Fallback \/ Ending
  BY <1>3, ReaderStep
<1>4. CASE Cleanup
  BY <1>4, CleanupStep
<1>5. CASE \/ ClientLeaves \/ OthersRelease \/ UNCHANGED vars
           \/ \E n \in 1..Limit : OthersAcquire(n)
  BY <1>5, WorldStep
<1>. QED BY <1>1, <1>2, <1>3, <1>4, <1>5 DEF Next

-----------------------------------------------------------------------------
(* The theorems.                                                           *)

\* What one segmented pull and its budget keep true at every point between a
\* probe and the end of the cleanup (segment.go:135-463).
THEOREM Invariance == Spec => []IInv
BY IInvInit, IInvNext, PTL DEF Spec

\* A pull that is over leaves no file, no reservation and no goroutine behind
\* (segment.go:450-463, cleanup), for every width, size, limit and quota.
THEOREM NothingIsLeft == Spec => []NothingLeft
<1>1. IInv => NothingLeft
  <2>. SUFFICES ASSUME IInv, pc = "closed" PROVE
         files = {} /\ used = others /\ \A i \in Segments : goroutine[i] \in {"none", "ended"}
    BY DEF NothingLeft
  <2>1. Segments \subseteq Slots
    BY SegmentsInSlots DEF IInv, Bounds, Segments, Count
  <2>2. used = others
    BY DEF IInv, Bounds, Accounted, Reserving, During
  <2>. QED BY <2>1, <2>2 DEF IInv, Swept
<1>. QED BY <1>1, Invariance, PTL

\* A segment that its goroutine reported complete stays on disk until the reader
\* cleans up (segment.go:324-352 reads it and compares its neighbour with it).
THEOREM CompleteIsKept == Spec => []CompleteKept
BY Invariance, PTL DEF IInv

\* A plan that a pull follows is an ordered partition of the blob, respects
\* min_segment_size and overlaps only with the left neighbour (segment.go:92-133).
THEOREM PlansAreSound ==
    Spec => []AcceptedPlans
<1>1. IInv => AcceptedPlans
  <2>. SUFFICES ASSUME IInv, Accepted(size, Maximum, Minimum)
       PROVE  /\ Partition(size, Count)
              /\ LongEnough(size, Count, Minimum)
              /\ OverlapInLeft(size, Count)
    BY DEF AcceptedPlans, AcceptedPartitions, AcceptedLongEnough, AcceptedOverlaps
  <2>1. size \in -Half..(Half - 1) /\ Maximum \in Int /\ Minimum \in Int
    BY SegmentedAssumption, WidthAssumption DEF IInv, Bounds
  <2>. QED BY <2>1, AcceptedPlanPartitions, AcceptedPlanLongEnough, AcceptedPlanOverlaps DEF Count
<1>. QED BY <1>1, Invariance, PTL

-----------------------------------------------------------------------------
(* SegmentedBlob implements BlobDelivery.  The invariant this needs, beside  *)
(* IInv, is about the reader.                                                *)

\* The n positions that begin with from.
Run(from, n) == [i \in 1..n |-> from + i - 1]

\* What appending n bytes does to a sequence of positions.
LEMMA AppendBytes ==
    ASSUME NEW s \in Seq(Nat), NEW n \in Nat, NEW from \in Nat
    PROVE  /\ s \o Run(from, n) \in Seq(Nat)
           /\ Len(s \o Run(from, n)) = Len(s) + n
           /\ n = 0 => s \o Run(from, n) = s
  <1> DEFINE t == Run(from, n)
  <1>1. t \in Seq(Nat) /\ Len(t) = n
    <2>1. t \in [1..n -> Nat]
      BY DEF Run
    <2> QED BY <2>1, IsASeq, SeqDef, LenProperties
  <1> HIDE DEF t
  <1>2. s \o t \in Seq(Nat) /\ Len(s \o t) = Len(s) + n
    BY <1>1, ConcatProperties
  <1>3. n = 0 => s \o t = s
    <2> SUFFICES ASSUME n = 0 PROVE s \o t = s
      OBVIOUS
    <2>1. t = <<>>
      BY <1>1, EmptySeq
    <2> QED BY <2>1, ConcatEmptySeq
  <1> QED BY <1>2, <1>3 DEF t

\* Nothing is sent before a plan is accepted, and it stays the plan of the pull.
Planned ==
    /\ pc \in Before => /\ delivered = <<>> /\ position = Closed
                        /\ current = 0 /\ ~pending
    /\ pc \in {"reserved"} \cup During => Accepted(size, Maximum, Minimum)

\* As long as the segments are read, what is delivered ends where the open file
\* goes on or the current segment begins.
Placed ==
    after = "none" /\ ~pending /\ pc \in {"body", "write"} =>
        /\ current \in 0..Count
        /\ current < Count =>
              Len(delivered) = IF position = Closed THEN First(size, Count, current)
                               ELSE position
        /\ current = Count => Len(delivered) = size
        /\ pc = "body" => Len(delivered) < size

\* An outcome is decided by the handler, right before the last cleanup.
Settled ==
    /\ pc \in {"fallback", "abort", "body", "write"} => after # "closed"
    /\ pc # "closed" /\ after # "closed" => outcome = "none"
    /\ pc = "closed" \/ after = "closed" => outcome \in {"single", "complete", "aborted", "gone"}
    /\ outcome = "single" => delivered = <<>>

DInv == IInv /\ delivered \in Seq(Nat) /\ Planned /\ Placed /\ Settled

\* Where the segments of an accepted plan begin and end.
LEMMA PlanBounds ==
    ASSUME NEW s \in 0..(Half - 1), Accepted(s, Maximum, Minimum)
    PROVE  LET count == SegmentCount(s, Maximum, Minimum)
           IN  /\ count \in Nat /\ count >= 2 /\ s \in Nat \ {0}
               /\ First(s, count, 0) = 0
               /\ Last(s, count, count - 1) + 1 = s
               /\ \A i \in 0..(count - 1) :
                     /\ First(s, count, i) \in Nat /\ Last(s, count, i) + 1 \in Nat
                     /\ Last(s, count, i) + 1 <= s
               /\ \A i \in 0..(count - 2) : First(s, count, i + 1) = Last(s, count, i) + 1
  <1> DEFINE count == SegmentCount(s, Maximum, Minimum)
  <1>1. s \in -Half..(Half - 1) /\ Maximum \in Int /\ Minimum \in Int
    BY SegmentedAssumption, WidthAssumption
  <1>2. count \in Nat \ {0} /\ s \in 1..(Half - 1) /\ count >= 2
    BY <1>1, CountBounds DEF Accepted
  <1>3. Partition(s, count)
    BY <1>1, AcceptedPlanPartitions
  <1>4. \A i \in 0..count : i * s \in Nat /\ Cut(s, count, i) = (i * s) \div count
    BY <1>1, AcceptedFits
  <1> HIDE DEF count
  <1>5. ASSUME NEW i \in 0..(count - 1)
        PROVE  /\ First(s, count, i) \in Nat /\ Last(s, count, i) + 1 \in Nat
               /\ Last(s, count, i) + 1 <= s
    <2>1. i \in 0..count /\ i + 1 \in 0..count /\ i \in Nat /\ i + 1 \in Nat /\ i + 1 <= count
      BY <1>2
    <2>2. /\ Cut(s, count, i) = (i * s) \div count
          /\ Cut(s, count, i + 1) = ((i + 1) * s) \div count
          /\ i * s \in Nat /\ (i + 1) * s \in Nat
      BY <1>4, <2>1
    <2>3. Cut(s, count, i) \in Nat /\ Cut(s, count, i + 1) \in Nat
      BY <1>2, <2>2, Division
    <2>4. (i + 1) * s <= count * s /\ count * s \in Nat
      BY <1>2, <2>1, ProductMonotone
    <2>5. ((i + 1) * s) \div count <= s
      <3>1. (i + 1) * s + count * 0 <= count * s
        BY <1>2, <2>2, <2>4
      <3>2. ((i + 1) * s) \div count + 0 <= (count * s) \div count
        BY <1>2, <2>2, <2>4, <3>1, DivisionGrows
      <3>3. (count * s) \div count = s
        BY <1>2, DivisionExact
      <3> QED BY <2>2, <2>3, <3>2, <3>3
    <2> QED BY <2>2, <2>3, <2>5 DEF First, Last
  <1>6. First(s, count, 0) = 0 /\ Last(s, count, count - 1) + 1 = s
    <2>1. count - 1 \in 0..(count - 1)
      BY <1>2
    <2>2. Last(s, count, count - 1) = s - 1
      BY <1>3 DEF Partition
    <2> QED BY <1>2, <1>3, <2>2 DEF Partition
  <1> QED BY <1>2, <1>3, <1>5, <1>6 DEF Partition, count

LEMMA AcceptedNow ==
    Accepted(size, Maximum, Minimum) <=> Count >= 2 /\ Storage # 0
  BY DEF Accepted, Count, Storage

\* PlanBounds in the words of the state.
LEMMA PlanNow ==
    ASSUME DInv, pc \in {"reserved"} \cup During
    PROVE  /\ Count \in Nat /\ Count >= 2 /\ size \in Nat \ {0}
           /\ First(size, Count, 0) = 0
           /\ Last(size, Count, Count - 1) + 1 = size
           /\ \A i \in 0..(Count - 1) :
                 /\ First(size, Count, i) \in Nat /\ Last(size, Count, i) + 1 \in Nat
                 /\ Last(size, Count, i) + 1 <= size
           /\ \A i \in 0..(Count - 2) : First(size, Count, i + 1) = Last(size, Count, i) + 1
  <1>1. size \in 0..(Half - 1) /\ Accepted(size, Maximum, Minimum)
    BY DEF DInv, IInv, Bounds, Planned
  <1> QED BY <1>1, PlanBounds DEF Count

\* A planned segment is not empty.
LEMMA SegmentOrdered ==
    ASSUME DInv, pc \in {"reserved"} \cup During, NEW i \in 0..(Count - 1)
    PROVE  First(size, Count, i) <= Last(size, Count, i)
  <1>1. size \in -Half..(Half - 1) /\ Maximum \in Int /\ Minimum \in Int
    BY SegmentedAssumption, WidthAssumption DEF DInv, IInv, Bounds
  <1>2. Accepted(size, Maximum, Minimum)
    BY DEF DInv, Planned
  <1> QED BY <1>1, <1>2, AcceptedPlanPartitions DEF Partition, Count

\* A step that leaves the response alone is none of it.
LEMMA Silent ==
    ASSUME UNCHANGED <<size, delivered, outcome>>
    PROVE  UNCHANGED Delivery!vars
  BY DEF Delivery!vars, Ended

\* A response begins when a plan is accepted, and the next one when this is over.
LEMMA AdmissionDelivers ==
    ASSUME DInv, IInv', GoSingle \/ Probe \/ Reserve \/ StartFails \/ Start \/ NextPull
    PROVE  DInv' /\ [Delivery!Next]_(Delivery!vars)
  <1> USE DEF DInv
  <1>1. CASE GoSingle \/ StartFails
    <2>1. /\ UNCHANGED <<size, reader>> /\ pc \in Before /\ pc' = "closed" /\ outcome' = "single"
      BY <1>1 DEF GoSingle, StartFails, client, Before
    <2>2. delivered = <<>> /\ outcome = "none" /\ after = "none"
      BY <2>1 DEF Planned, Settled, IInv, Untouched, Before
    <2>3. DInv'
      BY <2>1, <2>2 DEF reader, Planned, Placed, Settled, Before, During
    <2>4. UNCHANGED Delivery!vars
      BY <2>1, <2>2 DEF Delivery!vars, Ended, reader
    <2> QED BY <2>3, <2>4
  <1>2. CASE Probe
    <2>1. /\ UNCHANGED <<reader, outcome>> /\ pc = "idle" /\ pc' = "planned" /\ size' \in Nat
      BY <1>2 DEF Probe
    <2>2. delivered = <<>> /\ outcome = "none" /\ after = "none"
      BY <2>1 DEF Planned, Settled, IInv, Untouched, Before
    <2>3. DInv'
      BY <2>1, <2>2 DEF reader, Planned, Placed, Settled, Before, During
    <2>4. Delivery!Announce
      BY <2>1, <2>2 DEF Delivery!Announce, Ended, reader
    <2> QED BY <2>3, <2>4 DEF Delivery!Next
  <1>3. CASE Reserve
    <2>1. /\ UNCHANGED <<size, reader, outcome>> /\ pc = "planned" /\ pc' = "reserved"
          /\ Count >= 2 /\ Storage \in 1..(Limit - used)
      BY <1>3 DEF Reserve, Acquire, client
    <2>2. Accepted(size, Maximum, Minimum)
      BY <2>1, AcceptedNow
    <2>3. DInv'
      BY <2>1, <2>2 DEF reader, Planned, Placed, Settled, Before, During, IInv, Untouched
    <2> QED BY <2>1, <2>3, Silent DEF reader
  <1>4. CASE Start
    <2>1. /\ UNCHANGED <<size, reader, outcome>> /\ pc = "reserved" /\ pc' = "body"
          /\ Count' = Count
      BY <1>4 DEF Start, client, Count
    <2>2. /\ delivered = <<>> /\ current = 0 /\ position = Closed /\ after = "none"
          /\ Len(delivered) = 0
      BY <2>1, EmptySeq, LenProperties DEF Planned, IInv, Untouched, Before
    <2>3. Placed'
      BY <2>1, <2>2, PlanNow DEF reader, Placed
    <2>4. DInv'
      BY <2>1, <2>2, <2>3 DEF reader, Planned, Settled, Before, During
    <2> QED BY <2>1, <2>4, Silent DEF reader
  <1>5. CASE NextPull
    <2>1. /\ pc = "closed" /\ pc' = "idle" /\ size' = 0 /\ after' = "none"
          /\ current' = 0 /\ position' = Closed /\ pending' = FALSE /\ delivered' = <<>>
          /\ outcome' = "none"
      BY <1>5 DEF NextPull
    <2>2. DInv'
      BY <2>1, EmptySeq DEF Planned, Placed, Settled, Before, During
    <2>3. CASE outcome = "single"
      <3>1. Delivery!Announce
        BY <2>1, <2>3 DEF Delivery!Announce, Ended, Settled
      <3> QED BY <2>2, <3>1 DEF Delivery!Next
    <2>4. CASE outcome # "single"
      <3>1. Delivery!Again
        BY <2>1, <2>4 DEF Delivery!Again, Ended, Settled
      <3> QED BY <2>2, <3>1 DEF Delivery!Next
    <2> QED BY <2>3, <2>4
  <1> QED BY <1>1, <1>2, <1>3, <1>4, <1>5

\* The downloads, the cleanup and the opening of the single stream send nothing.
LEMMA BackgroundDelivers ==
    ASSUME DInv, IInv',
           \/ Downloads \/ Cleanup \/ Fallback \/ ClientLeaves \/ OthersRelease \/ UNCHANGED vars
           \/ \E i \in Segments : Interrupted(i)
           \/ \E n \in 1..Limit : OthersAcquire(n)
    PROVE  DInv' /\ UNCHANGED Delivery!vars
  <1> USE DEF DInv
  <1>1. CASE \/ Downloads \/ ClientLeaves \/ OthersRelease \/ UNCHANGED vars
             \/ \E i \in Segments : Interrupted(i)
             \/ \E n \in 1..Limit : OthersAcquire(n)
    <2>1. UNCHANGED <<pc, size, reader, outcome>> /\ Count' = Count
      BY <1>1 DEF Downloads, Interrupted, OpenSegment, OpenSegmentFails, CreateFile,
                  CreateFileFails, CopyEnds, CopyFails, End, ClientLeaves, OthersRelease,
                  OthersAcquire, vars, client, Count
    <2>2. DInv'
      BY <2>1 DEF reader, Planned, Placed, Settled
    <2> QED BY <2>1, <2>2, Silent DEF reader
  <1>2. CASE Cleanup \/ Fallback
    <2>1. /\ UNCHANGED <<size, after, current, pending, delivered, outcome>>
          /\ pc \in {"cleaning", "joining", "removed", "fallback"} /\ after # "none"
          /\ \/ pc' \in {"joining", "removed"}
             \/ pc # "fallback" /\ pc' = after
             \/ pc = "fallback" /\ pc' \in {"body", "abort"} /\ after = "fallback"
      BY <1>2 DEF Cleanup, CleanupCancels, CleanupRemoves, CleanupReleases, Fallback,
                  OpenFallback, OpenFallbackFails, client, reader, IInv, CleanedOnce
    <2>2. after \in {"fallback", "abort", "closed"} /\ pc \in During
      BY <2>1 DEF IInv, CleanedOnce, During
    <2>3. DInv'
      BY <2>1, <2>2 DEF Planned, Placed, Settled, Before, During
    <2> QED BY <2>1, <2>3, Silent
  <1> QED BY <1>1, <1>2

\* The bytes read from a file or from the single stream are the next ones.
LEMMA NextBytes ==
    ASSUME DInv, NEW n \in Nat \ {0}, Len(delivered) + n <= size,
           size' = size, outcome = "none", outcome' = outcome,
           delivered' = delivered \o Run(Len(delivered), n)
    PROVE  /\ delivered' \in Seq(Nat) /\ Len(delivered') = Len(delivered) + n
           /\ Delivery!Next
  <1>1. delivered \in Seq(Nat) /\ Len(delivered) \in Nat /\ size \in Nat
    BY LenProperties, WidthAssumption DEF DInv, IInv, Bounds
  <1>2. delivered' \in Seq(Nat) /\ Len(delivered') = Len(delivered) + n
    BY <1>1, AppendBytes
  <1>3. n \in 1..(size - Len(delivered))
    BY <1>1
  <1>4. Delivery!Send(n)
    <2>1. Ended = "none" /\ Ended' = Ended
      BY DEF Ended
    <2>2. delivered' = delivered \o [i \in 1..n |-> 0 + Len(delivered) + i - 1]
      BY <1>1 DEF Run
    <2> QED BY <2>1, <2>2 DEF Delivery!Send
  <1> QED BY <1>2, <1>3, <1>4 DEF Delivery!Next

\* A Read takes the bytes that are due from a file, over the boundaries of the
\* segments, or from the single stream.
LEMMA ReadsDeliver ==
    ASSUME DInv, IInv', Reads
    PROVE  DInv' /\ [Delivery!Next]_(Delivery!vars)
  <1> USE DEF DInv
  <1>1. CASE SegmentFailed \/ OverlapDiffers \/ FileFails \/ PendingFallback \/ ReadFallbackFails
    <2>1. /\ UNCHANGED <<size, delivered, outcome>> /\ pc = "body"
          /\ pc' \in {"cleaning", "abort"} /\ after' \in {"fallback", "abort"}
      BY <1>1 DEF SegmentFailed, OverlapDiffers, FileFails, PendingFallback, ReadFallbackFails,
                  Fail, InSegments, client, reader
    <2>2. DInv'
      BY <2>1 DEF Planned, Placed, Settled, Before, During
    <2> QED BY <2>1, <2>2, Silent
  <1>2. CASE OpenFile
    <2>1. /\ UNCHANGED <<pc, size, after, current, pending, delivered, outcome>> /\ Count' = Count
          /\ pc = "body" /\ after = "none" /\ ~pending /\ position = Closed
          /\ position' = First(size, Count, current)
      BY <1>2 DEF OpenFile, InSegments, client, Count
    <2>2. /\ current \in 0..(Count - 1) /\ Count \in Nat
          /\ First(size, Count, current) \in Nat
      BY <2>1, PlanNow DEF Placed, During
    <2>3. Placed'
      BY <2>1, <2>2 DEF Placed, Closed
    <2>4. DInv'
      BY <2>1, <2>3 DEF Planned, Settled, Before, During
    <2> QED BY <2>1, <2>4, Silent
  <1>3. ASSUME NEW n \in Nat, NEW failed \in BOOLEAN, ReadFile(n, failed)
        PROVE  DInv' /\ Delivery!Next
    <2> DEFINE end == Last(size, Count, current) + 1
    <2>1. /\ UNCHANGED <<size, after, outcome>> /\ Count' = Count
          /\ pc = "body" /\ after = "none" /\ ~pending /\ position # Closed
          /\ n > 0 /\ position + n <= end
          /\ delivered' = delivered \o [k \in 1..n |-> position + k - 1]
          /\ pc' = "write" /\ pending' = failed
          /\ IF position + n = end /\ ~failed
             THEN position' = Closed /\ current' = current + 1
             ELSE position' = position + n /\ current' = current
      BY <1>3 DEF ReadFile, InSegments, client, Count
    <2>2. /\ Count \in Nat /\ current \in 0..(Count - 1) /\ end \in Nat /\ end <= size
          /\ position = Len(delivered) /\ position \in Nat
          /\ current = Count - 1 => end = size
          /\ current # Count - 1 => First(size, Count, current + 1) = end
      <3>1. /\ current \in 0..Count /\ current # Count /\ Count \in Nat
            /\ Len(delivered) \in Nat /\ size \in Nat
        BY <2>1, PlanNow, LenProperties DEF Placed, During
      <3>2. current \in 0..(Count - 1) /\ position = Len(delivered)
        BY <2>1, <3>1 DEF Placed
      <3>3. current # Count - 1 => current \in 0..(Count - 2)
        BY <3>1, <3>2
      <3> QED BY <2>1, <3>1, <3>2, <3>3, PlanNow DEF During
    <2> HIDE DEF end
    <2>3. /\ delivered' \in Seq(Nat) /\ Len(delivered') = position + n
          /\ Delivery!Next
      <3>1. delivered' = delivered \o Run(Len(delivered), n)
        BY <2>1, <2>2 DEF Run
      <3>2. outcome = "none" /\ n \in Nat \ {0} /\ Len(delivered) + n <= size
        BY <2>1, <2>2, PlanNow DEF Settled, During
      <3> QED BY <2>1, <2>2, <3>1, <3>2, NextBytes
    <2>4. Placed'
      BY <2>1, <2>2, <2>3 DEF Placed, Closed
    <2>5. DInv'
      BY <2>1, <2>3, <2>4 DEF Planned, Settled, Before, During
    <2> QED BY <2>3, <2>5
  <1>4. ASSUME NEW n \in Nat, ReadFallback(n)
        PROVE  DInv' /\ Delivery!Next
    <2>1. /\ UNCHANGED <<size, after, outcome>>
          /\ pc = "body" /\ pc' = "write" /\ after = "fallback"
          /\ n \in Nat \ {0} /\ Len(delivered) + n <= size
          /\ delivered' = delivered \o Run(Len(delivered), n)
      BY <1>4 DEF ReadFallback, client, Run
    <2>2. outcome = "none"
      BY <2>1 DEF Settled
    <2>3. delivered' \in Seq(Nat) /\ Delivery!Next
      BY <2>1, <2>2, NextBytes
    <2>4. DInv'
      BY <2>1, <2>2, <2>3 DEF Planned, Placed, Settled, Before, During
    <2> QED BY <2>3, <2>4
  <1>5. \A n \in 1..size : n \in Nat
    BY WidthAssumption DEF IInv, Bounds
  <1> QED BY <1>1, <1>2, <1>3, <1>4, <1>5 DEF Reads

\* The response ends once, properly only with the last byte.
LEMMA EndingDelivers ==
    ASSUME DInv, IInv', Ending
    PROVE  DInv' /\ [Delivery!Next]_(Delivery!vars)
  <1> USE DEF DInv
  <1>1. CASE Write
    <2>1. /\ UNCHANGED <<size, reader, outcome>> /\ Count' = Count
          /\ pc = "write" /\ pc' = "body" /\ Len(delivered) < size
      BY <1>1 DEF Write, client, Count
    <2>2. DInv'
      BY <2>1 DEF reader, Planned, Placed, Settled, Before, During
    <2> QED BY <2>1, <2>2, Silent DEF reader
  <1>2. CASE Complete \/ WriteFails \/ Abort
    <2>1. /\ UNCHANGED <<size, delivered>>
          /\ pc \in {"write", "abort"} /\ pc' = "cleaning" /\ after' = "closed"
          /\ \/ outcome' \in {"aborted", "gone"}
             \/ outcome' = "complete" /\ Len(delivered) = size
      BY <1>2 DEF Complete, WriteFails, Abort, Finish, client
    <2>2. outcome = "none"
      BY <2>1 DEF Settled
    <2>3. DInv'
      BY <2>1 DEF Planned, Placed, Settled, Before, During
    <2>4. CASE outcome' \in {"aborted", "gone"}
      <3>1. Delivery!End("cut")
        BY <2>1, <2>2, <2>4 DEF Delivery!End, Ended
      <3> QED BY <2>3, <3>1 DEF Delivery!Next
    <2>5. CASE outcome' = "complete" /\ Len(delivered) = size
      <3>1. Delivery!End("complete")
        BY <2>1, <2>2, <2>5 DEF Delivery!End, Ended
      <3> QED BY <2>3, <3>1 DEF Delivery!Next
    <2> QED BY <2>1, <2>4, <2>5
  <1> QED BY <1>1, <1>2 DEF Ending

LEMMA DInvInit == Init => DInv /\ Delivery!Init
  <1> SUFFICES ASSUME Init PROVE DInv /\ Delivery!Init
    OBVIOUS
  <1>1. IInv
    BY IInvInit
  <1>2. DInv
    BY <1>1, EmptySeq DEF Init, DInv, Planned, Placed, Settled, Before, During
  <1>3. Delivery!Init
    BY DEF Init, Delivery!Init, Ended
  <1> QED BY <1>2, <1>3

LEMMA DInvNext == DInv /\ [Next]_vars => DInv' /\ [Delivery!Next]_(Delivery!vars)
  <1> SUFFICES ASSUME DInv, [Next]_vars PROVE DInv' /\ [Delivery!Next]_(Delivery!vars)
    OBVIOUS
  <1>1. IInv'
    BY IInvNext DEF DInv
  <1>2. CASE Admission \/ NextPull
    BY <1>1, <1>2, AdmissionDelivers DEF Admission
  <1>3. CASE \/ Downloads \/ Cleanup \/ Fallback \/ ClientLeaves \/ OthersRelease \/ UNCHANGED vars
             \/ \E i \in Segments : Interrupted(i)
             \/ \E n \in 1..Limit : OthersAcquire(n)
    BY <1>1, <1>3, BackgroundDelivers
  <1>4. CASE Reads
    BY <1>1, <1>4, ReadsDeliver
  <1>5. CASE Ending
    BY <1>1, <1>5, EndingDelivers
  <1> QED BY <1>2, <1>3, <1>4, <1>5 DEF Next

\* For every size a Provider claims and every plan: the client receives the bytes
\* once and in order, over the boundaries of the segments and a change to the single
\* stream, and the response ends properly only after the last (segment.go:254-420).
THEOREM SegmentsDeliver == Spec => ImplementsDelivery
  <1> QED BY DInvInit, DInvNext, PTL DEF Spec, ImplementsDelivery, Delivery!Spec

-----------------------------------------------------------------------------
(* BudgetInv.  A reservation is the sum of all lengths, what is on disk the *)
(* sum of some.                                                             *)

\* The reservation of a plan is the sum of its lengths.
LEMMA TotalIsSum ==
    ASSUME NEW s, NEW count \in Nat
    PROVE  \E f : /\ Sums(f, count, [i \in 0..(count - 1) |-> Length(s, count, i)])
                  /\ TotalLength(s, count) = f[count]
  <1> DEFINE w == [i \in 0..(count - 1) |-> Length(s, count, i)]
             total[n \in 0..count] == IF n = 0 THEN 0 ELSE total[n - 1] + Length(s, count, n - 1)
             Equation(f) ==
                f = [n \in 0..count |-> IF n = 0 THEN 0 ELSE f[n - 1] + Length(s, count, n - 1)]
  <1>1. TotalLength(s, count) = total[count]
    BY Zenon DEF TotalLength
  <1>2. total = CHOOSE f : Equation(f)
    OBVIOUS
  <1>3. \A f : Sums(f, count, w) <=> Equation(f)
    <2> SUFFICES ASSUME NEW f PROVE Sums(f, count, w) <=> Equation(f)
      OBVIOUS
    <2>1. \A n \in 0..count : n # 0 => w[n - 1] = Length(s, count, n - 1)
      OBVIOUS
    <2> HIDE DEF w
    <2> QED BY <2>1 DEF Sums
  <1>4. \E f : Equation(f)
    BY <1>3, SumExists
  <1> HIDE DEF total
  <1>5. Equation(total)
    <2> HIDE DEF Equation
    <2> QED BY <1>2, <1>4, Zenon
  <1> HIDE DEF Equation
  <1> QED BY <1>1, <1>3, <1>5

\* What a segment has on disk, reckoned with its whole length.
OnDisk == [i \in 0..(Count - 1) |-> IF i \in files THEN Length(size, Count, i) ELSE 0]

LEMMA DiskIsSum ==
    ASSUME Count \in Nat
    PROVE  \E f : Sums(f, Count, OnDisk) /\ BytesOnDisk = f[Count]
  <1> DEFINE bytes[i \in 0..Count] ==
                IF i = 0 THEN 0
                ELSE bytes[i - 1] + (IF i - 1 \in files THEN Length(size, Count, i - 1) ELSE 0)
             Equation(f) ==
                f = [i \in 0..Count |->
                        IF i = 0 THEN 0
                        ELSE f[i - 1] + (IF i - 1 \in files THEN Length(size, Count, i - 1) ELSE 0)]
  <1>1. BytesOnDisk = bytes[Count]
    BY Zenon DEF BytesOnDisk
  <1>2. bytes = CHOOSE f : Equation(f)
    OBVIOUS
  <1>3. \A f : Sums(f, Count, OnDisk) <=> Equation(f)
    <2> SUFFICES ASSUME NEW f PROVE Sums(f, Count, OnDisk) <=> Equation(f)
      OBVIOUS
    <2>1. \A n \in 0..Count : n # 0 =>
             OnDisk[n - 1] = IF n - 1 \in files THEN Length(size, Count, n - 1) ELSE 0
      BY DEF OnDisk
    <2> QED BY <2>1 DEF Sums
  <1>4. \E f : Equation(f)
    BY <1>3, SumExists
  <1> HIDE DEF bytes
  <1>5. Equation(bytes)
    <2> HIDE DEF Equation
    <2> QED BY <1>2, <1>4, Zenon
  <1> HIDE DEF Equation
  <1> QED BY <1>1, <1>3, <1>5

\* Without files nothing is on disk.
LEMMA NothingOnDisk ==
    ASSUME Count \in Nat, files = {}
    PROVE  BytesOnDisk \in Int /\ BytesOnDisk <= 0
  <1> DEFINE none == [i \in 0..(Count - 1) |-> 0]
             zero == [i \in 0..Count |-> 0]
  <1>1. PICK f : Sums(f, Count, OnDisk) /\ BytesOnDisk = f[Count]
    BY DiskIsSum
  <1>2. Sums(zero, Count, none) /\ zero[Count] = 0
    BY DEF Sums
  <1>3. \A i \in 0..(Count - 1) : OnDisk[i] \in Int /\ none[i] \in Int /\ OnDisk[i] <= none[i]
    BY DEF OnDisk
  <1> HIDE DEF none, zero
  <1> QED BY <1>1, <1>2, <1>3, SumMonotone

\* The files of a plan that may reserve are no more than it reserves.
LEMMA FilesReserved ==
    ASSUME size \in Int, Count \in Nat \ {0}, Storage # 0
    PROVE  BytesOnDisk \in Int /\ BytesOnDisk <= Storage
  <1> DEFINE all == [i \in 0..(Count - 1) |-> Length(size, Count, i)]
  <1>1. PICK f : Sums(f, Count, OnDisk) /\ BytesOnDisk = f[Count]
    BY DiskIsSum
  <1>2. PICK g : Sums(g, Count, all) /\ TotalLength(size, Count) = g[Count]
    BY TotalIsSum
  <1>3. Storage = TotalLength(size, Count) /\ \A i \in 0..(Count - 1) : ~(Length(size, Count, i) <= 0)
    BY DEF Storage, StorageBytes
  <1>4. \A i \in 0..(Count - 1) : Length(size, Count, i) \in Int
    BY LengthInteger
  <1>5. \A i \in 0..(Count - 1) : OnDisk[i] \in Int /\ all[i] \in Int /\ OnDisk[i] <= all[i]
    BY <1>3, <1>4 DEF OnDisk
  <1> HIDE DEF all
  <1> QED BY <1>1, <1>2, <1>3, <1>5, SumMonotone

\* What DInv leaves open of the range of every variable.
Flags ==
    /\ gone \in BOOLEAN /\ cancelled \in BOOLEAN /\ pending \in BOOLEAN
    /\ after \in {"none", "fallback", "abort", "closed"}
    /\ outcome \in {"none", "single", "complete", "aborted", "gone"}

Places == current \in 0..Count /\ position \in Closed..size

Typed == DInv /\ Flags /\ files \subseteq Segments /\ Places

LEMMA FlagsKept ==
    ASSUME Typed, [Next]_vars
    PROVE  Flags'
  <1> USE DEF Flags
  <1>1. Flags
    BY DEF Typed
  <1>2. CASE Admission \/ NextPull \/ ClientLeaves
    BY <1>1, <1>2 DEF Admission, GoSingle, Probe, Reserve, StartFails, Start, NextPull,
                      ClientLeaves, client, download, reader
  <1>3. CASE \/ Downloads \/ OthersRelease \/ UNCHANGED vars
             \/ \E i \in Segments : Interrupted(i)
             \/ \E n \in 1..Limit : OthersAcquire(n)
    <2>1. UNCHANGED <<client, reader, outcome>> /\ (cancelled' = cancelled \/ cancelled' \in BOOLEAN)
      BY <1>3 DEF Downloads, Interrupted, OpenSegment, OpenSegmentFails, CreateFile,
                  CreateFileFails, CopyEnds, CopyFails, End, OthersRelease, OthersAcquire,
                  vars, download
    <2> QED BY <1>1, <2>1 DEF client, reader
  <1>4. CASE Reads \/ Fallback \/ Ending
    <2>1. /\ UNCHANGED <<client, download>>
          /\ after' = after \/ after' \in {"fallback", "abort", "closed"}
          /\ outcome' = outcome \/ outcome' \in {"complete", "gone", "aborted"}
          /\ pending' = pending \/ pending' \in BOOLEAN
      BY <1>4 DEF Reads, Fallback, Ending, SegmentFailed, OverlapDiffers, FileFails, OpenFile,
                  PendingFallback, ReadFallback, ReadFile, ReadFallbackFails, OpenFallback,
                  OpenFallbackFails, Write, Complete, Abort, WriteFails, Fail, Finish, reader
    <2> QED BY <1>1, <2>1 DEF client, download
  <1>5. CASE Cleanup
    <2>1. UNCHANGED <<client, after, pending, outcome>> /\ (cancelled' = cancelled \/ cancelled' \in BOOLEAN)
      BY <1>5 DEF Cleanup, CleanupCancels, CleanupRemoves, CleanupReleases, download, reader
    <2> QED BY <1>1, <2>1 DEF client
  <1> QED BY <1>2, <1>3, <1>4, <1>5 DEF Next

\* Only planned segments get a file, and the plan changes only without one.
LEMMA FilesKept ==
    ASSUME Typed, [Next]_vars
    PROVE  (files \subseteq Segments)'
  <1>1. CASE Probe \/ NextPull
    <2>1. files' = files /\ (pc = "idle" \/ pc = "closed")
      BY <1>1 DEF Probe, NextPull, download
    <2>2. files = {}
      BY <2>1 DEF Typed, DInv, IInv, Untouched, Swept, Before
    <2> QED BY <2>1, <2>2
  <1>2. CASE Downloads \/ \E i \in Segments : Interrupted(i)
    <2>1. size' = size /\ \E i \in Segments : files' \subseteq files \cup {i}
      BY <1>2 DEF Downloads, Interrupted, OpenSegment, OpenSegmentFails, CreateFile,
                  CreateFileFails, CopyEnds, CopyFails, End, client
    <2> QED BY <2>1 DEF Typed, Segments, Count
  <1>3. CASE \/ GoSingle \/ Reserve \/ StartFails \/ Start \/ Reads \/ Cleanup \/ Fallback \/ Ending
             \/ ClientLeaves \/ OthersRelease \/ UNCHANGED vars
             \/ \E n \in 1..Limit : OthersAcquire(n)
    <2>1. CASE GoSingle \/ Reserve \/ StartFails \/ Start \/ ClientLeaves \/ OthersRelease \/ UNCHANGED vars
               \/ \E n \in 1..Limit : OthersAcquire(n)
      BY <2>1 DEF GoSingle, Reserve, StartFails, Start, ClientLeaves, OthersRelease,
                  OthersAcquire, vars, client, download, Typed, Segments, Count
    <2>2. CASE Reads \/ Fallback \/ Ending
      BY <2>2 DEF Reads, Fallback, Ending, SegmentFailed, OverlapDiffers, FileFails, OpenFile,
                  PendingFallback, ReadFallback, ReadFile, ReadFallbackFails, OpenFallback,
                  OpenFallbackFails, Write, Complete, Abort, WriteFails, Fail, Finish, client,
                  download, Typed, Segments, Count
    <2>3. CASE Cleanup
      BY <2>3 DEF Cleanup, CleanupCancels, CleanupRemoves, CleanupReleases, client, download,
                  Typed, Segments, Count
    <2> QED BY <1>3, <2>1, <2>2, <2>3
  <1> QED BY <1>1, <1>2, <1>3 DEF Next, Admission

\* The reader stays inside its plan and the blob.
LEMMA PlacesKept ==
    ASSUME Typed, DInv', [Next]_vars
    PROVE  Places'
  <1> USE DEF Places
  <1>1. Places /\ DInv
    BY DEF Typed
  <1>2. ASSUME UNCHANGED <<size, current, position>> PROVE Places'
    BY <1>1, <1>2 DEF Count
  <1>3. CASE Probe \/ NextPull
    <2>1. current' = 0 /\ position' = Closed /\ size' \in Nat /\ Count' \in Nat
      <3>1. CASE Probe
        BY <3>1, <1>1, CountNatural, WidthAssumption
           DEF Probe, DInv, Planned, Before, reader, IInv, Bounds, Count
      <3>2. CASE NextPull
        BY <3>2, CountNatural, WidthAssumption DEF NextPull, Count
      <3> QED BY <1>3, <3>1, <3>2
    <2> QED BY <2>1 DEF Closed
  <1>4. CASE CleanupRemoves
    <2>1. UNCHANGED <<size, current>> /\ position' = Closed /\ size \in Nat
      BY <1>1, <1>4, WidthAssumption DEF CleanupRemoves, client, DInv, IInv, Bounds
    <2> QED BY <1>1, <2>1 DEF Count, Closed
  <1>5. CASE OpenFile
    <2>1. UNCHANGED <<size, current>> /\ position' = First(size, Count, current)
          /\ pc = "body" /\ after = "none" /\ ~pending /\ Count' = Count
      BY <1>5 DEF OpenFile, InSegments, client, Count
    <2>2. /\ current \in 0..Count /\ (current = Count => Len(delivered) = size)
          /\ Len(delivered) < size /\ Len(delivered) \in Nat /\ size \in Nat /\ Count \in Nat
      BY <1>1, <2>1, PlanNow, LenProperties DEF DInv, Placed, During
    <2>3. current \in 0..(Count - 1)
      BY <2>2
    <2>4. position' \in Nat /\ position' <= size
      <3>1. /\ First(size, Count, current) \in Nat
            /\ First(size, Count, current) <= Last(size, Count, current)
            /\ Last(size, Count, current) + 1 <= size /\ Last(size, Count, current) + 1 \in Nat
        BY <1>1, <2>1, <2>3, PlanNow, SegmentOrdered DEF During
      <3>2. Last(size, Count, current) \in Int
        <4>1. Cut(size, Count, current + 1) \in Int
          BY <2>2, <2>3, CutInteger
        <4> QED BY <4>1 DEF Last
      <3> QED BY <2>1, <2>2, <3>1, <3>2
    <2> QED BY <2>1, <2>2, <2>4 DEF Closed
  <1>6. ASSUME NEW n \in 1..size, NEW failed \in BOOLEAN, ReadFile(n, failed)
        PROVE  Places'
    <2>1. /\ size' = size /\ Count' = Count
          /\ pc = "body" /\ after = "none" /\ ~pending
          /\ position + n <= Last(size, Count, current) + 1
          /\ \/ position' = Closed /\ current' = current + 1
             \/ position' = position + n /\ current' = current
      BY <1>6 DEF ReadFile, InSegments, client, Count
    <2>2. /\ current \in 0..Count /\ (current = Count => Len(delivered) = size)
          /\ Len(delivered) < size /\ Len(delivered) \in Nat /\ size \in Nat /\ Count \in Nat
      BY <1>1, <2>1, PlanNow, LenProperties DEF DInv, Placed, During
    <2>3. current \in 0..(Count - 1)
      BY <2>2
    <2>4. Last(size, Count, current) + 1 <= size /\ Last(size, Count, current) + 1 \in Nat
      BY <1>1, <2>1, <2>3, PlanNow DEF During
    <2> QED BY <1>1, <2>1, <2>2, <2>3, <2>4 DEF Closed
  <1>7. CASE GoSingle \/ Reserve \/ StartFails \/ Start \/ ClientLeaves \/ OthersRelease
             \/ UNCHANGED vars \/ \E n \in 1..Limit : OthersAcquire(n)
    BY <1>2, <1>7 DEF GoSingle, Reserve, StartFails, Start, ClientLeaves, OthersRelease,
                      OthersAcquire, vars, client, reader
  <1>8. CASE Downloads \/ \E i \in Segments : Interrupted(i)
    BY <1>2, <1>8 DEF Downloads, Interrupted, OpenSegment, OpenSegmentFails, CreateFile,
                      CreateFileFails, CopyEnds, CopyFails, End, client, reader
  <1>9. CASE Reads \/ Fallback \/ Ending \/ CleanupCancels \/ CleanupReleases
    <2>1. CASE \/ SegmentFailed \/ OverlapDiffers \/ FileFails \/ PendingFallback
               \/ ReadFallbackFails \/ Fallback \/ Ending
               \/ \E n \in 1..size : ReadFallback(n)
      BY <1>2, <2>1 DEF Fallback, Ending, SegmentFailed, OverlapDiffers, FileFails,
                  PendingFallback, ReadFallback, ReadFallbackFails, OpenFallback,
                  OpenFallbackFails, Write, Complete, Abort, WriteFails, Fail, Finish, client, reader
    <2>2. CASE CleanupCancels \/ CleanupReleases
      BY <1>2, <2>2 DEF CleanupCancels, CleanupReleases, client, reader
    <2> QED BY <1>5, <1>6, <1>9, <2>1, <2>2 DEF Reads
  <1> QED BY <1>3, <1>4, <1>7, <1>8, <1>9 DEF Next, Admission, Cleanup

LEMMA TypedInit == Init => Typed
  <1> SUFFICES ASSUME Init PROVE Typed
    OBVIOUS
  <1>1. Count \in Nat
    BY CountNatural, WidthAssumption DEF Init, Count
  <1>2. DInv
    BY DInvInit
  <1>3. Flags /\ files \subseteq Segments
    BY DEF Init, Flags
  <1>4. Places
    BY <1>1 DEF Init, Places, Closed
  <1> QED BY <1>2, <1>3, <1>4 DEF Typed

LEMMA TypedNext == Typed /\ [Next]_vars => Typed'
  <1> SUFFICES ASSUME Typed, [Next]_vars PROVE Typed'
    OBVIOUS
  <1>1. DInv'
    BY DInvNext DEF Typed
  <1> QED BY <1>1, FlagsKept, FilesKept, PlacesKept DEF Typed

\* Every variable keeps its range, TempBudget's counter is never negative nor above
\* the quota, and whatever lies in temporary files is reserved: together with the other
\* pulls it stays within the quota, for every quota, width and plan
\* (segment.go:31-48, 135-170, 446-470).
THEOREM DiskStaysWithinBudget == Spec => []BudgetInv
  <1>1. Typed => BudgetInv
    <2> SUFFICES ASSUME Typed PROVE BudgetInv
      OBVIOUS
    <2>1. /\ DInv /\ IInv /\ Bounds /\ Accounted
          /\ size \in Int /\ others \in Nat /\ Limit \in Nat /\ Count \in Nat
      BY CountNatural, SegmentedAssumption, WidthAssumption DEF Typed, DInv, IInv, Bounds, Count
    <2>2. used \in 0..Limit /\ others \in 0..Limit
      BY <2>1 DEF Accounted
    <2>3. TypeOK
      BY <2>1, <2>2 DEF TypeOK, Typed, Flags, Places, DInv, Bounds, Before, During
    <2>4. BytesOnDisk \in Int /\ others + BytesOnDisk <= used
      <3>1. CASE Reserving
        <4>1. Storage \in Nat \ {0} /\ Count \in Nat \ {0} /\ used = others + Storage
          BY <2>1, <3>1, PlanNow DEF Accounted, Reserving
        <4> QED BY <2>1, <4>1, FilesReserved
      <3>2. CASE ~Reserving
        <4>1. files = {}
          BY <2>1, <3>2 DEF Reserving, IInv, Bounds, Untouched, Swept, Before, During
        <4>2. used = others
          BY <2>1, <3>2 DEF Accounted
        <4> QED BY <2>1, <4>1, <4>2, NothingOnDisk
      <3> QED BY <3>1, <3>2
    <2> QED BY <2>2, <2>3, <2>4 DEF BudgetInv, DiskWithinBudget
  <1> QED BY <1>1, TypedInit, TypedNext, PTL DEF Spec
=============================================================================
