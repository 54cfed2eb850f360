--------------------------- MODULE BlobStreamProofs ---------------------------
(***************************************************************************)
(* BlobStream for any Providers, blob, stretch of it and configuration,    *)
(* whatever fails, stalls or leaves, and whatever others record in Health  *)
(* meanwhile: it implements BlobDelivery, no body stays open, only what    *)
(* was received in full and verified is reported as complete, and a        *)
(* transfer is given up only when every Provider has been tried.           *)
(***************************************************************************)
EXTENDS BlobStream, SequenceTheorems, TLAPS

\* The n positions that begin with from.
Run(from, n) == [i \in 1..n |-> from + i - 1]

\* What appending n bytes does to a sequence of positions.
LEMMA AppendBytes ==
    ASSUME NEW S, NEW s \in Seq(S), NEW n \in Nat, NEW from \in Nat,
           \A i \in 1..n : from + i - 1 \in S
    PROVE  /\ s \o Run(from, n) \in Seq(S)
           /\ Len(s \o Run(from, n)) = Len(s) + n
           /\ n = 0 => s \o Run(from, n) = s
  <1> DEFINE t == Run(from, n)
  <1>1. t \in Seq(S) /\ Len(t) = n
    <2>1. t \in [1..n -> S]
      BY DEF Run
    <2> QED BY <2>1, IsASeq, SeqDef, LenProperties
  <1> HIDE DEF t
  <1>2. s \o t \in Seq(S) /\ Len(s \o t) = Len(s) + n
    BY <1>1, ConcatProperties
  <1>3. n = 0 => s \o t = s
    <2> SUFFICES ASSUME n = 0 PROVE s \o t = s
      OBVIOUS
    <2>1. t = <<>>
      BY <1>1, EmptySeq
    <2> QED BY <2>1, ConcatEmptySeq
  <1> QED BY <1>2, <1>3 DEF t

\* The reader's books: offset counts what is delivered, and lies in the request.
Counted ==
    /\ want \in Requests
    /\ delivered \in Seq(Nat)
    /\ offset = Start + Len(delivered) /\ offset <= End + 1

\* The stream that is read stands at the byte owed, and returns no more than that.
InStep ==
    /\ pc \in {"body", "reading", "returned"} => next = offset
    /\ pc = "returned" => ret.n \in Nat /\ ret.n <= End + 1 - offset

\* Nothing is sent before a source is opened, and nothing is missing at the end.
Phases ==
    /\ pc \in {"idle", "open"} => delivered = <<>>
    /\ pc = "verify" => offset = End + 1
    /\ IF pc \in {"finishing", "closed"}
       THEN outcome \in Refused \cup Cut \cup {"complete"}
       ELSE outcome = "none"

IInv == Counted /\ InStep /\ Phases

-----------------------------------------------------------------------------
\* The stretch asked for is one of numbers.
LEMMA WantNat ==
    ASSUME want \in Requests
    PROVE  Start \in Nat /\ End \in Nat /\ Start <= End
  BY BlobAssumption DEF Start, End

-----------------------------------------------------------------------------
\* A step that leaves the reader's books and the response alone is none of the
\* response.
LEMMA Silent ==
    ASSUME UNCHANGED <<want, delivered, outcome>>
    PROVE  UNCHANGED Delivery!vars
  BY DEF Delivery!vars, Start, End, Ended

\* Bytes that are read at the right place are the next ones of the response.
LEMMA DeliverSends ==
    ASSUME IInv, pc = "returned", Deliver, UNCHANGED <<deployment, want>>
    PROVE  /\ Counted' /\ next' = offset' /\ offset' = offset + ret.n
           /\ [Delivery!Next]_(Delivery!vars)
  <1>1. /\ Start \in Nat /\ End \in Nat /\ Start <= End
        /\ ret.n \in Nat /\ ret.n <= End + 1 - offset
        /\ next = offset /\ offset = Start + Len(delivered)
        /\ delivered \in Seq(Nat) /\ Len(delivered) \in Nat
    BY WantNat, LenProperties DEF IInv, Counted, InStep
  <1>2. /\ delivered' = delivered \o [i \in 1..ret.n |-> offset + i - 1]
        /\ offset' = offset + ret.n /\ next' = offset + ret.n
        /\ UNCHANGED <<want, outcome>>
    BY <1>1 DEF Deliver
  <1>3. /\ delivered' \in Seq(Nat) /\ Len(delivered') = Len(delivered) + ret.n
        /\ ret.n = 0 => delivered' = delivered
    <2>1. delivered \in Seq(Nat) /\ ret.n \in Nat /\ offset \in Nat
      BY <1>1
    <2> DEFINE appended == delivered \o Run(offset, ret.n)
    <2>2. /\ appended \in Seq(Nat) /\ Len(appended) = Len(delivered) + ret.n
          /\ ret.n = 0 => appended = delivered
      <3> DEFINE n == ret.n
      <3>1. n \in Nat /\ \A i \in 1..n : offset + i - 1 \in Nat
        BY <2>1
      <3> HIDE DEF n
      <3>2. /\ delivered \o Run(offset, n) \in Seq(Nat)
            /\ Len(delivered \o Run(offset, n)) = Len(delivered) + n
            /\ n = 0 => delivered \o Run(offset, n) = delivered
        BY <2>1, <3>1, AppendBytes
      <3> QED BY <3>2 DEF n
    <2>3. delivered' = appended
      BY <1>2, Zenon DEF Run
    <2> HIDE DEF appended
    <2> QED BY <2>2, <2>3
  <1>4. Counted'
    <2>1. Start' = Start /\ End' = End
      BY <1>2 DEF Start, End
    <2> QED BY <1>1, <1>2, <1>3, <2>1 DEF Counted, IInv
  <1>5. CASE ret.n = 0
    <2>1. UNCHANGED Delivery!vars
      BY <1>2, <1>3, <1>5, Silent
    <2> QED BY <1>1, <1>2, <1>4, <2>1
  <1>6. CASE ret.n > 0
    <2>1. Ended = "none" /\ Start' = Start /\ End' = End /\ Ended' = Ended
      BY <1>2 DEF IInv, Phases, Ended, Refused, Cut, Start, End
    <2>2. /\ ret.n \in 1..((End + 1 - Start) - Len(delivered))
          /\ Len(delivered) + ret.n <= End + 1 - Start
      BY <1>1, <1>6
    <2>3. Delivery!Send(ret.n)
      <3>1. delivered' = delivered \o [i \in 1..ret.n |-> Start + Len(delivered) + i - 1]
        BY <1>1, <1>2
      <3> QED BY <2>1, <2>2, <3>1 DEF Delivery!Send
    <2>4. Delivery!Next
      BY <2>2, <2>3 DEF Delivery!Next
    <2> QED BY <1>1, <1>2, <1>4, <2>4
  <1> QED BY <1>1, <1>5, <1>6

\* The end of a response that has not ended.
LEMMA EndIs ==
    ASSUME outcome = "none", UNCHANGED <<want, delivered>>,
           \/ outcome' \in Refused /\ delivered = <<>>
           \/ outcome' \in Cut
           \/ outcome' = "complete" /\ Len(delivered) = End + 1 - Start
    PROVE  Delivery!Next
  <1>1. Ended = "none" /\ Start' = Start /\ End' = End
    BY DEF Ended, Refused, Cut, Start, End
  <1>2. CASE outcome' \in Refused /\ delivered = <<>>
    <2>1. Ended' = "refused"
      BY <1>2 DEF Ended, Refused, Cut
    <2>2. Delivery!End("refused")
      BY <1>1, <1>2, <2>1 DEF Delivery!End
    <2> QED BY <2>2 DEF Delivery!Next
  <1>3. CASE outcome' \in Cut
    <2>1. Ended' = "cut"
      BY <1>3 DEF Ended, Refused, Cut
    <2>2. Delivery!End("cut")
      BY <1>1, <2>1 DEF Delivery!End
    <2> QED BY <2>2 DEF Delivery!Next
  <1>4. CASE outcome' = "complete" /\ Len(delivered) = End + 1 - Start
    <2>1. Ended' = "complete"
      BY <1>4 DEF Ended, Refused, Cut
    <2>2. Delivery!End("complete")
      BY <1>1, <1>4, <2>1 DEF Delivery!End
    <2> QED BY <2>2 DEF Delivery!Next
  <1> QED BY <1>2, <1>3, <1>4

-----------------------------------------------------------------------------
(* One lemma for each part of the next-state relation.                       *)

\* openBlob begins with the first byte asked for, or refuses before any is sent.
LEMMA OpenStep ==
    ASSUME IInv, OpenBlob, UNCHANGED <<deployment, want>>
    PROVE  IInv' /\ [Delivery!Next]_(Delivery!vars)
  <1> USE DEF IInv
  <1>1. Start' = Start /\ End' = End /\ Counted'
    BY DEF OpenBlob, BeginPull, OpenFails, OpenSucceeds, OpenRefused, reader, Counted,
           Start, End
  <1>2. CASE OpenFails
    <2>1. outcome' \in Refused /\ outcome = "none" /\ delivered = <<>>
          /\ UNCHANGED delivered
      BY <1>2 DEF OpenFails, Phases, Refused, reader
    <2>2. IInv'
      BY <1>1, <1>2, <2>1 DEF OpenFails, InStep, Phases
    <2> QED BY <2>1, <2>2, EndIs
  <1>3. ASSUME NEW p \in Providers, OpenSucceeds(p)
        PROVE  IInv' /\ UNCHANGED Delivery!vars
    <2>1. next' = offset'
      BY <1>3, WantNat DEF OpenSucceeds, Counted, Phases
    <2>2. IInv'
      BY <1>1, <1>3, <2>1 DEF OpenSucceeds, InStep, Phases
    <2> QED BY <1>3, <2>2, Silent DEF OpenSucceeds
  <1>4. CASE BeginPull \/ \E p \in Providers, a \in Answers : OpenRefused(p, a)
    <2>1. IInv'
      BY <1>1, <1>4 DEF BeginPull, OpenRefused, InStep, Phases, reader, stream, stall
    <2> QED BY <1>4, <2>1, Silent DEF BeginPull, OpenRefused, reader
  <1> QED BY <1>2, <1>3, <1>4 DEF OpenBlob

\* A Read returns no more than is owed; what it returned is delivered next.
LEMMA ReadStep ==
    ASSUME IInv, Read, UNCHANGED <<deployment, want>>
    PROVE  IInv' /\ [Delivery!Next]_(Delivery!vars)
  <1>1. Start' = Start /\ End' = End
    BY DEF Start, End
  <1>2. CASE ReadPending \/ BeginRead
    <2>1. IInv'
      BY <1>1, <1>2 DEF ReadPending, BeginRead, IInv, Counted, InStep, Phases, reader, stream
    <2> QED BY <1>2, <2>1, Silent DEF ReadPending, BeginRead, reader
  <1>3. ASSUME NEW n \in Nat, NEW err, ReadReturns(n, err)
        PROVE  IInv' /\ UNCHANGED Delivery!vars
    <2>1. IInv'
      BY <1>1, <1>3 DEF ReadReturns, IInv, Counted, InStep, Phases, reader, stream
    <2> QED BY <1>3, <2>1, Silent DEF ReadReturns, reader
  <1>4. CASE \E n \in 0..Size, err \in {"nil", "fail"} : ReadReturns(n, err)
    BY <1>3, <1>4, BlobAssumption
  <1>5. CASE ReadCancelled
    BY <1>3, <1>5 DEF ReadCancelled
  <1>6. CASE ReadCompletes \/ ReadProgresses \/ ReadFruitless
    <2>1. pc = "returned" /\ Deliver
      BY <1>6 DEF ReadCompletes, ReadProgresses, ReadFruitless
    <2>2. /\ Counted' /\ next' = offset' /\ offset' = offset + ret.n
          /\ [Delivery!Next]_(Delivery!vars)
      BY <2>1, DeliverSends
    <2>3. outcome' = outcome /\ outcome = "none"
      BY <2>1 DEF Deliver, IInv, Phases
    <2>4. /\ pc' \in {"verify", "body", "switching"}
          /\ pc' = "verify" => offset' = End' + 1
      BY <1>1, <1>6, <2>2 DEF ReadCompletes, ReadProgresses, ReadFruitless
    <2>5. IInv'
      BY <2>2, <2>3, <2>4 DEF IInv, InStep, Phases
    <2> QED BY <2>2, <2>5
  <1> QED BY <1>2, <1>4, <1>5, <1>6 DEF Read

\* The stall timer cancels an attempt and touches nothing else.
LEMMA TimerStep ==
    ASSUME IInv, StallGoroutine, UNCHANGED <<deployment, want>>
    PROVE  IInv' /\ UNCHANGED Delivery!vars
  <1>1. /\ UNCHANGED <<pc, next, ret, reader, outcome>>
        /\ Start' = Start /\ End' = End
    BY DEF StallGoroutine, TimerFires, TimerCancels, TimerSignals, LateCancel, stream,
           reader, Start, End
  <1>2. IInv'
    BY <1>1 DEF IInv, Counted, InStep, Phases, reader
  <1> QED BY <1>1, <1>2, Silent DEF reader

\* The reader goes on elsewhere at the byte owed, or gives up.
LEMMA ResumeStep ==
    ASSUME IInv, Resume, UNCHANGED <<deployment, want>>
    PROVE  IInv' /\ [Delivery!Next]_(Delivery!vars)
  <1>1. Start' = Start /\ End' = End
    BY DEF Start, End
  <1>2. ASSUME NEW p, Switch(p, offset), pc \in {"resume", "restart"}
        PROVE  IInv' /\ UNCHANGED Delivery!vars
    <2>1. IInv'
      BY <1>1, <1>2 DEF Switch, IInv, Counted, InStep, Phases
    <2> QED BY <1>2, <2>1, Silent DEF Switch
  <1>3. CASE RestartSucceeds \/ \E p \in Providers : ResumeSucceeds(p)
    BY <1>2, <1>3 DEF RestartSucceeds, ResumeSucceeds
  <1>4. CASE \/ BeginResume \/ RestartFails
             \/ \E p \in Providers, a \in Answers : ResumeRefused(p, a)
    <2>1. /\ UNCHANGED <<next, ret, offset, delivered, outcome>>
          /\ pc \in {"switching", "resume", "restart"}
          /\ pc' \in {"resume", "restart"}
      BY <1>4 DEF BeginResume, RestartFails, ResumeRefused, reader, stream, stall
    <2>2. IInv'
      BY <1>1, <2>1 DEF IInv, Counted, InStep, Phases
    <2> QED BY <2>1, <2>2, Silent
  <1>5. CASE ResumeFails
    <2>1. /\ outcome = "none" /\ outcome' \in Cut
          /\ UNCHANGED <<delivered, offset>> /\ pc' = "finishing"
      BY <1>5 DEF ResumeFails, IInv, Phases, reader, Cut
    <2>2. IInv'
      BY <1>1, <2>1 DEF IInv, Counted, InStep, Phases
    <2> QED BY <2>1, <2>2, EndIs
  <1> QED BY <1>3, <1>4, <1>5 DEF Resume

\* The response ends once, properly only with the last byte; another may follow.
LEMMA HandlerStep ==
    ASSUME IInv, Handler, UNCHANGED <<deployment, want>>
    PROVE  IInv' /\ [Delivery!Next]_(Delivery!vars)
  <1>1. Start' = Start /\ End' = End
    BY DEF Start, End
  <1>2. CASE Verify \/ WriteFails
    <2>1. /\ outcome = "none" /\ outcome' \in Cut \cup {"complete"}
          /\ outcome' = "complete" => offset = End + 1
          /\ UNCHANGED <<delivered, offset>> /\ pc' = "finishing"
      BY <1>2 DEF Verify, WriteFails, IInv, Phases, reader, Cut
    <2>2. IInv'
      BY <1>1, <2>1 DEF IInv, Counted, InStep, Phases
    <2>3. offset = End + 1 => Len(delivered) = End + 1 - Start
      BY WantNat, LenProperties DEF IInv, Counted
    <2> QED BY <2>1, <2>2, <2>3, EndIs
  <1>3. CASE Close
    <2>1. IInv'
      BY <1>1, <1>3 DEF Close, IInv, Counted, InStep, Phases, reader
    <2> QED BY <1>3, <2>1, Silent DEF Close, reader
  <1>4. CASE NextPull
    <2>1. Counted'
      BY <1>1, <1>4, WantNat, EmptySeq, LenProperties DEF NextPull, IInv, Counted
    <2>2. IInv'
      BY <1>1, <1>4, <2>1 DEF NextPull, IInv, InStep, Phases
    <2>3. Ended # "none" /\ Ended' = "none"
      BY <1>4 DEF NextPull, IInv, Phases, Ended, Refused, Cut
    <2>4. Start \in Nat /\ End + 1 - Start \in Nat
      BY WantNat DEF IInv, Counted
    <2>5. Delivery!Again
      BY <1>1, <1>4, <2>3, <2>4 DEF NextPull, Delivery!Again
    <2> QED BY <2>2, <2>5 DEF Delivery!Next
  <1> QED BY <1>2, <1>3, <1>4 DEF Handler

\* Whatever others do to Health, and a departure, show only in later steps.
LEMMA WorldStep ==
    ASSUME IInv, World, UNCHANGED <<deployment, want>>
    PROVE  IInv' /\ UNCHANGED Delivery!vars
  <1>1. /\ UNCHANGED <<pc, stream, stall, reader, outcome>>
        /\ Start' = Start /\ End' = End
    BY DEF World, ClientLeaves, OthersClear, OthersHold, LimitExpires, Disturb, Start, End
  <1>2. IInv'
    BY <1>1 DEF IInv, Counted, InStep, Phases, reader, stream, stall
  <1> QED BY <1>1, <1>2, Silent DEF reader

-----------------------------------------------------------------------------
\* A pull begins with a response that has not.
LEMMA Initially == Init => IInv /\ Delivery!Init
  <1> SUFFICES ASSUME Init PROVE IInv /\ Delivery!Init
    OBVIOUS
  <1>1. want \in Requests /\ delivered = <<>> /\ offset = Start /\ pc = "idle" /\ outcome = "none"
    BY DEF Init
  <1>2. Start \in Nat /\ End \in Nat /\ Start <= End
    BY <1>1, WantNat
  <1>3. IInv
    BY <1>1, <1>2, EmptySeq, LenProperties DEF IInv, Counted, InStep, Phases
  <1>4. Delivery!Init
    BY <1>1, <1>2 DEF Delivery!Init, Ended, Refused, Cut
  <1> QED BY <1>3, <1>4

\* Every step is one of the response, or none.
LEMMA StepIs ==
    ASSUME IInv, [Next]_vars
    PROVE  IInv' /\ [Delivery!Next]_(Delivery!vars)
  <1>1. CASE Next
    BY <1>1, OpenStep, ReadStep, TimerStep, ResumeStep, HandlerStep, WorldStep DEF Next
  <1>2. CASE UNCHANGED vars
    <2>1. /\ UNCHANGED <<want, pc, next, ret, delivered, offset, outcome>>
          /\ Start' = Start /\ End' = End
      BY <1>2 DEF vars, reader, stream, stall, Start, End
    <2>2. IInv'
      BY <2>1 DEF IInv, Counted, InStep, Phases
    <2> QED BY <2>1, <2>2, Silent
  <1> QED BY <1>1, <1>2

\* Across any number of failures, stalls, switches, restarts from zero and
\* departures, a client receives the bytes it asked for once and in order, a refusal
\* only instead of the first, and a proper end only after the last
\* (router.go:384-660, handler.go:170-254).
THEOREM StreamDelivers == Spec => ImplementsDelivery
  <1>1. IInv /\ [Next]_vars => IInv' /\ [Delivery!Next]_(Delivery!vars)
    BY StepIs
  <1> QED BY Initially, <1>1, PTL DEF Spec, ImplementsDelivery, Delivery!Spec

-----------------------------------------------------------------------------
(* The reader's own promises: what it holds open, what it has tried, and what
   a response that ends properly has carried.                                *)

\* A body is open from the opening of a source to the switch or the end.
Bodies ==
    /\ streams = IF open THEN 1 ELSE 0
    /\ open => pc \in {"body", "reading", "returned", "verify", "switching", "finishing"}

\* Who is left to try while a resume walks its listing.
Asked == pc \in {"resume", "restart"} /\ quiet => Available \ attempted \subseteq todo

SInv ==
    /\ IInv /\ TypeOK /\ Bodies /\ Asked /\ AbortedOnlyWhenExhausted

LEMMA Limits ==
    ASSUME TypeOK
    PROVE  /\ Size \in Nat \ {0} /\ Start \in Nat /\ End \in Nat
           /\ Start <= End /\ End + 1 <= Size
  BY BlobAssumption DEF TypeOK, Start, End

LEMMA OpenTyped ==
    ASSUME SInv, OpenBlob, UNCHANGED <<deployment, want>>
    PROVE  TypeOK'
  <1> USE DEF SInv, TypeOK, world, flow, stream, reader, stall
  <1>1. Start' = Start /\ End' = End
    BY DEF Start, End
  <1>2. Available \subseteq Providers
    BY BlobAssumption DEF Available
  <1>3. CASE BeginPull
    BY <1>1, <1>2, <1>3 DEF BeginPull
  <1>6. CASE OpenFails
    BY <1>1, <1>2, <1>6 DEF OpenFails
  <1>4. ASSUME NEW p \in Providers, OpenSucceeds(p) PROVE TypeOK'
    BY <1>1, <1>4, Limits DEF OpenSucceeds
  <1>5. ASSUME NEW p \in Providers, NEW a \in Answers, OpenRefused(p, a) PROVE TypeOK'
    BY <1>1, <1>5 DEF OpenRefused, RecordSourceFailure
  <1> QED BY <1>3, <1>4, <1>5, <1>6 DEF OpenBlob

LEMMA ReadTyped ==
    ASSUME SInv, Read, UNCHANGED <<deployment, want>>
    PROVE  TypeOK'
  <1> USE DEF SInv, TypeOK, world, flow, stream, reader, stall
  <1>1. Start' = Start /\ End' = End
    BY DEF Start, End
  <1>2. CASE ReadPending
    BY <1>1, <1>2 DEF ReadPending
  <1>3. CASE BeginRead
    BY <1>1, <1>3 DEF BeginRead, StallTimer
  <1>4. ASSUME NEW n \in 0..Size, NEW err \in {"nil", "fail"}, ReadReturns(n, err)
        PROVE  TypeOK'
    BY <1>1, <1>4 DEF ReadReturns
  <1>5. CASE ReadCancelled
    <2>1. 0 \in 0..Size
      BY Limits
    <2> QED BY <1>4, <1>5, <2>1 DEF ReadCancelled
  <1>6. CASE ReadCompletes \/ ReadProgresses \/ ReadFruitless
    <2>1. pc = "returned" /\ Deliver
      BY <1>6 DEF ReadCompletes, ReadProgresses, ReadFruitless
    <2>2. /\ ret.n \in Nat /\ next = offset /\ ret.n <= End + 1 - offset
          /\ offset \in Nat /\ offset + ret.n <= Size
      BY <2>1, Limits DEF IInv, InStep
    <2>3. delivered' \in Seq(0..(Size - 1))
      <3> DEFINE appended == delivered \o Run(next, ret.n)
      <3>1. \A i \in 1..ret.n : next + i - 1 \in 0..(Size - 1)
        BY <2>2, Limits
      <3>2. appended \in Seq(0..(Size - 1))
        BY <2>2, <3>1, AppendBytes
      <3>3. delivered' = appended
        BY <2>1, Zenon DEF Deliver, Run
      <3> HIDE DEF appended
      <3> QED BY <3>2, <3>3
    <2>4. /\ next' \in 0..Size /\ offset' \in Start..(End + 1)
          /\ tainted' \subseteq Corrupt
          /\ timer' = "off" /\ late' \in BOOLEAN /\ ret' = NoRet
          /\ UNCHANGED <<gone, quiet, todo, notFound, refusal, at, streams, open, dead,
                         attempted, outcome>>
      BY <2>1, <2>2, Limits DEF Deliver
    <2>5. /\ pc' \in {"verify", "body", "switching"}
          /\ health' \in [Providers -> SUBSET Holds]
          /\ recorded' \in BOOLEAN
          /\ {pending', cause'} \subseteq {"none", "stalled", "slow", "error"}
      <3>1. CASE ReadCompletes
        BY <3>1 DEF ReadCompletes, RecordSuccess
      <3>2. CASE ReadProgresses
        BY <3>2 DEF ReadProgresses
      <3>3. CASE ReadFruitless
        BY <3>3 DEF ReadFruitless
      <3> QED BY <1>6, <3>1, <3>2, <3>3
    <2>6. ret' \in [n : 0..Size, err : {"nil", "fail"}]
      BY <2>4, Limits DEF NoRet
    <2> HIDE DEF SInv
    <2>7. SInv
      OBVIOUS
    <2> QED BY <1>1, <2>3, <2>4, <2>5, <2>6, <2>7 DEF SInv
  <1> QED BY <1>2, <1>3, <1>4, <1>5, <1>6 DEF Read

LEMMA TimerTyped ==
    ASSUME SInv, StallGoroutine, UNCHANGED <<deployment, want>>
    PROVE  TypeOK'
  <1> USE DEF SInv, TypeOK, world, flow, stream, reader, stall
  <1>1. Start' = Start /\ End' = End
    BY DEF Start, End
  <1>2. CASE TimerFires \/ TimerSignals
    BY <1>1, <1>2 DEF TimerFires, TimerSignals
  <1>3. CASE TimerCancels \/ LateCancel
    <2>1. /\ UNCHANGED <<pc, health, world, flow, at, next, streams, open, recorded, reader,
                        ret, outcome>>
          /\ dead' \in BOOLEAN /\ late' \in BOOLEAN /\ timer' \in {timer, "cancelled"}
      BY <1>3 DEF TimerCancels, LateCancel
    <2> QED BY <1>1, <2>1
  <1> QED BY <1>2, <1>3 DEF StallGoroutine

LEMMA ResumeTyped ==
    ASSUME SInv, Resume, UNCHANGED <<deployment, want>>
    PROVE  TypeOK'
  <1> USE DEF SInv, TypeOK, world, flow, stream, reader, stall
  <1>1. Start' = Start /\ End' = End
    BY DEF Start, End
  <1>2. Available \subseteq Providers /\ offset \in 0..Size
    BY BlobAssumption, Limits DEF Available
  <1>3. CASE BeginResume
    <2>1. /\ UNCHANGED <<health, world, notFound, cause, refusal, at, next, reader, stall,
                        outcome>>
          /\ pc' = "resume" /\ {open, dead}' \subseteq BOOLEAN /\ todo' \subseteq Providers
      BY <1>2, <1>3 DEF BeginResume
    <2>2. streams' \in Nat /\ recorded' \in BOOLEAN
      BY <1>3 DEF BeginResume, Bodies
    <2> QED BY <1>1, <2>1, <2>2
  <1>4. ASSUME NEW p \in Providers \cup {NoProvider}, Switch(p, offset)
        PROVE  /\ pc' = "reading" /\ at' \in Providers \cup {NoProvider} /\ next' \in 0..Size
               /\ streams' \in Nat /\ open' = TRUE /\ dead' = FALSE /\ recorded' = FALSE
               /\ late' = FALSE /\ timer' \in {"off", "armed"}
               /\ UNCHANGED <<world, notFound, cause, offset, delivered, tainted, pending, ret,
                             outcome>>
    BY <1>2, <1>4 DEF Switch, StallTimer
  <1>9. CASE RestartSucceeds
    <2>1. /\ Switch(refusal.from, offset) /\ refusal.from \in Providers \cup {NoProvider}
          /\ refusal' = NoRefusal /\ UNCHANGED <<health, todo, attempted>>
      BY <1>9 DEF RestartSucceeds
    <2>2. refusal' \in [from : Providers \cup {NoProvider}, answer : Answers]
      BY <2>1 DEF NoRefusal, Answers
    <2> QED BY <1>1, <1>4, <2>1, <2>2
  <1>5. CASE RestartFails
    <2>1. /\ UNCHANGED <<world, todo, notFound, cause, stream, reader, stall, outcome>>
          /\ pc' = "resume" /\ refusal' = NoRefusal
      BY <1>5 DEF RestartFails
    <2>2. /\ health' \in [Providers -> SUBSET Holds]
          /\ refusal' \in [from : Providers \cup {NoProvider}, answer : Answers]
      BY <1>5 DEF RestartFails, RecordSourceFailure, NoRefusal, Answers
    <2> QED BY <1>1, <2>1, <2>2
  <1>6. CASE ResumeFails
    BY <1>1, <1>6 DEF ResumeFails
  <1>7. ASSUME NEW p \in Providers, ResumeSucceeds(p) PROVE TypeOK'
    <2>1. /\ Switch(p, offset) /\ UNCHANGED <<health, todo, refusal>>
          /\ attempted' \subseteq Providers
      BY <1>7 DEF ResumeSucceeds
    <2> QED BY <1>1, <1>4, <2>1
  <1>8. ASSUME NEW p \in Providers, NEW a \in Answers, ResumeRefused(p, a) PROVE TypeOK'
    BY <1>1, <1>8 DEF ResumeRefused, RecordSourceFailure
  <1> QED BY <1>3, <1>5, <1>6, <1>7, <1>8, <1>9 DEF Resume

LEMMA HandlerTyped ==
    ASSUME SInv, Handler, UNCHANGED <<deployment, want>>
    PROVE  TypeOK'
  <1> USE DEF SInv, TypeOK, world, flow, stream, reader, stall
  <1>1. Start' = Start /\ End' = End
    BY DEF Start, End
  <1>2. CASE Verify
    BY <1>1, <1>2 DEF Verify
  <1>3. CASE WriteFails
    BY <1>1, <1>3 DEF WriteFails
  <1>4. CASE Close
    <2>1. /\ UNCHANGED <<health, world, flow, at, next, recorded, reader, stall, outcome>>
          /\ pc' = "closed" /\ {open, dead}' \subseteq BOOLEAN
      BY <1>4 DEF Close
    <2>2. streams' \in Nat
      BY <1>4 DEF Close, Bodies
    <2> QED BY <1>1, <2>1, <2>2
  <1>5. CASE NextPull
    <2>1. <<>> \in Seq(0..(Size - 1))
      BY EmptySeq
    <2>2. /\ delivered' \in Seq(0..(Size - 1)) /\ offset' \in Start..(End + 1) /\ next' \in 0..Size
          /\ ret' \in [n : 0..Size, err : {"nil", "fail"}]
          /\ refusal' \in [from : Providers \cup {NoProvider}, answer : Answers]
      BY <1>1, <1>5, <2>1, Limits DEF NextPull, NoRefusal, NoRet, Answers
    <2>3. /\ pc' = "idle" /\ {gone, quiet, notFound, dead, recorded, late}' \subseteq BOOLEAN
          /\ todo' = {} /\ attempted' = {} /\ tainted' = {} /\ at' = NoProvider
          /\ pending' = "none" /\ cause' = "none" /\ timer' = "off" /\ outcome' = "none"
          /\ UNCHANGED <<health, streams, open>>
      BY <1>5 DEF NextPull
    <2> QED BY <1>1, <2>2, <2>3
  <1> QED BY <1>2, <1>3, <1>4, <1>5 DEF Handler

LEMMA WorldTyped ==
    ASSUME SInv, World, UNCHANGED <<deployment, want>>
    PROVE  TypeOK'
  <1> USE DEF SInv, TypeOK, world, flow, stream, reader, stall
  <1>1. Start' = Start /\ End' = End
    BY DEF Start, End
  <1>2. CASE ClientLeaves
    BY <1>1, <1>2 DEF ClientLeaves
  <1>3. ASSUME NEW p \in Providers, NEW h \in SUBSET Holds, Disturb(p, h)
        PROVE  TypeOK'
    <2>1. health' \in [Providers -> SUBSET Holds] /\ {gone, quiet}' \subseteq BOOLEAN
      BY <1>3 DEF Disturb
    <2>2. UNCHANGED <<pc, flow, stream, reader, stall, outcome>>
      BY <1>3 DEF Disturb
    <2> QED BY <1>1, <2>1, <2>2
  <1>4. ASSUME NEW p \in Providers, NEW h \in Holds,
               OthersClear(p) \/ LimitExpires(p) \/ OthersHold(p, h)
        PROVE  \E holds \in SUBSET Holds : Disturb(p, holds)
    <2>1. /\ {} \in SUBSET Holds /\ health[p] \cup {h} \in SUBSET Holds
          /\ health[p] \ {"limited"} \in SUBSET Holds
      OBVIOUS
    <2> QED BY <1>4, <2>1 DEF OthersClear, LimitExpires, OthersHold
  <1> QED BY <1>2, <1>3, <1>4 DEF World, Holds

\* A step of the request or of its timer leaves no body behind.
LEMMA BodiesKept ==
    ASSUME SInv, Next
    PROVE  Bodies'
  <1> USE DEF Bodies, stream
  <1>1. Bodies /\ open \in BOOLEAN /\ streams \in Nat
    BY DEF SInv, TypeOK
  <1>2. CASE OpenBlob
    BY <1>1, <1>2 DEF OpenBlob, BeginPull, OpenFails, OpenSucceeds, OpenRefused
  <1>3. CASE Read
    BY <1>1, <1>3 DEF Read, ReadPending, BeginRead, ReadReturns, ReadCancelled,
                      ReadCompletes, ReadProgresses, ReadFruitless, Deliver
  <1>4. CASE StallGoroutine
    BY <1>1, <1>4 DEF StallGoroutine, TimerFires, TimerCancels, TimerSignals, LateCancel
  <1>5. CASE Resume
    <2>1. CASE BeginResume
      BY <1>1, <2>1 DEF BeginResume
    <2>2. CASE RestartSucceeds \/ \E p \in Providers : ResumeSucceeds(p)
      <3>1. pc \in {"resume", "restart"} /\ pc' = "reading" /\ streams' = streams + 1 /\ open'
        BY <2>2 DEF RestartSucceeds, ResumeSucceeds, Switch
      <3>2. ~open /\ streams = 0
        BY <1>1, <3>1
      <3> QED BY <3>1, <3>2
    <2>3. CASE \/ RestartFails \/ ResumeFails
               \/ \E p \in Providers, a \in Answers : ResumeRefused(p, a)
      <3>1. pc \in {"resume", "restart"} /\ UNCHANGED <<streams, open>>
        BY <2>3 DEF RestartFails, ResumeFails, ResumeRefused
      <3>2. ~open /\ streams = 0
        BY <1>1, <3>1
      <3> QED BY <3>1, <3>2
    <2> QED BY <1>5, <2>1, <2>2, <2>3 DEF Resume
  <1>6. CASE Handler
    BY <1>1, <1>6 DEF Handler, Verify, WriteFails, Close, NextPull
  <1>7. CASE World
    BY <1>1, <1>7 DEF World, ClientLeaves, OthersClear, OthersHold, LimitExpires, Disturb
  <1> QED BY <1>2, <1>3, <1>4, <1>5, <1>6, <1>7 DEF Next

\* What a recorded failure does to the others that Health admits.
LEMMA FailureShrinks ==
    ASSUME NEW p, NEW a, RecordSourceFailure(p, a), UNCHANGED deployment, TypeOK
    PROVE  Available' \subseteq Available
  <1>1. \A q \in Providers : health[q] \subseteq health'[q]
    BY DEF RecordSourceFailure, TypeOK
  <1>2. \A q \in deployment.sources : q \in Providers
    BY BlobAssumption DEF TypeOK
  <1> QED BY <1>1, <1>2 DEF Available

\* While a resume walks its listing only others can let a Provider back in.
LEMMA AskedKept ==
    ASSUME SInv, Next
    PROVE  Asked'
  <1> SUFFICES ASSUME pc' \in {"resume", "restart"}, quiet'
               PROVE  (Available \ attempted)' \subseteq todo'
    BY DEF Asked
  <1> USE DEF SInv, Asked, stall, world
  <1>1. TypeOK /\ UNCHANGED deployment /\ quiet \in BOOLEAN
    BY DEF Next, TypeOK
  <1>2. CASE OpenBlob
    BY <1>2 DEF OpenBlob, BeginPull, OpenFails, OpenSucceeds, OpenRefused
  <1>3. CASE Read
    BY <1>3 DEF Read, ReadPending, BeginRead, ReadReturns, ReadCancelled,
                ReadCompletes, ReadProgresses, ReadFruitless
  <1>4. CASE StallGoroutine
    <2>1. UNCHANGED <<pc, quiet, health, attempted, todo>>
      BY <1>4 DEF StallGoroutine, TimerFires, TimerCancels, TimerSignals, LateCancel, flow, reader
    <2> QED BY <1>1, <2>1 DEF Available
  <1>5. CASE Resume
    <2>1. CASE BeginResume
      BY <1>1, <2>1 DEF BeginResume, reader, Available
    <2>2. CASE RestartSucceeds \/ ResumeFails \/ \E p \in Providers : ResumeSucceeds(p)
      BY <2>2 DEF RestartSucceeds, ResumeSucceeds, Switch, ResumeFails
    <2>3. CASE RestartFails
      <3>1. Available' \subseteq Available
        BY <1>1, <2>3, FailureShrinks DEF RestartFails
      <3>2. UNCHANGED <<attempted, todo, quiet>> /\ pc = "restart"
        BY <2>3 DEF RestartFails, reader
      <3> QED BY <3>1, <3>2
    <2>4. ASSUME NEW p \in Providers, NEW a \in Answers, ResumeRefused(p, a)
          PROVE  (Available \ attempted)' \subseteq todo'
      <3>1. Available' \subseteq Available
        <4>1. CASE MayRestart
          BY <1>1, <2>4, <4>1 DEF ResumeRefused, Available
        <4>2. CASE ~MayRestart
          BY <1>1, <2>4, <4>2, FailureShrinks DEF ResumeRefused
        <4> QED BY <4>1, <4>2
      <3>2. /\ attempted' = attempted \cup {p} /\ todo' = todo \ {p}
            /\ UNCHANGED quiet /\ pc = "resume"
        BY <2>4 DEF ResumeRefused
      <3> QED BY <3>1, <3>2
    <2> QED BY <1>5, <2>1, <2>2, <2>3, <2>4 DEF Resume
  <1>6. CASE Handler
    BY <1>6 DEF Handler, Verify, WriteFails, Close, NextPull
  <1>7. CASE World
    <2>1. CASE ClientLeaves
      BY <1>1, <2>1 DEF ClientLeaves, flow, reader, Available
    <2>2. CASE \E p \in Providers : \/ OthersClear(p) \/ LimitExpires(p)
                                    \/ \E h \in Holds : OthersHold(p, h)
      BY <2>2 DEF OthersClear, OthersHold, LimitExpires, Disturb
    <2> QED BY <1>7, <2>1, <2>2 DEF World
  <1> QED BY <1>2, <1>3, <1>4, <1>5, <1>6, <1>7 DEF Next

\* A pull that has been given up is not touched any more, and it is given up only
\* with nobody left to try.
LEMMA EndKept ==
    ASSUME SInv, Next
    PROVE  AbortedOnlyWhenExhausted'
  <1> USE DEF SInv, AbortedOnlyWhenExhausted, world, reader
  <1>1. /\ TypeOK /\ UNCHANGED <<deployment, want>> /\ quiet \in BOOLEAN /\ Phases
    BY DEF Next, TypeOK, IInv
  <1>2. CASE outcome' = outcome /\ attempted' = attempted
             /\ (quiet' => quiet /\ Available' \subseteq Available)
    BY <1>1, <1>2
  <1>3. CASE outcome' # "aborted"
    BY <1>3
  <1>4. CASE ResumeFails
    <2>1. /\ outcome' = "aborted" /\ UNCHANGED <<health, quiet, attempted>>
          /\ pc = "resume" /\ todo = {}
      BY <1>4 DEF ResumeFails
    <2>2. Available' = Available
      BY <1>1, <2>1 DEF Available
    <2> QED BY <1>1, <2>1, <2>2 DEF Asked
  <1>5. CASE Verify
    BY <1>3, <1>5 DEF Verify
  <1>6. CASE OpenBlob \/ Read
    <2>1. outcome' = outcome \/ outcome' \in Refused
      BY <1>6 DEF OpenBlob, BeginPull, OpenFails, OpenSucceeds, OpenRefused, Read,
         ReadPending, BeginRead, ReadReturns, ReadCancelled, ReadCompletes,
         ReadProgresses, ReadFruitless, Deliver, Refused
    <2>2. outcome = "none"
      BY <1>1, <1>6 DEF OpenBlob, BeginPull, OpenFails, OpenSucceeds, OpenRefused, Read,
         ReadPending, BeginRead, ReadReturns, ReadCancelled, ReadCompletes,
         ReadProgresses, ReadFruitless, Phases
    <2> QED BY <1>3, <2>1, <2>2 DEF Refused
  <1>7. CASE StallGoroutine
    <2>1. UNCHANGED <<health, quiet, outcome, attempted>>
      BY <1>7 DEF StallGoroutine, TimerFires, TimerCancels, TimerSignals, LateCancel
    <2> QED BY <1>1, <1>2, <2>1 DEF Available
  <1>8. CASE /\ Resume /\ ~ResumeFails
    <2>1. /\ outcome' = outcome /\ pc \in {"switching", "resume", "restart"}
      BY <1>8 DEF Resume, BeginResume, RestartSucceeds, RestartFails, ResumeSucceeds,
         ResumeRefused, Switch
    <2>2. outcome = "none"
      BY <1>1, <2>1 DEF Phases
    <2> QED BY <1>3, <2>1, <2>2
  <1>9. CASE Handler /\ ~Verify
    <2>1. CASE Close
      BY <1>1, <1>2, <2>1 DEF Close, Available
    <2>2. CASE WriteFails \/ NextPull
      BY <1>3, <2>2 DEF WriteFails, NextPull
    <2> QED BY <1>9, <2>1, <2>2 DEF Handler
  <1>10. CASE World
    <2>1. CASE ClientLeaves
      BY <1>1, <1>2, <2>1 DEF ClientLeaves, Available
    <2>2. CASE \E p \in Providers : \/ OthersClear(p) \/ LimitExpires(p)
                                    \/ \E h \in Holds : OthersHold(p, h)
      BY <1>2, <2>2 DEF OthersClear, OthersHold, LimitExpires, Disturb
    <2> QED BY <1>10, <2>1, <2>2 DEF World
  <1> QED BY <1>4, <1>5, <1>6, <1>7, <1>8, <1>9, <1>10 DEF Next

-----------------------------------------------------------------------------
\* A gateway that has not pulled yet owes nothing.
LEMMA InitiallySound == Init => SInv
  <1> SUFFICES ASSUME Init PROVE SInv
    OBVIOUS
  <1>1. IInv
    BY Initially
  <1>2. want \in Requests /\ Start \in Nat /\ End \in Nat /\ Start <= End /\ End + 1 <= Size
    BY BlobAssumption DEF Init, Start, End
  <1>3. TypeOK
    <2>1. <<>> \in Seq(0..(Size - 1))
      BY EmptySeq
    <2>2. /\ ret \in [n : 0..Size, err : {"nil", "fail"}]
          /\ refusal \in [from : Providers \cup {NoProvider}, answer : Answers]
          /\ health \in [Providers -> SUBSET Holds]
          /\ next \in 0..Size /\ offset \in Start..(End + 1) /\ streams \in Nat
      BY <1>2, BlobAssumption DEF Init, NoRet, NoRefusal, Answers
    <2> QED BY <1>2, <2>1, <2>2 DEF Init, TypeOK
  <1>4. Bodies /\ Asked /\ AbortedOnlyWhenExhausted
    BY DEF Init, Bodies, Asked, AbortedOnlyWhenExhausted
  <1> QED BY <1>1, <1>3, <1>4 DEF SInv

LEMMA StepSound == SInv /\ [Next]_vars => SInv'
  <1> SUFFICES ASSUME SInv, [Next]_vars PROVE SInv'
    OBVIOUS
  <1>1. IInv'
    BY StepIs DEF SInv
  <1>2. CASE Next
    <2>1. TypeOK'
      BY <1>2, OpenTyped, ReadTyped, TimerTyped, ResumeTyped, HandlerTyped, WorldTyped DEF Next
    <2> QED BY <1>1, <1>2, <2>1, BodiesKept, AskedKept, EndKept DEF SInv
  <1>3. CASE UNCHANGED vars
    <2>1. /\ UNCHANGED <<deployment, want, pc, health, gone, quiet, todo, notFound, cause, refusal,
                         at, next, streams, open, dead, recorded, attempted, offset, delivered,
                         tainted, pending, timer, late, ret, outcome>>
          /\ Start' = Start /\ End' = End /\ Available' = Available /\ Full' = Full
      BY <1>3 DEF vars, world, flow, stream, reader, stall, Start, End, Available, Full
    <2>2. TypeOK'
      BY <2>1 DEF SInv, TypeOK
    <2>3. Bodies' /\ Asked'
      BY <2>1 DEF SInv, Bodies, Asked
    <2>4. AbortedOnlyWhenExhausted'
      BY <2>1 DEF SInv, AbortedOnlyWhenExhausted
    <2> QED BY <1>1, <2>2, <2>3, <2>4 DEF SInv
  <1> QED BY <1>2, <1>3

\* However often a pull switches, stalls, restarts or is given up, one upstream body
\* at most is open for it, and none before and after it (router.go:384-660).
THEOREM NothingLeaks == Spec => []StreamInv
  <1>1. SInv => StreamInv
    BY DEF SInv, StreamInv, NoStreamLeak, Bodies, TypeOK
  <1> QED BY InitiallySound, StepSound, <1>1, PTL DEF Spec

\* A pull that nobody else disturbs is given up only when each Provider that
\* Health admits has been tried (router.go:517-591).
THEOREM GivenUpLast == Spec => []AbortedOnlyWhenExhausted
  <1>1. SInv => AbortedOnlyWhenExhausted
    BY DEF SInv
  <1> QED BY InitiallySound, StepSound, <1>1, PTL DEF Spec
=============================================================================
