----------------------------- MODULE BlobDelivery -----------------------------
(***************************************************************************)
(* What the gateway promises about the body of one blob response, without   *)
(* saying how: it announces a stretch of the blob, sends its bytes once and  *)
(* in order, takes none back, and then ends.  It refuses with a status of    *)
(* its own only while nothing is sent, ends properly only when everything    *)
(* is, and is cut off otherwise.  BlobStream and SegmentedBlob are shown to  *)
(* implement this module.                                                   *)
(***************************************************************************)
EXTENDS Naturals, Sequences

VARIABLES first, length,  \* the stretch announced
          sent,           \* positions of the bytes sent, in order
          ended           \* how the response ended, if it has

vars == <<first, length, sent, ended>>

Init ==
    /\ first \in Nat /\ length \in Nat
    /\ sent = <<>> /\ ended = "none"

\* A stretch is announced with the first byte: until then it may be another one.
Announce ==
    /\ sent = <<>> /\ ended = "none"
    /\ first' \in Nat /\ length' \in Nat
    /\ UNCHANGED <<sent, ended>>

Send(n) ==
    /\ ended = "none" /\ Len(sent) + n <= length
    /\ sent' = sent \o [i \in 1..n |-> first + Len(sent) + i - 1]
    /\ UNCHANGED <<first, length, ended>>

End(how) ==
    /\ ended = "none"
    /\ how = "refused" => sent = <<>>
    /\ how = "complete" => Len(sent) = length
    /\ ended' = how
    /\ UNCHANGED <<first, length, sent>>

\* The next response.
Again ==
    /\ ended # "none"
    /\ sent' = <<>> /\ ended' = "none"
    /\ first' \in Nat /\ length' \in Nat

Next ==
    \/ Announce \/ Again
    \/ \E n \in 1..(length - Len(sent)) : Send(n)
    \/ \E how \in {"refused", "complete", "cut"} : End(how)

Spec == Init /\ [][Next]_vars
=============================================================================
