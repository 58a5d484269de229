---------------------------- MODULE LossyStream -----------------------------
(***************************************************************************)
(* What both halves of the LoRa path promise: items are numbered as they   *)
(* are sent; every item comes out at most once, unaltered, and in the      *)
(* order of sending; any item may be lost.                                 *)
(***************************************************************************)
EXTENDS Naturals, Sequences

VARIABLES
  sent,       \* how many items were sent
  delivered   \* the numbers of the items that came out

vars == <<sent, delivered>>

Init == sent = 0 /\ delivered = <<>>

Send == sent' = sent + 1 /\ UNCHANGED delivered

Deliver(k) ==
  /\ k <= sent
  /\ \A i \in 1..Len(delivered) : delivered[i] < k
  /\ delivered' = Append(delivered, k)
  /\ UNCHANGED sent

Next == Send \/ \E k \in 1..sent : Deliver(k)

Spec == Init /\ [][Next]_vars

=============================================================================
