---------------------------- MODULE ReorderBuffer ----------------------------
(***************************************************************************)
(* What the receiver's packet queue promises to the depayloader: a buffer  *)
(* of distinct extended sequence numbers from which only the lowest is     *)
(* ever taken, and which never delivers a number again or out of order.    *)
(***************************************************************************)
EXTENDS Integers

CONSTANT Numbers   (* the extended sequence numbers                        *)

VARIABLES pending,  (* the numbers waiting                                 *)
          last      (* the highest number delivered, -1 before the first   *)

Init == pending = {} /\ last = -1

(* A packet arrives whose number is not waiting already.                   *)
Insert ==
    \E e \in Numbers \ pending :
        pending' = pending \cup {e} /\ UNCHANGED last

Lowest(e) == e \in pending /\ \A f \in pending : e <= f

(* The lowest number is delivered: it is beyond all delivered before it.   *)
Deliver ==
    \E e \in pending :
        /\ Lowest(e) /\ e > last
        /\ pending' = pending \ {e} /\ last' = e

(* The lowest number is thrown away: it came too late, or the whole buffer *)
(* is being flushed.                                                       *)
Discard ==
    \E e \in pending :
        /\ Lowest(e)
        /\ pending' = pending \ {e} /\ UNCHANGED last

Next == Insert \/ Deliver \/ Discard

Spec == Init /\ [][Next]_<<pending, last>>
=============================================================================
