------------------------------ MODULE MCSender ------------------------------
(* Kinds of NALUs for TLC: with a target of 20 bytes and a maximum of 30,  *)
(* 5 bytes go into a STAP-A, 10 into a packet of their own, 30 into two    *)
(* fragments.                                                              *)
EXTENDS Sender

MCKinds == {[size |-> 5, priority |-> 0], [size |-> 10, priority |-> 1],
            [size |-> 30, priority |-> 0]}
=============================================================================
