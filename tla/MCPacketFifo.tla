---------------------------- MODULE MCPacketFifo -----------------------------
(* Instances of PacketFifo for TLC. *)
EXTENDS PacketFifo

(* Items and buffers are interchangeable. *)
Symmetry == Permutations(Items) \cup Permutations(Buffers)
=============================================================================
