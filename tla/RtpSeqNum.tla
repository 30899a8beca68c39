------------------------------ MODULE RtpSeqNum ------------------------------
(***************************************************************************)
(* The extension of the 16-bit RTP sequence number to 32 bits that the     *)
(* receiver performs on every packet (arstream2_rtp.c,                     *)
(* ARSTREAM2_RTP_Receiver_PacketFifoAddFromMsgVec).  SeqRing stands for     *)
(* 2^16 and ExtRing for 2^32, so that the arithmetic keeps the code's       *)
(* widths and its wrap-arounds while TLC works on small rings.             *)
(***************************************************************************)
EXTENDS Integers

CONSTANTS SeqRing,   (* number of 16-bit sequence numbers, 65536 in the code *)
          ExtRing    (* number of 32-bit extended numbers, 2^32 in the code  *)

ASSUME SeqNumAssumption ==
    /\ SeqRing \in Nat /\ SeqRing > 1
    /\ ExtRing \in Nat /\ ExtRing > SeqRing
    /\ ExtRing % SeqRing = 0

Half == SeqRing \div 2

SeqNums == 0 .. SeqRing - 1
ExtNums == 0 .. ExtRing - 1

(* The value of previousExtSeqNum before any packet, and the one the code  *)
(* compares it with to recognise the first packet.                         *)
NoPrevious == -1

(* Mutant: the extended number is stored in 16 bits.                       *)
MutToInt32(e) == LET low == e % SeqRing IN IF low >= Half THEN low - SeqRing ELSE low

(* The store of a uint32_t into the int32_t previousExtSeqNum.             *)
ToInt32(e) == IF 2 * e >= ExtRing THEN e - ExtRing ELSE e

(* Mutant: a number of the previous cycle is not recognised.               *)
MutExtendForward(seq, highest, previous) ==
    LET guess == highest - (highest % SeqRing) + seq
    IN  IF guess - previous < -Half THEN (guess + SeqRing) % ExtRing ELSE guess

(* The extended number of wire number seq, given the highest extended      *)
(* number so far and the (signed) extended number of the previous packet;  *)
(* the additions wrap as uint32_t does.                                    *)
Extend(seq, highest, previous) ==
    LET guess == highest - (highest % SeqRing) + seq
    IN  IF guess - previous < -Half
        THEN (guess + SeqRing) % ExtRing
        ELSE IF guess - previous > Half
             THEN (guess - SeqRing) % ExtRing
             ELSE guess

(* The same for any packet: while there is no previous packet the number   *)
(* is taken as it is.                                                      *)
NextExt(seq, highest, previous) ==
    IF previous # NoPrevious THEN Extend(seq, highest, previous) ELSE seq

(* The highest extended number after a packet with number e.               *)
NextHighest(e, highest, previous) ==
    IF previous = NoPrevious \/ e > highest THEN e ELSE highest
=============================================================================
