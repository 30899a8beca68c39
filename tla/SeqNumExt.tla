------------------------------ MODULE SeqNumExt ------------------------------
(***************************************************************************)
(* Does the receiver recover the sender's packet numbering?  The sender    *)
(* numbers its packets 0, 1, 2, ... and puts the number modulo 2^16 on the *)
(* wire; the network reorders, repeats and loses packets within a window;  *)
(* the receiver extends what arrives (AddFromMsgVec in arstream2_rtp.c).   *)
(***************************************************************************)
EXTENDS RtpSeqNum

CONSTANTS Window,     (* how far from the newest packet others may arrive  *)
          Joins,      (* the packets that may be the receiver's first      *)
          MaxIndex    (* the run ends at this packet                       *)

ASSUME WindowAssumption ==
    /\ Window \in Nat /\ 2 * Window < Half
    /\ MaxIndex \in Nat
    /\ Joins \subseteq 0 .. MaxIndex

VARIABLES
    top,       (* sender's number of the newest packet received, -1: none  *)
    latest,    (* sender's number of the last packet received              *)
    origin,    (* the sender's number the receiver takes for 0             *)
    firsts,    (* how often a packet was taken for the first one           *)
    highest,   (* rtpReceiverContext.extHighestSeqNum                      *)
    previous   (* rtpReceiverContext.previousExtSeqNum                     *)

vars == <<top, latest, origin, firsts, highest, previous>>

Init ==
    /\ top = -1 /\ latest = -1 /\ origin = 0 /\ firsts = 0
    /\ highest = 0 /\ previous = NoPrevious

(* The packets the network may deliver next.                               *)
Arrivals ==
    IF top = -1 THEN Joins
    ELSE {n \in 0 .. MaxIndex : n - top \in -Window .. Window}

(* Packet n arrives.                                                       *)
Receive(n) ==
    LET e == NextExt(n % SeqRing, highest, previous)
    IN  /\ top' = IF n > top THEN n ELSE top
        /\ latest' = n
        /\ origin' = IF top = -1 THEN n - (n % SeqRing) ELSE origin
        /\ firsts' = IF previous = NoPrevious THEN firsts + 1 ELSE firsts
        /\ highest' = NextHighest(e, highest, previous)
        /\ previous' = ToInt32(e)

Next == \E n \in Arrivals : Receive(n)

Spec == Init /\ [][Next]_vars

-----------------------------------------------------------------------------
(* The extended numbers are the sender's own numbers, counted from the     *)
(* start of the 2^16 cycle of the first packet, across every wrap of the   *)
(* 16-bit number and whatever the order of arrival (arstream2_rtp.c        *)
(* 1325-1341).                                                             *)
NumbersRecovered ==
    top # -1 => /\ previous = ToInt32(latest - origin)
                /\ highest = top - origin

(* "first packet received" (arstream2_rtp.c:1358): that branch, which      *)
(* resets the RTCP statistics, is taken for one packet only.               *)
OneFirstPacket == firsts <= 1
=============================================================================
