----------------------------- MODULE Depayloader -----------------------------
(***************************************************************************)
(* From RTP packets to access units: what                                  *)
(* ARSTREAM2_RTPH264_Receiver_PacketFifoToAuFifo (arstream2_rtp_h264.c)    *)
(* does with each packet it takes from the packet queue.  The sender emits *)
(* single-NALU, STAP-A and FU-A packets; the network loses any of them;    *)
(* those that are left reach the depayloader in order (PacketFifo shows    *)
(* that).  NALUs are rebuilt in the current access unit, which is handed   *)
(* to the callback at a marker bit or a change of timestamp.               *)
(*                                                                         *)
(* A packet is known by its place in the sender's stream and a NALU by the *)
(* packets it was rebuilt from.  The record ctx holds the fields of        *)
(* ARSTREAM2_RTPH264_ReceiverContext_t; each function of the code that     *)
(* updates them is an operator from ctx to ctx.                            *)
(***************************************************************************)
EXTENDS Integers, SequencesExt

CONSTANTS MaxPackets,    (* length of the stream                           *)
          NaluCapacity,  (* au.naluFifoSize: NALU items of an access unit  *)
          Allocations    (* outcomes of AuFifoGetBuffer and PopFreeItem    *)

ASSUME DepayAssumption ==
    /\ MaxPackets \in Nat /\ NaluCapacity \in Nat
    /\ Allocations \subseteq {"both", "noItem", "noBuffer"}

Kinds == {"single", "stap", "start", "mid", "end"}

(* An RTP packet: its payload type, its RTP timestamp and its marker bit.  *)
Packets == [kind : Kinds, ts : Nat, marker : BOOLEAN]

(* A NALU: its packets, and what nalu.missingPacketsBefore says.           *)
Nalu(packets, missing) == [packets |-> packets, missing |-> missing]

(* An access unit handed to the callback: its NALUs, and whether it was    *)
(* still the depayloader's, and not on the free list, at that time.        *)
AccessUnit(c) == [nalus |-> c.nalus, owned |-> c.auItem = "own"]

NoNalu == Nalu(<<>>, 0)

VARIABLES
    stream,    (* the packets sent so far                                  *)
    ctx,       (* rtph264ReceiverContext                                   *)
    output,    (* the access units handed to the callback                  *)
    refused    (* the packets dropped for want of an access unit           *)

vars == <<stream, ctx, output, refused>>

(* auItem is "none", "own" or "free": the last is an item that has been    *)
(* pushed back on the free list and is still pointed to.                   *)
Init ==
    /\ stream = <<>>
    /\ ctx = [prevSeq |-> 0, prevTs |-> 0, auItem |-> "none", nalus |-> <<>>,
              fuPending |-> FALSE, fuCount |-> 0, fuNalu |-> NoNalu,
              pending |-> 0]
    /\ output = <<>>
    /\ refused = {}

-----------------------------------------------------------------------------
(* The sender: fragments of a NALU follow one another, and the marker bit  *)
(* is on the last packet of an access unit.                                *)

LastSent == stream[Len(stream)]

InFuA == stream # <<>> /\ LastSent.kind \in {"start", "mid"}

SentTs ==
    IF stream = <<>> THEN 1
    ELSE IF LastSent.marker THEN LastSent.ts + 1 ELSE LastSent.ts

Sendable(p) ==
    /\ p.ts = SentTs
    /\ p.kind \in IF InFuA THEN {"mid", "end"} ELSE {"single", "stap", "start"}
    /\ p.marker => p.kind \notin {"start", "mid"}

-----------------------------------------------------------------------------
(* The operations on the current access unit.                              *)

(* Mutant: the items of the pool are counted one short.                    *)
MutHasNalu(c) ==
    Len(c.nalus) + (IF c.fuNalu # NoNalu THEN 1 ELSE 0) <= NaluCapacity

(* ARSTREAM2_H264_AuNaluFifoPopFreeItem finds an item.                     *)
HasNalu(c) ==
    Len(c.nalus) + (IF c.fuNalu # NoNalu THEN 1 ELSE 0) < NaluCapacity

(* ARSTREAM2_H264_AuEnqueueNalu, at the end of the access unit.            *)
EnqueueNalu(c, nalu) == [c EXCEPT !.nalus = Append(@, nalu)]

(* ARSTREAM2_H264_AuReset.                                                 *)
AuReset(c) == [c EXCEPT !.nalus = <<>>]

(* ARSTREAM2_RTPH264_Receiver_DropFuAPackets.                              *)
DropFuA(c) == [c EXCEPT !.fuPending = FALSE, !.fuCount = 0, !.fuNalu = NoNalu]

(* Mutant: the dropped packets are not counted as missing.                 *)
MutAbandonFuA(c, extra) == DropFuA(c)

(* Its calls: the packets of the incomplete NALU become missing ones, and  *)
(* so do the extra packets given.                                          *)
AbandonFuA(c, extra) ==
    DropFuA([c EXCEPT !.pending = @ + c.fuCount + extra])

DropPrevious(c) == IF c.fuPending THEN AbandonFuA(c, 0) ELSE c

(* ARSTREAM2_RTPH264_Receiver_BeginFuAPackets.                             *)
BeginFuA(c, missing) ==
    IF HasNalu(c)
    THEN [c EXCEPT !.fuPending = TRUE, !.fuCount = 0, !.pending = 0,
                   !.fuNalu = Nalu(<<0>>, missing + c.pending)]
    ELSE [c EXCEPT !.pending = @ + 1]

(* ARSTREAM2_RTPH264_Receiver_AppendPacketToFuA.                           *)
AppendFuA(c, n) ==
    [c EXCEPT !.fuCount = @ + 1, !.fuNalu.packets = Append(@, n)]

(* ARSTREAM2_RTPH264_Receiver_FinishFuAPackets.                            *)
FinishFuA(c) ==
    DropFuA(EnqueueNalu(c, [c.fuNalu EXCEPT !.packets = Tail(@)]))

(* Mutant: a fragment after a gap is appended all the same.                *)
MutFuA(c, n, kind, missing) ==
    LET c1 == IF kind = "start" THEN BeginFuA(DropPrevious(c), missing) ELSE c
        c2 == AppendFuA(c1, n)
    IN  IF ~c1.fuPending THEN c1
        ELSE IF kind = "end" THEN FinishFuA(c2) ELSE c2

(* A fragment.  It is of no use after a gap, unless it starts a NALU.      *)
FuA(c, n, kind, missing) ==
    LET c1 == IF kind = "start" THEN BeginFuA(DropPrevious(c), missing)
              ELSE IF missing + c.pending > 0 THEN AbandonFuA(c, 1)
              ELSE c
        c2 == AppendFuA(c1, n)
    IN  IF ~c1.fuPending THEN c1
        ELSE IF kind = "end" THEN FinishFuA(c2) ELSE c2

(* ARSTREAM2_RTPH264_Receiver_SingleNaluPacket.                            *)
Single(c, n, missing) ==
    IF HasNalu(c)
    THEN [EnqueueNalu(c, Nalu(<<n>>, missing + c.pending)) EXCEPT !.pending = 0]
    ELSE [c EXCEPT !.pending = @ + 1]

(* ARSTREAM2_RTPH264_Receiver_StapAPacket with two NALUs: if only the      *)
(* second finds no item the first stays, and the call still fails.         *)
StapA(c, n, missing) ==
    LET one == EnqueueNalu(c, Nalu(<<n>>, missing + c.pending))
    IN  IF HasNalu(c) /\ HasNalu(one)
        THEN [EnqueueNalu(one, Nalu(<<n>>, 0)) EXCEPT !.pending = 0]
        ELSE [(IF HasNalu(c) THEN one ELSE c) EXCEPT !.pending = @ + 1]

Payload(c, n, kind, missing) ==
    CASE kind = "single" -> Single(DropPrevious(c), n, missing)
      [] kind = "stap"   -> StapA(DropPrevious(c), n, missing)
      [] OTHER           -> FuA(c, n, kind, missing)

(* AuFifoGetBuffer and AuFifoPopFreeItem.  When there is an item but no    *)
(* buffer, the item is pushed back and context->auItem keeps its address.  *)
Allocate(c, outcome) ==
    [c EXCEPT !.auItem = CASE outcome = "both"   -> "own"
                           [] outcome = "noItem" -> "none"
                           [] OTHER              -> "free"]

-----------------------------------------------------------------------------
(* Mutant: only the marker bit ends an access unit.                        *)
MutNewTimestamp(p) == FALSE

(* A change of timestamp while there is a current access unit.             *)
NewTimestamp(p) ==
    ctx.auItem # "none" /\ ctx.prevTs # 0 /\ p.ts # ctx.prevTs

(* The packet number n is the first, or the successor of the previous one, *)
(* or the packets between them are overdue; either way it is processed.    *)
Receive(p, outcome) ==
    LET n       == Len(stream) + 1
        first   == ctx.prevSeq = 0
        missing == IF first THEN 0 ELSE n - ctx.prevSeq - 1 + ctx.pending
        c0      == IF first THEN ctx ELSE [ctx EXCEPT !.pending = 0]
        c1      == IF NewTimestamp(p) THEN AbandonFuA(c0, 0) ELSE c0
        fresh   == NewTimestamp(p) \/ ctx.auItem = "none"
        c2      == IF fresh THEN Allocate(AuReset(c1), outcome)
                            ELSE c1
        ok      == fresh => outcome = "both"
        c3      == IF ok THEN Payload(c2, n, p.kind, missing) ELSE c2
        marked  == ok /\ p.marker
        c4      == IF marked THEN [c3 EXCEPT !.auItem = "none", !.nalus = <<>>]
                             ELSE c3
    IN  /\ stream' = Append(stream, p)
        /\ ctx' = [c4 EXCEPT !.prevSeq = n, !.prevTs = p.ts]
        /\ output' = output \o (IF NewTimestamp(p) THEN <<AccessUnit(c1)>> ELSE <<>>)
                            \o (IF marked THEN <<AccessUnit(c3)>> ELSE <<>>)
        /\ refused' = IF ok THEN refused ELSE refused \cup {n}

(* The network loses the packet.                                           *)
Lose(p) ==
    /\ stream' = Append(stream, p)
    /\ UNCHANGED <<ctx, output, refused>>

Next ==
    /\ Len(stream) < MaxPackets
    /\ \E kind \in Kinds, marker \in BOOLEAN :
          LET p == [kind |-> kind, ts |-> SentTs, marker |-> marker]
          IN  /\ Sendable(p)
              /\ \/ \E outcome \in Allocations : Receive(p, outcome)
                 \/ Lose(p)

Spec == Init /\ [][Next]_vars

-----------------------------------------------------------------------------
Numbers == 1 .. Len(stream)

NaluOK(nalu) == nalu.packets \in Seq(Nat) /\ nalu.missing \in Nat

TypeOK ==
    /\ stream \in Seq(Packets)
    /\ refused \subseteq Numbers
    /\ ctx.prevSeq \in Numbers \cup {0} /\ ctx.prevTs \in Nat
    /\ ctx.auItem \in {"none", "own", "free"}
    /\ ctx.pending \in Nat /\ ctx.fuCount \in Nat
    /\ NaluOK(ctx.fuNalu)
    /\ ctx.fuPending <=> ctx.fuNalu # NoNalu
    /\ \A i \in DOMAIN ctx.nalus : NaluOK(ctx.nalus[i])
    /\ Len(ctx.nalus) + (IF ctx.fuPending THEN 1 ELSE 0) <= NaluCapacity

(* The access units output so far and the current one; their NALUs.        *)
AccessUnits == Append(output, AccessUnit(ctx))

(* One packet, or the fragments of a NALU, all of them and in order.       *)
IsWhole(packets) ==
    LET last  == Len(packets)
        kinds == [k \in DOMAIN packets |-> stream[packets[k]].kind]
    IN  IF last = 1 THEN kinds[1] \in {"single", "stap"}
        ELSE /\ kinds[1] = "start" /\ kinds[last] = "end"
             /\ \A k \in 2 .. last :
                   /\ packets[k] = packets[k - 1] + 1
                   /\ k < last => kinds[k] = "mid"

(* Every NALU handed on is a whole one, whatever packets were lost between *)
(* its fragments: one packet, or all the fragments from its first to its   *)
(* last (arstream2_rtp_h264.c 1165-1247).                                  *)
WholeNalus ==
    \A i \in DOMAIN AccessUnits : \A k \in DOMAIN AccessUnits[i].nalus :
        IsWhole(AccessUnits[i].nalus[k].packets)

(* The access units of the stream are neither mixed nor split: the NALUs   *)
(* of one have the same timestamp, and those of the next have a later one, *)
(* though the marker bit may be lost (1097-1138, 1316-1347).               *)
AccessUnitsSeparate ==
    \A i, j \in DOMAIN AccessUnits : i <= j =>
        \A k \in DOMAIN AccessUnits[i].nalus, l \in DOMAIN AccessUnits[j].nalus :
            LET s == stream[Head(AccessUnits[i].nalus[k].packets)].ts
                t == stream[Head(AccessUnits[j].nalus[l].packets)].ts
            IN  IF i = j THEN s = t ELSE s < t

(* NALU l of unit j is the next one after NALU k of unit i.                *)
Adjacent(units, i, k, j, l) ==
    \/ i = j /\ l = k + 1
    \/ /\ i < j /\ k = Len(units[i].nalus) /\ l = 1
       /\ \A m \in i + 1 .. j - 1 : units[m].nalus = <<>>

(* A NALU that does not directly follow the previous one says so: its      *)
(* missingPacketsBefore is not 0 if packets between them were lost or      *)
(* could not be used, and the filter may then resynchronise.  The          *)
(* exception is a packet refused for want of an access unit, which the     *)
(* code does not count (1083-1089, 1178-1221, 1349-1352).                  *)
MissingReported ==
    LET units == AccessUnits
    IN  \A i, j \in DOMAIN units :
            \A k \in DOMAIN units[i].nalus, l \in DOMAIN units[j].nalus :
                LET nalu    == units[j].nalus[l]
                    skipped == Last(units[i].nalus[k].packets) + 1
                                  .. Head(nalu.packets) - 1
                IN  /\ Adjacent(units, i, k, j, l)
                    /\ skipped # {} /\ skipped \cap refused = {}
                    => nalu.missing > 0

(* "Access unit FIFO is full => flush to recover" (1149): having run out   *)
(* of access units, the depayloader goes on with one it owns, and never    *)
(* hands the callback one that is on the free list.                        *)
OutputOwned == \A i \in DOMAIN output : output[i].owned

=============================================================================
