-------------------------------- MODULE Sender --------------------------------
(***************************************************************************)
(* The stream sender: the application queues NAL units (NALUs)             *)
(* (arstream2_stream_sender.c); the sender's thread cuts or aggregates     *)
(* them into RTP packets (arstream2_rtp_h264.c) and sends the packets      *)
(* (arstream2_rtp_sender.c), dropping what is overdue.                     *)
(*                                                                         *)
(* A NALU is its number in the order of submission.  Sizes are numbers,    *)
(* and the packetizer computes with them as the code does.  Time is left   *)
(* out: whether something is overdue is a free choice.  Header extensions  *)
(* and forced discontinuities are not used.  The record s holds what the   *)
(* packetizer changes: the sender context, the packet queue, the pool and  *)
(* the calls of auCallback; the functions of the code are operators from   *)
(* such records to such records.  Items and buffers of the packet FIFO are *)
(* taken and given back together and there are as many of the ones as of   *)
(* the others: the pool is the number of free pairs.                       *)
(***************************************************************************)
EXTENDS Integers, SequencesExt

CONSTANTS MaxRequests,        (* NALUs submitted and flushes requested     *)
          MaxBatch,           (* NALUs of a call of SendNNewNalu           *)
          NaluFifoSize,       (* items of the NALU FIFO                    *)
          PoolSize,           (* items, and buffers, of the packet FIFO    *)
          Kinds,              (* the sizes and priorities of NALUs         *)
          MaxPacketSize, TargetPacketSize, RtpHeaderSize

ASSUME SenderAssumption ==
    /\ {MaxRequests, MaxBatch, NaluFifoSize, PoolSize} \subseteq Nat
    /\ Kinds \subseteq [size : Nat \ {0}, priority : Nat]
    /\ {MaxPacketSize, TargetPacketSize, RtpHeaderSize} \subseteq Nat
    /\ MaxPacketSize > 2 /\ TargetPacketSize > 0

VARIABLES
    nalus,      (* the NALUs accepted so far                               *)
    naluFifo,   (* streamSender->naluFifo                                  *)
    s,          (* what the packetizer changes                             *)
    packetsPending,   (* sender->packetsPending                            *)
    wire,       (* the packets sent                                        *)
    calls,      (* how often naluCallback was called for each NALU         *)
    started, shouldStop,   (* threadStarted, threadShouldStop              *)
    pc, nalu,              (* the sender's thread and the NALU it has      *)
    appPc, toSend,         (* the application's thread, NALUs of its call  *)
    appNalu, appSeqNum,    (* the NALU it flushes, seqNum as it read it    *)
    flushes

dataVars   == <<nalus, naluFifo, s, calls>>
threadVars == <<started, pc, nalu, packetsPending, wire>>
appVars    == <<appPc, toSend, appNalu, appSeqNum, flushes, shouldStop>>
vars       == <<dataVars, threadVars, appVars>>

NoNalu == 0
NoStap == [nalus |-> <<>>, size |-> 0]

Init ==
    /\ nalus = <<>> /\ naluFifo = <<>> /\ wire = <<>>
    /\ s = [seqNum |-> 0, stap |-> NoStap, previousAu |-> 0, lastCallbackAu |-> 0,
            queue |-> <<>>, free |-> PoolSize, auCalls |-> <<>>]
    /\ calls = [n \in 1 .. MaxRequests |-> 0]
    /\ packetsPending = FALSE /\ started = FALSE /\ shouldStop = FALSE
    /\ pc = "start" /\ nalu = NoNalu
    /\ appPc = "idle" /\ toSend = 0 /\ appNalu = NoNalu /\ appSeqNum = 0
    /\ flushes = 0

-----------------------------------------------------------------------------
(* The packet FIFO.                                                        *)

(* Mutant: a packet goes before those of its own priority.                 *)
MutGoesAfter(packet, other) ==
    packet.au > other.au \/ (packet.au = other.au /\ packet.priority > other.priority)

(* ARSTREAM2_RTP_PacketFifoEnqueueItemOrderedByPriority stops its scan     *)
(* from the tail at the first packet that may stay in front.  Packets of   *)
(* one access unit and priority, enqueued in turn, stop at one another.    *)
GoesAfter(packet, other) ==
    packet.au > other.au \/ (packet.au = other.au /\ packet.priority >= other.priority)

Enqueue(queue, packets) ==
    LET front == {i \in DOMAIN queue : \A p \in ToSet(packets) : GoesAfter(p, queue[i])}
        place == Max(front \cup {0})
    IN  SubSeq(queue, 1, place) \o packets \o SubSeq(queue, place + 1, Len(queue))

(* Mutant: the flush does not give the buffers back.                       *)
MutPacketFifoFlush(c) == [c EXCEPT !.queue = <<>>]

(* ARSTREAM2_RTP_Sender_PacketFifoFlush, "flush to recover".               *)
PacketFifoFlush(c) == [c EXCEPT !.queue = <<>>, !.free = @ + Len(c.queue)]

(* ARSTREAM2_RTP_Sender_GeneratePacket with the context's sequence number, *)
(* and a place in the queue, for every packet of parts.  A packet is one   *)
(* part out of of of one NALU, or carries the NALUs of a STAP-A (0 of 0).  *)
Emit(c, ids, parts, of) ==
    LET priorities == {nalus[n].priority : n \in ToSet(ids)}
        packet(i) == [seqNum |-> c.seqNum + i - 1, nalus |-> ids, part |-> parts[i],
                      of |-> of, au |-> nalus[Head(ids)].au, priority |-> Min(priorities)]
    IN  [c EXCEPT !.queue = Enqueue(@, [i \in DOMAIN parts |-> packet(i)]),
                  !.seqNum = @ + Len(parts)]

-----------------------------------------------------------------------------
(* The packetizer.                                                         *)

FragmentCount(size) == (size + TargetPacketSize \div 2) \div TargetPacketSize

MeanFragmentSize(size) == (size + FragmentCount(size) \div 2) \div FragmentCount(size)

MustFragment(size) == FragmentCount(size) > 1 \/ size > MaxPacketSize

(* What the code takes for granted: it divides by the number of fragments, *)
(* and computes in unsigned numbers what is left for the last one.         *)
ASSUME FragmentAssumption ==
    \A kind \in Kinds : MustFragment(kind.size) =>
        /\ FragmentCount(kind.size) > 0
        /\ (FragmentCount(kind.size) - 1) * MeanFragmentSize(kind.size) < kind.size

(* The packets of an FU-A: each of the fragments of about the target size  *)
(* is cut again if it exceeds the maximum, one packet at least.            *)
FuAPacketCount(size) ==
    LET count == FragmentCount(size)
        mean  == MeanFragmentSize(size)
        cut(length) == Max({1, (length + MaxPacketSize - 3) \div (MaxPacketSize - 2)})
    IN  (count - 1) * cut(mean) + cut(size - 1 - (count - 1) * mean)

(* ARSTREAM2_RTPH264_Sender_FuAPackets: when the pool runs out the packets *)
(* made so far are flushed with all others and the rest is abandoned.      *)
FuAPackets(c, n) ==
    LET count == FuAPacketCount(nalus[n].size)
        made  == Min({count, c.free})
        emitted == Emit([c EXCEPT !.free = @ - made], <<n>>, [i \in 1 .. made |-> i], count)
    IN  IF made = count THEN emitted ELSE PacketFifoFlush(emitted)

(* ARSTREAM2_RTPH264_Sender_SingleNaluPacket.                              *)
SingleNaluPacket(c, n) ==
    IF c.free > 0 THEN Emit([c EXCEPT !.free = @ - 1], <<n>>, <<1>>, 1)
                  ELSE PacketFifoFlush(c)

(* Mutant: an incomplete STAP-A is forgotten.                              *)
MutFinishStapAPacket(c) == [c EXCEPT !.stap = NoStap]

(* ARSTREAM2_RTPH264_Sender_FinishStapAPacket, if one is pending.          *)
FinishStapAPacket(c) ==
    IF c.stap = NoStap THEN c
    ELSE [Emit(c, c.stap.nalus, <<0>>, 0) EXCEPT !.stap = NoStap]

(* ARSTREAM2_RTPH264_Sender_BeginStapAPacket: the payload starts with one  *)
(* byte of header.                                                         *)
BeginStapAPacket(c) ==
    IF c.free > 0 THEN [c EXCEPT !.free = @ - 1, !.stap = [nalus |-> <<>>, size |-> 1]]
                  ELSE PacketFifoFlush(c)

(* ARSTREAM2_RTPH264_Sender_AppendToStapAPacket; without a packet, the     *)
(* NALU is lost.                                                           *)
AppendToStapAPacket(c, n) ==
    IF c.stap.size = 0 THEN c
    ELSE [c EXCEPT !.stap = [nalus |-> Append(c.stap.nalus, n),
                             size |-> c.stap.size + 2 + nalus[n].size]]

(* The choice between the three forms, ARSTREAM2_RTPH264_Sender_NaluFifo-  *)
(* ToPacketFifo.  The size a NALU adds to a STAP-A is computed before the  *)
(* pending one is finished to make room.                                   *)
Fragmented(n) == MustFragment(nalus[n].size)

NewStapSize(c, n) ==
    (IF c.stap = NoStap THEN RtpHeaderSize + 1 ELSE 0) + 2 + nalus[n].size

Full(c, newSize) ==
    c.stap.size + newSize >= MaxPacketSize \/ c.stap.size + newSize > TargetPacketSize

MakeRoom(c, n, newSize) ==
    IF Fragmented(n) \/ Full(c, newSize) THEN FinishStapAPacket(c) ELSE c

Place(c, n, newSize) ==
    IF Fragmented(n) THEN FuAPackets(c, n)
    ELSE IF Full(c, newSize) THEN SingleNaluPacket(c, n)
    ELSE AppendToStapAPacket(IF c.stap = NoStap THEN BeginStapAPacket(c) ELSE c, n)

FinishLast(c, n) == IF nalus[n].isLast THEN FinishStapAPacket(c) ELSE c

(* Mutant: the last access unit of the callback is not remembered.         *)
MutAuCallback(c, au) == [c EXCEPT !.auCalls = Append(@, au)]

(* The call of auCallback for an access unit, not twice in a row.          *)
AuCallback(c, au) ==
    IF au = c.lastCallbackAu THEN c
    ELSE [c EXCEPT !.lastCallbackAu = au, !.auCalls = Append(@, au)]

(* The first NALU of an access unit ends the previous one.                 *)
NewAu(c, n) ==
    IF c.previousAu = 0 \/ nalus[n].au = c.previousAu THEN c
    ELSE AuCallback(FinishStapAPacket(c), c.previousAu)

LastInAu(c, n) == IF nalus[n].isLast THEN AuCallback(c, nalus[n].au) ELSE c

(* Mutant: the sequence number is left alone.                              *)
MutNaluDrop(c) == c

(* ARSTREAM2_RTPH264_Sender_NaluDrop: the sequence number is incremented   *)
(* "to let the receiver know that we dropped something".                   *)
NaluDrop(c) == [c EXCEPT !.seqNum = @ + 1]

Completed(n) == calls' = [calls EXCEPT ![n] = @ + 1]

-----------------------------------------------------------------------------
(* The application's calls.  NALUs are queued and flushed by one thread,   *)
(* access units in order; Stop may be called by another one at any time.   *)

(* ARSTREAM2_StreamSender_SendNNewNalu with m NALUs, refused unless the    *)
(* sender's thread is running; threadMutex is released before the first of *)
(* them is queued, by when the thread may have ended.                      *)
SendNNewNalu ==
    /\ appPc = "idle" /\ started
    /\ \E m \in 1 .. MaxBatch : Len(nalus) + m + flushes <= MaxRequests /\ toSend' = m
    /\ appPc' = "send"
    /\ UNCHANGED <<dataVars, threadVars, appNalu, appSeqNum, flushes, shouldStop>>

NextAus ==
    IF nalus = <<>> THEN {1}
    ELSE IF Last(nalus).isLast THEN {Last(nalus).au + 1}
    ELSE {Last(nalus).au, Last(nalus).au + 1}

(* ARSTREAM2_H264_NaluFifoPopFreeItem finds an item.                       *)
NaluFifoHasRoom == Len(naluFifo) < NaluFifoSize

(* ARSTREAM2_H264_NaluFifoEnqueueItem.                                     *)
NaluFifoEnqueue(n) == naluFifo' = Append(naluFifo, n)

(* ARSTREAM2_RTPH264_FifoDequeueNalu: the head of the FIFO, its item is    *)
(* free again at once.                                                     *)
FifoDequeueNalu == naluFifo # <<>> /\ naluFifo' = Tail(naluFifo)

EnqueueNalu ==
    /\ appPc = "send" /\ NaluFifoHasRoom
    /\ \E au \in NextAus, kind \in Kinds, isLast \in BOOLEAN :
          nalus' = Append(nalus, [au |-> au, size |-> kind.size,
                                  priority |-> kind.priority, isLast |-> isLast])
    /\ NaluFifoEnqueue(Len(nalus'))
    /\ toSend' = toSend - 1
    /\ appPc' = IF toSend' = 0 THEN "idle" ELSE "send"
    /\ UNCHANGED <<s, calls, threadVars, appNalu, appSeqNum, flushes, shouldStop>>

(* The NALU FIFO is full: the rest is refused.                             *)
QueueFull ==
    /\ appPc = "send" /\ ~NaluFifoHasRoom
    /\ appPc' = "idle" /\ toSend' = 0
    /\ UNCHANGED <<dataVars, threadVars, appNalu, appSeqNum, flushes, shouldStop>>

(* ARSTREAM2_StreamSender_FlushNaluQueue.                                  *)
FlushNaluQueue ==
    /\ appPc = "idle" /\ Len(nalus) + flushes < MaxRequests
    /\ appPc' = "flush" /\ flushes' = flushes + 1
    /\ UNCHANGED <<dataVars, threadVars, toSend, appNalu, appSeqNum, shouldStop>>

(* Mutant: the NALU is left in the FIFO.                                   *)
MutFlushTake ==
    /\ appPc = "flush" /\ naluFifo # <<>>
    /\ appNalu' = Head(naluFifo) /\ appSeqNum' = s.seqNum
    /\ appPc' = "drop"
    /\ UNCHANGED <<dataVars, threadVars, toSend, flushes, shouldStop>>

(* ARSTREAM2_RTPH264_Sender_FifoFlush takes a NALU; it reads the sequence  *)
(* number that it is about to increment.                                   *)
FlushTake ==
    /\ appPc = "flush" /\ FifoDequeueNalu /\ appNalu' = Head(naluFifo)
    /\ appSeqNum' = s.seqNum
    /\ appPc' = "drop"
    /\ UNCHANGED <<nalus, s, calls, threadVars, toSend, flushes, shouldStop>>

(* It stores the incremented number, whatever the thread has stored in the *)
(* meantime; the thread, between its own load and store, may undo this.    *)
FlushDrop ==
    /\ appPc = "drop"
    /\ \E seqNum \in {NaluDrop([s EXCEPT !.seqNum = appSeqNum]).seqNum}
                     \cup (IF pc = "process" THEN {s.seqNum} ELSE {}) :
          s' = LastInAu([s EXCEPT !.seqNum = seqNum], appNalu)
    /\ Completed(appNalu)
    /\ appPc' = "flush" /\ appNalu' = NoNalu /\ appSeqNum' = 0
    /\ UNCHANGED <<nalus, naluFifo, threadVars, toSend, flushes, shouldStop>>

FlushEnd ==
    /\ appPc = "flush" /\ naluFifo = <<>>
    /\ appPc' = "idle"
    /\ UNCHANGED <<dataVars, threadVars, toSend, appNalu, appSeqNum, flushes, shouldStop>>

(* ARSTREAM2_StreamSender_Stop.                                            *)
Stop ==
    /\ ~shouldStop /\ shouldStop' = TRUE
    /\ UNCHANGED <<dataVars, threadVars, appPc, toSend, appNalu, appSeqNum, flushes>>

-----------------------------------------------------------------------------
(* The sender's thread, ARSTREAM2_StreamSender_RunThread.                  *)

Start ==
    /\ pc = "start"
    /\ started' = TRUE
    /\ pc' = IF shouldStop THEN "exit" ELSE "turn"
    /\ UNCHANGED <<dataVars, appVars, nalu, packetsPending, wire>>

(* The packets of the queue that stay: a packet is overdue with its NALU,  *)
(* a STAP-A with its first one.                                            *)
Kept(queue, overdue) ==
    LET kept[i \in 0 .. Len(queue)] ==
            IF i = 0 THEN <<>>
            ELSE IF Head(queue[i].nalus) \in overdue THEN kept[i - 1]
            ELSE Append(kept[i - 1], queue[i])
    IN  kept[Len(queue)]

(* ARSTREAM2_RTP_Sender_PacketFifoCleanFromTimeout.                        *)
CleanFromTimeout ==
    /\ pc = "turn"
    /\ \E overdue \in SUBSET {Head(p.nalus) : p \in ToSet(s.queue)} :
          LET kept == Kept(s.queue, overdue)
          IN  s' = [s EXCEPT !.queue = kept, !.free = @ + Len(s.queue) - Len(kept)]
    /\ pc' = "nalus"
    /\ UNCHANGED <<nalus, naluFifo, calls, appVars, nalu, started, packetsPending, wire>>

(* ARSTREAM2_RTPH264_Sender_NaluFifoToPacketFifo takes a NALU ...          *)
DequeueNalu ==
    /\ pc = "nalus" /\ FifoDequeueNalu /\ nalu' = Head(naluFifo)
    /\ pc' = "process"
    /\ UNCHANGED <<nalus, s, calls, appVars, started, packetsPending, wire>>

(* ... drops it if it is overdue, makes packets of it otherwise, and       *)
(* completes it and perhaps its access unit.                               *)
ProcessNalu ==
    /\ pc = "process"
    /\ \E c \in {NewAu(s, nalu)} :
       \E room \in {MakeRoom(c, nalu, NewStapSize(c, nalu))} :
       \E placed \in {Place(room, nalu, NewStapSize(c, nalu))} :
       \E d \in {NaluDrop(c), FinishLast(placed, nalu)} :
          s' = [LastInAu(d, nalu) EXCEPT !.previousAu = nalus[nalu].au]
    /\ Completed(nalu)
    /\ nalu' = NoNalu /\ pc' = "nalus"
    /\ UNCHANGED <<nalus, naluFifo, appVars, started, packetsPending, wire>>

(* When no NALU is left, the packets the socket accepts leave the head of  *)
(* the queue; while some are pending, the socket must be writable first.   *)
SendMmsg ==
    /\ pc = "nalus" /\ naluFifo = <<>>
    /\ \/ \E sent \in 0 .. Len(s.queue) :
             /\ wire' = wire \o SubSeq(s.queue, 1, sent)
             /\ packetsPending' = IF s.queue = <<>> THEN packetsPending
                                                    ELSE sent < Len(s.queue)
             /\ s' = [s EXCEPT !.queue = SubSeq(@, sent + 1, Len(@)), !.free = @ + sent]
       \/ packetsPending /\ UNCHANGED <<s, wire, packetsPending>>
    /\ pc' = "check"
    /\ UNCHANGED <<nalus, naluFifo, calls, appVars, nalu, started>>

CheckStop ==
    /\ pc = "check"
    /\ pc' = IF shouldStop THEN "exit" ELSE "turn"
    /\ UNCHANGED <<dataVars, appVars, nalu, started, packetsPending, wire>>

(* Mutant: the NALU FIFO is not flushed.                                   *)
MutExit ==
    /\ pc = "exit"
    /\ started' = FALSE /\ pc' = "done"
    /\ UNCHANGED <<dataVars, appVars, nalu, packetsPending, wire>>

Exit ==
    /\ pc = "exit"
    /\ started' = FALSE /\ pc' = "endNalus"
    /\ UNCHANGED <<dataVars, appVars, nalu, packetsPending, wire>>

(* ARSTREAM2_RtpSender_ProcessEnd flushes the NALUs, then the packets.     *)
EndNalu ==
    /\ pc = "endNalus" /\ FifoDequeueNalu
    /\ s' = LastInAu(NaluDrop(s), Head(naluFifo))
    /\ Completed(Head(naluFifo))
    /\ UNCHANGED <<nalus, appVars, threadVars>>

EndPackets ==
    /\ pc = "endNalus" /\ naluFifo = <<>>
    /\ s' = PacketFifoFlush(s)
    /\ pc' = "done"
    /\ UNCHANGED <<nalus, naluFifo, calls, appVars, nalu, started, packetsPending, wire>>

AppCall == EnqueueNalu \/ QueueFull \/ FlushTake \/ FlushDrop \/ FlushEnd
App     == SendNNewNalu \/ FlushNaluQueue \/ Stop \/ AppCall
Thread  == \/ Start \/ CleanFromTimeout \/ DequeueNalu \/ ProcessNalu \/ SendMmsg
           \/ CheckStop \/ Exit \/ EndNalu \/ EndPackets

Next == App \/ Thread

(* The thread is scheduled, its select has a time-out of at most           *)
(* ARSTREAM2_RTP_SENDER_TIMEOUT_US, and no call of the application waits.  *)
Spec == Init /\ [][Next]_vars /\ WF_vars(Thread) /\ WF_vars(AppCall)

-----------------------------------------------------------------------------
(* Properties.                                                             *)

(* Every variable has its type, and the pool of packets is conserved: a    *)
(* pair of item and buffer is free, queued, or in the pending STAP-A.      *)
TypeOK ==
    /\ naluFifo \in Seq(1 .. Len(nalus)) /\ Len(naluFifo) <= NaluFifoSize
    /\ {nalu, appNalu} \subseteq 0 .. Len(nalus)
    /\ \A p \in ToSet(s.queue) \cup ToSet(wire) : ToSet(p.nalus) \subseteq DOMAIN nalus
    /\ s.stap.size <= MaxPacketSize
    /\ s.free \in 0 .. PoolSize
    /\ s.free + Len(s.queue) + (IF s.stap = NoStap THEN 0 ELSE 1) = PoolSize

(* Packets leave in the order of the access units and, within one, those   *)
(* of the same priority in the order of their sequence numbers: neither    *)
(* aggregation, nor packets that stay queued when the socket is full, nor  *)
(* time-outs change that (ARSTREAM2_RTP_PacketFifoEnqueueItemOrderedBy-    *)
(* Priority).  FlushNaluQueue, which races for the number, is left out.    *)
WireOrder ==
    \A i, j \in DOMAIN wire : i < j =>
        /\ wire[i].au <= wire[j].au
        /\ wire[i].au = wire[j].au /\ wire[i].priority = wire[j].priority /\ flushes = 0
             => wire[i].seqNum < wire[j].seqNum

Parts(n) == {p \in ToSet(wire) : n \in ToSet(p.nalus)}
Whole(n) == \E p \in Parts(n) : Cardinality(Parts(n)) = Max({1, p.of})

(* When two NALUs are sent whole and all those between them are lost, on   *)
(* time-out or because the packet FIFO was full, the receiver sees a gap   *)
(* in the sequence numbers between the two ("increment the sequence number *)
(* to let the receiver know that we dropped something").  Excepted: the    *)
(* first NALU went into a STAP-A, whose number is chosen after the drop;   *)
(* priorities that differ, with which a flush loses packets of before the  *)
(* first NALU only; FlushNaluQueue.                                        *)
LossesVisible ==
    \A i, j \in DOMAIN nalus :
        /\ i + 1 < j /\ Whole(i) /\ Whole(j) /\ flushes = 0
        /\ \A k \in i + 1 .. j - 1 : Parts(k) = {}
        /\ \A k \in DOMAIN nalus : nalus[k].priority = nalus[i].priority
        /\ \A p \in Parts(i) : p.of # 0
        => \A p \in Parts(i), q \in Parts(j) : p.seqNum + 1 < q.seqNum

(* naluCallback is called once at most for each NALU, and not while the    *)
(* NALU is queued or in use: both threads take NALUs from the FIFO and     *)
(* complete them.                                                          *)
CompletedOnce ==
    /\ \A n \in DOMAIN calls : calls[n] <= 1
    /\ \A n \in ToSet(naluFifo) \cup ({nalu, appNalu} \ {NoNalu}) : calls[n] = 0

(* Every NALU queued before the sender's thread is done is completed, be   *)
(* it sent, dropped, or flushed by the application or by the thread that   *)
(* ends: otherwise the application never gets its buffer back.  It cannot  *)
(* be said of every NALU accepted: one that SendNNewNalu queues after the  *)
(* last flush, having found the thread running before, stays in the FIFO.  *)
EveryNaluCompleted ==
    \A n \in 1 .. MaxRequests :
        (n \in DOMAIN nalus /\ pc # "done") ~> (calls[n] = 1)

(* "This callback function is called when buffers associated with an       *)
(* access unit are no longer used by the sender": once for an access unit, *)
(* whether its last NALU is flagged or the next access unit begins, and    *)
(* when no NALU of it waits or is in use.  FlushNaluQueue is left         *)
(* out: it does not update previousTimestamp, so that the thread may call  *)
(* the callback for the same access unit again.                            *)
AuCompletedOnce ==
    flushes = 0 =>
        /\ IsInjective(s.auCalls)
        /\ \A n \in ToSet(naluFifo) \cup ({nalu} \ {NoNalu}) :
              nalus[n].au \notin ToSet(s.auCalls)
=============================================================================
