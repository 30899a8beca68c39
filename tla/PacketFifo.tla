----------------------------- MODULE PacketFifo ------------------------------
(***************************************************************************)
(* The receiver's RTP packet FIFO (arstream2_rtp.c) as its three users     *)
(* drive it: the network thread that receives packets, hands them to the   *)
(* depayloader and forwards them to the resenders, and the application     *)
(* thread that starts and stops resenders.                                 *)
(*                                                                         *)
(* A pool of items and a pool of reference-counted buffers are shared by   *)
(* the main queue, ordered by extended sequence number, and one queue per  *)
(* resender.  Every loop of the code is one action per iteration, with pc  *)
(* the place of the network thread inside one turn of                      *)
(* ARSTREAM2_StreamReceiver_RunNetworkThread.  The resendMutex held during *)
(* that turn is the variable mutex.                                        *)
(*                                                                         *)
(* Abstracted: the payload of a packet (a buffer holds the sequence number *)
(* of the datagram received into it), time (a time-out may expire at any   *)
(* moment), statistics and clock-skew estimation.  Item identities are     *)
(* interchangeable, so the list of free items is a set; the list of free   *)
(* buffers keeps its order, because the message vector relies on it.       *)
(***************************************************************************)
EXTENDS RtpSeqNum, SequencesExt

CONSTANTS Items,      (* the item pool                                     *)
          Buffers,    (* the buffer pool, also the size of the msgVec      *)
          Resenders,  (* the resenders the application may start           *)
          WireSeqs    (* sequence numbers that occur on the wire           *)

CONSTANTS Main,       (* the receiver's packetFifoQueue                    *)
          NoBuffer,   (* a NULL buffer pointer                             *)
          NoItem,     (* a NULL item pointer                               *)
          Nobody      (* no resender is being stopped                      *)

ASSUME PoolAssumption ==
    /\ IsFiniteSet(Items) /\ Items # {}
    /\ IsFiniteSet(Buffers) /\ Buffers # {}
    /\ NoItem \notin Items
    /\ NoBuffer \notin Buffers

ASSUME QueueAssumption ==
    /\ IsFiniteSet(Resenders)
    /\ Main \notin Resenders
    /\ Nobody \notin Resenders

ASSUME WireAssumption == WireSeqs \subseteq SeqNums

Queues == Resenders \cup {Main}

(* What recvmmsg reports of one datagram: its sequence number, and whether *)
(* msg_len exceeds the size of an RTP header.                              *)
Messages == [seq : WireSeqs, long : BOOLEAN]

(* The fields of ARSTREAM2_RTP_Packet_t that the queues depend on.         *)
Packets == [buffer : Buffers \cup {NoBuffer}, seq : SeqNums, ext : ExtNums]

NoPacket == [buffer |-> NoBuffer, seq |-> 0, ext |-> 0]

NetPc == {"idle", "fill", "flush", "recv", "add", "resend", "garbage",
          "depay", "timeout", "clean", "end", "done"}

-----------------------------------------------------------------------------
VARIABLES
    itemFree,    (* fifo->itemFree                                         *)
    bufferFree,  (* fifo->bufferFree, most recently freed first            *)
    refCount,    (* buffer->refCount                                       *)
    content,     (* the sequence number in the header each buffer holds    *)
    packet,      (* item->packet                                           *)
    queue,       (* the items of each queue, head first                    *)
    attached,    (* the started resenders, most recently started first     *)
    garbage,     (* local list of AddFromMsgVec                            *)
    highest,     (* rtpReceiverContext.extHighestSeqNum                    *)
    previous,    (* rtpReceiverContext.previousExtSeqNum                   *)
    depayed,     (* rtph264ReceiverContext.previousDepayloadExtSeqNum      *)
    pc,          (* the network thread's place in its loop                 *)
    msgVec,      (* the datagrams recvmmsg returned                        *)
    idx,         (* index of the innermost loop over msgVec or a queue     *)
    kdx,         (* index of the loop over the resenders                   *)
    curItem,     (* the item AddFromMsgVec has just queued                 *)
    mutex,       (* the owner of resendMutex: the network thread ("net"),  *)
                 (* StartResender ("start"), StopResender ("app") or none  *)
    stopping     (* the resender StopResender is flushing                  *)

poolVars == <<itemFree, bufferFree, refCount, content, packet>>
listVars == <<queue, attached, garbage>>
seqVars  == <<highest, previous, depayed>>
netVars  == <<pc, msgVec, idx, kdx, curItem>>
appVars  == <<mutex, stopping>>
vars     == <<poolVars, listVars, seqVars, netVars, appVars>>

-----------------------------------------------------------------------------
(* Operations on the pools and queues.                                     *)

(* ARSTREAM2_RTP_PacketFifoUnrefBuffer on the buffer of item it, followed  *)
(* by ARSTREAM2_RTP_PacketFifoPushFreeItem: how every queue lets go of it. *)
Remaining(b) == IF refCount[b] # 0 THEN refCount[b] - 1 ELSE 0

(* Mutant: the buffer goes back to the free list whoever else uses it.     *)
MutReleaseItem(it) ==
    LET b == packet[it].buffer
    IN  /\ refCount' = [refCount EXCEPT ![b] = Remaining(b)]
        /\ bufferFree' = Cons(b, bufferFree)
        /\ itemFree' = itemFree \cup {it}
        /\ UNCHANGED <<content, packet>>

ReleaseItem(it) ==
    LET b == packet[it].buffer
    IN  /\ refCount' = [refCount EXCEPT ![b] = Remaining(b)]
        /\ bufferFree' = IF Remaining(b) = 0 THEN Cons(b, bufferFree)
                                             ELSE bufferFree
        /\ itemFree' = itemFree \cup {it}
        /\ UNCHANGED <<content, packet>>

(* Dequeue the head of queue q and release it.                             *)
ReleaseHead(q) ==
    /\ ReleaseItem(Head(queue[q]))
    /\ queue' = [queue EXCEPT ![q] = Tail(@)]

(* Mutant: the scan stops one packet too early, before an equal number.    *)
MutScanStop(s, e) == SelectLastInSeq(s, LAMBDA it : packet[it].ext < e)

(* Where the backward scan of EnqueueItemOrderedBySeqNum stops for number  *)
(* e: at the last packet whose number is not above e, 0 if there is none.  *)
ScanStop(s, e) == SelectLastInSeq(s, LAMBDA it : packet[it].ext <= e)

IsDuplicate(s, e) ==
    LET i == ScanStop(s, e) IN i > 0 /\ packet[s[i]].ext = e

(* Mutant: only the main queue is flushed.                                 *)
MutFifoQueues == <<Main>>

(* ARSTREAM2_RTP_Receiver_PacketFifoFlush walks fifo->queue, whose head is *)
(* the most recently added queue and whose last element is the main queue. *)
FifoQueues == attached \o <<Main>>

AllQueuesEmpty == \A k \in DOMAIN FifoQueues : queue[FifoQueues[k]] = <<>>

FlushFirst ==
    \E k \in DOMAIN FifoQueues :
        /\ queue[FifoQueues[k]] # <<>>
        /\ \A j \in 1 .. k - 1 : queue[FifoQueues[j]] = <<>>
        /\ ReleaseHead(FifoQueues[k])

-----------------------------------------------------------------------------
Init ==
    /\ itemFree = Items
    /\ bufferFree \in Bijection(1 .. Cardinality(Buffers), Buffers)
    /\ refCount = [b \in Buffers |-> 0]
    /\ content = [b \in Buffers |-> 0]
    /\ packet = [it \in Items |-> NoPacket]
    /\ queue = [q \in Queues |-> <<>>]
    /\ attached = <<>>
    /\ garbage = <<>>
    /\ highest = 0 /\ previous = NoPrevious /\ depayed = NoPrevious
    /\ pc = "idle" /\ msgVec = <<>> /\ idx = 1 /\ kdx = 1
    /\ curItem = NoItem
    /\ mutex = "none" /\ stopping = Nobody

-----------------------------------------------------------------------------
(* The network thread: ARSTREAM2_RtpReceiver_ProcessRtp.                   *)

(* select() returned and the thread takes resendMutex; it then reads the   *)
(* stream socket, or goes straight to depayloading if it is not readable.  *)
StartTurn ==
    /\ pc = "idle" /\ mutex = "none"
    /\ mutex' = "net"
    /\ pc' \in {"fill", "depay"}
    /\ UNCHANGED <<poolVars, listVars, seqVars, msgVec, idx, kdx, curItem,
                   stopping>>

(* ARSTREAM2_RTP_Receiver_PacketFifoFillMsgVec: with no free buffer left   *)
(* it flushes every queue before it lists the free buffers.                *)
FillMsgVec ==
    /\ pc = "fill"
    /\ pc' = IF bufferFree = <<>> THEN "flush" ELSE "recv"
    /\ UNCHANGED <<poolVars, listVars, seqVars, msgVec, idx, kdx, curItem,
                   appVars>>

FlushStep ==
    /\ pc = "flush"
    /\ FlushFirst
    /\ UNCHANGED <<attached, garbage, seqVars, netVars, appVars>>

FlushDone ==
    /\ pc = "flush" /\ AllQueuesEmpty
    /\ pc' = "recv"
    /\ UNCHANGED <<poolVars, listVars, seqVars, msgVec, idx, kdx, curItem,
                   appVars>>

(* recvmmsg writes one datagram into each of the first buffers of the free *)
(* list, which FillMsgVec put in the message vector.                       *)
RecvMmsg(msgs) ==
    /\ pc = "recv"
    /\ Len(msgs) \in 1 .. Len(bufferFree)
    /\ msgVec' = msgs /\ idx' = 1
    /\ content' = [b \in Buffers |->
                      IF \E i \in DOMAIN msgs : bufferFree[i] = b
                      THEN msgs[CHOOSE i \in DOMAIN msgs : bufferFree[i] = b].seq
                      ELSE content[b]]
    /\ pc' = "add"
    /\ UNCHANGED <<itemFree, bufferFree, refCount, packet, listVars, seqVars,
                   kdx, curItem, appVars>>

(* recvmmsg returned nothing (or there is no buffer to receive into).      *)
RecvNothing ==
    /\ pc = "recv"
    /\ pc' = "depay"
    /\ UNCHANGED <<poolVars, listVars, seqVars, msgVec, idx, kdx, curItem,
                   appVars>>

(* ARSTREAM2_RTP_Receiver_PacketFifoAddFromMsgVec, one datagram at a time. *)

MoreMessages == pc = "add" /\ idx <= Len(msgVec)

(* GetBuffer and PopFreeItem: the first free buffer, any free item.        *)
TakeBoth(it, p) ==
    /\ bufferFree # <<>> /\ it \in itemFree
    /\ bufferFree' = Tail(bufferFree)
    /\ refCount' = [refCount EXCEPT ![Head(bufferFree)] = 1]
    /\ itemFree' = itemFree \ {it}
    /\ packet' = [packet EXCEPT ![it] = p]
    /\ UNCHANGED content

(* The buffer or the item is missing: what was taken is given back and the *)
(* rest of the datagrams is abandoned.                                     *)
AddNoRoom ==
    /\ MoreMessages
    /\ bufferFree = <<>> \/ itemFree = {}
    /\ pc' = "garbage"
    /\ UNCHANGED <<poolVars, listVars, seqVars, msgVec, idx, kdx, curItem,
                   appVars>>

(* Mutant: the item and its buffer are freed at once.                      *)
MutAddShort ==
    /\ MoreMessages /\ ~msgVec[idx].long /\ bufferFree # <<>> /\ itemFree # {}
    /\ idx' = idx + 1
    /\ UNCHANGED <<poolVars, listVars, seqVars, pc, msgVec, kdx, curItem, appVars>>

(* A datagram that is not longer than an RTP header.                       *)
AddShort ==
    /\ MoreMessages /\ ~msgVec[idx].long
    /\ \E it \in itemFree :
          /\ TakeBoth(it, [NoPacket EXCEPT !.buffer = Head(bufferFree)])
          /\ garbage' = Cons(it, garbage)
    /\ idx' = idx + 1
    /\ UNCHANGED <<queue, attached, seqVars, pc, msgVec, kdx, curItem, appVars>>

(* The extended number of wire number s.                                   *)
ExtOf(s) == NextExt(s, highest, previous)

UpdateSeq(e) ==
    /\ highest' = NextHighest(e, highest, previous)
    /\ previous' = ToInt32(e)
    /\ UNCHANGED depayed

(* A packet whose number is already queued goes to the garbage list, which *)
(* is only freed after the loop.                                           *)
AddDuplicate ==
    /\ MoreMessages /\ msgVec[idx].long /\ bufferFree # <<>>
    /\ LET s == content[Head(bufferFree)]
           e == ExtOf(s)
       IN  /\ IsDuplicate(queue[Main], e)
           /\ \E it \in itemFree :
                 /\ TakeBoth(it, [buffer |-> Head(bufferFree), seq |-> s, ext |-> e])
                 /\ garbage' = Cons(it, garbage)
           /\ UpdateSeq(e)
    /\ idx' = idx + 1
    /\ UNCHANGED <<queue, attached, pc, msgVec, kdx, curItem, appVars>>

AddPacket ==
    /\ MoreMessages /\ msgVec[idx].long /\ bufferFree # <<>>
    /\ LET s == content[Head(bufferFree)]
           e == ExtOf(s)
           q == queue[Main]
       IN  /\ ~IsDuplicate(q, e)
           /\ \E it \in itemFree :
                 /\ TakeBoth(it, [buffer |-> Head(bufferFree), seq |-> s, ext |-> e])
                 /\ queue' = [queue EXCEPT
                       ![Main] = InsertAt(q, ScanStop(q, e) + 1, it)]
                 /\ curItem' = it
           /\ UpdateSeq(e)
    /\ pc' = "resend" /\ kdx' = 1
    /\ UNCHANGED <<attached, garbage, msgVec, idx, appVars>>

(* Mutant: no reference is added for the copy.                             *)
MutResendEnqueue ==
    /\ pc = "resend" /\ kdx <= Len(attached)
    /\ \E it \in itemFree :
          /\ itemFree' = itemFree \ {it}
          /\ packet' = [packet EXCEPT ![it] = packet[curItem]]
          /\ queue' = [queue EXCEPT ![attached[kdx]] = Append(@, it)]
    /\ kdx' = kdx + 1
    /\ UNCHANGED <<refCount, bufferFree, content, attached, garbage, seqVars,
                   pc, msgVec, idx, curItem, appVars>>

(* ARSTREAM2_RTP_Receiver_PacketFifoResendEnqueue for the kdx-th resender: *)
(* a copy of the item that shares its buffer, or nothing if items run out. *)
ResendEnqueue ==
    /\ pc = "resend" /\ kdx <= Len(attached)
    /\ \E it \in itemFree :
          LET b == packet[curItem].buffer
              r == attached[kdx]
          IN  /\ itemFree' = itemFree \ {it}
              /\ packet' = [packet EXCEPT ![it] = packet[curItem]]
              /\ refCount' = [refCount EXCEPT ![b] = @ + 1]
              /\ queue' = [queue EXCEPT ![r] = Append(@, it)]
    /\ kdx' = kdx + 1
    /\ UNCHANGED <<bufferFree, content, attached, garbage, seqVars, pc, msgVec,
                   idx, curItem, appVars>>

ResendNoItem ==
    /\ pc = "resend" /\ kdx <= Len(attached) /\ itemFree = {}
    /\ kdx' = kdx + 1
    /\ UNCHANGED <<poolVars, listVars, seqVars, pc, msgVec, idx, curItem,
                   appVars>>

ResendDone ==
    /\ pc = "resend" /\ kdx > Len(attached)
    /\ pc' = "add" /\ idx' = idx + 1 /\ curItem' = NoItem
    /\ UNCHANGED <<poolVars, listVars, seqVars, msgVec, kdx, appVars>>

AddDone ==
    /\ pc = "add" /\ idx > Len(msgVec)
    /\ pc' = "garbage"
    /\ UNCHANGED <<poolVars, listVars, seqVars, msgVec, idx, kdx, curItem,
                   appVars>>

FreeGarbage ==
    /\ pc = "garbage" /\ garbage # <<>>
    /\ ReleaseItem(Head(garbage))
    /\ garbage' = Tail(garbage)
    /\ UNCHANGED <<queue, attached, seqVars, netVars, appVars>>

GarbageDone ==
    /\ pc = "garbage" /\ garbage = <<>>
    /\ pc' = "depay" /\ msgVec' = <<>> /\ idx' = 1
    /\ UNCHANGED <<poolVars, listVars, seqVars, kdx, curItem, appVars>>

-----------------------------------------------------------------------------
(* Mutant: a late packet becomes the last one depayloaded.                 *)
MutDepay ==
    /\ pc = "depay" /\ queue[Main] # <<>>
    /\ depayed' = packet[Head(queue[Main])].ext
    /\ ReleaseHead(Main)
    /\ UNCHANGED <<attached, garbage, highest, previous, netVars, appVars>>

(* ARSTREAM2_RTPH264_Receiver_PacketFifoToAuFifo takes the head packet if  *)
(* it is the first, the next in sequence, or overdue; what it makes of the *)
(* payload is the subject of another module.  A packet that comes after    *)
(* its successors have been taken is freed without being looked at.        *)
Depay ==
    /\ pc = "depay" /\ queue[Main] # <<>>
    /\ LET e == packet[Head(queue[Main])].ext
       IN  /\ \E overdue \in BOOLEAN :
                 depayed = NoPrevious \/ e = depayed + 1 \/ overdue
           /\ depayed' = IF e > depayed THEN e ELSE depayed
    /\ ReleaseHead(Main)
    /\ UNCHANGED <<attached, garbage, highest, previous, netVars, appVars>>

(* The queue is empty, its head must wait for a missing packet, or an      *)
(* access unit could not be output.                                        *)
DepayDone ==
    /\ pc = "depay"
    /\ pc' = "timeout" /\ kdx' = 1 /\ idx' = 1
    /\ UNCHANGED <<poolVars, listVars, seqVars, msgVec, curItem, appVars>>

-----------------------------------------------------------------------------
(* The network thread: ARSTREAM2_RtpSender_ProcessRtp of each resender.    *)

TurnOf(r) == kdx <= Len(attached) /\ r = attached[kdx]

(* ARSTREAM2_RTP_Sender_PacketFifoCleanFromTimeout: the packet at position *)
(* idx is overdue and dropped, or it is not and the scan moves on.         *)
TimeoutDrop(r) ==
    /\ pc = "timeout" /\ TurnOf(r) /\ idx <= Len(queue[r])
    /\ ReleaseItem(queue[r][idx])
    /\ queue' = [queue EXCEPT ![r] = RemoveAt(@, idx)]
    /\ UNCHANGED <<attached, garbage, seqVars, netVars, appVars>>

TimeoutKeep(r) ==
    /\ pc = "timeout" /\ TurnOf(r) /\ idx <= Len(queue[r])
    /\ idx' = idx + 1
    /\ UNCHANGED <<poolVars, listVars, seqVars, pc, msgVec, kdx, curItem,
                   appVars>>

(* sendmmsg accepts the first packets of the queue, possibly none; idx is  *)
(* then the number of packets left to clean.                               *)
SendMmsg(r) ==
    /\ pc = "timeout" /\ TurnOf(r) /\ idx > Len(queue[r])
    /\ idx' \in 0 .. Len(queue[r])
    /\ pc' = "clean"
    /\ UNCHANGED <<poolVars, listVars, seqVars, msgVec, kdx, curItem, appVars>>

(* Mutant: the number of packets sent is not compared with 0.              *)
MutCleanSent(r) ==
    /\ pc = "clean" /\ TurnOf(r) /\ queue[r] # <<>>
    /\ ReleaseHead(r)
    /\ idx' = idx - 1
    /\ UNCHANGED <<attached, garbage, seqVars, pc, msgVec, kdx, curItem, appVars>>

(* Mutant: the loop does not go on to the next resender.                   *)
MutCleanDone(r) ==
    /\ pc = "clean" /\ TurnOf(r)
    /\ idx = 0 \/ queue[r] = <<>>
    /\ pc' = "timeout" /\ idx' = 1
    /\ UNCHANGED <<poolVars, listVars, seqVars, msgVec, kdx, curItem, appVars>>

(* ARSTREAM2_RTP_Sender_PacketFifoCleanFromMsgVec.                         *)
CleanSent(r) ==
    /\ pc = "clean" /\ TurnOf(r) /\ idx > 0 /\ queue[r] # <<>>
    /\ ReleaseHead(r)
    /\ idx' = idx - 1
    /\ UNCHANGED <<attached, garbage, seqVars, pc, msgVec, kdx, curItem, appVars>>

CleanDone(r) ==
    /\ pc = "clean" /\ TurnOf(r)
    /\ idx = 0 \/ queue[r] = <<>>
    /\ pc' = "timeout" /\ idx' = 1 /\ kdx' = kdx + 1
    /\ UNCHANGED <<poolVars, listVars, seqVars, msgVec, curItem, appVars>>

(* Every resender has been served: the thread releases resendMutex.        *)
EndTurn ==
    /\ pc = "timeout" /\ kdx > Len(attached)
    /\ pc' = "idle" /\ mutex' = "none" /\ kdx' = 1 /\ idx' = 1
    /\ UNCHANGED <<poolVars, listVars, seqVars, msgVec, curItem, stopping>>

(* ARSTREAM2_StreamReceiver_Stop was called: the thread leaves its loop    *)
(* and flushes the whole FIFO (ARSTREAM2_RtpReceiver_ProcessEnd).  It does *)
(* so without the mutex: the application must not start or stop a resender *)
(* until it has joined the thread (AppMayAct).                             *)
StopThread ==
    /\ pc = "idle" /\ mutex = "none"
    /\ pc' = "end"
    /\ UNCHANGED <<poolVars, listVars, seqVars, msgVec, idx, kdx, curItem,
                   appVars>>

EndStep ==
    /\ pc = "end"
    /\ FlushFirst
    /\ UNCHANGED <<attached, garbage, seqVars, netVars, appVars>>

EndDone ==
    /\ pc = "end" /\ AllQueuesEmpty
    /\ pc' = "done"
    /\ UNCHANGED <<poolVars, listVars, seqVars, msgVec, idx, kdx, curItem,
                   appVars>>

-----------------------------------------------------------------------------
(* The application thread.                                                 *)

AppMayAct == mutex = "none" /\ pc # "end"

(* ARSTREAM2_StreamReceiver_StartResender: PacketFifoAddQueue, and the     *)
(* resender becomes the head of the list of resenders.                     *)
StartResender(r) ==
    /\ AppMayAct /\ r \notin ToSet(attached)
    /\ attached' = Cons(r, attached)
    /\ queue' = [queue EXCEPT ![r] = <<>>]
    /\ mutex' = "start"
    /\ UNCHANGED <<poolVars, garbage, seqVars, netVars, stopping>>

(* It then counts the resenders, from the head of the list, but advances   *)
(* with r = resender->next and not r->next: the loop ends only if no other *)
(* resender was started before.                                            *)
CountResenders ==
    /\ mutex = "start" /\ Tail(attached) = <<>>
    /\ mutex' = "none"
    /\ UNCHANGED <<poolVars, listVars, seqVars, netVars, stopping>>

(* ARSTREAM2_StreamReceiver_StopResender: under the mutex, the resender's  *)
(* queue is flushed packet by packet, then removed.  Its count of the      *)
(* resenders left has the same loop; it always ends, since StartResender   *)
(* does not let a second resender start.                                   *)
StopResender(r) ==
    /\ AppMayAct /\ r \in ToSet(attached)
    /\ mutex' = "app" /\ stopping' = r
    /\ UNCHANGED <<poolVars, listVars, seqVars, netVars>>

StopFlush ==
    /\ mutex = "app" /\ queue[stopping] # <<>>
    /\ ReleaseHead(stopping)
    /\ UNCHANGED <<attached, garbage, seqVars, netVars, appVars>>

(* Mutant: the queue is removed with packets still in it.                  *)
MutRemoveQueue ==
    /\ mutex = "app"
    /\ \E k \in DOMAIN attached :
          /\ attached[k] = stopping
          /\ attached' = RemoveAt(attached, k)
    /\ queue' = [queue EXCEPT ![stopping] = <<>>]
    /\ mutex' = "none" /\ stopping' = Nobody
    /\ UNCHANGED <<poolVars, garbage, seqVars, netVars>>

RemoveQueue ==
    /\ mutex = "app" /\ queue[stopping] = <<>>
    /\ \E k \in DOMAIN attached :
          /\ attached[k] = stopping
          /\ attached' = RemoveAt(attached, k)
    /\ queue' = [queue EXCEPT ![stopping] = <<>>]
    /\ mutex' = "none" /\ stopping' = Nobody
    /\ UNCHANGED <<poolVars, garbage, seqVars, netVars>>

-----------------------------------------------------------------------------
Receive ==
    \/ StartTurn \/ FillMsgVec \/ FlushStep \/ FlushDone
    \/ \E n \in 1 .. Len(bufferFree) : \E msgs \in [1 .. n -> Messages] :
          RecvMmsg(msgs)
    \/ RecvNothing
    \/ AddNoRoom \/ AddShort \/ AddDuplicate \/ AddPacket
    \/ ResendEnqueue \/ ResendNoItem \/ ResendDone
    \/ AddDone \/ FreeGarbage \/ GarbageDone
    \/ Depay \/ DepayDone

Forward ==
    \/ \E r \in Resenders :
          TimeoutDrop(r) \/ TimeoutKeep(r) \/ SendMmsg(r)
            \/ CleanSent(r) \/ CleanDone(r)
    \/ EndTurn

Finish == StopThread \/ EndStep \/ EndDone

App ==
    \/ \E r \in Resenders : StartResender(r) \/ StopResender(r)
    \/ CountResenders \/ StopFlush \/ RemoveQueue

Next == Receive \/ Forward \/ Finish \/ App

Spec == Init /\ [][Next]_vars

(* The network thread keeps running once it has the mutex (nothing in its  *)
(* turn blocks: the sockets are non-blocking), and so do the calls of the  *)
(* application.                                                            *)
Running == mutex = "net" /\ (Receive \/ Forward)

Calling == CountResenders \/ StopFlush \/ RemoveQueue

FairSpec == Spec /\ WF_vars(Running) /\ WF_vars(Calling)

-----------------------------------------------------------------------------
TypeOK ==
    /\ itemFree \subseteq Items
    /\ bufferFree \in Seq(Buffers)
    /\ refCount \in [Buffers -> Nat]
    /\ content \in [Buffers -> SeqNums]
    /\ packet \in [Items -> Packets]
    /\ queue \in [Queues -> Seq(Items)]
    /\ attached \in Seq(Resenders)
    /\ garbage \in Seq(Items)
    /\ highest \in ExtNums
    /\ previous \in Int
    /\ depayed \in ExtNums \cup {NoPrevious}
    /\ pc \in NetPc
    /\ msgVec \in Seq(Messages)
    /\ idx \in Nat /\ kdx \in Nat
    /\ curItem \in Items \cup {NoItem}
    /\ mutex \in {"none", "net", "start", "app"}
    /\ stopping \in Resenders \cup {Nobody}

(* Every item of the pool is in exactly one place, once: the free list,    *)
(* AddFromMsgVec's garbage list or one queue.  No path of the FIFO loses   *)
(* an item, frees one twice or puts one in two queues (the pushes and pops *)
(* of arstream2_rtp.c 342-413, 552-585, 693-737, 778-832, 1305-1558).      *)
ItemsInOnePlace ==
    /\ IsInjective(garbage)
    /\ itemFree \cap ToSet(garbage) = {}
    /\ \A q \in Queues :
          /\ IsInjective(queue[q])
          /\ ToSet(queue[q]) \cap (itemFree \cup ToSet(garbage)) = {}
          /\ \A r \in Queues \ {q} : ToSet(queue[q]) \cap ToSet(queue[r]) = {}
    /\ Items = itemFree \cup ToSet(garbage)
                  \cup UNION {ToSet(queue[q]) : q \in Queues}

Users(b) == {it \in Items \ itemFree : packet[it].buffer = b}

(* The reference count of a buffer is the number of items in use that      *)
(* point to it, whatever mix of receptions, forwards, time-outs, drops and *)
(* flushes led there: a buffer shared with a resender outlives the main    *)
(* queue's item and no longer (arstream2_rtp.c 281, 300, 314-317).         *)
RefCountExact ==
    \A b \in Buffers : refCount[b] = Cardinality(Users(b))

(* The free list holds every buffer without a reference, once, and no      *)
(* other: recvmmsg never writes into a buffer a resender is still sending. *)
FreeBuffersUnused ==
    /\ IsInjective(bufferFree)
    /\ \A b \in Buffers : b \in ToSet(bufferFree) <=> refCount[b] = 0

(* A queued packet still has in its buffer the datagram it was made from,  *)
(* in the receiver's queue and in every resender's queue.                  *)
QueuedDataIntact ==
    \A q \in Queues : \A it \in ToSet(queue[q]) :
        /\ packet[it].buffer \in Buffers
        /\ content[packet[it].buffer] = packet[it].seq

(* The warning above FillMsgVec and AddFromMsgVec: while the datagrams are *)
(* taken one by one from the message vector, the head of the free list is  *)
(* the buffer recvmmsg wrote that datagram into.                           *)
MsgVecMatchesFreeList ==
    pc \in {"add", "resend"} =>
        LET next == IF pc = "add" THEN idx ELSE idx + 1
        IN  \A j \in next .. Len(msgVec) :
              /\ j - next + 1 <= Len(bufferFree)
              /\ content[bufferFree[j - next + 1]] = msgVec[j].seq

(* The main queue is strictly increasing in extended sequence number:      *)
(* whatever order and however often packets arrive, the depayloader sees   *)
(* no packet twice at once and none before one of its queued predecessors. *)
MainSorted ==
    \A i, j \in DOMAIN queue[Main] :
        i < j => packet[queue[Main][i]].ext < packet[queue[Main][j]].ext

(* "Packet FIFO is full => flush to recover" (arstream2_rtp.c:1165): after *)
(* the flush there is always a buffer to receive into.                     *)
FlushRecovers == pc = "recv" => bufferFree # <<>>

(* The network thread's turn and StopResender always end and give the      *)
(* mutex back: every loop over the lists they walk under it terminates.    *)
MutexReleased == (mutex # "none") ~> (mutex = "none")

(* StartResender "@return ARSTREAM2_OK if no error occurred" (the header,  *)
(* 411): the call returns, and the receiver goes on.                       *)
StartReturns == (mutex = "start") ~> (mutex = "none")

(* The main queue is a reorder buffer: the depayloader takes extended      *)
(* numbers in increasing order, each at most once, and a packet that comes *)
(* after its successors is discarded (arstream2_rtp_h264.c 1066-1080,      *)
(* 1355-1364).                                                             *)
Abstract == INSTANCE ReorderBuffer WITH
    Numbers <- ExtNums,
    pending <- {packet[it].ext : it \in ToSet(queue[Main])},
    last <- depayed

ReordersPackets == Abstract!Spec

=============================================================================
