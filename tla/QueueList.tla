------------------------------ MODULE QueueList ------------------------------
(***************************************************************************)
(* The list of queues of a FIFO: fifo->queue and the prev and next         *)
(* pointers of its queues.  The code has it twice, for RTP packets         *)
(* (arstream2_rtp.c) and for access units (arstream2_h264.c), with the     *)
(* same insertion and two different removals; Removal says which.          *)
(*                                                                         *)
(* PacketFifo keeps the list as a sequence of queues; here the pointers    *)
(* are shown to represent that sequence.  The flush of the FIFO walks the  *)
(* list; a walk is not interleaved with insertions and removals, which     *)
(* resendMutex ensures for the packets.  AuFifoFlush takes no such lock,   *)
(* so that for access units this is the best case.                         *)
(***************************************************************************)
EXTENDS SequencesExt

CONSTANTS Queues,   (* the queues that may be in the list                  *)
          Null,     (* the NULL pointer                                    *)
          Removal   (* "rtp" or "h264": which RemoveQueue                  *)

ASSUME ListAssumption ==
    /\ Null \notin Queues
    /\ Removal \in {"rtp", "h264"}

VARIABLES
    first,      (* fifo->queue                                             *)
    prev,       (* queue->prev                                             *)
    next,       (* queue->next                                             *)
    attached,   (* the queues added and not removed, last added first      *)
    flushing,   (* a flush is walking the list                             *)
    cursor,     (* the queue the flush is at                               *)
    flushed     (* the queues it has emptied                               *)

listVars == <<first, prev, next, attached>>
walkVars == <<flushing, cursor, flushed>>
vars     == <<listVars, walkVars>>

Pointers == Queues \cup {Null}

Init ==
    /\ first = Null
    /\ prev = [q \in Queues |-> Null] /\ next = [q \in Queues |-> Null]
    /\ attached = <<>>
    /\ flushing = FALSE /\ cursor = Null /\ flushed = {}

(* ARSTREAM2_RTP_PacketFifoAddQueue, ARSTREAM2_H264_AuFifoAddQueue.        *)
AddQueue(q) ==
    /\ ~flushing /\ q \notin ToSet(attached)
    /\ attached' = Cons(q, attached)
    /\ next' = [next EXCEPT ![q] = first]
    /\ prev' = [p \in Queues |-> IF p = first THEN q
                                 ELSE IF p = q THEN Null ELSE prev[p]]
    /\ first' = q
    /\ UNCHANGED walkVars

(* Mutant: the removal of the access unit FIFO.                            *)
MutHeadWithout(q) ==
    IF prev[q] = Null /\ next[q] = Null THEN Null ELSE first

(* How the head of the list follows the removal of queue q.                *)
HeadWithout(q) ==
    IF Removal = "rtp"
    THEN IF first = q THEN next[q] ELSE first
    ELSE IF prev[q] = Null /\ next[q] = Null THEN Null ELSE first

(* Mutant: the successor keeps its link to the removed queue.              *)
MutRemoveQueue(q) ==
    /\ ~flushing
    /\ \E k \in DOMAIN attached :
          attached[k] = q /\ attached' = RemoveAt(attached, k)
    /\ next' = [p \in Queues |-> IF p = q THEN Null
                                 ELSE IF p = prev[q] THEN next[q] ELSE next[p]]
    /\ prev' = [prev EXCEPT ![q] = Null]
    /\ first' = HeadWithout(q)
    /\ UNCHANGED walkVars

(* ARSTREAM2_RTP_PacketFifoRemoveQueue, ARSTREAM2_H264_AuFifoRemoveQueue.  *)
RemoveQueue(q) ==
    /\ ~flushing
    /\ \E k \in DOMAIN attached :
          attached[k] = q /\ attached' = RemoveAt(attached, k)
    /\ next' = [p \in Queues |-> IF p = q THEN Null
                                 ELSE IF p = prev[q] THEN next[q] ELSE next[p]]
    /\ prev' = [p \in Queues |-> IF p = q THEN Null
                                 ELSE IF p = next[q] THEN prev[q] ELSE prev[p]]
    /\ first' = HeadWithout(q)
    /\ UNCHANGED walkVars

(* ARSTREAM2_RTP_Receiver_PacketFifoFlush, ARSTREAM2_H264_AuFifoFlush.     *)
StartFlush ==
    /\ ~flushing
    /\ flushing' = TRUE /\ cursor' = first /\ flushed' = {}
    /\ UNCHANGED listVars

(* Mutant: the pointer is tested after the queue has been emptied.         *)
MutFlushQueue ==
    /\ flushing
    /\ flushed' = flushed \cup {cursor}
    /\ cursor' = IF cursor = Null THEN Null ELSE next[cursor]
    /\ UNCHANGED <<listVars, flushing>>

FlushQueue ==
    /\ flushing /\ cursor # Null
    /\ flushed' = flushed \cup {cursor}
    /\ cursor' = next[cursor]
    /\ UNCHANGED <<listVars, flushing>>

EndFlush ==
    /\ flushing /\ cursor = Null
    /\ flushing' = FALSE
    /\ UNCHANGED <<listVars, cursor, flushed>>

Next ==
    \/ \E q \in Queues : AddQueue(q) \/ RemoveQueue(q)
    \/ StartFlush \/ FlushQueue \/ EndFlush

Spec == Init /\ [][Next]_vars

(* The walk waits for nothing.                                             *)
FairSpec == Spec /\ WF_vars(FlushQueue \/ EndFlush)

-----------------------------------------------------------------------------
TypeOK ==
    /\ first \in Pointers /\ cursor \in Pointers
    /\ prev \in [Queues -> Pointers] /\ next \in [Queues -> Pointers]
    /\ attached \in Seq(Queues)
    /\ flushing \in BOOLEAN
    /\ flushed \subseteq Queues

(* The k-th queue of the list, Null past either end.                       *)
At(k) == IF k \in DOMAIN attached THEN attached[k] ELSE Null

(* The pointers represent the sequence PacketFifo works on: its first      *)
(* element is the head, and each is linked to its neighbours.              *)
PointersFollowList ==
    /\ IsInjective(attached)
    /\ first = At(1)
    /\ \A k \in DOMAIN attached :
          prev[attached[k]] = At(k - 1) /\ next[attached[k]] = At(k + 1)

(* "flush to recover" (arstream2_rtp.c:1165, arstream2_rtp_h264.c:1149):   *)
(* the walk empties every queue of the FIFO and nothing else.              *)
FlushReachesAll == [][EndFlush => flushed = ToSet(attached)]_vars

(* The walk comes to an end.                                               *)
FlushEnds == flushing ~> ~flushing
=============================================================================
