----------------------------- MODULE SenderProofs -----------------------------
(***************************************************************************)
(* The theorems about the stream sender.                                   *)
(*                                                                         *)
(* Custody: a NALU is in one place, the FIFO or one of the two threads,    *)
(* until it is completed.  Packets: what is on the wire and what is queued *)
(* form one ordered sequence, whose access units do not pass the one the   *)
(* packetizer is at.  AuCalls: the access units completed are those before *)
(* whatever is still to come.  Visibility: whenever the packetizer is done *)
(* with a NALU of which the last packet may be seen by the receiver, the   *)
(* number after that packet is not that of a later NALU's.                 *)
(***************************************************************************)
EXTENDS Sender, SeqLemmas, FiniteSetTheorems

-----------------------------------------------------------------------------
(* The parts of the inductive invariant.                                   *)

Nalu == {r \in [au : Nat \ {0}, size : Nat \ {0}, priority : Nat, isLast : BOOLEAN] :
             \E kind \in Kinds : r.size = kind.size}

Packet == [seqNum : Nat, nalus : Seq(Nat), part : Nat, of : Nat,
           au : Nat, priority : Nat]

Context == [seqNum : Nat, stap : [nalus : Seq(Nat), size : Nat],
            previousAu : Nat, lastCallbackAu : Nat,
            queue : Seq(Packet), free : Nat, auCalls : Seq(Nat)]

(* The NALUs that wait or are in use.                                      *)
Held == ToSet(naluFifo) \cup ({nalu, appNalu} \ {NoNalu})

(* Those the packetizer has still to see.                                  *)
Ahead == ToSet(naluFifo) \cup ({nalu} \ {NoNalu})

(* The NALUs and who has them: a NALU is taken by one thread, which has    *)
(* older ones than the FIFO, and none of those held was completed.         *)
Custody ==
    /\ nalus \in Seq(Nalu) /\ toSend \in Nat /\ flushes \in Nat
    /\ Len(nalus) + toSend + flushes <= MaxRequests
    /\ naluFifo \in Seq(1 .. Len(nalus)) /\ Len(naluFifo) <= NaluFifoSize
    /\ nalu \in 0 .. Len(nalus) /\ appNalu \in 0 .. Len(nalus)
    /\ \A i, j \in DOMAIN naluFifo : i < j => naluFifo[i] < naluFifo[j]
    /\ \A n \in ToSet(naluFifo) : nalu < n /\ appNalu < n
    /\ nalu = appNalu => nalu = NoNalu
    /\ nalu # NoNalu <=> pc = "process"
    /\ appNalu # NoNalu <=> appPc = "drop"
    /\ toSend # 0 <=> appPc = "send"
    /\ flushes = 0 => appPc \notin {"flush", "drop"}
    /\ calls \in [1 .. MaxRequests -> 0 .. 1]
    /\ \A n \in Held : calls[n] = 0
    /\ \A n \in 1 .. MaxRequests : n > Len(nalus) => calls[n] = 0

(* Access units are submitted in order, and end with their last NALU.      *)
AusInOrder ==
    \A m, n \in DOMAIN nalus : m < n =>
        /\ nalus[m].au <= nalus[n].au
        /\ nalus[m].isLast => nalus[m].au < nalus[n].au

(* Packet p may leave before packet q.                                     *)
Before(p, q) ==
    /\ p.au <= q.au
    /\ p.au = q.au /\ p.priority = q.priority /\ flushes = 0 => p.seqNum < q.seqNum

InOrder(packets) == \A i, j \in DOMAIN packets : i < j => Before(packets[i], packets[j])

(* A packet made of known NALUs, of access unit au at the latest, with a   *)
(* number below next.                                                      *)
Made(p, au, next) ==
    /\ ToSet(p.nalus) \subseteq DOMAIN nalus
    /\ p.au <= au
    /\ flushes = 0 => p.seqNum < next

(* The wire and the queue while the packetizer is at access unit au.       *)
PacketsOK(c, au) ==
    /\ c \in Context /\ wire \in Seq(Packet)
    /\ \A p \in ToSet(c.queue) \cup ToSet(wire) : Made(p, au, c.seqNum)
    /\ InOrder(wire) /\ InOrder(c.queue)
    /\ \A p \in ToSet(wire), q \in ToSet(c.queue) : Before(p, q)

(* A pending STAP-A has NALUs, and belongs to access unit au.              *)
StapOK(c, au) ==
    \/ c.stap = NoStap
    \/ /\ c.stap.nalus # <<>> /\ ToSet(c.stap.nalus) \subseteq DOMAIN nalus
       /\ nalus[c.stap.nalus[1]].au = au
       /\ c.stap.size > 0 /\ c.stap.size <= MaxPacketSize

Pending(c) == IF c.stap = NoStap THEN 0 ELSE 1

(* The pool is conserved.                                                  *)
PoolOK(c) == c.free + Len(c.queue) + Pending(c) = PoolSize

ContextOK(c, au) == PacketsOK(c, au) /\ StapOK(c, au) /\ PoolOK(c)

(* The access units completed so far, when it is au's turn to be.          *)
CallsOK(c) ==
    flushes = 0 =>
        /\ \A i, j \in DOMAIN c.auCalls : i < j => c.auCalls[i] < c.auCalls[j]
        /\ \A i \in DOMAIN c.auCalls : c.auCalls[i] <= c.lastCallbackAu

(* Access unit au is before all those still to come.                       *)
Past(au) ==
    /\ \A n \in Ahead : au < nalus[n].au
    /\ \A n \in NextAus : au < n

NotLater(au) ==
    /\ \A n \in Ahead : au <= nalus[n].au
    /\ \A n \in NextAus : au <= n

Ending == pc \in {"endNalus", "done"}

AuCallsInv ==
    /\ CallsOK(s)
    /\ flushes = 0 => /\ Past(s.lastCallbackAu)
                      /\ Ending \/ s.lastCallbackAu <= s.previousAu

IInv ==
    /\ Custody /\ appSeqNum \in Nat
    /\ AusInOrder /\ NotLater(s.previousAu)
    /\ ContextOK(s, s.previousAu)
    /\ AuCallsInv

-----------------------------------------------------------------------------
(* Facts about sequences of rising numbers.                                *)

LEMMA ToSetAppend ==
    ASSUME NEW S, NEW q \in Seq(S), NEW x \in S
    PROVE  /\ Append(q, x) \in Seq(S) /\ Len(Append(q, x)) = Len(q) + 1
           /\ ToSet(Append(q, x)) = ToSet(q) \cup {x}
           /\ \A i \in 1 .. Len(q) : Append(q, x)[i] = q[i]
           /\ Append(q, x)[Len(q) + 1] = x
           /\ DOMAIN q = 1 .. Len(q) /\ DOMAIN Append(q, x) = 1 .. Len(q) + 1
<1>1. /\ Append(q, x) \in Seq(S) /\ Len(Append(q, x)) = Len(q) + 1
      /\ \A i \in 1 .. Len(q) : Append(q, x)[i] = q[i]
      /\ Append(q, x)[Len(q) + 1] = x
      /\ DOMAIN q = 1 .. Len(q) /\ DOMAIN Append(q, x) = 1 .. Len(q) + 1
      /\ Len(q) \in Nat
  OBVIOUS
<1>2. PICK t : t = Append(q, x)
  OBVIOUS
<1>3. ToSet(t) = ToSet(q) \cup {x}
  BY <1>1, <1>2 DEF ToSet
<1>4. QED  BY <1>1, <1>2, <1>3

(* Taking the smallest.                                                    *)
LEMMA RisingTail ==
    ASSUME NEW N \in Nat, NEW q \in Seq(1 .. N), q # <<>>,
           \A i, j \in DOMAIN q : i < j => q[i] < q[j]
    PROVE  /\ Head(q) \in 1 .. N /\ Head(q) \in ToSet(q)
           /\ Tail(q) \in Seq(1 .. N) /\ Len(Tail(q)) = Len(q) - 1
           /\ ToSet(q) = ToSet(Tail(q)) \cup {Head(q)}
           /\ \A n \in ToSet(Tail(q)) : Head(q) < n
           /\ \A i, j \in DOMAIN Tail(q) : i < j => Tail(q)[i] < Tail(q)[j]
<1>1. IsInjective(q)
  BY DEF IsInjective
<1>2. /\ Head(q) \in ToSet(q) /\ Head(q) \in 1 .. N
      /\ Tail(q) \in Seq(1 .. N)
      /\ ToSet(Tail(q)) = ToSet(q) \ {Head(q)}
      /\ Len(Tail(q)) = Len(q) - 1
      /\ \A i \in 1 .. Len(q) - 1 : Tail(q)[i] = q[i + 1]
  BY <1>1, TailLemma
<1>3. PICK r : r = Tail(q)
  OBVIOUS
<1>4. Head(q) = q[1] /\ Len(q) \in Nat /\ Len(q) > 0 /\ DOMAIN q = 1 .. Len(q)
  OBVIOUS
<1>5. DOMAIN r = 1 .. Len(q) - 1
  BY <1>2, <1>3, <1>4
<1>6. \A i \in DOMAIN r : r[i] = q[i + 1] /\ i + 1 \in DOMAIN q /\ 1 < i + 1
  BY <1>2, <1>3, <1>4, <1>5
<1>7. \A n \in ToSet(r) : Head(q) < n
  BY <1>4, <1>6 DEF ToSet
<1>8. \A i, j \in DOMAIN r : i < j => r[i] < r[j]
  BY <1>4, <1>5, <1>6
<1>9. QED  BY <1>2, <1>3, <1>7, <1>8

(* Adding a greater one.                                                   *)
LEMMA RisingAppend ==
    ASSUME NEW N \in Nat, NEW q \in Seq(1 .. N),
           \A i, j \in DOMAIN q : i < j => q[i] < q[j]
    PROVE  /\ Append(q, N + 1) \in Seq(1 .. N + 1)
           /\ Len(Append(q, N + 1)) = Len(q) + 1
           /\ ToSet(Append(q, N + 1)) = ToSet(q) \cup {N + 1}
           /\ \A i, j \in DOMAIN Append(q, N + 1) :
                 i < j => Append(q, N + 1)[i] < Append(q, N + 1)[j]
<1>1. q \in Seq(1 .. N + 1)
  OBVIOUS
<1>2. /\ Append(q, N + 1) \in Seq(1 .. N + 1) /\ Len(Append(q, N + 1)) = Len(q) + 1
      /\ ToSet(Append(q, N + 1)) = ToSet(q) \cup {N + 1}
      /\ \A i \in 1 .. Len(q) : Append(q, N + 1)[i] = q[i]
      /\ Append(q, N + 1)[Len(q) + 1] = N + 1
      /\ DOMAIN q = 1 .. Len(q) /\ DOMAIN Append(q, N + 1) = 1 .. Len(q) + 1
  BY <1>1, ToSetAppend
<1>3. PICK t : t = Append(q, N + 1)
  OBVIOUS
<1>4. \A i \in DOMAIN q : q[i] \in 1 .. N
  OBVIOUS
<1>5. Len(q) \in Nat
  OBVIOUS
<1>6. \A i, j \in DOMAIN t : i < j => t[i] < t[j]
  BY <1>2, <1>3, <1>4, <1>5
<1>7. QED  BY <1>2, <1>3, <1>6

-----------------------------------------------------------------------------
(* Custody is kept.                                                        *)

LEMMA NextAusType ==
    ASSUME nalus \in Seq(Nalu)
    PROVE  NextAus \subseteq Nat \ {0}
<1>1. CASE nalus = <<>>
  BY <1>1 DEF NextAus
<1>2. CASE nalus # <<>>
  <2>1. Last(nalus) \in Nalu
    BY <1>2 DEF Last
  <2>2. QED  BY <1>2, <2>1 DEF NextAus, Nalu
<1>3. QED  BY <1>1, <1>2

LEMMA CustodyInit == Init => Custody
  BY SenderAssumption DEF Init, Custody, Held, NoNalu, ToSet, SenderAssumption

(* Steps that move no NALU.                                                *)
LEMMA CustodyIdle ==
    ASSUME Custody, UNCHANGED <<nalus, naluFifo, calls, nalu, appNalu>>,
           \/ QueueFull \/ Start \/ CleanFromTimeout \/ SendMmsg \/ CheckStop
           \/ Exit \/ EndPackets \/ Stop \/ FlushEnd \/ SendNNewNalu \/ FlushNaluQueue
           \/ UNCHANGED vars
    PROVE  Custody'
<1>1. /\ MaxRequests \in Nat /\ MaxBatch \in Nat /\ Len(nalus) \in Nat
  BY SenderAssumption DEF Custody
<1>2. Held' = Held
  BY DEF Held
<1>3. CASE QueueFull \/ FlushEnd \/ SendNNewNalu \/ FlushNaluQueue
  <2>1. /\ appPc # "drop" /\ appPc' # "drop" /\ pc' = pc
        /\ toSend' \in Nat /\ flushes' \in Nat
        /\ Len(nalus) + toSend' + flushes' <= MaxRequests
        /\ toSend' # 0 <=> appPc' = "send"
        /\ flushes' = 0 => appPc' \notin {"flush", "drop"}
    BY SMTT(30), <1>1, <1>3 DEF Custody, QueueFull, FlushEnd, SendNNewNalu, FlushNaluQueue,
                      threadVars, appVars
  <2>2. QED  BY <1>2, <2>1 DEF Custody
<1>4. CASE \/ Start \/ CleanFromTimeout \/ SendMmsg \/ CheckStop \/ Exit \/ EndPackets
           \/ Stop \/ UNCHANGED vars
  <2>1. /\ UNCHANGED <<appPc, toSend, flushes>>
        /\ pc = "process" <=> pc' = "process"
    BY <1>4 DEF Start, CleanFromTimeout, SendMmsg, CheckStop, Exit, EndPackets, Stop,
                vars, threadVars, appVars
  <2>2. QED  BY <1>2, <2>1 DEF Custody
<1>5. QED  BY <1>3, <1>4

LEMMA CustodyEnqueue ==
    ASSUME Custody, EnqueueNalu
    PROVE  /\ Custody'
           /\ \E r \in Nalu : /\ r.au \in NextAus /\ nalus' = Append(nalus, r)
                              /\ naluFifo' = Append(naluFifo, Len(nalus) + 1)
<1>1. PICK au \in NextAus, kind \in Kinds, isLast \in BOOLEAN :
          nalus' = Append(nalus, [au |-> au, size |-> kind.size,
                                  priority |-> kind.priority, isLast |-> isLast])
  BY DEF EnqueueNalu
<1> DEFINE r == [au |-> au, size |-> kind.size, priority |-> kind.priority,
                 isLast |-> isLast]
<1>2. r \in Nalu
  BY SenderAssumption, NextAusType DEF Nalu, Custody
<1>3. nalus' = Append(nalus, r) /\ r.au \in NextAus
  BY <1>1
<1> HIDE DEF r
<1>4. /\ nalus' \in Seq(Nalu) /\ Len(nalus') = Len(nalus) + 1 /\ Len(nalus) \in Nat
  BY <1>2, <1>3 DEF Custody
<1>5. naluFifo' = Append(naluFifo, Len(nalus) + 1)
  BY <1>4 DEF EnqueueNalu, NaluFifoEnqueue
<1>6. /\ naluFifo' \in Seq(1 .. Len(nalus')) /\ Len(naluFifo') = Len(naluFifo) + 1
      /\ ToSet(naluFifo') = ToSet(naluFifo) \cup {Len(nalus) + 1}
      /\ \A i, j \in DOMAIN naluFifo' : i < j => naluFifo'[i] < naluFifo'[j]
  BY <1>4, <1>5, RisingAppend DEF Custody
<1>7. /\ toSend' = toSend - 1 /\ appPc = "send"
      /\ appPc' = (IF toSend' = 0 THEN "idle" ELSE "send")
      /\ Len(naluFifo) < NaluFifoSize
      /\ UNCHANGED <<calls, nalu, pc, appNalu, flushes>>
  BY DEF EnqueueNalu, NaluFifoHasRoom, threadVars
<1>8. /\ toSend' \in Nat /\ flushes' \in Nat /\ MaxRequests \in Nat /\ NaluFifoSize \in Nat
      /\ Len(nalus') + toSend' + flushes' <= MaxRequests
      /\ Len(naluFifo) \in Nat
      /\ toSend' # 0 <=> appPc' = "send"
      /\ appPc' \notin {"flush", "drop"}
  BY <1>4, <1>7, SenderAssumption DEF Custody
<1>9. /\ Len(naluFifo') <= NaluFifoSize
      /\ nalu' \in 0 .. Len(nalus') /\ appNalu' \in 0 .. Len(nalus')
      /\ \A n \in ToSet(naluFifo') : nalu' < n /\ appNalu' < n
  <2>1. /\ nalu \in 0 .. Len(nalus) /\ appNalu \in 0 .. Len(nalus)
        /\ \A n \in ToSet(naluFifo) : nalu < n /\ appNalu < n
    BY DEF Custody
  <2>2. Len(naluFifo') <= NaluFifoSize
    BY <1>6, <1>7, <1>8
  <2>3. nalu' \in 0 .. Len(nalus') /\ appNalu' \in 0 .. Len(nalus')
    BY <1>4, <1>7, <2>1
  <2>4. \A n \in ToSet(naluFifo') : nalu' < n /\ appNalu' < n
    BY <1>4, <1>6, <1>7, <2>1
  <2>5. QED  BY <2>2, <2>3, <2>4
<1>10. \A n \in 1 .. MaxRequests : n > Len(nalus') => calls'[n] = 0
  BY <1>4, <1>7 DEF Custody
<1>11. /\ Held' = Held \cup {Len(nalus) + 1}
       /\ calls[Len(nalus) + 1] = 0
  <2>1. Held' = Held \cup {Len(nalus) + 1}
    BY <1>6, <1>7 DEF Held
  <2>2. Len(nalus) + 1 \in 1 .. MaxRequests /\ Len(nalus) + 1 > Len(nalus)
    BY <1>4, <1>8
  <2>3. QED  BY <2>1, <2>2 DEF Custody
<1>12. \A n \in Held' : calls'[n] = 0
  BY <1>7, <1>11 DEF Custody
<1>13. Custody'
  BY <1>4, <1>6, <1>7, <1>8, <1>9, <1>10, <1>12 DEF Custody
<1>14. QED  BY <1>2, <1>3, <1>5, <1>13

(* What taking a NALU from the FIFO leaves there.                          *)
LEMMA Taken ==
    ASSUME Custody, FifoDequeueNalu
    PROVE  LET n == Head(naluFifo) IN
           /\ n \in 1 .. Len(nalus) /\ n \in ToSet(naluFifo)
           /\ naluFifo' \in Seq(1 .. Len(nalus)) /\ Len(naluFifo') <= NaluFifoSize
           /\ ToSet(naluFifo) = ToSet(naluFifo') \cup {n}
           /\ \A m \in ToSet(naluFifo') : n < m
           /\ \A i, j \in DOMAIN naluFifo' : i < j => naluFifo'[i] < naluFifo'[j]
           /\ n # nalu /\ n # appNalu /\ n # NoNalu /\ calls[n] = 0
<1>1. /\ naluFifo \in Seq(1 .. Len(nalus)) /\ naluFifo # <<>> /\ naluFifo' = Tail(naluFifo)
      /\ \A i, j \in DOMAIN naluFifo : i < j => naluFifo[i] < naluFifo[j]
      /\ Len(nalus) \in Nat /\ Len(naluFifo) \in Nat /\ NaluFifoSize \in Nat
      /\ Len(naluFifo) <= NaluFifoSize
  BY SMTT(30), SenderAssumption DEF Custody, FifoDequeueNalu
<1>2. /\ Head(naluFifo) \in 1 .. Len(nalus) /\ Head(naluFifo) \in ToSet(naluFifo)
      /\ naluFifo' \in Seq(1 .. Len(nalus)) /\ Len(naluFifo') = Len(naluFifo) - 1
      /\ ToSet(naluFifo) = ToSet(naluFifo') \cup {Head(naluFifo)}
      /\ \A n \in ToSet(naluFifo') : Head(naluFifo) < n
      /\ \A i, j \in DOMAIN naluFifo' : i < j => naluFifo'[i] < naluFifo'[j]
  BY <1>1, RisingTail
<1>3. PICK n : n = Head(naluFifo)
  OBVIOUS
<1>4. n # nalu /\ n # appNalu /\ n # NoNalu /\ calls[n] = 0
  <2>1. n \in ToSet(naluFifo) /\ n \in 1 .. Len(nalus)
    BY <1>2, <1>3
  <2>2. nalu < n /\ appNalu < n /\ nalu \in Nat /\ appNalu \in Nat
    BY <2>1 DEF Custody
  <2>3. calls[n] = 0
    BY <2>1 DEF Custody, Held
  <2>4. QED  BY <2>1, <2>2, <2>3 DEF NoNalu
<1>5. Len(naluFifo') <= NaluFifoSize
  BY <1>1, <1>2
<1>6. QED  BY <1>2, <1>3, <1>4, <1>5

LEMMA CustodyTake ==
    ASSUME Custody, FlushTake \/ DequeueNalu
    PROVE  Custody'
<1>1. FifoDequeueNalu
  BY DEF FlushTake, DequeueNalu
<1>2. PICK n : n = Head(naluFifo)
  OBVIOUS
<1>3. /\ n \in 1 .. Len(nalus) /\ n \in ToSet(naluFifo)
      /\ naluFifo' \in Seq(1 .. Len(nalus)) /\ Len(naluFifo') <= NaluFifoSize
      /\ ToSet(naluFifo) = ToSet(naluFifo') \cup {n}
      /\ \A m \in ToSet(naluFifo') : n < m
      /\ \A i, j \in DOMAIN naluFifo' : i < j => naluFifo'[i] < naluFifo'[j]
      /\ n # nalu /\ n # appNalu /\ n # NoNalu /\ calls[n] = 0
  BY <1>1, <1>2, Taken
<1>4. UNCHANGED <<nalus, calls, toSend, flushes>>
  BY DEF FlushTake, DequeueNalu, threadVars, appVars
<1>5. CASE FlushTake
  <2>1. /\ appPc = "flush" /\ appPc' = "drop" /\ appNalu' = n /\ nalu' = nalu /\ pc' = pc
    BY <1>2, <1>5 DEF FlushTake, threadVars
  <2>2. Held' \subseteq Held
    BY <1>3, <2>1 DEF Held
  <2>3. QED  BY <1>3, <1>4, <2>1, <2>2 DEF Custody
<1>6. CASE DequeueNalu
  <2>1. /\ pc = "nalus" /\ pc' = "process" /\ nalu' = n
        /\ UNCHANGED <<appPc, appNalu>>
    BY <1>2, <1>6 DEF DequeueNalu, appVars
  <2>2. Held' \subseteq Held
    BY <1>3, <2>1 DEF Held
  <2>3. QED  BY <1>3, <1>4, <2>1, <2>2 DEF Custody
<1>7. QED  BY <1>5, <1>6

(* Completing a NALU that nobody else has.                                 *)
LEMMA Complete ==
    ASSUME Custody, NEW n \in 1 .. Len(nalus), Completed(n), calls[n] = 0
    PROVE  /\ calls' \in [1 .. MaxRequests -> 0 .. 1]
           /\ \A m \in 1 .. MaxRequests : m # n => calls'[m] = calls[m]
           /\ n \in 1 .. MaxRequests
<1>1. /\ MaxRequests \in Nat /\ Len(nalus) \in Nat /\ Len(nalus) <= MaxRequests
      /\ calls \in [1 .. MaxRequests -> 0 .. 1]
  BY SMTT(30), SenderAssumption DEF Custody
<1>2. QED  BY <1>1 DEF Completed

LEMMA CustodyComplete ==
    ASSUME Custody, FlushDrop \/ ProcessNalu \/ EndNalu
    PROVE  Custody'
<1>1. UNCHANGED <<nalus, toSend, flushes>>
  BY DEF FlushDrop, ProcessNalu, EndNalu, threadVars, appVars
<1>2. CASE FlushDrop \/ ProcessNalu
  <2>1. PICK n : n = IF FlushDrop THEN appNalu ELSE nalu
    OBVIOUS
  <2>2. /\ n # NoNalu /\ Completed(n) /\ naluFifo' = naluFifo
        /\ {nalu', appNalu'} \subseteq {nalu, appNalu, NoNalu}
        /\ n \in {nalu, appNalu}
        /\ n = nalu => nalu' = NoNalu \/ n = appNalu
        /\ n = appNalu => appNalu' = NoNalu \/ n = nalu
        /\ nalu' # NoNalu <=> pc' = "process"
        /\ appNalu' # NoNalu <=> appPc' = "drop"
        /\ appPc' = appPc \/ (appPc = "drop" /\ appPc' = "flush")
        /\ appNalu' = appNalu \/ appNalu' = NoNalu
        /\ nalu' = nalu \/ nalu' = NoNalu
    BY <1>2, <2>1 DEF Custody, FlushDrop, ProcessNalu, threadVars, appVars, NoNalu
  <2>3. /\ n \in 1 .. Len(nalus) /\ n \in Held /\ calls[n] = 0 /\ n \notin ToSet(naluFifo)
    BY SMTT(30), <2>2 DEF Custody, Held, NoNalu
  <2>4. /\ calls' \in [1 .. MaxRequests -> 0 .. 1]
        /\ \A m \in 1 .. MaxRequests : m # n => calls'[m] = calls[m]
    BY <2>2, <2>3, Complete
  <2>5. Held' \subseteq Held /\ n \notin Held'
    BY <2>2, <2>3 DEF Held, Custody, NoNalu
  <2>6. Held \subseteq 1 .. MaxRequests
    BY SMTT(30), SenderAssumption, ToSetType DEF Held, Custody, NoNalu
  <2>7. /\ \A m \in Held' : calls'[m] = 0
        /\ \A m \in 1 .. MaxRequests : m > Len(nalus') => calls'[m] = 0
    BY <1>1, <2>3, <2>4, <2>5, <2>6 DEF Custody
  <2>8. /\ nalu' \in 0 .. Len(nalus') /\ appNalu' \in 0 .. Len(nalus')
        /\ \A m \in ToSet(naluFifo') : nalu' < m /\ appNalu' < m
        /\ nalu' = appNalu' => nalu' = NoNalu
        /\ flushes' = 0 => appPc' \notin {"flush", "drop"}
        /\ toSend' # 0 <=> appPc' = "send"
    BY <1>1, <2>2, ToSetType DEF Custody, NoNalu
  <2>9. QED  BY <1>1, <2>2, <2>4, <2>7, <2>8 DEF Custody
<1>3. CASE EndNalu
  <2>1. PICK n : n = Head(naluFifo)
    OBVIOUS
  <2>2. /\ FifoDequeueNalu /\ Completed(n)
        /\ UNCHANGED <<nalu, appNalu, pc, appPc>>
    BY <1>3, <2>1 DEF EndNalu, threadVars, appVars
  <2>3. /\ n \in 1 .. Len(nalus) /\ n \in ToSet(naluFifo)
        /\ naluFifo' \in Seq(1 .. Len(nalus)) /\ Len(naluFifo') <= NaluFifoSize
        /\ ToSet(naluFifo) = ToSet(naluFifo') \cup {n}
        /\ \A m \in ToSet(naluFifo') : n < m
        /\ \A i, j \in DOMAIN naluFifo' : i < j => naluFifo'[i] < naluFifo'[j]
        /\ n # nalu /\ n # appNalu /\ n # NoNalu /\ calls[n] = 0
    BY <2>1, <2>2, Taken
  <2>4. /\ calls' \in [1 .. MaxRequests -> 0 .. 1]
        /\ \A m \in 1 .. MaxRequests : m # n => calls'[m] = calls[m]
    BY <2>2, <2>3, Complete
  <2>5. Held' \subseteq Held /\ n \notin Held'
    BY <2>2, <2>3 DEF Held
  <2>6. Held \subseteq 1 .. MaxRequests
    BY SMTT(30), SenderAssumption, ToSetType DEF Held, Custody, NoNalu
  <2>7. /\ \A m \in Held' : calls'[m] = 0
        /\ \A m \in 1 .. MaxRequests : m > Len(nalus') => calls'[m] = 0
    BY <1>1, <2>3, <2>4, <2>5, <2>6 DEF Custody
  <2>8. QED  BY <1>1, <2>2, <2>3, <2>4, <2>7 DEF Custody
<1>4. QED  BY <1>2, <1>3

LEMMA CustodyNext == Custody /\ [Next]_vars => Custody'
<1> SUFFICES ASSUME Custody, [Next]_vars
             PROVE  Custody'
  OBVIOUS
<1>1. CASE EnqueueNalu
  BY <1>1, CustodyEnqueue
<1>2. CASE FlushTake \/ DequeueNalu
  BY <1>2, CustodyTake
<1>3. CASE FlushDrop \/ ProcessNalu \/ EndNalu
  BY <1>3, CustodyComplete
<1>4. CASE \/ QueueFull \/ Stop \/ FlushEnd \/ SendNNewNalu \/ FlushNaluQueue
  BY <1>4, CustodyIdle DEF QueueFull, Stop, FlushEnd, SendNNewNalu, FlushNaluQueue,
                           dataVars, threadVars
<1>5. CASE \/ Start \/ CleanFromTimeout \/ SendMmsg \/ CheckStop \/ Exit \/ EndPackets
           \/ UNCHANGED vars
  BY <1>5, CustodyIdle DEF Start, CleanFromTimeout, SendMmsg, CheckStop, Exit, EndPackets,
                           vars, dataVars, threadVars, appVars
<1>6. QED  BY <1>1, <1>2, <1>3, <1>4, <1>5 DEF Next, App, AppCall, Thread

(* naluCallback is called once at most for each NALU, and not while the    *)
(* NALU is queued or in use, whichever thread takes it from the FIFO.      *)
THEOREM NaluCompletedOnce == Spec => []CompletedOnce
<1>1. ASSUME Custody
      PROVE  CompletedOnce
  <2>1. DOMAIN calls = 1 .. MaxRequests /\ \A n \in DOMAIN calls : calls[n] \in 0 .. 1
    BY <1>1 DEF Custody
  <2>2. \A n \in Held : calls[n] = 0
    BY <1>1 DEF Custody
  <2>3. QED  BY <2>1, <2>2 DEF CompletedOnce, Held
<1>2. QED  BY CustodyInit, CustodyNext, <1>1, PTL DEF Spec

-----------------------------------------------------------------------------
(* The queue of packets.                                                   *)

(* What a time-out leaves is in order if the queue was.                    *)
LEMMA KeptLemma ==
    ASSUME NEW q \in Seq(Packet), NEW overdue, InOrder(q)
    PROVE  LET r == Kept(q, overdue) IN
           /\ r \in Seq(Packet) /\ Len(r) <= Len(q)
           /\ ToSet(r) \subseteq ToSet(q) /\ InOrder(r)
<1> DEFINE step(r, i) == IF Head(q[i].nalus) \in overdue THEN r ELSE Append(r, q[i])
           f == CHOOSE g : g = [i \in 0 .. Len(q) |->
                                  IF i = 0 THEN <<>>
                                  ELSE IF Head(q[i].nalus) \in overdue THEN g[i - 1]
                                  ELSE Append(g[i - 1], q[i])]
           E == {n \in Nat : \E g : g = [i \in 0 .. n |->
                                           IF i = 0 THEN <<>> ELSE step(g[i - 1], i)]}
<1>1. Len(q) \in Nat /\ DOMAIN q = 1 .. Len(q) /\ \A i \in DOMAIN q : q[i] \in Packet
  OBVIOUS
<1>2. Nat \subseteq E
  <2>1. 0 \in E
    <3>1. [i \in 0 .. 0 |-> <<>>] = [i \in 0 .. 0 |->
              IF i = 0 THEN <<>> ELSE step([j \in 0 .. 0 |-> <<>>][i - 1], i)]
      <4> HIDE DEF step
      <4>1. QED  OBVIOUS
    <3>2. QED  BY <3>1
  <2>2. ASSUME NEW n \in Nat, n \in E
        PROVE  n + 1 \in E
    <3> HIDE DEF step
    <3>1. PICK g : g = [i \in 0 .. n |-> IF i = 0 THEN <<>> ELSE step(g[i - 1], i)]
      BY <2>2
    <3> DEFINE h == [i \in 0 .. n + 1 |-> IF i = n + 1 THEN step(g[n], n + 1) ELSE g[i]]
    <3>2. h = [i \in 0 .. n + 1 |-> IF i = 0 THEN <<>> ELSE step(h[i - 1], i)]
      <4>1. \A i \in 1 .. n + 1 : h[i - 1] = g[i - 1]
        OBVIOUS
      <4>2. \A i \in 0 .. n : g[i] = IF i = 0 THEN <<>> ELSE step(g[i - 1], i)
        BY <3>1
      <4>3. \A i \in 0 .. n + 1 : h[i] = IF i = 0 THEN <<>> ELSE step(h[i - 1], i)
        BY <4>1, <4>2
      <4> HIDE DEF h
      <4>4. h = [i \in 0 .. n + 1 |-> h[i]]
        BY DEF h
      <4>5. QED  BY <4>3, <4>4
    <3> HIDE DEF h
    <3>3. QED  BY <3>2
  <2> HIDE DEF E
  <2>3. QED  BY <2>1, <2>2, SetInduction
<1>3. f = [i \in 0 .. Len(q) |-> IF i = 0 THEN <<>> ELSE step(f[i - 1], i)]
  BY <1>1, <1>2
<1>4. Kept(q, overdue) = f[Len(q)]
  BY DEF Kept
<1> HIDE DEF f
<1>5. /\ f[0] = <<>>
      /\ \A i \in 1 .. Len(q) : f[i] = step(f[i - 1], i)
  <2> HIDE DEF step
  <2>1. QED  BY <1>1, <1>3
<1> DEFINE Good(n) ==
             /\ f[n] \in Seq(Packet) /\ Len(f[n]) <= n
             /\ \A i \in DOMAIN f[n] : \E j \in 1 .. n : f[n][i] = q[j]
             /\ InOrder(f[n])
           G == {n \in Nat : n <= Len(q) => Good(n)}
<1>6. Nat \subseteq G
  <2>1. 0 \in G
    <3>1. /\ f[0] = <<>> /\ <<>> \in Seq(Packet) /\ Len(<<>>) = 0 /\ DOMAIN <<>> = {}
      BY <1>5
    <3>2. Good(0)
      BY <3>1 DEF InOrder
    <3>3. QED  BY <3>2
  <2>2. ASSUME NEW n \in Nat, n \in G
        PROVE  n + 1 \in G
    <3>1. SUFFICES ASSUME n + 1 <= Len(q) PROVE Good(n + 1)
      OBVIOUS
    <3>2. Good(n)
      BY <1>1, <2>2, <3>1
    <3>3. f[n + 1] = step(f[n], n + 1) /\ n + 1 \in DOMAIN q
      BY <1>1, <1>5, <3>1
    <3>4. CASE Head(q[n + 1].nalus) \in overdue
      <4>1. f[n + 1] = f[n]
        BY <3>3, <3>4
      <4>2. QED  BY <3>2, <4>1
    <3>5. CASE Head(q[n + 1].nalus) \notin overdue
      <4>1. PICK r \in Seq(Packet) : r = f[n]
        BY <3>2
      <4>2. PICK x \in Packet : x = q[n + 1]
        BY <1>1, <3>3
      <4>3. PICK t : t = Append(r, x)
        OBVIOUS
      <4>4. f[n + 1] = t
        BY <3>3, <3>5, <4>1, <4>2, <4>3
      <4>5. /\ t \in Seq(Packet) /\ Len(t) = Len(r) + 1 /\ Len(r) \in Nat
            /\ DOMAIN r = 1 .. Len(r) /\ DOMAIN t = 1 .. Len(r) + 1
            /\ \A i \in 1 .. Len(r) : t[i] = r[i]
            /\ t[Len(r) + 1] = x
        BY <4>1, <4>2, <4>3
      <4>6. /\ Len(r) <= n /\ InOrder(r)
            /\ \A i \in DOMAIN r : \E j \in 1 .. n : r[i] = q[j]
        BY <3>2, <4>1
      <4>7. \A i \in DOMAIN t : \E j \in 1 .. n + 1 : t[i] = q[j]
        BY <4>2, <4>5, <4>6
      <4>8. \A i \in DOMAIN r : Before(r[i], x)
        BY SMTT(30), <1>1, <3>3, <4>2, <4>6 DEF InOrder
      <4>9. InOrder(t)
        BY <4>5, <4>6, <4>8 DEF InOrder
      <4>10. Len(t) <= n + 1
        BY <4>5, <4>6
      <4>11. QED  BY <4>4, <4>5, <4>7, <4>9, <4>10
    <3>6. QED  BY <3>4, <3>5
  <2> HIDE DEF G
  <2>3. QED  BY <2>1, <2>2, SetInduction
<1>7. Good(Len(q))
  BY SMTT(30), <1>1, <1>6
<1>8. PICK r : r = Kept(q, overdue)
  OBVIOUS
<1>9. r \in Seq(Packet) /\ Len(r) <= Len(q) /\ InOrder(r) /\ ToSet(r) \subseteq ToSet(q)
  BY <1>1, <1>4, <1>7, <1>8 DEF ToSet
<1>10. QED  BY <1>8, <1>9

LEMMA PacketFields ==
    ASSUME NEW p \in Packet
    PROVE  /\ p.au \in Nat /\ p.priority \in Nat /\ p.seqNum \in Nat
           /\ p.nalus \in Seq(Nat)
  BY DEF Packet

(* Packets of access unit a and priority y, in the order of their numbers. *)
Batch(r, a, y) ==
    /\ \A i \in DOMAIN r : r[i].au = a /\ r[i].priority = y
    /\ \A i, j \in DOMAIN r : i < j => r[i].seqNum < r[j].seqNum

(* The packets of r are numbered after those of q.                         *)
Newer(r, q) == flushes = 0 => \A p \in ToSet(q), x \in ToSet(r) : p.seqNum < x.seqNum

(* Packets of one access unit and priority, numbered after all those in    *)
(* the queue, find a place in which the queue stays in order.              *)
LEMMA EnqueueLemma ==
    ASSUME NEW q \in Seq(Packet), NEW r \in Seq(Packet), NEW a \in Nat, NEW y \in Nat,
           Batch(r, a, y), Newer(r, q), InOrder(q)
    PROVE  LET t == Enqueue(q, r) IN
           /\ t \in Seq(Packet) /\ Len(t) = Len(q) + Len(r)
           /\ ToSet(t) \subseteq ToSet(q) \cup ToSet(r) /\ InOrder(t)
<1> DEFINE front == {i \in DOMAIN q : \A p \in ToSet(r) : GoesAfter(p, q[i])}
           k == Max(front \cup {0})
           A == SubSeq(q, 1, k)
           B == SubSeq(q, k + 1, Len(q))
           m == Len(r)
<1>1. /\ Len(q) \in Nat /\ DOMAIN q = 1 .. Len(q) /\ m \in Nat /\ DOMAIN r = 1 .. m
      /\ \A i \in DOMAIN q : q[i] \in Packet
      /\ \A i \in DOMAIN r : r[i] \in Packet
  OBVIOUS
<1>2. /\ k \in front \cup {0}
      /\ \A i \in front : k >= i
      /\ k \in 0 .. Len(q)
  <2>1. front \cup {0} \subseteq 0 .. Len(q) /\ front \cup {0} # {}
    BY <1>1
  <2> HIDE DEF front
  <2>2. QED  BY <1>1, <2>1, MaxLemma
<1>3. Enqueue(q, r) = A \o r \o B
  BY DEF Enqueue
<1>4. ASSUME NEW i \in DOMAIN q, NEW j \in DOMAIN r, i <= k
      PROVE  Before(q[i], r[j])
  <2>1. k \in DOMAIN q /\ r[j] \in ToSet(r) /\ q[i] \in ToSet(q)
    BY <1>1, <1>2, <1>4 DEF ToSet
  <2>1a. r[j].au = a /\ (flushes = 0 => q[i].seqNum < r[j].seqNum)
    BY <2>1 DEF Batch, Newer
  <2>2. GoesAfter(r[j], q[k])
    BY <1>1, <1>2, <2>1
  <2> DEFINE x == q[i]
             z == q[k]
  <2>2a. x.au \in Nat /\ z.au \in Nat /\ r[j].au = a
    BY <1>1, <2>1, <2>1a, PacketFields
  <2> HIDE DEF k, x, z
  <2>3. z.au <= a
    BY <2>2a, <2>2 DEF GoesAfter, z
  <2>4. x.au <= z.au
    <3>1. i = k \/ i < k
      BY <1>1, <1>2, <1>4
    <3>2. CASE i = k
      BY <2>2a, <3>2 DEF x, z
    <3>3. CASE i < k
      BY <2>1, <3>3 DEF InOrder, Before, x, z
    <3>4. QED  BY <3>1, <3>2, <3>3
  <2>5. q[i].au <= a
    BY <2>2a, <2>3, <2>4 DEF x
  <2>6. QED  BY <2>1, <2>1a, <2>5 DEF Before
<1>5. ASSUME NEW i \in DOMAIN q, NEW j \in DOMAIN r, i > k
      PROVE  Before(r[j], q[i])
  <2>1. i \notin front
    <3> HIDE DEF k
    <3>1. QED  BY <1>1, <1>2, <1>5
  <2>2. PICK x \in DOMAIN r : ~ GoesAfter(r[x], q[i])
    BY <2>1 DEF ToSet
  <2>3. r[x].au = a /\ r[x].priority = y /\ r[j].au = a /\ r[j].priority = y
    BY DEF Batch
  <2>4. q[i].au \in Nat /\ q[i].priority \in Nat
    BY <1>1 DEF Packet
  <2> HIDE DEF k
  <2>5. QED  BY <2>2, <2>3, <2>4 DEF Before, GoesAfter
<1>6. ASSUME NEW i \in DOMAIN r, NEW j \in DOMAIN r, i < j
      PROVE  Before(r[i], r[j])
  BY <1>6 DEF Before, Batch
<1> HIDE DEF front, k
<1>7. /\ A \in Seq(Packet) /\ Len(A) = k
      /\ \A i \in 1 .. k : A[i] = q[i]
  BY <1>1, <1>2, SubSeqProperties
<1>8. /\ B \in Seq(Packet) /\ Len(B) = Len(q) - k
      /\ \A i \in 1 .. Len(q) - k : B[i] = q[k + i]
  <2>1. k + 1 \in Int /\ Len(q) \in Int /\ \A i \in k + 1 .. Len(q) : q[i] \in Packet
    BY <1>1, <1>2
  <2>2. /\ B \in Seq(Packet)
        /\ Len(B) = IF k + 1 <= Len(q) THEN Len(q) - (k + 1) + 1 ELSE 0
        /\ \A i \in 1 .. Len(q) - (k + 1) + 1 : B[i] = q[k + 1 + i - 1]
    BY <2>1, SubSeqProperties
  <2> HIDE DEF B
  <2>3. Len(B) = Len(q) - k /\ Len(q) - (k + 1) + 1 = Len(q) - k
    <3>1. k \in Nat /\ Len(q) \in Nat /\ k <= Len(q)
      BY <1>1, <1>2
    <3>2. CASE k + 1 <= Len(q)
      BY <2>2, <3>1, <3>2
    <3>3. CASE k = Len(q)
      BY <2>2, <3>1, <3>3
    <3>4. QED  BY <3>1, <3>2, <3>3
  <2>4. ASSUME NEW i \in 1 .. Len(q) - k
        PROVE  B[i] = q[k + i]
    <3>1. k + 1 + i - 1 = k + i /\ i \in 1 .. Len(q) - (k + 1) + 1
      BY <1>1, <1>2, <2>3
    <3>2. QED  BY <2>2, <3>1
  <2>5. QED  BY <2>2, <2>3, <2>4
<1> HIDE DEF A, B
<1> DEFINE c == A \o r
<1>9. /\ c \in Seq(Packet) /\ Len(c) = k + m
      /\ \A i \in 1 .. k + m : c[i] = IF i <= k THEN A[i] ELSE r[i - k]
  BY <1>7, ConcatProperties
<1> HIDE DEF c
<1>10. /\ c \o B \in Seq(Packet) /\ Len(c \o B) = Len(c) + Len(B)
       /\ \A i \in 1 .. Len(c) + Len(B) :
             (c \o B)[i] = IF i <= Len(c) THEN c[i] ELSE B[i - Len(c)]
  BY <1>8, <1>9, ConcatProperties
<1>11. PICK t : t = c \o B
  OBVIOUS
<1>12. t = Enqueue(q, r)
  BY <1>3, <1>11 DEF c
<1>13. t \in Seq(Packet) /\ Len(t) = Len(q) + m /\ DOMAIN t = 1 .. Len(q) + m
  <2>1. Len(c) + Len(B) = Len(q) + m
    BY <1>1, <1>2, <1>8, <1>9
  <2>2. t \in Seq(Packet) /\ Len(t) = Len(q) + m
    BY <1>10, <1>11, <2>1
  <2>3. QED  BY <2>2
<1>14. ASSUME NEW i \in DOMAIN t
       PROVE  \/ i \in DOMAIN q /\ i <= k /\ t[i] = q[i]
              \/ i - k \in DOMAIN r /\ t[i] = r[i - k]
              \/ i - m \in DOMAIN q /\ i - m > k /\ t[i] = q[i - m]
  <2>1. i \in 1 .. Len(q) + m /\ i \in 1 .. Len(c) + Len(B) /\ k \in Nat /\ Len(c) = k + m
    BY <1>1, <1>2, <1>8, <1>9, <1>13
  <2>2. t[i] = IF i <= Len(c) THEN c[i] ELSE B[i - Len(c)]
    BY <1>10, <1>11, <2>1
  <2>3. CASE i <= k
    BY <1>1, <1>2, <1>7, <1>9, <2>1, <2>2, <2>3
  <2>4. CASE i > k /\ i <= k + m
    <3>1. t[i] = r[i - k] /\ i - k \in 1 .. m
      BY <1>1, <1>9, <2>1, <2>2, <2>4
    <3>2. QED  BY <1>1, <3>1
  <2>5. CASE i > k + m
    <3>1. t[i] = B[i - (k + m)] /\ i - (k + m) \in 1 .. Len(q) - k
      BY SMTT(30), <1>1, <1>2, <2>1, <2>2, <2>5
    <3>2. B[i - (k + m)] = q[k + (i - (k + m))] /\ k + (i - (k + m)) = i - m
      BY SMTT(30), <1>1, <1>8, <2>1, <3>1
    <3>3. i - m \in 1 .. Len(q) /\ i - m > k
      BY <1>1, <1>2, <2>1, <2>5
    <3>4. QED  BY <1>1, <3>1, <3>2, <3>3
  <2>6. QED  BY <1>1, <2>1, <2>3, <2>4, <2>5
<1>15. ToSet(t) \subseteq ToSet(q) \cup ToSet(r)
  BY <1>14 DEF ToSet
<1>16. ASSUME NEW i \in DOMAIN t, NEW j \in DOMAIN t, i < j
       PROVE  Before(t[i], t[j])
  <2>1. i \in Nat /\ j \in Nat /\ k \in Nat /\ m \in Nat
    BY <1>1, <1>2, <1>13
  <2> DEFINE Low(x) == x \in DOMAIN q /\ x <= k /\ t[x] = q[x]
             Mid(x) == x - k \in DOMAIN r /\ t[x] = r[x - k]
             High(x) == x - m \in DOMAIN q /\ x - m > k /\ t[x] = q[x - m]
  <2>2. (Low(i) \/ Mid(i) \/ High(i)) /\ (Low(j) \/ Mid(j) \/ High(j))
    BY <1>14
  <2>3. CASE Low(i) /\ Low(j)
    BY <1>16, <2>3 DEF InOrder
  <2>4. CASE Low(i) /\ Mid(j)
    BY <1>4, <2>4
  <2>5. CASE Low(i) /\ High(j)
    <3>1. i < j - m
      BY <2>1, <2>5
    <3>2. QED  BY <2>5, <3>1 DEF InOrder
  <2>6. CASE Mid(i) /\ Mid(j)
    <3>1. i - k < j - k
      BY <1>16, <2>1
    <3>2. QED  BY <1>6, <2>6, <3>1
  <2>7. CASE Mid(i) /\ High(j)
    BY <1>5, <2>7
  <2>8. CASE High(i) /\ High(j)
    <3>1. i - m < j - m
      BY <1>16, <2>1
    <3>2. QED  BY <2>8, <3>1 DEF InOrder
  <2>9. CASE (Mid(i) /\ Low(j)) \/ (High(i) /\ Low(j)) \/ (High(i) /\ Mid(j))
    BY <1>1, <1>16, <2>1, <2>9
  <2> HIDE DEF Low, Mid, High
  <2>10. QED  BY <2>2, <2>3, <2>4, <2>5, <2>6, <2>7, <2>8, <2>9
<1>17. QED  BY <1>12, <1>13, <1>15, <1>16 DEF InOrder

-----------------------------------------------------------------------------
(* The packetizer's functions keep the context in order.                   *)

(* What only the callbacks of access units change.                         *)
SameCalls(c, d) ==
    /\ d.previousAu = c.previousAu /\ d.lastCallbackAu = c.lastCallbackAu
    /\ d.auCalls = c.auCalls

LEMMA ContextFields ==
    ASSUME NEW c \in Context
    PROVE  /\ c.seqNum \in Nat /\ c.stap \in [nalus : Seq(Nat), size : Nat]
           /\ c.previousAu \in Nat /\ c.lastCallbackAu \in Nat
           /\ c.queue \in Seq(Packet) /\ c.free \in Nat /\ c.auCalls \in Seq(Nat)
           /\ Len(c.queue) \in Nat
  BY DEF Context

LEMMA NaluFields ==
    ASSUME nalus \in Seq(Nalu), NEW n \in DOMAIN nalus
    PROVE  /\ nalus[n].au \in Nat /\ nalus[n].au # 0 /\ nalus[n].size \in Nat
           /\ nalus[n].size # 0 /\ nalus[n].priority \in Nat /\ nalus[n].isLast \in BOOLEAN
           /\ \E kind \in Kinds : nalus[n].size = kind.size
<1>1. nalus[n] \in Nalu
  OBVIOUS
<1>2. QED  BY <1>1 DEF Nalu

(* NALUs the first of which is of access unit a.                           *)
NalusOf(ids, a) ==
    /\ ids \in Seq(Nat) /\ ids # <<>> /\ ToSet(ids) \subseteq DOMAIN nalus
    /\ nalus[ids[1]].au = a

(* The i-th of the packets of ids that begin at number base.               *)
Piece(base, ids, parts, of, i) ==
    [seqNum |-> base + i - 1, nalus |-> ids, part |-> parts[i], of |-> of,
     au |-> nalus[Head(ids)].au, priority |-> Min({nalus[n].priority : n \in ToSet(ids)})]

(* d comes from c by the emission of packets.                              *)
Emitted(c, d, ids, parts, of) ==
    /\ d.seqNum = c.seqNum + Len(parts)
    /\ \A x \in ToSet(d.queue) :
          \/ x \in ToSet(c.queue)
          \/ \E i \in DOMAIN parts : x = Piece(c.seqNum, ids, parts, of, i)

(* d is what Emit, or the pool, makes of c.                                *)
IsEmit(c, d, ids, parts, of) == d = Emit(c, ids, parts, of)
IsPool(c, d, free) == d = [c EXCEPT !.free = free]

LEMMA EmitLemma ==
    ASSUME nalus \in Seq(Nalu), NEW c, NEW a \in Nat, PacketsOK(c, a),
           NEW ids, NalusOf(ids, a), NEW parts \in Seq(Nat), NEW of \in Nat,
           NEW d, IsEmit(c, d, ids, parts, of)
    PROVE  /\ PacketsOK(d, a) /\ SameCalls(c, d) /\ Emitted(c, d, ids, parts, of)
           /\ d.stap = c.stap /\ d.free = c.free
           /\ Len(d.queue) = Len(c.queue) + Len(parts)
<1> DEFINE priorities == {nalus[n].priority : n \in ToSet(ids)}
           y == Min(priorities)
           packet(i) == [seqNum |-> c.seqNum + i - 1, nalus |-> ids, part |-> parts[i],
                         of |-> of, au |-> nalus[Head(ids)].au, priority |-> y]
           r == [i \in DOMAIN parts |-> packet(i)]
           t == Enqueue(c.queue, r)
<1>0. /\ ids \in Seq(Nat) /\ ids # <<>> /\ ToSet(ids) \subseteq DOMAIN nalus
      /\ nalus[ids[1]].au = a
  BY DEF NalusOf
<1>1. c \in Context /\ wire \in Seq(Packet) /\ InOrder(wire) /\ InOrder(c.queue)
  BY DEF PacketsOK
<1>2. /\ c.seqNum \in Nat /\ c.queue \in Seq(Packet) /\ Len(c.queue) \in Nat
  BY <1>1, ContextFields
<1>3. y \in Nat
  <2>1. priorities \subseteq Nat
    BY <1>0, NaluFields
  <2>2. ids[1] \in ToSet(ids)
    BY <1>0 DEF ToSet
  <2>3. priorities # {}
    BY <2>2
  <2> HIDE DEF priorities
  <2>4. QED  BY <2>1, <2>3, MinLemma
<1>4. Len(parts) \in Nat /\ DOMAIN parts = 1 .. Len(parts) /\ Head(ids) = ids[1]
  BY <1>0
<1> HIDE DEF y
<1>5. ASSUME NEW i \in DOMAIN parts
      PROVE  /\ packet(i) \in Packet
             /\ packet(i).au = a /\ packet(i).priority = y /\ packet(i).nalus = ids
             /\ packet(i).seqNum = c.seqNum + i - 1
  <2>1. parts[i] \in Nat
    OBVIOUS
  <2>2. PICK base \in Nat : base = c.seqNum
    BY <1>2
  <2>3. base + i - 1 \in Nat
    BY <1>4
  <2>4. QED  BY <1>0, <1>3, <1>4, <2>1, <2>2, <2>3 DEF Packet
<1> HIDE DEF packet
<1>6. /\ r \in Seq(Packet) /\ Len(r) = Len(parts) /\ DOMAIN r = 1 .. Len(parts)
      /\ \A i \in DOMAIN r : r[i] = packet(i)
  BY <1>4, <1>5
<1>7. ASSUME NEW i \in DOMAIN r
      PROVE  /\ r[i].au = a /\ r[i].priority = y /\ r[i].nalus = ids
             /\ r[i].seqNum = c.seqNum + i - 1
             /\ i \in 1 .. Len(parts)
  BY <1>4, <1>5, <1>6
<1> HIDE DEF r
<1>8. Batch(r, a, y)
  BY <1>2, <1>4, <1>7 DEF Batch
<1>9. \A p \in ToSet(c.queue) \cup ToSet(wire) : Made(p, a, c.seqNum)
  BY DEF PacketsOK
<1>10. ASSUME NEW x \in ToSet(r)
       PROVE  /\ x.au = a /\ x.nalus = ids /\ x.seqNum \in Nat
              /\ c.seqNum <= x.seqNum /\ x.seqNum < c.seqNum + Len(parts)
  <2>1. PICK i \in DOMAIN r : x = r[i]
    BY DEF ToSet
  <2>2. PICK base \in Nat : base = c.seqNum
    BY <1>2
  <2>3. i \in Nat /\ i >= 1 /\ i <= Len(parts) /\ x.seqNum = base + i - 1
    BY <1>4, <1>7, <2>1, <2>2
  <2>4. /\ base + i - 1 \in Nat /\ base <= base + i - 1
        /\ base + i - 1 < base + Len(parts)
    BY <1>4, <2>3
  <2>5. QED  BY <1>7, <2>1, <2>2, <2>3, <2>4
<1>11. Newer(r, c.queue)
  <2>1. ASSUME flushes = 0, NEW p \in ToSet(c.queue), NEW x \in ToSet(r)
        PROVE  p.seqNum < x.seqNum
    <3>1. p.seqNum < c.seqNum
      BY <1>9, <2>1 DEF Made
    <3>2. p.seqNum \in Nat
      BY <1>2, ToSetType, PacketFields
    <3>3. QED  BY <1>2, <1>10, <3>1, <3>2
  <2>2. QED  BY <2>1 DEF Newer
<1>12. /\ t \in Seq(Packet) /\ Len(t) = Len(c.queue) + Len(parts)
       /\ ToSet(t) \subseteq ToSet(c.queue) \cup ToSet(r) /\ InOrder(t)
  <2> HIDE DEF t
  <2>2. PICK q \in Seq(Packet) : q = c.queue
    BY <1>2
  <2>3. InOrder(q) /\ r \in Seq(Packet) /\ Newer(r, q)
    BY <1>1, <1>6, <1>11, <2>2
  <2>4. /\ Enqueue(q, r) \in Seq(Packet)
        /\ Len(Enqueue(q, r)) = Len(q) + Len(r)
        /\ ToSet(Enqueue(q, r)) \subseteq ToSet(q) \cup ToSet(r)
        /\ InOrder(Enqueue(q, r))
    BY <1>3, <1>8, <2>3, EnqueueLemma
  <2>5. QED  BY <1>6, <2>2, <2>4 DEF t
<1>13. d = [c EXCEPT !.queue = t, !.seqNum = @ + Len(parts)]
  BY DEF IsEmit, Emit, r, packet, y
<1> HIDE DEF t
<1>14. /\ d \in Context /\ d.queue = t /\ d.seqNum = c.seqNum + Len(parts)
       /\ d.stap = c.stap /\ d.free = c.free /\ SameCalls(c, d)
  <2>1. c.seqNum + Len(parts) \in Nat
    BY <1>2, <1>4
  <2>2. PICK n \in Nat : n = c.seqNum + Len(parts)
    BY <2>1
  <2>3. t \in Seq(Packet)
    BY <1>12
  <2>4. d = [c EXCEPT !.queue = t, !.seqNum = n]
    BY <1>13, <2>2
  <2>5. /\ d \in Context /\ d.queue = t /\ d.seqNum = n
        /\ d.stap = c.stap /\ d.free = c.free
    BY <1>1, <2>2, <2>3, <2>4 DEF Context
  <2>6. SameCalls(c, d)
    BY <1>1, <2>4 DEF Context, SameCalls
  <2>7. QED  BY <2>2, <2>5, <2>6
<1>15. ASSUME NEW p \in ToSet(c.queue) \cup ToSet(wire)
       PROVE  Made(p, a, d.seqNum)
  <2>1. p.seqNum \in Nat
    BY <1>1, <1>2, ToSetType, PacketFields
  <2>2. QED  BY <1>2, <1>4, <1>9, <1>14, <2>1 DEF Made
<1>16. ASSUME NEW x \in ToSet(r)
       PROVE  Made(x, a, d.seqNum)
  BY <1>0, <1>10, <1>14 DEF Made
<1>17. ASSUME NEW p \in ToSet(wire), NEW x \in ToSet(r)
       PROVE  Before(p, x)
  <2>1. p.seqNum \in Nat /\ p.au \in Nat
    BY <1>1, ToSetType, PacketFields
  <2>2. p.au <= a /\ (flushes = 0 => p.seqNum < c.seqNum)
    BY <1>9 DEF Made
  <2>3. QED  BY <1>2, <1>10, <2>1, <2>2 DEF Before
<1>18. \A p \in ToSet(wire), q \in ToSet(c.queue) : Before(p, q)
  BY DEF PacketsOK
<1>19. PacketsOK(d, a)
  BY <1>1, <1>12, <1>14, <1>15, <1>16, <1>17, <1>18 DEF PacketsOK
<1>20. Emitted(c, d, ids, parts, of)
  <2>1. ASSUME NEW x \in ToSet(r)
        PROVE  \E i \in DOMAIN parts : x = Piece(c.seqNum, ids, parts, of, i)
    <3>1. PICK i \in DOMAIN r : x = r[i]
      BY DEF ToSet
    <3>2. i \in DOMAIN parts /\ x = packet(i)
      BY <1>4, <1>6, <3>1
    <3>3. packet(i) = Piece(c.seqNum, ids, parts, of, i)
      BY DEF packet, Piece, y
    <3>4. QED  BY <3>2, <3>3
  <2>2. QED  BY <1>12, <1>14, <2>1 DEF Emitted
<1>21. QED  BY <1>12, <1>14, <1>19, <1>20

(* Fewer packets in the queue, and nothing else changed but the pool.      *)
LEMMA FewerPackets ==
    ASSUME NEW c, NEW d, NEW a \in Nat, PacketsOK(c, a), d \in Context,
           d.queue = <<>>, d.seqNum \in Nat, d.seqNum >= c.seqNum
    PROVE  PacketsOK(d, a)
<1>1. c \in Context /\ wire \in Seq(Packet) /\ InOrder(wire)
  BY DEF PacketsOK
<1>2. ToSet(d.queue) = {} /\ InOrder(d.queue)
  BY DEF ToSet, InOrder
<1>3. ASSUME NEW p \in ToSet(wire)
      PROVE  Made(p, a, d.seqNum)
  <2>1. Made(p, a, c.seqNum) /\ p.seqNum \in Nat /\ c.seqNum \in Nat
    BY <1>1, ToSetType, PacketFields, ContextFields DEF PacketsOK
  <2>2. QED  BY <2>1 DEF Made
<1>4. QED  BY <1>1, <1>2, <1>3 DEF PacketsOK

(* The flush of the packet FIFO.                                           *)
LEMMA FlushLemma ==
    ASSUME NEW c, NEW a \in Nat, ContextOK(c, a)
    PROVE  LET d == PacketFifoFlush(c) IN
           ContextOK(d, a) /\ d.stap = c.stap /\ SameCalls(c, d)
<1>1. c \in Context /\ PacketsOK(c, a) /\ StapOK(c, a) /\ PoolOK(c)
  BY DEF ContextOK, PacketsOK
<1>2. PICK n \in Nat : n = c.free + Len(c.queue)
  BY <1>1, ContextFields
<1>3. PICK d : d = PacketFifoFlush(c)
  OBVIOUS
<1>4. d = [c EXCEPT !.queue = <<>>, !.free = n]
  BY <1>1, <1>2, <1>3 DEF PacketFifoFlush, Context
<1>5. /\ d \in Context /\ d.queue = <<>> /\ d.free = n /\ d.seqNum = c.seqNum
      /\ d.stap = c.stap /\ SameCalls(c, d)
  <2>1. <<>> \in Seq(Packet) /\ c \in Context
    BY <1>1
  <2>2. /\ d \in Context /\ d.queue = <<>> /\ d.free = n /\ d.seqNum = c.seqNum
        /\ d.stap = c.stap
    BY <1>4, <2>1 DEF Context
  <2>3. SameCalls(c, d)
    BY <1>4, <2>1 DEF Context, SameCalls
  <2>4. QED  BY <2>2, <2>3
<1>6. c.seqNum \in Nat
  BY <1>1, ContextFields
<1>7. PacketsOK(d, a)
  BY <1>1, <1>5, <1>6, FewerPackets
<1>8. StapOK(d, a)
  BY <1>1, <1>5 DEF StapOK
<1>9. PoolOK(d)
  BY <1>1, <1>2, <1>5, ContextFields DEF PoolOK, Pending
<1>10. QED  BY <1>3, <1>5, <1>7, <1>8, <1>9 DEF ContextOK

(* Once no STAP-A is pending, the packetizer may go to a later access unit.*)
LEMMA RaiseLemma ==
    ASSUME NEW c, NEW a \in Nat, NEW b \in Nat, a <= b, ContextOK(c, a), c.stap = NoStap
    PROVE  ContextOK(c, b)
<1>1. c \in Context /\ wire \in Seq(Packet)
  BY DEF ContextOK, PacketsOK
<1>2. ASSUME NEW p \in ToSet(c.queue) \cup ToSet(wire)
      PROVE  Made(p, b, c.seqNum)
  <2>1. Made(p, a, c.seqNum)
    BY DEF ContextOK, PacketsOK
  <2>2. p.au \in Nat
    BY <1>1, ToSetType, PacketFields, ContextFields
  <2>3. QED  BY <2>1, <2>2 DEF Made
<1>3. QED  BY <1>2 DEF ContextOK, PacketsOK, StapOK

(* Finishing a STAP-A.                                                     *)
LEMMA FinishLemma ==
    ASSUME nalus \in Seq(Nalu), NEW c, NEW a \in Nat, ContextOK(c, a)
    PROVE  LET d == FinishStapAPacket(c) IN
           /\ ContextOK(d, a) /\ d.stap = NoStap /\ SameCalls(c, d)
           /\ c.stap # NoStap => Emitted(c, d, c.stap.nalus, <<0>>, 0)
<1>1. c \in Context /\ PacketsOK(c, a) /\ StapOK(c, a) /\ PoolOK(c)
  BY DEF ContextOK, PacketsOK
<1>2. CASE c.stap = NoStap
  BY <1>2 DEF FinishStapAPacket, SameCalls
<1>3. CASE c.stap # NoStap
  <2>1. PICK ids : ids = c.stap.nalus
    OBVIOUS
  <2>2. NalusOf(ids, a)
    BY <1>1, <1>3, <2>1, ContextFields DEF StapOK, NalusOf
  <2>3. PICK e : e = Emit(c, ids, <<0>>, 0)
    OBVIOUS
  <2>4a. <<0>> \in Seq(Nat)
    OBVIOUS
  <2>4b. PICK parts \in Seq(Nat) : parts = <<0>>
    BY <2>4a
  <2>4. PICK of \in Nat : of = 0
    OBVIOUS
  <2>5. /\ PacketsOK(e, a) /\ SameCalls(c, e) /\ e.stap = c.stap /\ e.free = c.free
        /\ Len(e.queue) = Len(c.queue) + 1 /\ Emitted(c, e, ids, parts, of)
    <3>1. PacketsOK(c, a)
      BY <1>1
    <3>2. IsEmit(c, e, ids, parts, of)
      BY <2>3, <2>4, <2>4b DEF IsEmit
    <3>3. /\ PacketsOK(e, a) /\ SameCalls(c, e) /\ Emitted(c, e, ids, parts, of)
          /\ e.stap = c.stap /\ e.free = c.free
          /\ Len(e.queue) = Len(c.queue) + Len(parts)
      BY <2>2, <3>1, <3>2, EmitLemma
    <3>4. Len(parts) = 1
      BY <2>4b
    <3>5. QED  BY <3>3, <3>4
  <2>6. PICK d : d = FinishStapAPacket(c)
    OBVIOUS
  <2>7. d = [e EXCEPT !.stap = NoStap]
    BY <1>3, <2>1, <2>3, <2>6 DEF FinishStapAPacket
  <2>8. e \in Context /\ NoStap \in [nalus : Seq(Nat), size : Nat]
    BY <2>5 DEF PacketsOK, NoStap
  <2>9. /\ d \in Context /\ d.stap = NoStap /\ d.queue = e.queue /\ d.seqNum = e.seqNum
        /\ d.free = e.free /\ SameCalls(e, d)
    BY <2>7, <2>8 DEF Context, SameCalls
  <2>10. PacketsOK(d, a)
    BY <2>5, <2>9 DEF PacketsOK
  <2>11. PoolOK(d)
    BY SMTT(30), <1>1, <1>3, <2>5, <2>9, ContextFields DEF PoolOK, Pending
  <2>12. Emitted(c, d, c.stap.nalus, <<0>>, 0)
    BY <2>1, <2>4, <2>4b, <2>5, <2>9 DEF Emitted
  <2>13. QED  BY <2>5, <2>6, <2>9, <2>10, <2>11, <2>12 DEF ContextOK, StapOK, SameCalls
<1>4. QED  BY <1>2, <1>3

LEMMA OneNalu ==
    ASSUME nalus \in Seq(Nalu), NEW n \in DOMAIN nalus, NEW ids, ids = <<n>>
    PROVE  NalusOf(ids, nalus[n].au)
<1>1. /\ <<n>> \in Seq(Nat) /\ <<n>> # <<>> /\ <<n>>[1] = n
      /\ ToSet(<<n>>) \subseteq DOMAIN nalus
  BY DEF ToSet
<1>2. QED  BY <1>1 DEF NalusOf

(* Taking packets of the pool for NALUs of one access unit.                *)
LEMMA TakePackets ==
    ASSUME nalus \in Seq(Nalu), NEW c, NEW a \in Nat, ContextOK(c, a),
           NEW ids, NalusOf(ids, a), NEW parts \in Seq(Nat), NEW of \in Nat,
           NEW free \in Nat, c.free = free + Len(parts),
           NEW e, IsPool(c, e, free), NEW d, IsEmit(e, d, ids, parts, of)
    PROVE  /\ ContextOK(d, a) /\ d.stap = c.stap /\ SameCalls(c, d)
           /\ Emitted(c, d, ids, parts, of)
<1>1. c \in Context /\ PacketsOK(c, a) /\ StapOK(c, a) /\ PoolOK(c)
  BY DEF ContextOK, PacketsOK
<1>2. /\ e \in Context /\ e.free = free /\ e.queue = c.queue /\ e.seqNum = c.seqNum
      /\ e.stap = c.stap /\ SameCalls(c, e)
  BY <1>1 DEF Context, SameCalls, IsPool
<1>3. PacketsOK(e, a)
  BY <1>1, <1>2 DEF PacketsOK
<1>4. /\ PacketsOK(d, a) /\ SameCalls(e, d) /\ d.stap = e.stap /\ d.free = e.free
      /\ Len(d.queue) = Len(e.queue) + Len(parts) /\ Emitted(e, d, ids, parts, of)
  BY <1>3, EmitLemma
<1>5. StapOK(d, a)
  BY <1>1, <1>2, <1>4 DEF StapOK
<1>6. PoolOK(d)
  <2>1. PICK made \in Nat : made = Len(parts)
    OBVIOUS
  <2>2. PICK length \in Nat : length = Len(c.queue)
    BY <1>1, ContextFields
  <2>3. /\ d.free = free /\ c.free = free + made /\ Len(d.queue) = length + made
        /\ Pending(d) = Pending(c)
    BY <1>2, <1>4, <2>1, <2>2 DEF Pending
  <2>4. free + (length + made) = (free + made) + length
    OBVIOUS
  <2>5. QED  BY <1>1, <2>1, <2>2, <2>3, <2>4 DEF PoolOK, Pending
<1>7. Emitted(c, d, ids, parts, of)
  BY <1>2, <1>4 DEF Emitted
<1>8. QED  BY <1>2, <1>4, <1>5, <1>6, <1>7 DEF ContextOK, SameCalls

LEMMA MinOfTwo ==
    ASSUME NEW x \in Nat, NEW y \in Nat
    PROVE  /\ Min({x, y}) \in Nat /\ Min({x, y}) <= x /\ Min({x, y}) <= y
           /\ Min({x, y}) \in {x, y}
<1>1. {x, y} \subseteq Nat /\ {x, y} # {}
  OBVIOUS
<1>2. \E m \in {x, y} : \A z \in {x, y} : m <= z
  BY <1>1, MinExists
<1>3. QED  BY <1>1, <1>2 DEF Min

LEMMA AtLeastOne ==
    ASSUME NEW x \in Nat
    PROVE  Max({1, x}) \in Nat /\ Max({1, x}) > 0 /\ (x > 0 => Max({1, x}) = x)
<1>1. {1, x} \subseteq 0 .. x + 1 /\ {1, x} # {} /\ x + 1 \in Nat
  OBVIOUS
<1>2. Max({1, x}) \in {1, x} /\ Max({1, x}) >= 1 /\ Max({1, x}) >= x
  BY <1>1, MaxLemma
<1>3. QED  BY <1>2

(* A NALU that is fragmented has a number of fragments.                    *)
LEMMA FuACount ==
    ASSUME nalus \in Seq(Nalu), NEW n \in DOMAIN nalus, Fragmented(n)
    PROVE  FuAPacketCount(nalus[n].size) \in Nat /\ FuAPacketCount(nalus[n].size) > 0
<1> DEFINE cut(length) == Max({1, (length + MaxPacketSize - 3) \div (MaxPacketSize - 2)})
<1>1. PICK size \in Nat : size = nalus[n].size
  BY NaluFields
<1>2. PICK kind \in Kinds : size = kind.size
  BY <1>1, NaluFields
<1>3. MustFragment(kind.size)
  BY <1>1, <1>2 DEF Fragmented
<1>4. PICK count : count = FragmentCount(size)
  OBVIOUS
<1>5. /\ TargetPacketSize \in Nat /\ TargetPacketSize > 0
      /\ MaxPacketSize \in Nat /\ MaxPacketSize > 2
  BY SenderAssumption
<1>6. count \in Nat /\ count > 0
  <2>1. count > 0
    BY <1>2, <1>3, <1>4, FragmentAssumption
  <2>2. TargetPacketSize \div 2 \in Nat
    BY <1>5
  <2>3. PICK half \in Nat : half = TargetPacketSize \div 2
    BY <2>2
  <2>4. size + half \in Nat
    OBVIOUS
  <2>5. PICK top \in Nat : top = size + half
    BY <2>4
  <2>6. top \div TargetPacketSize \in Nat
    BY <1>5
  <2>7. QED  BY <1>4, <2>1, <2>3, <2>5, <2>6 DEF FragmentCount
<1>7. PICK mean \in Nat : mean = MeanFragmentSize(size)
  <2>1. PICK half \in Nat : half = count \div 2
    BY <1>6
  <2>2. PICK top \in Nat : top = size + half
    OBVIOUS
  <2>3. top \div count \in Nat
    BY <1>6
  <2>4. QED  BY <1>4, <2>1, <2>2, <2>3 DEF MeanFragmentSize
<1>8. ASSUME NEW length \in Nat
      PROVE  cut(length) \in Nat /\ cut(length) > 0
  <2>1. PICK top \in Nat : top = length + MaxPacketSize - 3
    BY <1>5
  <2>2. PICK step \in Nat : step = MaxPacketSize - 2 /\ step > 0
    BY <1>5
  <2>3. PICK x \in Nat : x = top \div step
    BY <2>2
  <2>4. QED  BY <2>1, <2>2, <2>3, AtLeastOne
<1>9. PICK most \in Nat : most = (count - 1) * mean /\ most < size
  <2>1. PICK m \in Nat : m = count - 1
    BY <1>6
  <2>2. m * mean \in Nat
    OBVIOUS
  <2>3. (count - 1) * mean < size
    BY <1>2, <1>3, <1>4, <1>7, FragmentAssumption
  <2>4. QED  BY <2>1, <2>2, <2>3
<1>10. PICK last \in Nat : last = size - 1 - (count - 1) * mean
  <2>1. size - 1 - most \in Nat
    BY <1>9
  <2>2. QED  BY <1>9, <2>1
<1>11. FuAPacketCount(size) = (count - 1) * cut(mean) + cut(last)
  BY <1>4, <1>7, <1>10 DEF FuAPacketCount
<1>12. PICK x \in Nat : x = cut(mean)
  BY <1>8
<1>13. PICK y \in Nat : y = cut(last) /\ y > 0
  BY <1>8
<1> HIDE DEF cut
<1>14. (count - 1) * x + y \in Nat /\ (count - 1) * x + y > 0
  <2>1. PICK m \in Nat : m = count - 1
    BY <1>6
  <2>2. PICK product \in Nat : product = m * x
    OBVIOUS
  <2>3. product + y \in Nat /\ product + y > 0
    BY <1>13
  <2>4. QED  BY <2>1, <2>2, <2>3
<1>15. QED  BY <1>1, <1>11, <1>12, <1>13, <1>14

LEMMA FuALemma ==
    ASSUME nalus \in Seq(Nalu), NEW c, NEW n \in DOMAIN nalus, Fragmented(n),
           ContextOK(c, nalus[n].au)
    PROVE  LET d == FuAPackets(c, n) IN
           ContextOK(d, nalus[n].au) /\ d.stap = c.stap /\ SameCalls(c, d)
<1>1. PICK count \in Nat : count = FuAPacketCount(nalus[n].size)
  BY FuACount
<1>2. c.free \in Nat
  BY ContextFields DEF ContextOK, PacketsOK
<1>3. PICK made \in Nat : made = Min({count, c.free}) /\ made <= c.free
  BY <1>2, MinOfTwo
<1>4. PICK parts \in Seq(Nat) : parts = [i \in 1 .. made |-> i] /\ Len(parts) = made
  <2>1. [i \in 1 .. made |-> i] \in Seq(Nat) /\ Len([i \in 1 .. made |-> i]) = made
    OBVIOUS
  <2>2. QED  BY <2>1
<1>5. PICK e : e = Emit([c EXCEPT !.free = @ - made], <<n>>, parts, count)
  OBVIOUS
<1>6. ContextOK(e, nalus[n].au) /\ e.stap = c.stap /\ SameCalls(c, e)
  <2>1. PICK ids : ids = <<n>>
    OBVIOUS
  <2>2. PICK free \in Nat : free = c.free - made
    BY <1>2, <1>3
  <2>3. PICK f : IsPool(c, f, free)
    BY DEF IsPool
  <2>4. IsEmit(f, e, ids, parts, count)
    BY <1>5, <2>1, <2>2, <2>3 DEF IsPool, IsEmit
  <2>5. c.free = free + Len(parts)
    BY <1>2, <1>4, <2>2
  <2>6. NalusOf(ids, nalus[n].au) /\ nalus[n].au \in Nat
    BY <2>1, OneNalu, NaluFields
  <2>7. QED  BY <2>3, <2>4, <2>5, <2>6, TakePackets
<1>7. FuAPackets(c, n) = IF made = count THEN e ELSE PacketFifoFlush(e)
  BY <1>1, <1>3, <1>4, <1>5 DEF FuAPackets
<1>8. nalus[n].au \in Nat
  BY NaluFields
<1>9. CASE made = count
  BY <1>6, <1>7, <1>9
<1>10. CASE made # count
  <2>1. PICK d : d = PacketFifoFlush(e)
    OBVIOUS
  <2>2. ContextOK(d, nalus[n].au) /\ d.stap = e.stap /\ SameCalls(e, d)
    BY <1>6, <1>8, <2>1, FlushLemma
  <2>3. QED  BY <1>6, <1>7, <1>10, <2>1, <2>2 DEF SameCalls
<1>11. QED  BY <1>9, <1>10

LEMMA SingleLemma ==
    ASSUME nalus \in Seq(Nalu), NEW c, NEW n \in DOMAIN nalus,
           ContextOK(c, nalus[n].au)
    PROVE  LET d == SingleNaluPacket(c, n) IN
           ContextOK(d, nalus[n].au) /\ d.stap = c.stap /\ SameCalls(c, d)
<1>1. c.free \in Nat /\ nalus[n].au \in Nat
  BY ContextFields, NaluFields DEF ContextOK, PacketsOK
<1>2. CASE c.free > 0
  <2>1. <<1>> \in Seq(Nat)
    OBVIOUS
  <2>2. PICK parts \in Seq(Nat) : parts = <<1>>
    BY <2>1
  <2>3. PICK free \in Nat : free = c.free - 1
    BY <1>1, <1>2
  <2>4. c.free = free + Len(parts)
    BY <1>1, <2>2, <2>3
  <2>5. PICK ids : ids = <<n>>
    OBVIOUS
  <2>6. PICK one \in Nat : one = 1
    OBVIOUS
  <2>7. PICK e : IsPool(c, e, free)
    BY DEF IsPool
  <2>8. PICK d : IsEmit(e, d, ids, parts, one)
    BY DEF IsEmit
  <2>9. NalusOf(ids, nalus[n].au)
    BY <2>5, OneNalu
  <2>10. ContextOK(d, nalus[n].au) /\ d.stap = c.stap /\ SameCalls(c, d)
    <3>1. PICK a \in Nat : a = nalus[n].au
      BY <1>1
    <3>2. ContextOK(c, a) /\ NalusOf(ids, a)
      BY <2>9, <3>1
    <3>3. ContextOK(d, a) /\ d.stap = c.stap /\ SameCalls(c, d)
      BY <2>4, <2>7, <2>8, <3>2, TakePackets
    <3>4. QED  BY <3>1, <3>3
  <2>11. SingleNaluPacket(c, n) = d
    BY <1>2, <2>2, <2>3, <2>5, <2>6, <2>7, <2>8 DEF SingleNaluPacket, IsPool, IsEmit
  <2>12. QED  BY <2>10, <2>11
<1>3. CASE ~(c.free > 0)
  <2>1. SingleNaluPacket(c, n) = PacketFifoFlush(c)
    BY <1>3 DEF SingleNaluPacket
  <2>2. QED  BY <1>1, <2>1, FlushLemma
<1>4. QED  BY <1>2, <1>3

LEMMA SumLemma ==
    ASSUME NEW w \in Nat, NEW x \in Nat, NEW y \in Nat, NEW z \in Nat, w + 1 = x + z
    PROVE  w + y + 1 = x + y + z
  OBVIOUS

(* A new state of the STAP-A, whose packet comes from the pool.            *)
LEMMA StapLemma ==
    ASSUME NEW c, NEW d, NEW a \in Nat, ContextOK(c, a), NEW free \in Nat,
           NEW ids, NalusOf(ids, a), NEW size \in Nat, size > 0, size <= MaxPacketSize,
           free + 1 = c.free + Pending(c),
           d = [c EXCEPT !.free = free, !.stap = [nalus |-> ids, size |-> size]]
    PROVE  ContextOK(d, a) /\ SameCalls(c, d)
<1>1. c \in Context /\ PacketsOK(c, a) /\ PoolOK(c)
  BY DEF ContextOK, PacketsOK
<1>2. PICK stap \in [nalus : Seq(Nat), size : Nat] :
          stap = [nalus |-> ids, size |-> size]
  BY DEF NalusOf
<1>3. stap.nalus = ids /\ stap.size = size
  BY <1>2
<1>4. d = [c EXCEPT !.free = free, !.stap = stap]
  BY <1>2
<1>5. /\ d \in Context /\ d.queue = c.queue /\ d.seqNum = c.seqNum /\ d.stap = stap
      /\ d.free = free
  BY <1>1, <1>4 DEF Context
<1>6. SameCalls(c, d)
  BY <1>1, <1>4 DEF Context, SameCalls
<1>7. PacketsOK(d, a)
  BY <1>1, <1>5 DEF PacketsOK
<1>8. StapOK(d, a)
  BY <1>3, <1>5 DEF StapOK, NalusOf
<1>9. stap # NoStap
  BY <1>3 DEF NoStap
<1>10. PoolOK(d)
  <2>1. Pending(d) = 1
    BY <1>5, <1>9 DEF Pending
  <2>2. Pending(c) \in 0 .. 1
    BY DEF Pending
  <2>3. c.free \in Nat /\ Len(c.queue) \in Nat
    BY <1>1, ContextFields
  <2>4. c.free + Len(c.queue) + Pending(c) = PoolSize
    BY <1>1 DEF PoolOK
  <2>5. free + Len(c.queue) + 1 = PoolSize
    <3>1. /\ \E x \in Nat : x = c.free
          /\ \E x \in Nat : x = Len(c.queue)
          /\ \E x \in Nat : x = Pending(c)
      BY SMTT(30), <2>2, <2>3
    <3>2. PICK f \in Nat, l \in Nat, p \in Nat :
              f = c.free /\ l = Len(c.queue) /\ p = Pending(c)
      BY <3>1
    <3>3. f + l + p = PoolSize /\ free + 1 = f + p
      BY <2>4, <3>2
    <3>4. free + l + 1 = f + l + p
      BY <3>3, SumLemma
    <3>5. QED  BY <3>2, <3>3, <3>4
  <2>6. QED  BY <1>5, <2>1, <2>5 DEF PoolOK
<1>11. QED  BY <1>6, <1>7, <1>8, <1>10 DEF ContextOK

(* A NALU that fits goes into the STAP-A that is pending, or into a new    *)
(* one.                                                                    *)
LEMMA AggregateLemma ==
    ASSUME nalus \in Seq(Nalu), NEW c, NEW n \in DOMAIN nalus,
           ContextOK(c, nalus[n].au), NEW newSize \in Nat,
           newSize >= 2 + nalus[n].size, c.stap.size + newSize < MaxPacketSize
    PROVE  LET d == AppendToStapAPacket(IF c.stap = NoStap THEN BeginStapAPacket(c)
                                                            ELSE c, n)
           IN  ContextOK(d, nalus[n].au) /\ SameCalls(c, d)
<1>1. PICK a \in Nat : a = nalus[n].au
  BY NaluFields
<1>2. PICK m \in Nat : m = nalus[n].size
  BY NaluFields
<1>3. c \in Context /\ ContextOK(c, a) /\ StapOK(c, a)
  BY <1>1 DEF ContextOK, PacketsOK
<1>4. c.free \in Nat /\ c.stap \in [nalus : Seq(Nat), size : Nat]
  BY <1>3, ContextFields
<1>5. MaxPacketSize \in Nat /\ n \in Nat
  BY SenderAssumption
<1>6. CASE c.stap # NoStap
  <2>1. PICK ids \in Seq(Nat) : ids = c.stap.nalus
    BY <1>4
  <2>2. PICK old \in Nat : old = c.stap.size
    BY <1>4
  <2>3. /\ ids # <<>> /\ ToSet(ids) \subseteq DOMAIN nalus /\ nalus[ids[1]].au = a
        /\ old > 0
    BY <1>3, <1>6, <2>1, <2>2 DEF StapOK
  <2>4. PICK more : more = Append(ids, n)
    OBVIOUS
  <2>5. /\ more \in Seq(Nat) /\ more # <<>> /\ more[1] = ids[1]
        /\ ToSet(more) = ToSet(ids) \cup {n}
    <3>1. /\ Append(ids, n) \in Seq(Nat) /\ Len(Append(ids, n)) = Len(ids) + 1
          /\ ToSet(Append(ids, n)) = ToSet(ids) \cup {n}
          /\ \A i \in 1 .. Len(ids) : Append(ids, n)[i] = ids[i]
      BY <1>5, ToSetAppend
    <3>2. Len(ids) > 0 /\ Len(ids) \in Nat
      BY <2>3
    <3>3. /\ more \in Seq(Nat) /\ Len(more) = Len(ids) + 1
          /\ ToSet(more) = ToSet(ids) \cup {n} /\ more[1] = ids[1]
      BY <2>4, <3>1, <3>2
    <3>4. QED  BY <3>2, <3>3
  <2>6. NalusOf(more, a)
    BY <2>3, <2>5 DEF NalusOf
  <2>7. PICK size \in Nat : size = old + 2 + m /\ size > 0 /\ size <= MaxPacketSize
    <3>1. old + newSize < MaxPacketSize /\ newSize >= 2 + m
      BY <1>2, <2>2
    <3>2. old + 2 + m <= MaxPacketSize /\ old + 2 + m \in Nat /\ old + 2 + m > 0
      BY <1>5, <3>1
    <3>3. QED  BY <3>2
  <2>8. PICK free \in Nat : free = c.free
    BY <1>4
  <2>9. PICK d : d = AppendToStapAPacket(c, n)
    OBVIOUS
  <2>10. d = [c EXCEPT !.stap = [nalus |-> more, size |-> size]]
    BY <1>2, <2>1, <2>2, <2>3, <2>4, <2>7, <2>9 DEF AppendToStapAPacket
  <2>11. d = [c EXCEPT !.free = free, !.stap = [nalus |-> more, size |-> size]]
    BY <1>3, <2>8, <2>10 DEF Context
  <2>12. free + 1 = c.free + Pending(c)
    BY <1>6, <2>8 DEF Pending
  <2>13. ContextOK(d, a) /\ SameCalls(c, d)
    BY <1>3, <2>6, <2>7, <2>11, <2>12, StapLemma
  <2>14. QED  BY <1>1, <1>6, <2>9, <2>13
<1>7. CASE c.stap = NoStap /\ c.free > 0
  <2>0. <<n>> \in Seq(Nat)
    BY <1>5
  <2>1. PICK ids \in Seq(Nat) : ids = <<n>>
    BY <2>0
  <2>2. ids # <<>> /\ ids[1] = n /\ ToSet(ids) \subseteq DOMAIN nalus
    BY <2>1 DEF ToSet
  <2>3. NalusOf(ids, a)
    BY <1>1, <2>2 DEF NalusOf
  <2>4. PICK size \in Nat : size = 3 + m /\ size > 0 /\ size <= MaxPacketSize
    <3>1. c.stap.size = 0
      BY <1>7 DEF NoStap
    <3>2. newSize < MaxPacketSize
      BY <3>1
    <3>3. QED  BY <1>2, <1>5, <3>2
  <2>5. PICK free \in Nat : free = c.free - 1
    BY <1>4, <1>7
  <2>6. PICK e : e = BeginStapAPacket(c)
    OBVIOUS
  <2>7. e = [c EXCEPT !.free = free, !.stap = [nalus |-> <<>>, size |-> 1]]
    <3>1. e = [c EXCEPT !.free = c.free - 1, !.stap = [nalus |-> <<>>, size |-> 1]]
      BY <1>7, <2>6 DEF BeginStapAPacket
    <3>2. QED  BY <2>5, <3>1
  <2>8. e.stap.size = 1 /\ e.stap.nalus = <<>>
    BY <1>3, <2>7 DEF Context
  <2>9. PICK d : d = AppendToStapAPacket(e, n)
    OBVIOUS
  <2>10. d = [c EXCEPT !.free = free, !.stap = [nalus |-> ids, size |-> size]]
    <3>1. Append(<<>>, n) = ids
      BY <2>1
    <3>2. e.stap.size + 2 + m = size
      BY <2>4, <2>8
    <3>3. d = [e EXCEPT !.stap = [nalus |-> ids, size |-> size]]
      BY SMTT(30), <1>2, <2>8, <2>9, <3>1, <3>2 DEF AppendToStapAPacket
    <3>4. PICK new : new = [nalus |-> ids, size |-> size]
      OBVIOUS
    <3>5. PICK old : old = [nalus |-> <<>>, size |-> 1]
      OBVIOUS
    <3>6. e = [c EXCEPT !.free = free, !.stap = old] /\ d = [e EXCEPT !.stap = new]
      BY <2>7, <3>3, <3>4, <3>5
    <3>7. d = [c EXCEPT !.free = free, !.stap = new]
      BY <1>3, <3>6 DEF Context
    <3>8. QED  BY <3>4, <3>7
  <2>11. free + 1 = c.free + Pending(c)
    BY <1>4, <1>7, <2>5 DEF Pending
  <2>12. ContextOK(d, a) /\ SameCalls(c, d)
    BY <1>3, <2>3, <2>4, <2>10, <2>11, StapLemma
  <2>13. QED  BY <1>1, <1>7, <2>6, <2>9, <2>12
<1>8. CASE c.stap = NoStap /\ ~(c.free > 0)
  <2>1. PICK e : e = PacketFifoFlush(c)
    OBVIOUS
  <2>2. BeginStapAPacket(c) = e
    BY <1>8, <2>1 DEF BeginStapAPacket
  <2>3. ContextOK(e, a) /\ e.stap = c.stap /\ SameCalls(c, e)
    BY <1>3, <2>1, FlushLemma
  <2>4. AppendToStapAPacket(e, n) = e
    BY <1>8, <2>3 DEF AppendToStapAPacket, NoStap
  <2>5. QED  BY <1>1, <1>8, <2>2, <2>3, <2>4
<1>9. QED  BY <1>6, <1>7, <1>8

LEMMA MakeRoomLemma ==
    ASSUME nalus \in Seq(Nalu), NEW c, NEW n \in DOMAIN nalus, NEW newSize,
           ContextOK(c, nalus[n].au)
    PROVE  LET d == MakeRoom(c, n, newSize) IN
           ContextOK(d, nalus[n].au) /\ SameCalls(c, d)
<1>1. nalus[n].au \in Nat
  BY NaluFields
<1>2. CASE Fragmented(n) \/ Full(c, newSize)
  <2>1. PICK d : d = FinishStapAPacket(c)
    OBVIOUS
  <2>2. ContextOK(d, nalus[n].au) /\ SameCalls(c, d)
    BY <1>1, <2>1, FinishLemma
  <2>3. QED  BY <1>2, <2>1, <2>2 DEF MakeRoom
<1>3. CASE ~(Fragmented(n) \/ Full(c, newSize))
  BY <1>3 DEF MakeRoom, SameCalls
<1>4. QED  BY <1>2, <1>3

LEMMA PlaceLemma ==
    ASSUME nalus \in Seq(Nalu), NEW c, NEW n \in DOMAIN nalus,
           NEW newSize \in Nat, newSize >= 2 + nalus[n].size, ContextOK(c, nalus[n].au)
    PROVE  LET d == Place(c, n, newSize) IN
           ContextOK(d, nalus[n].au) /\ SameCalls(c, d)
<1>1. CASE Fragmented(n)
  <2>1. PICK d : d = FuAPackets(c, n)
    OBVIOUS
  <2>2. ContextOK(d, nalus[n].au) /\ SameCalls(c, d)
    BY <1>1, <2>1, FuALemma
  <2>3. QED  BY <1>1, <2>1, <2>2 DEF Place
<1>2. CASE ~Fragmented(n) /\ Full(c, newSize)
  <2>1. PICK d : d = SingleNaluPacket(c, n)
    OBVIOUS
  <2>2. ContextOK(d, nalus[n].au) /\ SameCalls(c, d)
    BY <2>1, SingleLemma
  <2>3. QED  BY <1>2, <2>1, <2>2 DEF Place
<1>3. CASE ~Fragmented(n) /\ ~Full(c, newSize)
  <2>1. c.stap \in [nalus : Seq(Nat), size : Nat]
    BY ContextFields DEF ContextOK, PacketsOK
  <2>2. PICK old \in Nat : old = c.stap.size
    BY <2>1
  <2>3. ~(old + newSize >= MaxPacketSize) /\ MaxPacketSize \in Nat
    BY <1>3, <2>2, SenderAssumption DEF Full
  <2>4. old + newSize < MaxPacketSize
    BY <2>3
  <2>5. c.stap.size + newSize < MaxPacketSize
    BY <2>2, <2>4
  <2>6. PICK d : d = AppendToStapAPacket(IF c.stap = NoStap THEN BeginStapAPacket(c)
                                                             ELSE c, n)
    OBVIOUS
  <2>7. ContextOK(d, nalus[n].au) /\ SameCalls(c, d)
    BY <2>5, <2>6, AggregateLemma
  <2>8. QED  BY <1>3, <2>6, <2>7 DEF Place
<1>4. QED  BY <1>1, <1>2, <1>3

(* A change of the sequence number.                                        *)
LEMMA NumberLemma ==
    ASSUME NEW c, NEW a \in Nat, ContextOK(c, a), NEW seqNum \in Nat,
           flushes = 0 => seqNum >= c.seqNum
    PROVE  LET d == [c EXCEPT !.seqNum = seqNum] IN
           ContextOK(d, a) /\ d.stap = c.stap /\ SameCalls(c, d)
<1>1. /\ c \in Context /\ PacketsOK(c, a) /\ StapOK(c, a) /\ PoolOK(c)
      /\ wire \in Seq(Packet)
  BY DEF ContextOK, PacketsOK
<1>2. PICK d : d = [c EXCEPT !.seqNum = seqNum]
  OBVIOUS
<1>3. /\ d \in Context /\ d.queue = c.queue /\ d.seqNum = seqNum /\ d.stap = c.stap
      /\ d.free = c.free
  BY <1>1, <1>2 DEF Context
<1>4. SameCalls(c, d)
  BY <1>1, <1>2 DEF Context, SameCalls
<1>5. ASSUME NEW p \in ToSet(c.queue) \cup ToSet(wire)
      PROVE  Made(p, a, seqNum)
  <2>1. Made(p, a, c.seqNum)
    BY <1>1 DEF PacketsOK
  <2>2. p.seqNum \in Nat /\ c.seqNum \in Nat
    BY <1>1, ToSetType, PacketFields, ContextFields
  <2>3. flushes = 0 => p.seqNum < seqNum
    BY <2>1, <2>2 DEF Made
  <2>4. QED  BY <2>1, <2>3 DEF Made
<1>6. PacketsOK(d, a)
  BY <1>1, <1>3, <1>5 DEF PacketsOK
<1>7. StapOK(d, a) /\ PoolOK(d)
  BY <1>1, <1>3 DEF StapOK, PoolOK, Pending
<1>8. QED  BY <1>2, <1>3, <1>4, <1>6, <1>7 DEF ContextOK

LEMMA DropLemma ==
    ASSUME NEW c, NEW a \in Nat, ContextOK(c, a)
    PROVE  LET d == NaluDrop(c) IN ContextOK(d, a) /\ SameCalls(c, d)
<1>1. c \in Context /\ c.seqNum \in Nat
  BY ContextFields DEF ContextOK, PacketsOK
<1>2. PICK seqNum \in Nat : seqNum = c.seqNum + 1
  BY <1>1
<1>3. NaluDrop(c) = [c EXCEPT !.seqNum = seqNum]
  BY <1>2 DEF NaluDrop
<1>4. seqNum >= c.seqNum
  BY <1>1, <1>2
<1>5. PICK d : d = [c EXCEPT !.seqNum = seqNum]
  OBVIOUS
<1>6. ContextOK(d, a) /\ SameCalls(c, d)
  BY <1>4, <1>5, NumberLemma
<1>7. QED  BY <1>3, <1>5, <1>6

-----------------------------------------------------------------------------
(* The callbacks of access units.                                          *)

(* d comes from c by the callback for access unit au.                      *)
CalledBack(c, d, au) ==
    /\ d.previousAu = c.previousAu
    /\ d.lastCallbackAu = au
    /\ d.auCalls = IF au = c.lastCallbackAu THEN c.auCalls ELSE Append(c.auCalls, au)

LEMMA CallbackLemma ==
    ASSUME NEW c, NEW a \in Nat, ContextOK(c, a), NEW au \in Nat
    PROVE  LET d == AuCallback(c, au) IN
           ContextOK(d, a) /\ d.stap = c.stap /\ CalledBack(c, d, au)
<1>1. /\ c \in Context /\ PacketsOK(c, a) /\ StapOK(c, a) /\ PoolOK(c)
      /\ wire \in Seq(Packet)
  BY DEF ContextOK, PacketsOK
<1>2. CASE au = c.lastCallbackAu
  <2>1. AuCallback(c, au) = c
    BY <1>2 DEF AuCallback
  <2>2. QED  BY <1>2, <2>1 DEF CalledBack
<1>3. CASE au # c.lastCallbackAu
  <2>1. PICK d : d = AuCallback(c, au)
    OBVIOUS
  <2>2. PICK auCalls : auCalls = Append(c.auCalls, au)
    OBVIOUS
  <2>3. auCalls \in Seq(Nat)
    <3>1. c.auCalls \in Seq(Nat)
      BY <1>1, ContextFields
    <3>2. QED  BY <2>2, <3>1
  <2>4. d = [c EXCEPT !.lastCallbackAu = au, !.auCalls = auCalls]
    BY <1>3, <2>1, <2>2 DEF AuCallback
  <2>5. /\ d \in Context /\ d.queue = c.queue /\ d.seqNum = c.seqNum /\ d.stap = c.stap
        /\ d.free = c.free
    BY <1>1, <2>3, <2>4 DEF Context
  <2>6. d.previousAu = c.previousAu /\ d.lastCallbackAu = au /\ d.auCalls = auCalls
    BY <1>1, <2>4 DEF Context
  <2>7. PacketsOK(d, a)
    BY <1>1, <2>5 DEF PacketsOK
  <2>8. StapOK(d, a) /\ PoolOK(d)
    BY <1>1, <2>5 DEF StapOK, PoolOK, Pending
  <2>9. CalledBack(c, d, au)
    BY <1>3, <2>2, <2>6 DEF CalledBack
  <2>10. QED  BY <2>1, <2>5, <2>7, <2>8, <2>9 DEF ContextOK
<1>4. QED  BY <1>2, <1>3

(* Completing a later access unit keeps the order.                         *)
LEMMA CallsLemma ==
    ASSUME NEW c \in Context, NEW d, NEW au \in Nat, CalledBack(c, d, au), CallsOK(c),
           flushes = 0 => c.lastCallbackAu <= au
    PROVE  CallsOK(d)
<1>1. SUFFICES ASSUME flushes = 0
               PROVE  /\ \A i, j \in DOMAIN d.auCalls : i < j => d.auCalls[i] < d.auCalls[j]
                      /\ \A i \in DOMAIN d.auCalls : d.auCalls[i] <= d.lastCallbackAu
  BY DEF CallsOK
<1>2. PICK q \in Seq(Nat), last \in Nat : q = c.auCalls /\ last = c.lastCallbackAu
  BY ContextFields
<1>3. /\ \A i, j \in DOMAIN q : i < j => q[i] < q[j]
      /\ \A i \in DOMAIN q : q[i] <= last
      /\ last <= au
  BY <1>1, <1>2 DEF CallsOK
<1>4. d.lastCallbackAu = au
  BY DEF CalledBack
<1>5. CASE au = last
  BY <1>2, <1>3, <1>4, <1>5 DEF CalledBack
<1>6. CASE au # last
  <2>1. PICK t : t = Append(q, au)
    OBVIOUS
  <2>2. d.auCalls = t
    BY <1>2, <1>6, <2>1 DEF CalledBack
  <2>3. /\ Len(q) \in Nat /\ DOMAIN q = 1 .. Len(q) /\ DOMAIN t = 1 .. Len(q) + 1
        /\ \A i \in 1 .. Len(q) : t[i] = q[i] /\ q[i] \in Nat
        /\ t[Len(q) + 1] = au
    BY <2>1
  <2>4. \A i \in DOMAIN q : q[i] < au
    BY <1>3, <1>6, <2>3
  <2>5. \A i, j \in DOMAIN t : i < j => t[i] < t[j]
    BY SMTT(30), <1>3, <2>3, <2>4
  <2>6. \A i \in DOMAIN t : t[i] <= au
    BY <2>3, <2>4
  <2>7. QED  BY <1>4, <2>2, <2>5, <2>6
<1>7. QED  BY <1>5, <1>6

(* The first NALU of an access unit: the packetizer goes to that one, and  *)
(* the previous one is completed if there is one.                          *)
LEMMA NewAuLemma ==
    ASSUME nalus \in Seq(Nalu), NEW c, NEW n \in DOMAIN nalus,
           ContextOK(c, c.previousAu), c.previousAu <= nalus[n].au
    PROVE  LET d == NewAu(c, n) IN
           /\ ContextOK(d, nalus[n].au)
           /\ \/ SameCalls(c, d)
              \/ c.previousAu # nalus[n].au /\ CalledBack(c, d, c.previousAu)
<1>1. PICK a \in Nat : a = c.previousAu
  BY ContextFields DEF ContextOK, PacketsOK
<1>2. PICK b \in Nat : b = nalus[n].au
  BY NaluFields
<1>3. ContextOK(c, a) /\ a <= b /\ c \in Context
  BY <1>1, <1>2 DEF ContextOK, PacketsOK
<1>4. CASE a = 0
  <2>1. c.stap = NoStap
    <3>1. SUFFICES ASSUME c.stap # NoStap PROVE FALSE
      OBVIOUS
    <3>2. /\ c.stap.nalus # <<>> /\ ToSet(c.stap.nalus) \subseteq DOMAIN nalus
          /\ nalus[c.stap.nalus[1]].au = a
      BY <1>3, <3>1 DEF ContextOK, StapOK
    <3>3. c.stap.nalus \in Seq(Nat)
      BY <1>3, ContextFields
    <3>4. c.stap.nalus[1] \in DOMAIN nalus
      BY <3>2, <3>3 DEF ToSet
    <3>5. QED  BY <1>4, <3>2, <3>4, NaluFields
  <2>2. ContextOK(c, b)
    BY <1>3, <2>1, RaiseLemma
  <2>3. NewAu(c, n) = c
    BY <1>1, <1>4 DEF NewAu
  <2>4. QED  BY <1>2, <2>2, <2>3 DEF SameCalls
<1>5. CASE a = b
  <2>1. NewAu(c, n) = c
    BY <1>1, <1>2, <1>5 DEF NewAu
  <2>2. QED  BY <1>2, <1>3, <1>5, <2>1 DEF SameCalls
<1>6. CASE a # 0 /\ a # b
  <2>1. PICK e : e = FinishStapAPacket(c)
    OBVIOUS
  <2>2. ContextOK(e, a) /\ e.stap = NoStap /\ SameCalls(c, e)
    BY <1>3, <2>1, FinishLemma
  <2>3. PICK d : d = AuCallback(e, a)
    OBVIOUS
  <2>4. ContextOK(d, a) /\ d.stap = NoStap /\ CalledBack(e, d, a)
    BY <2>2, <2>3, CallbackLemma
  <2>5. ContextOK(d, b)
    BY <1>3, <2>4, RaiseLemma
  <2>6. NewAu(c, n) = d
    BY <1>1, <1>2, <1>6, <2>1, <2>3 DEF NewAu
  <2>7. CalledBack(c, d, a)
    BY <2>2, <2>4 DEF SameCalls, CalledBack
  <2>8. QED  BY <1>1, <1>2, <1>6, <2>5, <2>6, <2>7
<1>7. QED  BY <1>4, <1>5, <1>6

(* The end of a NALU completes its access unit if it is the last one.      *)
LEMMA LastInAuLemma ==
    ASSUME nalus \in Seq(Nalu), NEW c, NEW a \in Nat, NEW n \in DOMAIN nalus,
           ContextOK(c, a)
    PROVE  LET d == LastInAu(c, n) IN
           /\ ContextOK(d, a)
           /\ \/ ~nalus[n].isLast /\ SameCalls(c, d)
              \/ nalus[n].isLast /\ CalledBack(c, d, nalus[n].au)
<1>1. nalus[n].au \in Nat
  BY NaluFields
<1>2. CASE nalus[n].isLast
  <2>1. PICK d : d = AuCallback(c, nalus[n].au)
    OBVIOUS
  <2>2. ContextOK(d, a) /\ CalledBack(c, d, nalus[n].au)
    BY <1>1, <2>1, CallbackLemma
  <2>3. QED  BY <1>2, <2>1, <2>2 DEF LastInAu
<1>3. CASE ~nalus[n].isLast
  BY <1>3 DEF LastInAu, SameCalls
<1>4. QED  BY <1>2, <1>3

LEMMA NewStapSizeLemma ==
    ASSUME NEW c, NEW n, nalus[n].size \in Nat
    PROVE  \E newSize \in Nat : newSize = NewStapSize(c, n) /\ newSize >= 2 + nalus[n].size
<1>1. RtpHeaderSize \in Nat
  BY SenderAssumption
<1>2. PICK more \in Nat : more = IF c.stap = NoStap THEN RtpHeaderSize + 1 ELSE 0
  BY <1>1
<1>3. PICK size \in Nat : size = nalus[n].size
  OBVIOUS
<1>4. PICK newSize \in Nat : newSize = more + 2 + size /\ newSize >= 2 + size
  OBVIOUS
<1>5. newSize = NewStapSize(c, n)
  BY <1>2, <1>3, <1>4 DEF NewStapSize
<1>6. QED  BY <1>3, <1>4, <1>5

(* What the thread makes of a NALU, dropped or placed.                     *)
LEMMA MadeLemma ==
    ASSUME nalus \in Seq(Nalu), NEW c, NEW n \in DOMAIN nalus, ContextOK(c, nalus[n].au),
           NEW d \in {NaluDrop(c),
                      FinishLast(Place(MakeRoom(c, n, NewStapSize(c, n)), n,
                                       NewStapSize(c, n)), n)}
    PROVE  ContextOK(d, nalus[n].au) /\ SameCalls(c, d)
<1>1. nalus[n].au \in Nat /\ nalus[n].size \in Nat
  BY NaluFields
<1>2. CASE d = NaluDrop(c)
  BY <1>1, <1>2, DropLemma
<1>3. CASE d # NaluDrop(c)
  <2>1. PICK newSize \in Nat : newSize = NewStapSize(c, n) /\ newSize >= 2 + nalus[n].size
    BY <1>1, NewStapSizeLemma
  <2>2. PICK room : room = MakeRoom(c, n, newSize)
    OBVIOUS
  <2>3. ContextOK(room, nalus[n].au) /\ SameCalls(c, room)
    BY <2>2, MakeRoomLemma
  <2>4. PICK placed : placed = Place(room, n, newSize)
    OBVIOUS
  <2>5. ContextOK(placed, nalus[n].au) /\ SameCalls(room, placed)
    BY <2>1, <2>3, <2>4, PlaceLemma
  <2>6. d = FinishLast(placed, n)
    BY <1>3, <2>1, <2>2, <2>4
  <2>7. CASE nalus[n].isLast
    <3>1. d = FinishStapAPacket(placed)
      BY <2>6, <2>7 DEF FinishLast
    <3>2. ContextOK(d, nalus[n].au) /\ SameCalls(placed, d)
      BY <1>1, <2>5, <3>1, FinishLemma
    <3>3. QED  BY <2>3, <2>5, <3>2 DEF SameCalls
  <2>8. CASE ~nalus[n].isLast
    BY <2>3, <2>5, <2>6, <2>8 DEF FinishLast, SameCalls
  <2>9. QED  BY <2>7, <2>8
<1>4. QED  BY <1>2, <1>3

(* No access unit that is still to be submitted is before a submitted one. *)
LEMMA AusBound ==
    ASSUME nalus \in Seq(Nalu), AusInOrder, NEW m \in DOMAIN nalus, NEW x \in NextAus
    PROVE  nalus[m].au <= x /\ (nalus[m].isLast => nalus[m].au < x)
<1>1. /\ Len(nalus) \in Nat /\ DOMAIN nalus = 1 .. Len(nalus) /\ nalus # <<>>
      /\ Len(nalus) \in DOMAIN nalus /\ Last(nalus) = nalus[Len(nalus)]
  BY DEF Last
<1>2. PICK last \in Nalu : last = nalus[Len(nalus)]
  BY <1>1
<1>3. PICK nalu0 \in Nalu : nalu0 = nalus[m]
  OBVIOUS
<1>4. last.au \in Nat /\ nalu0.au \in Nat /\ last.isLast \in BOOLEAN
  BY DEF Nalu
<1>5. x \in (IF last.isLast THEN {last.au + 1} ELSE {last.au, last.au + 1})
  BY <1>1, <1>2 DEF NextAus
<1>6. CASE m = Len(nalus)
  <2>1. nalu0 = last
    BY <1>2, <1>3, <1>6
  <2>2. nalu0.au <= x /\ (nalu0.isLast => nalu0.au < x)
    BY <1>4, <1>5, <2>1
  <2>3. QED  BY <1>3, <2>2
<1>7. CASE m # Len(nalus)
  <2>1. m < Len(nalus)
    BY <1>1, <1>7
  <2>2. nalu0.au <= last.au /\ (nalu0.isLast => nalu0.au < last.au)
    BY <1>1, <1>2, <1>3, <2>1 DEF AusInOrder
  <2>3. nalu0.au <= x /\ (nalu0.isLast => nalu0.au < x)
    BY <1>4, <1>5, <2>2
  <2>4. QED  BY <1>3, <2>3
<1>8. QED  BY <1>6, <1>7

-----------------------------------------------------------------------------
(* The invariant is kept.                                                  *)

LEMMA IInvInit == Init => IInv
<1> SUFFICES ASSUME Init PROVE IInv
  OBVIOUS
<1>1. Custody
  BY CustodyInit
<1>2. /\ nalus = <<>> /\ naluFifo = <<>> /\ wire = <<>> /\ nalu = 0 /\ appSeqNum = 0
      /\ s = [seqNum |-> 0, stap |-> NoStap, previousAu |-> 0, lastCallbackAu |-> 0,
              queue |-> <<>>, free |-> PoolSize, auCalls |-> <<>>]
  BY DEF Init, NoNalu
<1>3. PoolSize \in Nat /\ NoStap \in [nalus : Seq(Nat), size : Nat]
  BY SenderAssumption DEF NoStap
<1>4. PICK stap \in [nalus : Seq(Nat), size : Nat] : stap = NoStap
  BY <1>3
<1>5. /\ s \in Context /\ s.seqNum = 0 /\ s.stap = NoStap /\ s.previousAu = 0
      /\ s.lastCallbackAu = 0 /\ s.queue = <<>> /\ s.free = PoolSize /\ s.auCalls = <<>>
  <2>1. s = [seqNum |-> 0, stap |-> stap, previousAu |-> 0, lastCallbackAu |-> 0,
             queue |-> <<>>, free |-> PoolSize, auCalls |-> <<>>]
    BY <1>2, <1>4
  <2>2. QED  BY <1>3, <1>4, <2>1 DEF Context
<1>6. Ahead = {} /\ NextAus = {1}
  BY <1>2 DEF Ahead, NextAus, NoNalu, ToSet
<1>7. PacketsOK(s, s.previousAu)
  BY <1>2, <1>5 DEF PacketsOK, InOrder, ToSet
<1>8. PoolOK(s)
  BY <1>3, <1>5 DEF PoolOK, Pending
<1>9. ContextOK(s, s.previousAu)
  BY <1>5, <1>7, <1>8 DEF ContextOK, StapOK
<1>10. AusInOrder
  BY <1>2 DEF AusInOrder
<1>11. NotLater(s.previousAu) /\ AuCallsInv
  BY <1>5, <1>6 DEF NotLater, AuCallsInv, CallsOK, Past
<1>12. QED  BY <1>1, <1>2, <1>9, <1>10, <1>11 DEF IInv

(* The context after a step that leaves the NALUs and the wire alone.      *)
LEMMA Frame ==
    ASSUME NEW c, ContextOK(c, c.previousAu), s' = c, UNCHANGED <<nalus, wire>>,
           flushes' = flushes \/ flushes' # 0
    PROVE  ContextOK(s, s.previousAu)'
<1>1. PacketsOK(s, s.previousAu)'
  BY DEF ContextOK, PacketsOK, Made, InOrder, Before
<1>2. StapOK(s, s.previousAu)' /\ PoolOK(s)'
  BY DEF ContextOK, StapOK, PoolOK, Pending
<1>3. QED  BY <1>1, <1>2 DEF ContextOK

(* The rest after a step without a callback of an access unit.             *)
LEMMA SameStep ==
    ASSUME IInv, Custody', appSeqNum' \in Nat, ContextOK(s, s.previousAu)',
           SameCalls(s, s'), UNCHANGED nalus, Ahead' \subseteq Ahead,
           Ending => Ending', flushes' = flushes \/ flushes' # 0
    PROVE  IInv'
<1>1. NextAus' = NextAus
  BY DEF NextAus, Last
<1>2. AusInOrder'
  BY DEF IInv, AusInOrder
<1>3. NotLater(s.previousAu)'
  BY <1>1 DEF IInv, NotLater, SameCalls
<1>4. AuCallsInv'
  <2>1. CallsOK(s)'
    BY DEF IInv, AuCallsInv, CallsOK, SameCalls
  <2>2. ASSUME flushes' = 0
        PROVE  Past(s.lastCallbackAu)' /\ (Ending \/ s.lastCallbackAu <= s.previousAu)'
    <3>1. flushes = 0
      BY <2>2
    <3>2. Past(s.lastCallbackAu) /\ (Ending \/ s.lastCallbackAu <= s.previousAu)
      BY <3>1 DEF IInv, AuCallsInv
    <3>3. Past(s.lastCallbackAu)'
      BY <1>1, <3>2 DEF Past, SameCalls
    <3>4. QED  BY <3>2, <3>3 DEF SameCalls
  <2>3. QED  BY <2>1, <2>2 DEF AuCallsInv
<1>5. QED  BY <1>2, <1>3, <1>4 DEF IInv

(* Steps that leave the context alone.                                     *)
LEMMA IdleStep ==
    ASSUME IInv, Custody',
           \/ QueueFull \/ Start \/ CheckStop \/ Exit \/ Stop \/ FlushEnd
           \/ SendNNewNalu \/ FlushNaluQueue \/ FlushTake \/ DequeueNalu
           \/ UNCHANGED vars
    PROVE  IInv'
<1>1. UNCHANGED <<nalus, s, wire>>
  <2>1. CASE QueueFull \/ Start \/ CheckStop \/ Exit \/ Stop
    BY <2>1 DEF QueueFull, Start, CheckStop, Exit, Stop, dataVars, threadVars, appVars
  <2>2. CASE FlushEnd \/ SendNNewNalu \/ FlushNaluQueue \/ FlushTake \/ DequeueNalu
    BY <2>2 DEF FlushEnd, SendNNewNalu, FlushNaluQueue, FlushTake, DequeueNalu,
                dataVars, threadVars, appVars
  <2>3. CASE UNCHANGED vars
    BY <2>3 DEF vars, dataVars, threadVars, appVars
  <2>4. QED  BY <2>1, <2>2, <2>3
<1>2. /\ appSeqNum' \in {appSeqNum, s.seqNum}
      /\ flushes' \in {flushes, flushes + 1}
      /\ Ending => Ending'
  <2>1. CASE QueueFull \/ Start \/ CheckStop \/ Exit \/ Stop
    BY <2>1 DEF QueueFull, Start, CheckStop, Exit, Stop, dataVars, threadVars, appVars,
                Ending
  <2>2. CASE FlushEnd \/ SendNNewNalu \/ FlushNaluQueue \/ FlushTake \/ DequeueNalu
    BY <2>2 DEF FlushEnd, SendNNewNalu, FlushNaluQueue, FlushTake, DequeueNalu,
                dataVars, threadVars, appVars, Ending
  <2>3. CASE UNCHANGED vars
    BY <2>3 DEF vars, dataVars, threadVars, appVars, Ending
  <2>4. QED  BY <2>1, <2>2, <2>3
<1>3. s \in Context /\ appSeqNum \in Nat /\ flushes \in Nat /\ ContextOK(s, s.previousAu)
  BY DEF IInv, Custody, ContextOK, PacketsOK
<1>4. appSeqNum' \in Nat /\ (flushes' = flushes \/ flushes' # 0)
  BY <1>2, <1>3, ContextFields
<1>5. Ahead' \subseteq Ahead
  <2>1. CASE FlushTake \/ DequeueNalu
    <3>1. PICK n : n = Head(naluFifo)
      OBVIOUS
    <3>2. FifoDequeueNalu /\ Custody
      BY <2>1 DEF FlushTake, DequeueNalu, IInv
    <3>3. ToSet(naluFifo) = ToSet(naluFifo') \cup {n}
      BY <3>1, <3>2, Taken
    <3>4. nalu' \in {nalu, n}
      BY <2>1, <3>1 DEF FlushTake, DequeueNalu, threadVars
    <3>5. QED  BY <3>3, <3>4 DEF Ahead
  <2>2. CASE QueueFull \/ Start \/ CheckStop \/ Exit \/ Stop
    BY <2>2 DEF QueueFull, Start, CheckStop, Exit, Stop, dataVars, threadVars, Ahead
  <2>3. CASE FlushEnd \/ SendNNewNalu \/ FlushNaluQueue
    BY <2>3 DEF FlushEnd, SendNNewNalu, FlushNaluQueue, dataVars, threadVars, Ahead
  <2>4. CASE UNCHANGED vars
    BY <2>4 DEF vars, dataVars, threadVars, Ahead
  <2>5. QED  BY <2>1, <2>2, <2>3, <2>4
<1>6. PICK c : c = s
  OBVIOUS
<1>7. s' = c /\ ContextOK(c, c.previousAu)
  BY <1>1, <1>3, <1>6
<1>8. ContextOK(s, s.previousAu)'
  BY <1>1, <1>4, <1>7, Frame
<1>9. SameCalls(s, s')
  BY <1>1 DEF SameCalls
<1>10. QED  BY <1>1, <1>2, <1>4, <1>5, <1>8, <1>9, SameStep

(* The queue loses packets to a time-out.                                  *)
LEMMA CleanStep ==
    ASSUME IInv, Custody', CleanFromTimeout
    PROVE  IInv'
<1>1. PICK overdue :
          s' = [s EXCEPT !.queue = Kept(s.queue, overdue),
                         !.free = @ + Len(s.queue) - Len(Kept(s.queue, overdue))]
  BY DEF CleanFromTimeout
<1>2. PICK a : a = s.previousAu
  OBVIOUS
<1>3. /\ s \in Context /\ PacketsOK(s, a) /\ StapOK(s, a) /\ PoolOK(s) /\ wire \in Seq(Packet)
  BY <1>2 DEF IInv, ContextOK, PacketsOK
<1>4. PICK q \in Seq(Packet) : q = s.queue /\ InOrder(q)
  BY <1>3, ContextFields DEF PacketsOK
<1>5. PICK r : r = Kept(q, overdue)
  OBVIOUS
<1>6. /\ r \in Seq(Packet) /\ Len(r) <= Len(q)
      /\ ToSet(r) \subseteq ToSet(q) /\ InOrder(r)
  BY <1>4, <1>5, KeptLemma
<1>7. PICK free \in Nat : free = s.free + Len(q) - Len(r) /\ free + Len(r) = s.free + Len(q)
  <2>1. s.free \in Nat
    BY <1>3, ContextFields
  <2>2. PICK x \in Nat, y \in Nat, z \in Nat : x = s.free /\ y = Len(q) /\ z = Len(r) /\ z <= y
    BY <1>6, <2>1
  <2>3. x + y - z \in Nat /\ (x + y - z) + z = x + y
    BY <2>2
  <2>4. QED  BY <2>2, <2>3
<1>8. PICK c : c = [s EXCEPT !.queue = r, !.free = free]
  OBVIOUS
<1>9. s' = c
  BY <1>1, <1>3, <1>4, <1>5, <1>7, <1>8 DEF Context
<1>10. /\ c \in Context /\ c.queue = r /\ c.seqNum = s.seqNum /\ c.stap = s.stap
       /\ c.free = free
  BY <1>3, <1>6, <1>8 DEF Context
<1>11. SameCalls(s, c)
  BY <1>3, <1>8 DEF Context, SameCalls
<1>12. PacketsOK(c, a)
  <2>1. /\ \A p \in ToSet(q) \cup ToSet(wire) : Made(p, a, s.seqNum)
        /\ InOrder(wire) /\ \A p \in ToSet(wire), x \in ToSet(q) : Before(p, x)
    BY <1>3, <1>4 DEF PacketsOK
  <2>2. QED  BY <1>3, <1>6, <1>10, <2>1 DEF PacketsOK
<1>13. StapOK(c, a)
  BY <1>3, <1>10 DEF StapOK
<1>14. PoolOK(c)
  <2>1. s.free + Len(q) + Pending(s) = PoolSize
    BY <1>3, <1>4 DEF PoolOK
  <2>2. free + Len(r) + Pending(s) = PoolSize
    BY <1>7, <2>1
  <2>3. QED  BY <1>10, <2>2 DEF PoolOK, Pending
<1>15. ContextOK(c, c.previousAu)
  BY <1>2, <1>11, <1>12, <1>13, <1>14 DEF ContextOK, SameCalls
<1>16. UNCHANGED <<nalus, naluFifo, nalu, wire, flushes, appSeqNum>> /\ ~Ending
  BY DEF CleanFromTimeout, appVars, Ending
<1>17. ContextOK(s, s.previousAu)'
  BY <1>9, <1>15, <1>16, Frame
<1>18. Ahead' = Ahead /\ appSeqNum' \in Nat
  BY <1>16 DEF Ahead, IInv
<1>19. SameCalls(s, s')
  BY <1>9, <1>11
<1>20. QED  BY <1>16, <1>17, <1>18, <1>19, SameStep

(* The queue, cut in two.                                                  *)
LEMMA SplitLemma ==
    ASSUME NEW q \in Seq(Packet), InOrder(q), NEW k \in 0 .. Len(q)
    PROVE  LET a == SubSeq(q, 1, k)
               b == SubSeq(q, k + 1, Len(q))
           IN  /\ a \in Seq(Packet) /\ b \in Seq(Packet)
               /\ Len(a) = k /\ Len(b) = Len(q) - k
               /\ ToSet(a) \subseteq ToSet(q) /\ ToSet(b) \subseteq ToSet(q)
               /\ InOrder(a) /\ InOrder(b)
               /\ \A x \in ToSet(a), y \in ToSet(b) : Before(x, y)
<1>1. /\ Len(q) \in Nat /\ DOMAIN q = 1 .. Len(q) /\ k \in Nat /\ k <= Len(q)
      /\ \A i \in DOMAIN q : q[i] \in Packet
  OBVIOUS
<1>2. /\ SubSeq(q, 1, k) \in Seq(Packet) /\ Len(SubSeq(q, 1, k)) = k
      /\ \A i \in 1 .. k : SubSeq(q, 1, k)[i] = q[i]
  BY <1>1, SubSeqProperties
<1>3. /\ SubSeq(q, k + 1, Len(q)) \in Seq(Packet)
      /\ Len(SubSeq(q, k + 1, Len(q))) = Len(q) - k
      /\ \A i \in 1 .. Len(q) - k : SubSeq(q, k + 1, Len(q))[i] = q[k + i]
  <2> DEFINE b == SubSeq(q, k + 1, Len(q))
  <2>1. k + 1 \in Int /\ Len(q) \in Int /\ \A i \in k + 1 .. Len(q) : q[i] \in Packet
    BY <1>1
  <2>2. /\ b \in Seq(Packet)
        /\ Len(b) = IF k + 1 <= Len(q) THEN Len(q) - (k + 1) + 1 ELSE 0
        /\ \A i \in 1 .. Len(q) - (k + 1) + 1 : b[i] = q[k + 1 + i - 1]
    BY <2>1, SubSeqProperties
  <2> HIDE DEF b
  <2>3. Len(b) = Len(q) - k /\ Len(q) - (k + 1) + 1 = Len(q) - k
    <3>1. CASE k + 1 <= Len(q)
      BY <1>1, <2>2, <3>1
    <3>2. CASE k = Len(q)
      BY <1>1, <2>2, <3>2
    <3>3. k + 1 <= Len(q) \/ k = Len(q)
      <4>1. PICK l \in Nat : l = Len(q) /\ k <= l
        BY <1>1
      <4>2. k + 1 <= l \/ k = l
        BY <4>1
      <4>3. QED  BY <4>1, <4>2
    <3>4. QED  BY <3>1, <3>2, <3>3
  <2>4. ASSUME NEW i \in 1 .. Len(q) - k
        PROVE  b[i] = q[k + i]
    <3>1. k + 1 + i - 1 = k + i /\ i \in 1 .. Len(q) - (k + 1) + 1
      BY <1>1, <2>3
    <3>2. QED  BY <2>2, <3>1
  <2>5. QED  BY <2>2, <2>3, <2>4 DEF b
<1>4. PICK a \in Seq(Packet) : a = SubSeq(q, 1, k)
  BY <1>2
<1>5. PICK b \in Seq(Packet) : b = SubSeq(q, k + 1, Len(q))
  BY <1>3
<1>6. /\ Len(a) = k /\ DOMAIN a = 1 .. k
      /\ \A i \in DOMAIN a : i \in DOMAIN q /\ i <= k /\ a[i] = q[i]
  BY <1>1, <1>2, <1>4
<1>7. Len(b) = Len(q) - k /\ DOMAIN b = 1 .. Len(q) - k
  BY <1>3, <1>5
<1>8. \A i \in DOMAIN b : k + i \in DOMAIN q /\ k < k + i /\ b[i] = q[k + i]
  <2>1. \A i \in DOMAIN b : b[i] = q[k + i]
    BY <1>3, <1>5, <1>7
  <2>2. \A i \in 1 .. Len(q) - k : k + i \in 1 .. Len(q) /\ k < k + i
    BY <1>1
  <2>3. QED  BY <1>1, <1>7, <2>1, <2>2
<1>9. ToSet(a) \subseteq ToSet(q) /\ ToSet(b) \subseteq ToSet(q)
  BY <1>6, <1>8 DEF ToSet
<1>10. InOrder(a)
  BY <1>6 DEF InOrder
<1>11. ASSUME NEW i \in DOMAIN b, NEW j \in DOMAIN b, i < j
       PROVE  Before(b[i], b[j])
  <2>1. k + i < k + j
    BY <1>1, <1>7, <1>11
  <2>2. QED  BY <1>8, <2>1 DEF InOrder
<1>12. ASSUME NEW i \in DOMAIN a, NEW j \in DOMAIN b
       PROVE  Before(a[i], b[j])
  <2>1. i < k + j
    BY <1>1, <1>6, <1>7
  <2>2. QED  BY <1>6, <1>8, <2>1 DEF InOrder
<1>13. \A x \in ToSet(a), y \in ToSet(b) : Before(x, y)
  BY <1>12 DEF ToSet
<1>14. QED  BY <1>4, <1>5, <1>6, <1>7, <1>9, <1>10, <1>11, <1>13 DEF InOrder

(* Packets put behind others.                                              *)
LEMMA JoinLemma ==
    ASSUME NEW w \in Seq(Packet), NEW a \in Seq(Packet), InOrder(w), InOrder(a),
           \A x \in ToSet(w), y \in ToSet(a) : Before(x, y)
    PROVE  /\ w \o a \in Seq(Packet) /\ InOrder(w \o a)
           /\ ToSet(w \o a) \subseteq ToSet(w) \cup ToSet(a)
<1>1. PICK t : t = w \o a
  OBVIOUS
<1>2. PICK k \in Nat, m \in Nat : k = Len(w) /\ m = Len(a)
  OBVIOUS
<1>3. /\ t \in Seq(Packet) /\ DOMAIN t = 1 .. k + m
      /\ DOMAIN w = 1 .. k /\ DOMAIN a = 1 .. m
      /\ \A i \in 1 .. k + m : t[i] = IF i <= k THEN w[i] ELSE a[i - k]
  <2>1. /\ w \o a \in Seq(Packet) /\ Len(w \o a) = Len(w) + Len(a)
        /\ \A i \in 1 .. Len(w) + Len(a) :
              (w \o a)[i] = IF i <= Len(w) THEN w[i] ELSE a[i - Len(w)]
    BY ConcatProperties
  <2>2. /\ t \in Seq(Packet) /\ Len(t) = k + m
        /\ \A i \in 1 .. k + m : t[i] = IF i <= k THEN w[i] ELSE a[i - k]
    BY <1>1, <1>2, <2>1
  <2>3. DOMAIN w = 1 .. k /\ DOMAIN a = 1 .. m
    BY <1>2
  <2>4. QED  BY <2>2, <2>3
<1>4. ASSUME NEW i \in DOMAIN t
      PROVE  \/ i \in DOMAIN w /\ t[i] = w[i]
             \/ i > k /\ i - k \in DOMAIN a /\ t[i] = a[i - k]
  <2>1. CASE i <= k
    BY <1>3, <2>1
  <2>2. CASE i > k
    <3>1. i - k \in 1 .. m
      BY <1>3, <2>2
    <3>2. QED  BY <1>3, <2>2, <3>1
  <2>3. QED  BY <1>3, <2>1, <2>2
<1>5. ToSet(t) \subseteq ToSet(w) \cup ToSet(a)
  BY <1>4 DEF ToSet
<1>6. ASSUME NEW i \in DOMAIN t, NEW j \in DOMAIN t, i < j
      PROVE  Before(t[i], t[j])
  <2> DEFINE Low(x) == x \in DOMAIN w /\ t[x] = w[x]
             High(x) == x > k /\ x - k \in DOMAIN a /\ t[x] = a[x - k]
  <2>1. (Low(i) \/ High(i)) /\ (Low(j) \/ High(j))
    BY <1>4
  <2>2. CASE Low(i) /\ Low(j)
    BY <1>6, <2>2 DEF InOrder
  <2>3. CASE Low(i) /\ High(j)
    BY <2>3 DEF ToSet
  <2>4. CASE High(i) /\ High(j)
    <3>1. i - k < j - k
      BY <1>3, <1>6
    <3>2. QED  BY <2>4, <3>1 DEF InOrder
  <2>5. CASE High(i) /\ Low(j)
    BY <1>3, <1>6, <2>5
  <2> HIDE DEF Low, High
  <2>6. QED  BY <2>1, <2>2, <2>3, <2>4, <2>5
<1>7. QED  BY <1>1, <1>3, <1>5, <1>6 DEF InOrder

(* Packets leave the head of the queue.                                    *)
LEMMA SendStep ==
    ASSUME IInv, Custody', SendMmsg
    PROVE  IInv'
<1>1. UNCHANGED <<nalus, naluFifo, nalu, flushes, appSeqNum>> /\ ~Ending
  BY DEF SendMmsg, appVars, Ending
<1>2. Ahead' = Ahead /\ appSeqNum' \in Nat
  BY <1>1 DEF Ahead, IInv
<1>3. PICK a : a = s.previousAu
  OBVIOUS
<1>4. /\ s \in Context /\ PacketsOK(s, a) /\ StapOK(s, a) /\ PoolOK(s) /\ wire \in Seq(Packet)
      /\ ContextOK(s, a)
  BY <1>3 DEF IInv, ContextOK, PacketsOK
<1>5. CASE UNCHANGED <<s, wire>>
  <2>1. PICK c : c = s
    OBVIOUS
  <2>2. s' = c /\ ContextOK(c, c.previousAu)
    BY <1>3, <1>4, <1>5, <2>1
  <2>3. ContextOK(s, s.previousAu)'
    BY <1>1, <1>5, <2>2, Frame
  <2>4. SameCalls(s, s')
    BY <1>5 DEF SameCalls
  <2>5. QED  BY <1>1, <1>2, <2>3, <2>4, SameStep
<1>6. CASE ~ UNCHANGED <<s, wire>>
  <2>1. PICK sent \in 0 .. Len(s.queue) :
            /\ wire' = wire \o SubSeq(s.queue, 1, sent)
            /\ s' = [s EXCEPT !.queue = SubSeq(@, sent + 1, Len(@)), !.free = @ + sent]
    BY <1>6 DEF SendMmsg
  <2>2. PICK q \in Seq(Packet) : q = s.queue /\ InOrder(q)
    BY <1>4, ContextFields DEF PacketsOK
  <2>3. sent \in 0 .. Len(q)
    BY <2>1, <2>2
  <2>4. PICK x : x = SubSeq(q, 1, sent)
    OBVIOUS
  <2>5. PICK r : r = SubSeq(q, sent + 1, Len(q))
    OBVIOUS
  <2>6. /\ x \in Seq(Packet) /\ r \in Seq(Packet)
        /\ Len(x) = sent /\ Len(r) = Len(q) - sent
        /\ ToSet(x) \subseteq ToSet(q) /\ ToSet(r) \subseteq ToSet(q)
        /\ InOrder(x) /\ InOrder(r)
        /\ \A y \in ToSet(x), z \in ToSet(r) : Before(y, z)
    BY <2>2, <2>3, <2>4, <2>5, SplitLemma
  <2>7. /\ \A p \in ToSet(q) \cup ToSet(wire) : Made(p, a, s.seqNum)
        /\ InOrder(wire) /\ \A y \in ToSet(wire), z \in ToSet(q) : Before(y, z)
    BY <1>4, <2>2 DEF PacketsOK
  <2>8. PICK w : w = wire \o x
    OBVIOUS
  <2>9. /\ w \in Seq(Packet) /\ InOrder(w)
        /\ ToSet(w) \subseteq ToSet(wire) \cup ToSet(x)
    BY <1>4, <2>6, <2>7, <2>8, JoinLemma
  <2>10. PICK free \in Nat : free = s.free + sent
    BY <1>4, ContextFields
  <2>11. PICK c : c = [s EXCEPT !.queue = r, !.free = free]
    OBVIOUS
  <2>12. s' = c
    BY <1>4, <2>1, <2>2, <2>5, <2>10, <2>11 DEF Context
  <2>13. /\ c \in Context /\ c.queue = r /\ c.seqNum = s.seqNum /\ c.stap = s.stap
         /\ c.free = free
    BY <1>4, <2>6, <2>11 DEF Context
  <2>14. SameCalls(s, c)
    BY <1>4, <2>11 DEF Context, SameCalls
  <2>15. /\ \A p \in ToSet(r) \cup ToSet(w) : Made(p, a, c.seqNum)
         /\ \A y \in ToSet(w), z \in ToSet(r) : Before(y, z)
    BY <2>6, <2>7, <2>9, <2>13
  <2>16. wire' = w
    BY <2>1, <2>2, <2>4, <2>8
  <2>17. PoolOK(c)
    <3>1. s.free \in Nat /\ Len(q) \in Nat /\ s.free + Len(q) + Pending(s) = PoolSize
      BY <1>4, <2>2, ContextFields DEF PoolOK
    <3>2. free + Len(r) = s.free + Len(q)
      BY <2>3, <2>6, <2>10, <3>1
    <3>3. free + Len(r) + Pending(s) = PoolSize
      BY <3>1, <3>2
    <3>4. QED  BY <2>13, <3>3 DEF PoolOK, Pending
  <2>18. s' = c /\ c.previousAu = a
    BY <1>3, <2>12, <2>14 DEF SameCalls
  <2>19. PacketsOK(s, s.previousAu)'
    <3>1. /\ s' \in Context /\ wire' \in Seq(Packet)
          /\ \A p \in ToSet(s'.queue) \cup ToSet(wire') : Made(p, a, s'.seqNum)
          /\ InOrder(s'.queue)
          /\ \A y \in ToSet(wire'), z \in ToSet(s'.queue) : Before(y, z)
          /\ InOrder(w)
      BY <2>6, <2>9, <2>13, <2>15, <2>16, <2>18
    <3>2. (\A p \in ToSet(s.queue) \cup ToSet(wire) : Made(p, s.previousAu, s.seqNum))'
      BY <1>1, <2>18, <3>1 DEF Made
    <3>3. InOrder(wire)' /\ InOrder(s.queue)'
      BY <1>1, <2>16, <3>1 DEF InOrder, Before
    <3>4. (\A y \in ToSet(wire), z \in ToSet(s.queue) : Before(y, z))'
      BY <1>1, <3>1 DEF Before
    <3>5. QED  BY <3>1, <3>2, <3>3, <3>4 DEF PacketsOK
  <2>20. StapOK(s, s.previousAu)'
    BY <1>1, <1>4, <2>13, <2>18 DEF StapOK
  <2>21. PoolOK(s)'
    BY <2>12, <2>17 DEF PoolOK, Pending
  <2>22. ContextOK(s, s.previousAu)'
    BY <2>19, <2>20, <2>21 DEF ContextOK
  <2>23. SameCalls(s, s')
    BY <2>12, <2>14
  <2>24. QED  BY <1>1, <1>2, <2>22, <2>23, SameStep
<1>7. QED  BY <1>5, <1>6

LEMMA EndPacketsStep ==
    ASSUME IInv, Custody', EndPackets
    PROVE  IInv'
<1>1. /\ UNCHANGED <<nalus, naluFifo, nalu, flushes, appSeqNum, wire>> /\ Ending'
      /\ s' = PacketFifoFlush(s)
  BY DEF EndPackets, appVars, Ending
<1>2. PICK a : a = s.previousAu
  OBVIOUS
<1>3. ContextOK(s, a) /\ a \in Nat
  BY <1>2, ContextFields DEF IInv, ContextOK, PacketsOK
<1>4. PICK c : c = PacketFifoFlush(s)
  OBVIOUS
<1>5. ContextOK(c, a) /\ SameCalls(s, c)
  BY <1>3, <1>4, FlushLemma
<1>6. s' = c /\ ContextOK(c, c.previousAu)
  BY <1>1, <1>2, <1>4, <1>5 DEF SameCalls
<1>7. ContextOK(s, s.previousAu)'
  BY <1>1, <1>6, Frame
<1>8. Ahead' = Ahead /\ appSeqNum' \in Nat
  BY <1>1 DEF Ahead, IInv
<1>9. SameCalls(s, s')
  BY <1>5, <1>6
<1>10. QED  BY <1>1, <1>7, <1>8, <1>9, SameStep

(* The flush in the application's thread, once it has begun, is out of     *)
(* what the order promises.                                                *)
LEMMA FlushDropStep ==
    ASSUME IInv, Custody', FlushDrop
    PROVE  IInv'
<1>1. /\ UNCHANGED <<nalus, naluFifo, nalu, wire, flushes, pc>> /\ appSeqNum' = 0
      /\ appPc = "drop"
  BY DEF FlushDrop, threadVars
<1>2. /\ Custody /\ AusInOrder /\ NotLater(s.previousAu) /\ ContextOK(s, s.previousAu)
      /\ appSeqNum \in Nat
  BY DEF IInv
<1>3. flushes # 0 /\ appNalu \in DOMAIN nalus /\ nalus \in Seq(Nalu)
  BY <1>1, <1>2 DEF Custody, NoNalu
<1>4. PICK a \in Nat : a = s.previousAu
  BY <1>2, ContextFields DEF ContextOK, PacketsOK
<1>5. s \in Context /\ ContextOK(s, a)
  BY <1>2, <1>4 DEF ContextOK, PacketsOK
<1>6. PICK seqNum \in {NaluDrop([s EXCEPT !.seqNum = appSeqNum]).seqNum, s.seqNum} :
          s' = LastInAu([s EXCEPT !.seqNum = seqNum], appNalu)
  <2>1. PICK seqNum \in {NaluDrop([s EXCEPT !.seqNum = appSeqNum]).seqNum}
                        \cup (IF pc = "process" THEN {s.seqNum} ELSE {}) :
            s' = LastInAu([s EXCEPT !.seqNum = seqNum], appNalu)
    BY DEF FlushDrop
  <2>2. seqNum \in {NaluDrop([s EXCEPT !.seqNum = appSeqNum]).seqNum, s.seqNum}
    BY <2>1
  <2>3. QED  BY <2>1, <2>2
<1>7. seqNum \in Nat
  <2>1. PICK d : d = [s EXCEPT !.seqNum = appSeqNum]
    OBVIOUS
  <2>2. d \in Context /\ d.seqNum = appSeqNum
    BY <1>2, <1>5, <2>1 DEF Context
  <2>3. NaluDrop(d).seqNum = appSeqNum + 1
    BY <2>2 DEF NaluDrop, Context
  <2>4. s.seqNum \in Nat
    BY <1>5, ContextFields
  <2>5. QED  BY <1>2, <1>6, <2>1, <2>3, <2>4
<1>8. PICK d : d = [s EXCEPT !.seqNum = seqNum]
  OBVIOUS
<1>9. ContextOK(d, a) /\ SameCalls(s, d)
  <2>1. flushes = 0 => seqNum >= s.seqNum
    BY <1>3
  <2>2. QED  BY <1>5, <1>7, <1>8, <2>1, NumberLemma
<1>10. PICK c : c = LastInAu(d, appNalu)
  OBVIOUS
<1>11. ContextOK(c, a) /\ c.previousAu = a
  <2>1. /\ ContextOK(c, a)
        /\ \/ ~nalus[appNalu].isLast /\ SameCalls(d, c)
           \/ nalus[appNalu].isLast /\ CalledBack(d, c, nalus[appNalu].au)
    BY <1>3, <1>9, <1>10, LastInAuLemma
  <2>2. d.previousAu = a
    BY <1>4, <1>9 DEF SameCalls
  <2>3. QED  BY <2>1, <2>2 DEF SameCalls, CalledBack
<1>12. s' = c
  BY <1>6, <1>8, <1>10
<1>13. ContextOK(s, s.previousAu)'
  BY <1>1, <1>11, <1>12, Frame
<1>14. AusInOrder' /\ Ahead' = Ahead /\ NextAus' = NextAus
  BY <1>1, <1>2 DEF AusInOrder, Ahead, NextAus, Last
<1>15. s'.previousAu = s.previousAu
  BY <1>4, <1>11, <1>12
<1>16. NotLater(s.previousAu)'
  BY <1>1, <1>2, <1>14, <1>15 DEF NotLater
<1>17. AuCallsInv'
  BY <1>1, <1>3 DEF AuCallsInv, CallsOK
<1>18. QED  BY <1>1, <1>13, <1>14, <1>16, <1>17 DEF IInv

(* No access unit is left behind one that is completed with its last NALU, *)
(* or that the packetizer leaves for the next one.                         *)
LEMMA PastLemma ==
    ASSUME Custody, AusInOrder, NEW n \in Ahead, n # NoNalu,
           UNCHANGED nalus, \A m \in Ahead' : m \in DOMAIN nalus /\ n < m,
           NEW au \in Nat, au < nalus[n].au \/ (nalus[n].isLast /\ au = nalus[n].au)
    PROVE  Past(au)'
<1>1. nalus \in Seq(Nalu) /\ n \in DOMAIN nalus
  BY ToSetType DEF Custody, Ahead, NoNalu
<1>2. NextAus' = NextAus /\ NextAus \subseteq Nat
  BY <1>1, NextAusType DEF NextAus, Last
<1>3. PICK b \in Nat : b = nalus[n].au
  BY <1>1, NaluFields
<1>4. ASSUME NEW m \in Ahead'
      PROVE  au < nalus'[m].au
  <2>1. m \in DOMAIN nalus /\ n < m /\ nalus' = nalus
    OBVIOUS
  <2>2. PICK x \in Nat : x = nalus[m].au
    BY <1>1, <2>1, NaluFields
  <2>3. b <= x /\ (nalus[n].isLast => b < x)
    BY <1>1, <1>3, <2>1, <2>2 DEF AusInOrder
  <2>4. au < b \/ (nalus[n].isLast /\ au = b)
    BY <1>3
  <2>5. au < x
    BY <2>3, <2>4
  <2>6. QED  BY <2>1, <2>2, <2>5
<1>5. ASSUME NEW x \in NextAus
      PROVE  au < x
  <2>1. b <= x /\ (nalus[n].isLast => b < x)
    BY <1>1, <1>3, AusBound
  <2>2. au < b \/ (nalus[n].isLast /\ au = b)
    BY <1>3
  <2>3. x \in Nat
    BY <1>2
  <2>4. QED  BY <2>1, <2>2, <2>3
<1>6. QED  BY <1>2, <1>4, <1>5 DEF Past

(* Past is about what is to come: it stays when less is.                   *)
LEMMA PastStays ==
    ASSUME NEW au, Past(au), UNCHANGED nalus, Ahead' \subseteq Ahead
    PROVE  Past(au)'
<1>1. NextAus' = NextAus
  BY DEF NextAus, Last
<1>2. QED  BY <1>1 DEF Past

(* The context at access unit au, remembered as the previous one.          *)
LEMMA RememberLemma ==
    ASSUME NEW c, NEW a \in Nat, ContextOK(c, a)
    PROVE  LET d == [c EXCEPT !.previousAu = a] IN
           /\ ContextOK(d, d.previousAu) /\ d.previousAu = a
           /\ d.lastCallbackAu = c.lastCallbackAu /\ d.auCalls = c.auCalls
<1>1. c \in Context /\ PacketsOK(c, a) /\ StapOK(c, a) /\ PoolOK(c)
  BY DEF ContextOK, PacketsOK
<1>2. PICK d : d = [c EXCEPT !.previousAu = a]
  OBVIOUS
<1>3. /\ d \in Context /\ d.queue = c.queue /\ d.seqNum = c.seqNum /\ d.stap = c.stap
      /\ d.free = c.free
  BY <1>1, <1>2 DEF Context
<1>4. /\ d.previousAu = a
      /\ d.lastCallbackAu = c.lastCallbackAu /\ d.auCalls = c.auCalls
  BY <1>1, <1>2 DEF Context
<1>5. PacketsOK(d, a)
  BY <1>1, <1>3 DEF PacketsOK
<1>6. StapOK(d, a) /\ PoolOK(d)
  BY <1>1, <1>3 DEF StapOK, PoolOK, Pending
<1>7. QED  BY <1>2, <1>4, <1>5, <1>6 DEF ContextOK

LEMMA ProcessStep ==
    ASSUME IInv, Custody', ProcessNalu
    PROVE  IInv'
<1>1. /\ UNCHANGED <<nalus, naluFifo, wire, flushes, appSeqNum>> /\ nalu' = NoNalu
      /\ pc = "process" /\ pc' = "nalus"
  BY DEF ProcessNalu, appVars
<1>2. /\ Custody /\ AusInOrder /\ NotLater(s.previousAu) /\ ContextOK(s, s.previousAu)
      /\ AuCallsInv
  BY DEF IInv
<1>3. PICK n : n = nalu
  OBVIOUS
<1>4. n \in Ahead /\ n # NoNalu /\ n \in DOMAIN nalus /\ nalus \in Seq(Nalu)
  BY <1>1, <1>2, <1>3 DEF Custody, Ahead, NoNalu
<1>5. \A m \in Ahead' : m \in DOMAIN nalus /\ n < m
  BY <1>1, <1>2, <1>3, ToSetType DEF Custody, Ahead
<1>6. PICK a \in Nat : a = nalus[n].au
  BY <1>4, NaluFields
<1>7. PICK prev \in Nat, last \in Nat : prev = s.previousAu /\ last = s.lastCallbackAu
  BY <1>2, ContextFields DEF ContextOK, PacketsOK
<1>8. prev <= a
  BY <1>2, <1>4, <1>6, <1>7 DEF NotLater
<1>9. PICK c : c = NewAu(s, n)
  OBVIOUS
<1>10. PICK d \in {NaluDrop(c),
                   FinishLast(Place(MakeRoom(c, n, NewStapSize(c, n)), n,
                                    NewStapSize(c, n)), n)} :
           s' = [LastInAu(d, n) EXCEPT !.previousAu = a]
  BY <1>3, <1>6, <1>9 DEF ProcessNalu
<1>11. PICK e : e = LastInAu(d, n)
  OBVIOUS
<1>12. /\ ContextOK(c, a)
       /\ \/ SameCalls(s, c)
          \/ prev # a /\ CalledBack(s, c, prev)
  <2>1. s.previousAu <= nalus[n].au
    BY <1>6, <1>7, <1>8
  <2>2. /\ ContextOK(c, nalus[n].au)
        /\ \/ SameCalls(s, c)
           \/ s.previousAu # nalus[n].au /\ CalledBack(s, c, s.previousAu)
    BY <1>2, <1>4, <1>9, <2>1, NewAuLemma
  <2>3. QED  BY <1>6, <1>7, <2>2
<1>13. ContextOK(d, a) /\ SameCalls(c, d)
  BY <1>4, <1>6, <1>10, <1>12, MadeLemma
<1>14. /\ ContextOK(e, a)
       /\ \/ ~nalus[n].isLast /\ SameCalls(d, e)
          \/ nalus[n].isLast /\ CalledBack(d, e, a)
  BY <1>4, <1>6, <1>11, <1>13, LastInAuLemma
<1>15. s \in Context /\ c \in Context /\ d \in Context /\ e \in Context
  BY <1>2, <1>12, <1>13, <1>14 DEF ContextOK, PacketsOK
<1>16. PICK t : t = [e EXCEPT !.previousAu = a]
  OBVIOUS
<1>17. /\ ContextOK(t, t.previousAu) /\ t.previousAu = a
       /\ t.lastCallbackAu = e.lastCallbackAu /\ t.auCalls = e.auCalls
  BY <1>14, <1>16, RememberLemma
<1>18. s' = t
  BY <1>10, <1>11, <1>16
<1>19. ContextOK(s, s.previousAu)'
  BY <1>1, <1>17, <1>18, Frame
<1>20. NextAus' = NextAus /\ AusInOrder'
  BY <1>1, <1>2 DEF NextAus, Last, AusInOrder
<1>21. NotLater(s.previousAu)'
  <2>1. ASSUME NEW m \in Ahead'
        PROVE  a <= nalus'[m].au
    BY <1>1, <1>2, <1>4, <1>5, <1>6 DEF AusInOrder
  <2>2. ASSUME NEW x \in NextAus
        PROVE  a <= x
    BY <1>2, <1>4, <1>6, AusBound
  <2>3. QED  BY <1>17, <1>18, <1>20, <2>1, <2>2 DEF NotLater
<1>22. flushes = 0 => Past(last) /\ last <= prev
  BY <1>1, <1>2, <1>7 DEF AuCallsInv, Ending
<1>23. Ahead' \subseteq Ahead
  BY <1>1 DEF Ahead
<1>24. CallsOK(c)
  <2>1. CallsOK(s)
    BY <1>2 DEF AuCallsInv
  <2>2. CASE SameCalls(s, c)
    BY <2>1, <2>2 DEF CallsOK, SameCalls
  <2>3. CASE CalledBack(s, c, prev)
    BY <1>7, <1>15, <1>22, <2>1, <2>3, CallsLemma
  <2>4. QED  BY <1>12, <2>2, <2>3
<1>25. PICK now \in Nat : now = c.lastCallbackAu
  BY <1>15, ContextFields
<1>26. flushes = 0 => Past(now)' /\ now <= a
  <2>1. SUFFICES ASSUME flushes = 0 PROVE Past(now)' /\ now <= a
    OBVIOUS
  <2>2. CASE SameCalls(s, c)
    <3>1. now = last
      BY <1>7, <1>25, <2>2 DEF SameCalls
    <3>2. Past(now)'
      BY <1>1, <1>22, <1>23, <2>1, <3>1, PastStays
    <3>3. now <= a
      BY <1>8, <1>22, <2>1, <3>1
    <3>4. QED  BY <3>2, <3>3
  <2>3. CASE prev # a /\ CalledBack(s, c, prev)
    <3>1. now = prev /\ now < a
      BY <1>8, <1>25, <2>3 DEF CalledBack
    <3>2. now < nalus[n].au
      BY <1>6, <3>1
    <3>3. Past(now)'
      BY <1>1, <1>2, <1>4, <1>5, <3>2, PastLemma
    <3>4. QED  BY <3>1, <3>3
  <2>4. QED  BY <1>12, <2>2, <2>3
<1>27. CallsOK(d) /\ d.lastCallbackAu = now
  BY <1>13, <1>24, <1>25 DEF CallsOK, SameCalls
<1>28. CallsOK(e)
  <2>1. CASE SameCalls(d, e)
    BY <1>27, <2>1 DEF CallsOK, SameCalls
  <2>2. CASE CalledBack(d, e, a)
    BY <1>15, <1>26, <1>27, <2>2, CallsLemma
  <2>3. QED  BY <1>14, <2>1, <2>2
<1>29. PICK then \in Nat : then = e.lastCallbackAu
  BY <1>15, ContextFields
<1>30. flushes = 0 => Past(then)' /\ then <= a
  <2>1. CASE SameCalls(d, e)
    <3>1. then = now
      BY <1>27, <1>29, <2>1 DEF SameCalls
    <3>2. QED  BY <1>26, <3>1
  <2>2. CASE nalus[n].isLast /\ CalledBack(d, e, a)
    <3>1. then = a
      BY <1>29, <2>2 DEF CalledBack
    <3>2. nalus[n].isLast /\ then = nalus[n].au
      BY <1>6, <2>2, <3>1
    <3>3. Past(then)'
      BY <1>1, <1>2, <1>4, <1>5, <3>2, PastLemma
    <3>4. QED  BY <3>1, <3>3
  <2>3. QED  BY <1>14, <2>1, <2>2
<1>31. s'.lastCallbackAu = then /\ s'.auCalls = e.auCalls /\ s'.previousAu = a
  BY <1>17, <1>18, <1>29
<1>32. AuCallsInv'
  <2>1. CallsOK(s)'
    BY <1>1, <1>28, <1>29, <1>31 DEF CallsOK
  <2>2. flushes = 0 => Past(s.lastCallbackAu)'
    BY <1>30, <1>31 DEF Past
  <2>3. flushes = 0 => (s.lastCallbackAu <= s.previousAu)'
    BY <1>30, <1>31
  <2>4. QED  BY <1>1, <2>1, <2>2, <2>3 DEF AuCallsInv
<1>33. QED  BY <1>1, <1>19, <1>20, <1>21, <1>32 DEF IInv

LEMMA EndNaluStep ==
    ASSUME IInv, Custody', EndNalu
    PROVE  IInv'
<1>1. /\ UNCHANGED <<nalus, nalu, pc, wire, flushes, appSeqNum>> /\ FifoDequeueNalu
      /\ pc = "endNalus" /\ naluFifo # <<>>
  BY DEF EndNalu, threadVars, appVars, FifoDequeueNalu
<1>2. /\ Custody /\ AusInOrder /\ NotLater(s.previousAu) /\ ContextOK(s, s.previousAu)
      /\ AuCallsInv
  BY DEF IInv
<1>3. PICK n : n = Head(naluFifo)
  OBVIOUS
<1>4. /\ n \in 1 .. Len(nalus) /\ n \in ToSet(naluFifo)
      /\ ToSet(naluFifo) = ToSet(naluFifo') \cup {n}
      /\ \A m \in ToSet(naluFifo') : n < m
      /\ naluFifo' \in Seq(1 .. Len(nalus))
      /\ n # NoNalu
  BY <1>1, <1>2, <1>3, Taken
<1>5. nalu = NoNalu
  BY <1>1, <1>2 DEF Custody
<1>6. n \in Ahead /\ n \in DOMAIN nalus /\ nalus \in Seq(Nalu) /\ Ahead' \subseteq Ahead
  BY SMTT(30), <1>1, <1>2, <1>4 DEF Ahead, Custody
<1>7. \A m \in Ahead' : m \in DOMAIN nalus /\ n < m
  <2>1. Ahead' = ToSet(naluFifo')
    BY <1>1, <1>5 DEF Ahead
  <2>2. \A m \in ToSet(naluFifo') : m \in 1 .. Len(nalus)
    BY <1>4, ToSetType
  <2>3. QED  BY <1>4, <1>6, <2>1, <2>2
<1>8. PICK a \in Nat : a = nalus[n].au
  BY <1>6, NaluFields
<1>9. PICK prev \in Nat, last \in Nat : prev = s.previousAu /\ last = s.lastCallbackAu
  BY <1>2, ContextFields DEF ContextOK, PacketsOK
<1>10. PICK d : d = NaluDrop(s)
  OBVIOUS
<1>11. ContextOK(d, prev) /\ SameCalls(s, d)
  BY <1>2, <1>9, <1>10, DropLemma
<1>12. PICK e : e = LastInAu(d, n)
  OBVIOUS
<1>13. /\ ContextOK(e, prev)
       /\ \/ ~nalus[n].isLast /\ SameCalls(d, e)
          \/ nalus[n].isLast /\ CalledBack(d, e, a)
  BY <1>6, <1>8, <1>11, <1>12, LastInAuLemma
<1>14. s' = e /\ e.previousAu = prev
  BY <1>3, <1>9, <1>10, <1>11, <1>12, <1>13 DEF EndNalu, SameCalls, CalledBack
<1>15. ContextOK(s, s.previousAu)'
  BY <1>1, <1>13, <1>14, Frame
<1>16. NextAus' = NextAus /\ AusInOrder'
  BY <1>1, <1>2 DEF NextAus, Last, AusInOrder
<1>17. NotLater(s.previousAu)'
  BY <1>1, <1>2, <1>6, <1>9, <1>14, <1>16 DEF NotLater
<1>18. d \in Context /\ CallsOK(d) /\ d.lastCallbackAu = last
  BY <1>2, <1>9, <1>11 DEF ContextOK, PacketsOK, AuCallsInv, CallsOK, SameCalls
<1>19. flushes = 0 => Past(last) /\ last < a
  BY <1>2, <1>6, <1>8, <1>9 DEF AuCallsInv, Past
<1>20. CallsOK(e)
  <2>1. CASE SameCalls(d, e)
    BY <1>18, <2>1 DEF CallsOK, SameCalls
  <2>2. CASE CalledBack(d, e, a)
    <3>1. flushes = 0 => d.lastCallbackAu <= a
      BY <1>18, <1>19
    <3>2. QED  BY <1>18, <2>2, <3>1, CallsLemma
  <2>3. QED  BY <1>13, <2>1, <2>2
<1>21. flushes = 0 => Past(s.lastCallbackAu)'
  <2>1. SUFFICES ASSUME flushes = 0 PROVE Past(s.lastCallbackAu)'
    OBVIOUS
  <2>2. CASE SameCalls(d, e)
    <3>1. Past(last)'
      BY <1>1, <1>6, <1>19, <2>1, PastStays
    <3>2. s'.lastCallbackAu = last
      BY <1>14, <1>18, <2>2 DEF SameCalls
    <3>3. QED  BY <3>1, <3>2 DEF Past
  <2>3. CASE nalus[n].isLast /\ CalledBack(d, e, a)
    <3>1. nalus[n].isLast /\ a = nalus[n].au
      BY <1>8, <2>3
    <3>2. Past(a)'
      BY <1>1, <1>2, <1>4, <1>6, <1>7, <3>1, PastLemma
    <3>3. s'.lastCallbackAu = a
      BY <1>14, <2>3 DEF CalledBack
    <3>4. QED  BY <3>2, <3>3 DEF Past
  <2>4. QED  BY <1>13, <2>2, <2>3
<1>22. Ending' /\ CallsOK(s)'
  BY <1>1, <1>14, <1>20 DEF Ending, CallsOK
<1>23. AuCallsInv'
  BY <1>1, <1>21, <1>22 DEF AuCallsInv
<1>24. QED  BY <1>1, <1>2, <1>15, <1>16, <1>17, <1>23 DEF IInv

LEMMA EnqueueStep ==
    ASSUME IInv, EnqueueNalu
    PROVE  IInv'
<1>1. /\ UNCHANGED <<s, nalu, wire, flushes, appSeqNum, pc>>
  BY DEF EnqueueNalu, threadVars
<1>2. /\ Custody /\ AusInOrder /\ NotLater(s.previousAu) /\ ContextOK(s, s.previousAu)
      /\ AuCallsInv
  BY DEF IInv
<1>3. Custody'
  BY <1>2, CustodyEnqueue
<1>4. PICK r \in Nalu : /\ r.au \in NextAus /\ nalus' = Append(nalus, r)
                        /\ naluFifo' = Append(naluFifo, Len(nalus) + 1)
  BY <1>2, CustodyEnqueue
<1>5. PICK N \in Nat : N = Len(nalus)
  BY <1>2 DEF Custody
<1>6. /\ nalus \in Seq(Nalu) /\ nalus' \in Seq(Nalu) /\ nalus' # <<>>
      /\ Len(nalus') = N + 1 /\ DOMAIN nalus = 1 .. N /\ DOMAIN nalus' = 1 .. N + 1
      /\ \A m \in 1 .. N : nalus'[m] = nalus[m]
      /\ nalus'[N + 1] = r
  <2>1. nalus \in Seq(Nalu)
    BY <1>2 DEF Custody
  <2>2. /\ Append(nalus, r) \in Seq(Nalu) /\ Len(Append(nalus, r)) = N + 1
        /\ \A m \in 1 .. N : Append(nalus, r)[m] = nalus[m]
        /\ Append(nalus, r)[N + 1] = r
        /\ DOMAIN nalus = 1 .. N /\ DOMAIN Append(nalus, r) = 1 .. N + 1
    BY <1>5, <2>1, ToSetAppend
  <2>3. PICK t : t = Append(nalus, r)
    OBVIOUS
  <2>4. t # <<>>
    BY <1>5, <2>2, <2>3
  <2>5. QED  BY <1>4, <2>1, <2>2, <2>3, <2>4
<1>7. r.au \in Nat /\ r.isLast \in BOOLEAN
  BY DEF Nalu
<1>8. NextAus' \subseteq {r.au, r.au + 1}
  <2>1. Last(nalus)' = r
    BY <1>6 DEF Last
  <2>2. QED  BY <1>6, <2>1 DEF NextAus
<1>9. ASSUME NEW m \in 1 .. N
      PROVE  nalus[m].au <= r.au /\ (nalus[m].isLast => nalus[m].au < r.au)
  BY <1>2, <1>4, <1>6, AusBound
<1>10. AusInOrder'
  <2>1. ASSUME NEW m \in 1 .. N + 1, NEW n \in 1 .. N + 1, m < n
        PROVE  /\ nalus'[m].au <= nalus'[n].au
               /\ nalus'[m].isLast => nalus'[m].au < nalus'[n].au
    <3>1. m \in 1 .. N
      BY <2>1
    <3>2. CASE n = N + 1
      BY <1>6, <1>9, <3>1, <3>2
    <3>3. CASE n \in 1 .. N
      BY <1>2, <1>6, <2>1, <3>1, <3>3 DEF AusInOrder
    <3>4. QED  BY <3>2, <3>3
  <2>2. QED  BY <1>6, <2>1 DEF AusInOrder
<1>11. Ahead' = Ahead \cup {N + 1} /\ Ahead \subseteq 1 .. N
  <2>1. ToSet(naluFifo') = ToSet(naluFifo) \cup {N + 1}
    <3>1. naluFifo \in Seq(1 .. N)
      BY <1>2, <1>5 DEF Custody
    <3>2. \A i, j \in DOMAIN naluFifo : i < j => naluFifo[i] < naluFifo[j]
      BY <1>2 DEF Custody
    <3>3. QED  BY <1>4, <1>5, <3>1, <3>2, RisingAppend
  <2>2. Ahead' = Ahead \cup {N + 1}
    BY <1>1, <2>1 DEF Ahead
  <2>3. ToSet(naluFifo) \subseteq 1 .. N /\ nalu \in 0 .. N
    BY <1>2, <1>5, ToSetType DEF Custody
  <2>4. QED  BY <2>2, <2>3 DEF Ahead, NoNalu
<1>12. PICK prev \in Nat, last \in Nat : prev = s.previousAu /\ last = s.lastCallbackAu
  BY <1>2, ContextFields DEF ContextOK, PacketsOK
<1>13. /\ \A m \in Ahead : prev <= nalus[m].au
       /\ prev <= r.au
  BY <1>2, <1>4, <1>12 DEF NotLater
<1>14. NotLater(s.previousAu)'
  <2>1. \A m \in Ahead' : prev <= nalus'[m].au
    BY <1>6, <1>11, <1>13
  <2>3. \A x \in NextAus' : prev <= x
    BY <1>7, <1>8, <1>13
  <2>4. QED  BY <1>1, <1>12, <2>1, <2>3 DEF NotLater
<1>15. AuCallsInv'
  <2>1. CallsOK(s)'
    BY <1>1, <1>2 DEF AuCallsInv, CallsOK
  <2>2. ASSUME flushes = 0
        PROVE  Past(s.lastCallbackAu)' /\ (Ending \/ s.lastCallbackAu <= s.previousAu)'
    <3>1. Past(last) /\ (Ending \/ s.lastCallbackAu <= s.previousAu)
      BY <1>2, <1>12, <2>2 DEF AuCallsInv
    <3>2. (\A m \in Ahead : last < nalus[m].au) /\ last < r.au
      BY <1>4, <3>1 DEF Past
    <3>3. \A m \in Ahead' : last < nalus'[m].au
      BY <1>6, <1>11, <3>2
    <3>4. \A x \in NextAus' : last < x
      BY <1>7, <1>8, <3>2
    <3>5. Past(s.lastCallbackAu)'
      BY <1>1, <1>12, <3>3, <3>4 DEF Past
    <3>6. QED  BY <1>1, <3>1, <3>5 DEF Ending
  <2>3. QED  BY <1>1, <2>1, <2>2 DEF AuCallsInv
<1>16. PacketsOK(s, s.previousAu)'
  <2>1. DOMAIN nalus \subseteq DOMAIN nalus'
    BY <1>6
  <2>2. PacketsOK(s, s.previousAu)
    BY <1>2 DEF ContextOK
  <2>3. QED  BY <1>1, <2>1, <2>2 DEF PacketsOK, Made, InOrder, Before
<1>17. StapOK(s, s.previousAu)'
  <2>1. CASE s.stap = NoStap
    BY <1>1, <2>1 DEF StapOK
  <2>2. CASE s.stap # NoStap
    <3>1. /\ s.stap.nalus # <<>> /\ ToSet(s.stap.nalus) \subseteq 1 .. N
          /\ nalus[s.stap.nalus[1]].au = s.previousAu
          /\ s.stap.size > 0 /\ s.stap.size <= MaxPacketSize
      BY <1>2, <1>6, <2>2 DEF ContextOK, StapOK
    <3>2. PICK ids \in Seq(Nat) : ids = s.stap.nalus
      BY <1>2, ContextFields DEF ContextOK, PacketsOK
    <3>3. ids[1] \in 1 .. N
      BY <3>1, <3>2 DEF ToSet
    <3>4. nalus'[ids[1]].au = s.previousAu
      BY <1>6, <3>1, <3>2, <3>3
    <3>5. ToSet(s.stap.nalus) \subseteq DOMAIN nalus'
      BY <1>6, <3>1
    <3>6. QED  BY <1>1, <3>1, <3>2, <3>4, <3>5 DEF StapOK
  <2>3. QED  BY <2>1, <2>2
<1>18. PoolOK(s)'
  BY <1>1, <1>2 DEF ContextOK, PoolOK, Pending
<1>19. QED  BY <1>1, <1>2, <1>3, <1>10, <1>14, <1>15, <1>16, <1>17, <1>18 DEF IInv, ContextOK

LEMMA IInvNext == IInv /\ [Next]_vars => IInv'
<1> SUFFICES ASSUME IInv, [Next]_vars
             PROVE  IInv'
  OBVIOUS
<1>1. Custody'
  BY CustodyNext DEF IInv
<1>2. CASE \/ QueueFull \/ Start \/ CheckStop \/ Exit \/ Stop \/ FlushEnd
           \/ SendNNewNalu \/ FlushNaluQueue \/ FlushTake \/ DequeueNalu
           \/ UNCHANGED vars
  BY <1>1, <1>2, IdleStep
<1>3. CASE EnqueueNalu
  BY <1>3, EnqueueStep
<1>4. CASE FlushDrop
  BY <1>1, <1>4, FlushDropStep
<1>5. CASE CleanFromTimeout
  BY <1>1, <1>5, CleanStep
<1>6. CASE ProcessNalu
  BY <1>1, <1>6, ProcessStep
<1>7. CASE SendMmsg
  BY <1>1, <1>7, SendStep
<1>8. CASE EndNalu
  BY <1>1, <1>8, EndNaluStep
<1>9. CASE EndPackets
  BY <1>1, <1>9, EndPacketsStep
<1>10. QED  BY <1>2, <1>3, <1>4, <1>5, <1>6, <1>7, <1>8, <1>9
            DEF Next, App, AppCall, Thread

-----------------------------------------------------------------------------
(* The theorems.                                                           *)

(* Every variable has its type, packets carry NALUs that were submitted,   *)
(* a STAP-A does not exceed the maximum size, and every pair of item and   *)
(* buffer is free, queued or in the pending STAP-A, through all paths that *)
(* make, send, drop and flush packets.                                     *)
THEOREM TypeCorrect == Spec => []TypeOK
<1>1. ASSUME IInv
      PROVE  TypeOK
  <2>1. Custody /\ ContextOK(s, s.previousAu)
    BY <1>1 DEF IInv
  <2>2. /\ s \in Context /\ PacketsOK(s, s.previousAu) /\ StapOK(s, s.previousAu)
        /\ PoolOK(s)
    BY <2>1 DEF ContextOK, PacketsOK
  <2>3. /\ naluFifo \in Seq(1 .. Len(nalus)) /\ Len(naluFifo) <= NaluFifoSize
        /\ {nalu, appNalu} \subseteq 0 .. Len(nalus)
    BY <2>1 DEF Custody
  <2>4. \A p \in ToSet(s.queue) \cup ToSet(wire) : ToSet(p.nalus) \subseteq DOMAIN nalus
    BY <2>2 DEF PacketsOK, Made
  <2>5. s.stap.size <= MaxPacketSize
    BY <2>2, SenderAssumption DEF StapOK, NoStap
  <2>6. s.free + Len(s.queue) + (IF s.stap = NoStap THEN 0 ELSE 1) = PoolSize
    BY <2>2 DEF PoolOK, Pending
  <2>7. s.free \in 0 .. PoolSize
    <3>1. PICK f \in Nat, l \in Nat : f = s.free /\ l = Len(s.queue)
      BY <2>2, ContextFields
    <3>2. PICK p \in Nat : p = IF s.stap = NoStap THEN 0 ELSE 1
      OBVIOUS
    <3>3. f + l + p = PoolSize
      BY <2>6, <3>1, <3>2
    <3>4. f \in 0 .. f + l + p
      OBVIOUS
    <3>5. QED  BY <3>1, <3>3, <3>4
  <2>8. QED  BY <2>3, <2>4, <2>5, <2>6, <2>7 DEF TypeOK
<1>2. QED  BY IInvInit, IInvNext, <1>1, PTL DEF Spec

(* Packets leave in the order of the access units and, within one, those   *)
(* of the same priority in the order of their sequence numbers.            *)
THEOREM SentInOrder == Spec => []WireOrder
<1>1. ASSUME IInv
      PROVE  WireOrder
  <2>1. InOrder(wire)
    BY <1>1 DEF IInv, ContextOK, PacketsOK
  <2>2. QED  BY <2>1 DEF WireOrder, InOrder, Before
<1>2. QED  BY IInvInit, IInvNext, <1>1, PTL DEF Spec

(* auCallback is called once for an access unit, when none of its NALUs is *)
(* queued or in use, if FlushNaluQueue is not called.                      *)
THEOREM AuDoneOnce == Spec => []AuCompletedOnce
<1>1. ASSUME IInv
      PROVE  AuCompletedOnce
  <2>1. SUFFICES ASSUME flushes = 0
                 PROVE  /\ IsInjective(s.auCalls)
                        /\ \A n \in Ahead : nalus[n].au \notin ToSet(s.auCalls)
    BY DEF AuCompletedOnce, Ahead
  <2>2. PICK q \in Seq(Nat), last \in Nat : q = s.auCalls /\ last = s.lastCallbackAu
    BY <1>1, ContextFields DEF IInv, ContextOK, PacketsOK
  <2>3. /\ \A i, j \in DOMAIN q : i < j => q[i] < q[j]
        /\ \A i \in DOMAIN q : q[i] <= last
        /\ \A n \in Ahead : last < nalus[n].au
    BY <1>1, <2>1, <2>2 DEF IInv, AuCallsInv, CallsOK, Past
  <2>4. DOMAIN q \subseteq Nat /\ \A i \in DOMAIN q : q[i] \in Nat
    OBVIOUS
  <2>5. IsInjective(q)
    <3>1. ASSUME NEW i \in DOMAIN q, NEW j \in DOMAIN q, q[i] = q[j], i # j
          PROVE  FALSE
      <4>1. i < j \/ j < i
        BY <2>4, <3>1
      <4>2. q[i] < q[j] \/ q[j] < q[i]
        BY <2>3, <4>1
      <4>3. QED  BY <2>4, <3>1, <4>2
    <3>2. QED  BY <3>1 DEF IsInjective
  <2>6. ASSUME NEW n \in Ahead, NEW i \in DOMAIN q, nalus[n].au = q[i]
        PROVE  FALSE
    <3>1. q[i] <= last /\ last < q[i]
      BY <2>3, <2>6
    <3>2. QED  BY <2>4, <3>1
  <2>7. QED  BY <2>2, <2>5, <2>6 DEF ToSet
<1>2. QED  BY IInvInit, IInvNext, <1>1, PTL DEF Spec

-----------------------------------------------------------------------------
(* The numbers that losses leave out.  As long as FlushNaluQueue has not   *)
(* been called and all priorities are the same, the packetizer takes the   *)
(* NALUs one after the other, and the packets, those sent and those        *)
(* queued, are numbered in that order.  L is the set of these packets,     *)
(* number the next sequence number, waiting the NALUs of the pending       *)
(* STAP-A and last the NALU the packetizer has seen last.                  *)

Uniform ==
    /\ flushes = 0
    /\ \A m, n \in DOMAIN nalus : nalus[m].priority = nalus[n].priority

Ids(p) == ToSet(p.nalus)

(* A packet carries one NALU, or part of it, or is a STAP-A (0 of 0).      *)
Formed(p) ==
    /\ p \in Packet /\ Ids(p) # {} /\ Ids(p) \subseteq DOMAIN nalus
    /\ \E x \in Ids(p) : p.au = nalus[x].au /\ p.priority = nalus[x].priority
    /\ p.of # 0 => p.part \in 1 .. p.of /\ \A x, y \in Ids(p) : x = y

(* Packet p was made before packet q.                                      *)
Prior(p, q) ==
    /\ p.seqNum < q.seqNum
    /\ \/ \A x \in Ids(p), y \in Ids(q) : x < y
       \/ Ids(p) = Ids(q) /\ p.of = q.of /\ p.of # 0 /\ p.part < q.part

(* The packets are of NALUs seen, and in order; the pending ones are next. *)
Numbered(L, number, waiting, last) ==
    /\ \A p \in L : /\ Formed(p) /\ p.seqNum < number
                    /\ \A x \in Ids(p) : x <= last /\ \A y \in waiting : x < y
    /\ \A p, q \in L : p = q \/ Prior(p, q) \/ Prior(q, p)
    /\ \A y \in waiting : y \in Nat /\ y <= last
    /\ L # {} => PoolSize > 0

(* Packet p is the last one made of NALU i.                                *)
Closing(p, i) == i \in Ids(p) /\ p.of # 0 /\ p.part = p.of

(* The NALU after i used a number, or will with the pending STAP-A; those  *)
(* of the packets of later NALUs are not next to that of p.                *)
Marked(L, number, waiting, p, i) ==
    /\ p.seqNum + 1 < number \/ i + 1 \in waiting
    /\ \A q \in L : (\A x \in Ids(q) : i + 1 < x) => p.seqNum + 1 < q.seqNum

AllMarked(L, number, waiting, last) ==
    \A p \in L, i \in Nat : Closing(p, i) /\ i < last => Marked(L, number, waiting, p, i)

Packets(c) == ToSet(wire) \cup ToSet(c.queue)
Waiting(c) == ToSet(c.stap.nalus)

(* The order of the packets, when the packetizer has seen last, and the    *)
(* gaps after NALUs before top.                                            *)
Seen(c, last, top) ==
    /\ Numbered(Packets(c), c.seqNum, Waiting(c), last)
    /\ AllMarked(Packets(c), c.seqNum, Waiting(c), top)

(* The NALUs ahead of the packetizer are those after the last one seen.    *)
Visibility ==
    Uniform => \E last \in 0 .. Len(nalus) :
        Ahead = last + 1 .. Len(nalus) /\ Seen(s, last, last)

(* Packets that leave the queue change nothing.                            *)
LEMMA FewerSeen ==
    ASSUME NEW L, NEW M, M \subseteq L, NEW number, NEW waiting,
           NEW last, NEW top, number \in Nat,
           Numbered(L, number, waiting, last), AllMarked(L, number, waiting, top)
    PROVE  Numbered(M, number, waiting, last) /\ AllMarked(M, number, waiting, top)
<1>1. Numbered(M, number, waiting, last)
  BY DEF Numbered
<1>2. AllMarked(M, number, waiting, top)
  BY DEF AllMarked, Marked
<1>3. QED  BY <1>1, <1>2

(* Nor does a greater number.                                              *)
LEMMA NumberSeen ==
    ASSUME NEW L, NEW number, NEW next, NEW waiting, NEW last, NEW top,
           number \in Nat, next \in Nat, last \in Nat, number <= next,
           Numbered(L, number, waiting, last), AllMarked(L, number, waiting, top)
    PROVE  Numbered(L, next, waiting, last) /\ AllMarked(L, next, waiting, top)
<1>1. ASSUME NEW p \in L
      PROVE  p.seqNum \in Nat /\ p.seqNum < number
  BY PacketFields DEF Numbered, Formed
<1>2. \A p \in L : p.seqNum < next
  BY <1>1
<1>3. Numbered(L, next, waiting, last)
  BY <1>2 DEF Numbered
<1>4. ASSUME NEW p \in L, NEW i \in Nat, Closing(p, i) /\ i < top
      PROVE  Marked(L, next, waiting, p, i)
  <2>1. Marked(L, number, waiting, p, i)
    BY <1>4 DEF AllMarked
  <2>2. p.seqNum + 1 < number => p.seqNum + 1 < next
    BY <1>1
  <2>3. QED  BY <2>1, <2>2 DEF Marked
<1>5. QED  BY <1>3, <1>4 DEF AllMarked

(* The packetizer has seen one more NALU, k, when a number stands for it,  *)
(* or the pending STAP-A has it.                                           *)
LEMMA CaughtUp ==
    ASSUME NEW L, NEW number, NEW waiting, NEW j, NEW k,
           number \in Nat, j \in Nat, k = j + 1,
           Numbered(L, number, waiting, k), AllMarked(L, number, waiting, j),
           \A p \in L : Closing(p, j) => p.seqNum + 1 < number \/ k \in waiting,
           nalus \in Seq(Nalu)
    PROVE  AllMarked(L, number, waiting, k)
<1>1. ASSUME NEW p \in L, NEW i \in Nat, Closing(p, i), i < k
      PROVE  Marked(L, number, waiting, p, i)
  <2>1. CASE i < j
    BY <1>1, <2>1 DEF AllMarked
  <2>2. CASE i = j
    <3>1. p.seqNum + 1 < number \/ i + 1 \in waiting
      BY <1>1, <2>2
    <3>2. ASSUME NEW q \in L, \A x \in Ids(q) : i + 1 < x
          PROVE  FALSE
      <4>1. PICK x : x \in Ids(q)
        BY DEF Numbered, Formed
      <4>2. x \in Nat /\ x <= k
        BY <4>1 DEF Numbered, Formed
      <4>3. k < x
        BY <2>2, <3>2, <4>1
      <4>4. QED  BY <4>2, <4>3
    <3>3. QED  BY <3>1, <3>2 DEF Marked
  <2>3. QED  BY <1>1, <2>1, <2>2
<1>2. QED  BY <1>1 DEF AllMarked

(* Packet x is one of those of the NALUs ids, which come after L.          *)
NewPacket(x, number, next, ids) ==
    Formed(x) /\ Ids(x) = ids /\ number <= x.seqNum /\ x.seqNum < next

(* The packets R of the NALUs ids, numbered up to next and one after the   *)
(* other, behind those of L.                                               *)
Behind(L, R, number, next, waiting, ids, last, top) ==
    /\ \A x \in R : NewPacket(x, number, next, ids)
    /\ \A p, q \in R : p = q \/ Prior(p, q) \/ Prior(q, p)
    /\ \A p \in L : \A x \in Ids(p), y \in ids : x < y
    /\ \A x \in R : x.of = 0 \/ \A y \in ids : top <= y
    /\ ids \subseteq 1 .. last /\ waiting \subseteq ids
    /\ number <= next /\ (waiting # {} => number < next)

(* New packets behind all others: those of the pending STAP-A, or those of *)
(* a NALU when none is pending.                                            *)
LEMMA MoreSeen ==
    ASSUME NEW L, NEW M, NEW R, NEW number, NEW next, NEW waiting, NEW ids,
           NEW last, NEW top, \A p \in M : p \in L \/ p \in R,
           number \in Nat, next \in Nat, last \in Nat, top \in Nat,
           nalus \in Seq(Nalu), PoolSize > 0,
           Numbered(L, number, waiting, last), AllMarked(L, number, waiting, top),
           Behind(L, R, number, next, waiting, ids, last, top)
    PROVE  Numbered(M, next, {}, last) /\ AllMarked(M, next, {}, top)
<1>0. /\ ids \subseteq 1 .. last /\ waiting \subseteq ids
      /\ number <= next /\ (waiting # {} => number < next)
  BY DEF Behind
<1>1. ASSUME NEW p \in L
      PROVE  /\ p.seqNum \in Nat /\ p.seqNum < number /\ Formed(p)
             /\ \A x \in Ids(p) : x <= last
  BY PacketFields DEF Numbered, Formed
<1>2. ASSUME NEW x \in R
      PROVE  /\ x.seqNum \in Nat /\ number <= x.seqNum /\ x.seqNum < next /\ Formed(x)
             /\ Ids(x) = ids /\ (x.of = 0 \/ \A y \in ids : top <= y)
  BY PacketFields DEF Behind, NewPacket, Formed
<1>3. ASSUME NEW p \in M
      PROVE  Formed(p) /\ p.seqNum < next /\ \A x \in Ids(p) : x <= last
  <2>1. CASE p \in L
    <3>1. p.seqNum < next
      BY <1>0, <1>1, <2>1
    <3>2. QED  BY <1>1, <2>1, <3>1
  <2>2. CASE p \in R
    <3>1. \A x \in ids : x <= last
      BY <1>0
    <3>2. QED  BY <1>2, <2>2, <3>1
  <2>3. QED  BY <2>1, <2>2
<1>4. ASSUME NEW p \in L, NEW q \in R
      PROVE  Prior(p, q)
  <2>1. p.seqNum < q.seqNum
    BY <1>1, <1>2
  <2>2. \A x \in Ids(p), y \in Ids(q) : x < y
    BY <1>2 DEF Behind
  <2>3. QED  BY <2>1, <2>2 DEF Prior
<1>5. ASSUME NEW p \in M, NEW q \in M
      PROVE  p = q \/ Prior(p, q) \/ Prior(q, p)
  BY <1>4 DEF Numbered, Behind
<1>6. Numbered(M, next, {}, last)
  BY <1>3, <1>5 DEF Numbered
<1>7. ASSUME NEW p \in M, NEW i \in Nat, Closing(p, i), i < top
      PROVE  Marked(M, next, {}, p, i)
  <2>1. p \in L
    BY <1>0, <1>2, <1>7 DEF Closing
  <2>2. Marked(L, number, waiting, p, i)
    BY <1>7, <2>1 DEF AllMarked
  <2>3. p.seqNum + 1 < next
    BY <1>0, <1>1, <2>1, <2>2 DEF Marked
  <2>4. ASSUME NEW q \in M, \A x \in Ids(q) : i + 1 < x
        PROVE  p.seqNum + 1 < q.seqNum
    <3>1. CASE q \in L
      BY <2>2, <2>4, <3>1 DEF Marked
    <3>2. CASE q \in R
      <4>1. i + 1 \notin waiting
        BY <1>0, <1>2, <2>4, <3>2
      <4>2. p.seqNum + 1 < number
        BY <2>2, <4>1 DEF Marked
      <4>3. QED  BY <1>1, <1>2, <2>1, <3>2, <4>2
    <3>3. QED  BY <3>1, <3>2
  <2>5. QED  BY <2>3, <2>4 DEF Marked
<1>8. QED  BY <1>6, <1>7 DEF AllMarked

(* Having seen later ones, without a packet of them.                       *)
LEMMA LaterSeen ==
    ASSUME NEW L, NEW number, NEW waiting, NEW j, NEW k,
           j \in Nat, k \in Nat, j <= k,
           nalus \in Seq(Nalu),
           Numbered(L, number, waiting, j)
    PROVE  Numbered(L, number, waiting, k)
<1>1. \A p \in L : \A x \in Ids(p) : x \in Nat /\ x <= j
  BY DEF Numbered, Formed
<1>2. \A y \in waiting : y \in Nat /\ y <= j
  BY DEF Numbered
<1>3. (\A p \in L : \A x \in Ids(p) : x <= k) /\ \A y \in waiting : y <= k
  BY <1>1, <1>2
<1>4. QED  BY <1>3 DEF Numbered

(* NALUs that were submitted.                                              *)
Known(ids) == ids \in Seq(Nat) /\ ids # <<>> /\ ToSet(ids) \subseteq DOMAIN nalus

(* The packet of a STAP-A, or at most of packets of one NALU.              *)
Parted(ids, parts, of) ==
    /\ parts \in Seq(Nat) /\ of \in Nat
    /\ \/ of = 0 /\ Len(parts) = 1
       \/ /\ \A i \in DOMAIN parts : parts[i] = i /\ i <= of
          /\ \A x, y \in ToSet(ids) : x = y

LEMMA PieceLemma ==
    ASSUME NEW ids, NEW base, NEW parts, NEW of, NEW i, NEW p,
           p = Piece(base, ids, parts, of, i), nalus \in Seq(Nalu), Uniform,
           Known(ids), Parted(ids, parts, of), base \in Nat, i \in DOMAIN parts
    PROVE  /\ Formed(p) /\ Ids(p) = ToSet(ids)
           /\ p.seqNum = base + i - 1 /\ p.part = parts[i] /\ p.of = of
<1>1. /\ p = Piece(base, ids, parts, of, i) /\ parts \in Seq(Nat) /\ of \in Nat
      /\ ids \in Seq(Nat) /\ ids # <<>> /\ ToSet(ids) \subseteq DOMAIN nalus
      /\ of = 0 \/ (parts[i] \in 1 .. of /\ \A x, y \in ToSet(ids) : x = y)
  BY DEF Known, Parted
<1>2. PICK number \in Nat : number = base + i - 1
  <2>1. i \in Nat /\ i >= 1
    BY <1>1
  <2>2. base + i - 1 \in Nat
    BY <2>1
  <2>3. QED  BY <2>2
<1>3. PICK n \in DOMAIN nalus : n = Head(ids) /\ n \in ToSet(ids)
  BY <1>1 DEF ToSet
<1> DEFINE priorities == {nalus[m].priority : m \in ToSet(ids)}
<1>4. Min(priorities) = nalus[n].priority
  <2>1. priorities \subseteq Nat
    BY <1>1, NaluFields
  <2>2. nalus[n].priority \in priorities
    BY <1>3
  <2>3. \A y \in priorities : y = nalus[n].priority
    BY <1>1, <1>3 DEF Uniform
  <2> HIDE DEF priorities
  <2>4. Min(priorities) \in priorities
    BY <2>1, <2>2, MinLemma
  <2>5. QED  BY <2>3, <2>4
<1>5. PICK y \in Nat : y = nalus[n].priority
  BY NaluFields
<1>6. PICK au \in Nat : au = nalus[n].au
  BY NaluFields
<1>7. PICK part \in Nat : part = parts[i]
  BY <1>1
<1>8. p = [seqNum |-> number, nalus |-> ids, part |-> part, of |-> of,
           au |-> au, priority |-> y]
  BY <1>1, <1>2, <1>3, <1>4, <1>5, <1>6, <1>7 DEF Piece
<1>9. /\ p \in Packet /\ p.nalus = ids /\ p.seqNum = number /\ p.part = part
      /\ p.of = of /\ p.au = au /\ p.priority = y
  BY <1>1, <1>8 DEF Packet
<1>10. Ids(p) = ToSet(ids)
  BY <1>9 DEF Ids
<1>11. Formed(p)
  BY <1>1, <1>3, <1>5, <1>6, <1>7, <1>9, <1>10 DEF Formed
<1>12. QED  BY <1>1, <1>2, <1>7, <1>9, <1>10, <1>11

(* The packets of the NALUs ids may come after those made so far.          *)
Proceeds(c, ids, parts, of, last, top) ==
    /\ ToSet(ids) \subseteq 1 .. last
    /\ \A p \in Packets(c) : \A x \in Ids(p), y \in ToSet(ids) : x < y
    /\ Waiting(c) \subseteq ToSet(ids)
    /\ Waiting(c) # {} => Len(parts) > 0
    /\ of = 0 \/ \A y \in ToSet(ids) : top <= y

(* An emission, seen from the packets.                                     *)
LEMMA EmittedSeen ==
    ASSUME nalus \in Seq(Nalu), Uniform, NEW c \in Context, NEW d \in Context,
           NEW ids, NEW parts, NEW of, Known(ids), Parted(ids, parts, of),
           Emitted(c, d, ids, parts, of), NEW last \in Nat, NEW top \in Nat,
           Seen(c, last, top), Proceeds(c, ids, parts, of, last, top),
           Waiting(d) = {}, PoolSize > 0
    PROVE  Seen(d, last, top) /\ \A p \in Packets(d) : p \in Packets(c) \/ Ids(p) = ToSet(ids)
<1>1. PICK base \in Nat, next \in Nat, m \in Nat :
          base = c.seqNum /\ next = d.seqNum /\ m = Len(parts) /\ next = base + m
  BY ContextFields DEF Emitted, Parted
<1> DEFINE R == {Piece(base, ids, parts, of, i) : i \in DOMAIN parts}
<1>2. DOMAIN parts = 1 .. m /\ parts \in Seq(Nat) /\ of \in Nat
  BY <1>1 DEF Parted
<1>3. ASSUME NEW i \in DOMAIN parts
      PROVE  LET p == Piece(base, ids, parts, of, i) IN
             /\ Formed(p) /\ Ids(p) = ToSet(ids)
             /\ p.seqNum = base + i - 1 /\ p.part = parts[i] /\ p.of = of
  <2>1. PICK p : p = Piece(base, ids, parts, of, i)
    OBVIOUS
  <2>2. /\ Formed(p) /\ Ids(p) = ToSet(ids)
        /\ p.seqNum = base + i - 1 /\ p.part = parts[i] /\ p.of = of
    BY <2>1, PieceLemma
  <2>3. QED  BY <2>1, <2>2
<1>4. ASSUME NEW x \in R
      PROVE  \E i \in 1 .. m : /\ x = Piece(base, ids, parts, of, i)
                               /\ Formed(x) /\ Ids(x) = ToSet(ids)
                               /\ x.seqNum = base + i - 1 /\ x.part = parts[i] /\ x.of = of
  <2>1. PICK i \in DOMAIN parts : x = Piece(base, ids, parts, of, i)
    OBVIOUS
  <2>2. QED  BY <1>2, <1>3, <2>1
<1>5. Packets(d) \subseteq Packets(c) \cup R
  BY <1>1 DEF Packets, Emitted
<1> HIDE DEF R
<1>6. ASSUME NEW x \in R
      PROVE  /\ NewPacket(x, base, next, ToSet(ids))
             /\ x.of = 0 \/ \A y \in ToSet(ids) : top <= y
  <2>0. of = 0 \/ \A y \in ToSet(ids) : top <= y
    BY DEF Proceeds
  <2>1. PICK i \in 1 .. m : /\ Formed(x) /\ Ids(x) = ToSet(ids)
                            /\ x.seqNum = base + i - 1 /\ x.of = of
    BY <1>4
  <2>2. base <= base + i - 1 /\ base + i - 1 < base + m
    OBVIOUS
  <2>3. QED  BY <1>1, <2>0, <2>1, <2>2 DEF NewPacket
<1>7. ASSUME NEW p \in R, NEW q \in R
      PROVE  p = q \/ Prior(p, q) \/ Prior(q, p)
  <2>1. PICK i \in 1 .. m : /\ p = Piece(base, ids, parts, of, i) /\ Ids(p) = ToSet(ids)
                            /\ p.seqNum = base + i - 1 /\ p.part = parts[i] /\ p.of = of
    BY <1>4
  <2>2. PICK k \in 1 .. m : /\ q = Piece(base, ids, parts, of, k) /\ Ids(q) = ToSet(ids)
                            /\ q.seqNum = base + k - 1 /\ q.part = parts[k] /\ q.of = of
    BY <1>4
  <2>3. CASE i = k
    BY <2>1, <2>2, <2>3
  <2>4. CASE i # k
    <3>1. i < k \/ k < i
      BY <2>4
    <3>2. parts[i] = i /\ parts[k] = k /\ of # 0
      <4>1. m # 1
        BY <2>4
      <4>2. Len(parts) # 1
        BY <1>1, <4>1
      <4>3. \A l \in DOMAIN parts : parts[l] = l /\ l <= of
        BY <4>2 DEF Parted
      <4>4. i \in DOMAIN parts /\ k \in DOMAIN parts
        BY <1>2
      <4>5. parts[i] = i /\ parts[k] = k /\ i <= of
        BY <4>3, <4>4
      <4>6. QED  BY <1>2, <4>5
    <3>3. i < k => base + i - 1 < base + k - 1
      OBVIOUS
    <3>4. k < i => base + k - 1 < base + i - 1
      OBVIOUS
    <3>5. QED  BY <2>1, <2>2, <3>1, <3>2, <3>3, <3>4 DEF Prior
  <2>5. QED  BY <2>3, <2>4
<1>8. Numbered(Packets(c), base, Waiting(c), last) /\ AllMarked(Packets(c), base, Waiting(c), top)
  BY <1>1 DEF Seen
<1>9. base <= next /\ (Waiting(c) # {} => base < next)
  <2>1. base <= next /\ (m > 0 => base < next)
    BY <1>1
  <2>2. Waiting(c) # {} => m > 0
    BY <1>1 DEF Proceeds
  <2>3. QED  BY <2>1, <2>2
<1>10. Numbered(Packets(d), next, {}, last) /\ AllMarked(Packets(d), next, {}, top)
  <2>1. PICK L, M, waiting, set : /\ L = Packets(c) /\ M = Packets(d)
                                  /\ waiting = Waiting(c) /\ set = ToSet(ids)
    OBVIOUS
  <2>2. /\ \A p \in M : p \in L \/ p \in R
        /\ Numbered(L, base, waiting, last) /\ AllMarked(L, base, waiting, top)
    BY <1>5, <1>8, <2>1
  <2>3. Behind(L, R, base, next, waiting, set, last, top)
    BY <1>6, <1>7, <1>9, <2>1 DEF Behind, Proceeds
  <2>4. Numbered(M, next, {}, last) /\ AllMarked(M, next, {}, top)
    BY <2>2, <2>3, MoreSeen
  <2>5. QED  BY <2>1, <2>4
<1>11. ASSUME NEW p \in Packets(d)
       PROVE  p \in Packets(c) \/ Ids(p) = ToSet(ids)
  BY <1>4, <1>5
<1>12. QED  BY <1>1, <1>10, <1>11 DEF Seen

(* Fewer packets in the queue, the rest as before.                         *)
LEMMA ShrunkSeen ==
    ASSUME NEW c, NEW d, NEW last, NEW top, Seen(c, last, top), c \in Context,
           d.seqNum = c.seqNum, d.stap = c.stap, ToSet(d.queue) \subseteq ToSet(c.queue)
    PROVE  Seen(d, last, top)
<1>1. PICK L, M, number, waiting : /\ L = Packets(c) /\ M = Packets(d)
                                   /\ number = c.seqNum /\ waiting = Waiting(c)
  OBVIOUS
<1>2. M \subseteq L
  BY <1>1 DEF Packets
<1>3. number \in Nat
  BY <1>1, ContextFields
<1>4. Numbered(L, number, waiting, last) /\ AllMarked(L, number, waiting, top)
  BY <1>1 DEF Seen
<1>5. Numbered(M, number, waiting, last) /\ AllMarked(M, number, waiting, top)
  BY <1>2, <1>3, <1>4, FewerSeen
<1>6. d.seqNum = number /\ Waiting(d) = waiting
  BY <1>1 DEF Waiting
<1>7. QED  BY <1>1, <1>5, <1>6 DEF Seen

LEMMA FlushKeeps ==
    ASSUME NEW c, c \in Context, NEW d, d = PacketFifoFlush(c)
    PROVE  /\ d.seqNum = c.seqNum /\ d.stap = c.stap /\ ToSet(d.queue) = {}
           /\ Packets(d) = ToSet(wire)
<1>1. /\ d.queue = <<>> /\ d.seqNum = c.seqNum /\ d.stap = c.stap
  BY DEF PacketFifoFlush, Context
<1>2. ToSet(d.queue) = {}
  BY <1>1 DEF ToSet
<1>3. QED  BY <1>1, <1>2 DEF Packets

LEMMA FlushSeen ==
    ASSUME NEW c, c \in Context, NEW last, NEW top, Seen(c, last, top)
    PROVE  Seen(PacketFifoFlush(c), last, top)
<1>1. PICK d : d = PacketFifoFlush(c)
  OBVIOUS
<1>2. /\ d.seqNum = c.seqNum /\ d.stap = c.stap /\ ToSet(d.queue) = {}
  BY <1>1, FlushKeeps
<1>3. Seen(d, last, top)
  BY <1>2, ShrunkSeen
<1>4. QED  BY <1>1, <1>3

(* The NALUs of a pending STAP-A are those the packets go on with.         *)
LEMMA FinishSeen ==
    ASSUME nalus \in Seq(Nalu), Uniform, NEW c, NEW a \in Nat, ContextOK(c, a),
           NEW last \in Nat, NEW top \in Nat, Seen(c, last, top)
    PROVE  Seen(FinishStapAPacket(c), last, top)
<1>1. CASE c.stap = NoStap
  BY <1>1 DEF FinishStapAPacket
<1>2. CASE c.stap # NoStap
  <2>1. PICK d : d = FinishStapAPacket(c)
    OBVIOUS
  <2>2. PICK ids : ids = c.stap.nalus
    OBVIOUS
  <2>3. PICK parts : parts = <<0>>
    OBVIOUS
  <2>4. PICK of : of = 0
    OBVIOUS
  <2>5. ContextOK(d, a) /\ d.stap = NoStap /\ Emitted(c, d, ids, parts, of)
    BY <1>2, <2>1, <2>2, <2>3, <2>4, FinishLemma
  <2>6. c \in Context /\ d \in Context /\ PoolOK(c)
    BY <2>5 DEF ContextOK, PacketsOK
  <2>7. Known(ids)
    BY <1>2, <2>2, <2>6, ContextFields DEF ContextOK, StapOK, Known
  <2>8. parts \in Seq(Nat) /\ Len(parts) = 1
    BY <2>3
  <2>9. Parted(ids, parts, of)
    BY <2>4, <2>8 DEF Parted
  <2>10. ToSet(ids) = Waiting(c)
    BY <2>2 DEF Waiting
  <2>11. ToSet(ids) \subseteq 1 .. last
    <3>1. \A y \in ToSet(ids) : y <= last
      BY <2>10 DEF Seen, Numbered
    <3>2. \A y \in ToSet(ids) : y \in Nat /\ y >= 1
      BY <2>7 DEF Known
    <3>3. QED  BY <3>1, <3>2
  <2>12. \A p \in Packets(c) : \A x \in Ids(p), y \in ToSet(ids) : x < y
    BY <2>10 DEF Seen, Numbered
  <2>13. Waiting(d) = {}
    BY <2>5 DEF Waiting, NoStap, ToSet
  <2>14. PoolSize > 0
    <3>1. c.free \in Nat /\ Len(c.queue) \in Nat /\ Pending(c) = 1
      BY <1>2, <2>6, ContextFields DEF Pending
    <3>2. QED  BY <2>6, <3>1 DEF PoolOK
  <2>15. Seen(d, last, top)
    <3>1. Proceeds(c, ids, parts, of, last, top)
      BY <2>4, <2>8, <2>10, <2>11, <2>12 DEF Proceeds
    <3>2. QED  BY <2>5, <2>6, <2>7, <2>9, <2>13, <2>14, <3>1, EmittedSeen
  <2>16. QED  BY <2>1, <2>15
<1>3. QED  BY <1>1, <1>2

(* Packets of one more NALU, when no STAP-A is pending.                    *)
LEMMA TakenSeen ==
    ASSUME nalus \in Seq(Nalu), Uniform, NEW c, NEW d, NEW a \in Nat, ContextOK(c, a),
           c.stap = NoStap, d \in Context, d.stap = NoStap,
           NEW j \in Nat, NEW n \in DOMAIN nalus, n = j + 1, Seen(c, j, j),
           NEW parts \in Seq(Nat), NEW of \in Nat, Len(parts) > 0, c.free > 0,
           \A i \in DOMAIN parts : parts[i] = i /\ i <= of,
           Emitted(c, d, <<n>>, parts, of)
    PROVE  Seen(d, n, n)
<1>1. c \in Context /\ PoolOK(c)
  BY DEF ContextOK, PacketsOK
<1>2. PICK number \in Nat, next \in Nat, m \in Nat :
          number = c.seqNum /\ next = d.seqNum /\ m = Len(parts)
  <2>1. c.seqNum \in Nat /\ d.seqNum \in Nat /\ Len(parts) \in Nat
    BY <1>1, ContextFields
  <2>2. QED  BY <2>1
<1>3. next = number + m /\ m > 0
  BY <1>2 DEF Emitted
<1>4. PICK ids : ids = <<n>>
  OBVIOUS
<1>5. n \in Nat /\ <<n>> \in Seq(Nat) /\ <<n>> # <<>> /\ ToSet(<<n>>) = {n}
  BY DEF ToSet
<1>6. Known(ids) /\ ToSet(ids) = {n} /\ Parted(ids, parts, of)
  BY <1>4, <1>5 DEF Known, Parted
<1>7. Waiting(c) = {} /\ Waiting(d) = {}
  BY DEF Waiting, NoStap, ToSet
<1>8. \A p \in Packets(c) : p.seqNum \in Nat /\ p.seqNum < number /\ \A x \in Ids(p) : x \in Nat /\ x <= j
  BY <1>2, PacketFields DEF Seen, Numbered, Formed
<1>9. Seen(c, n, j)
  <2>1. PICK L, waiting : L = Packets(c) /\ waiting = Waiting(c)
    OBVIOUS
  <2>2. Numbered(L, number, waiting, j) /\ AllMarked(L, number, waiting, j)
    BY <1>2, <2>1 DEF Seen
  <2>3. Numbered(L, number, waiting, n)
    BY <1>5, <2>2, LaterSeen
  <2>4. QED  BY <1>2, <2>1, <2>2, <2>3 DEF Seen
<1>10. PoolSize > 0
  <2>1. c.free \in Nat /\ Len(c.queue) \in Nat /\ Pending(c) = 0
    BY <1>1, ContextFields DEF Pending
  <2>2. QED  BY <1>1, <2>1 DEF PoolOK
<1>11. ToSet(ids) \subseteq 1 .. n /\ \A y \in ToSet(ids) : j <= y
  BY <1>5, <1>6
<1>12. \A p \in Packets(c) : \A x \in Ids(p), y \in ToSet(ids) : x < y
  BY <1>6, <1>8
<1>13. Waiting(c) \subseteq ToSet(ids) /\ (Waiting(c) # {} => Len(parts) > 0)
  BY <1>7
<1>14. Seen(d, n, j) /\ \A p \in Packets(d) : p \in Packets(c) \/ Ids(p) = ToSet(ids)
  <2>1. Emitted(c, d, ids, parts, of)
    BY <1>4
  <2>2. Proceeds(c, ids, parts, of, n, j)
    BY <1>11, <1>12, <1>13 DEF Proceeds
  <2>3. QED  BY <1>1, <1>5, <1>6, <1>7, <1>9, <1>10, <2>1, <2>2, EmittedSeen
<1>15. ASSUME NEW p \in Packets(d), Closing(p, j)
       PROVE  p.seqNum + 1 < next
  <2>1. p \in Packets(c)
    BY <1>6, <1>14, <1>15 DEF Closing
  <2>2. QED  BY <1>3, <1>8, <2>1
<1>16. AllMarked(Packets(d), next, Waiting(d), n)
  <2>1. PICK L, waiting : L = Packets(d) /\ waiting = Waiting(d)
    OBVIOUS
  <2>2. Numbered(L, next, waiting, n) /\ AllMarked(L, next, waiting, j)
    BY <1>2, <1>14, <2>1 DEF Seen
  <2>3. \A p \in L : Closing(p, j) => p.seqNum + 1 < next \/ n \in waiting
    BY <1>15, <2>1
  <2>4. AllMarked(L, next, waiting, n)
    BY <2>2, <2>3, CaughtUp
  <2>5. QED  BY <2>1, <2>4
<1>17. QED  BY <1>2, <1>14, <1>16 DEF Seen

(* A packet that may leave before another was made before it.              *)
LEMMA BeforeIsPrior ==
    ASSUME nalus \in Seq(Nalu), Uniform, AusInOrder, NEW p, NEW q, Formed(p), Formed(q),
           Before(p, q), p = q \/ Prior(p, q) \/ Prior(q, p)
    PROVE  Prior(p, q)
<1>1. PICK x \in Ids(p) : p.au = nalus[x].au /\ p.priority = nalus[x].priority
  BY DEF Formed
<1>2. PICK y \in Ids(q) : q.au = nalus[y].au /\ q.priority = nalus[y].priority
  BY DEF Formed
<1>3. x \in DOMAIN nalus /\ y \in DOMAIN nalus /\ p \in Packet /\ q \in Packet
  BY DEF Formed
<1>4. /\ p.priority = q.priority /\ flushes = 0
      /\ p.au \in Nat /\ q.au \in Nat /\ p.seqNum \in Nat /\ q.seqNum \in Nat
  BY <1>1, <1>2, <1>3, PacketFields DEF Uniform
<1>5. p.au <= q.au /\ (p.au = q.au => p.seqNum < q.seqNum)
  BY <1>4 DEF Before
<1>6. CASE p = q
  BY <1>4, <1>5, <1>6
<1>7. CASE Prior(q, p)
  <2>1. q.seqNum < p.seqNum
    BY <1>7 DEF Prior
  <2>2. CASE y < x
    <3>1. q.au <= p.au
      BY <1>1, <1>2, <1>3, <2>2 DEF AusInOrder
    <3>2. QED  BY <1>4, <1>5, <2>1, <3>1
  <2>3. CASE Ids(p) = Ids(q) /\ p.of # 0
    <3>1. x = y
      BY <2>3 DEF Formed
    <3>2. p.au = q.au
      BY <1>1, <1>2, <3>1
    <3>3. QED  BY <1>4, <1>5, <2>1, <3>2
  <2>4. QED  BY <1>7, <2>2, <2>3 DEF Prior
<1>8. QED  BY <1>6, <1>7

(* The NALU after j is lost because the pool is used up.  Then packets are *)
(* queued, and the last packet of j is one of them or has been flushed     *)
(* before: the flush leaves none that the gap would have to follow.        *)
LEMMA LostSeen ==
    ASSUME nalus \in Seq(Nalu), Uniform, AusInOrder, NEW c, NEW d, NEW a \in Nat,
           ContextOK(c, a), c.stap = NoStap, ~(c.free > 0),
           d.seqNum = c.seqNum, d.stap = c.stap, ToSet(d.queue) = {},
           NEW j \in Nat, NEW n, n = j + 1, Seen(c, j, j)
    PROVE  Seen(d, n, n)
<1>1. /\ c \in Context /\ PoolOK(c)
      /\ \A p \in ToSet(wire), q \in ToSet(c.queue) : Before(p, q)
  BY DEF ContextOK, PacketsOK
<1>2. PICK L, M, number, waiting : /\ L = Packets(c) /\ M = Packets(d)
                                   /\ number = c.seqNum /\ waiting = Waiting(c)
  OBVIOUS
<1>3. number \in Nat /\ Waiting(d) = waiting /\ M \subseteq L
  BY <1>1, <1>2, ContextFields DEF Waiting, Packets
<1>4. Numbered(L, number, waiting, j) /\ AllMarked(L, number, waiting, j)
  BY <1>2 DEF Seen
<1>5. Numbered(M, number, waiting, j) /\ AllMarked(M, number, waiting, j)
  BY <1>3, <1>4, FewerSeen
<1>6. Numbered(M, number, waiting, n)
  BY <1>5, LaterSeen
<1>7. ASSUME NEW p \in M, Closing(p, j)
      PROVE  FALSE
  <2>1. p \in ToSet(wire) /\ p \in L
    BY <1>2, <1>3, <1>7 DEF Packets
  <2>2. PoolSize > 0
    BY <1>4, <2>1 DEF Numbered
  <2>3. Len(c.queue) > 0
    <3>1. c.free \in Nat /\ Len(c.queue) \in Nat /\ Pending(c) = 0
      BY <1>1, ContextFields DEF Pending
    <3>2. QED  BY <1>1, <2>2, <3>1 DEF PoolOK
  <2>4. PICK q : q \in ToSet(c.queue)
    <3>1. c.queue \in Seq(Packet)
      BY <1>1, ContextFields
    <3>2. 1 \in DOMAIN c.queue
      BY <2>3, <3>1
    <3>3. c.queue[1] \in ToSet(c.queue)
      BY <3>2 DEF ToSet
    <3>4. QED  BY <3>3
  <2>5. q \in L /\ Before(p, q)
    BY <1>1, <1>2, <2>1, <2>4 DEF Packets
  <2>6. /\ Formed(p) /\ Formed(q) /\ \A y \in Ids(q) : y <= j
        /\ p = q \/ Prior(p, q) \/ Prior(q, p)
    BY <1>4, <2>1, <2>5 DEF Numbered
  <2>7. Prior(p, q)
    BY <2>5, <2>6, BeforeIsPrior
  <2>8. CASE \A x \in Ids(p), y \in Ids(q) : x < y
    <3>1. PICK y : y \in Ids(q) /\ y \in Nat
      BY <2>6 DEF Formed
    <3>2. y <= j /\ j < y
      BY <1>7, <2>6, <2>8, <3>1 DEF Closing
    <3>3. QED  BY <3>1, <3>2
  <2>9. CASE p.of = q.of /\ p.of # 0 /\ p.part < q.part
    <3>1. q.part \in 1 .. q.of /\ p.part = p.of /\ q.of \in Nat
      BY <1>7, <2>6, <2>9 DEF Closing, Formed, Packet
    <3>2. QED  BY <2>9, <3>1
  <2>10. QED  BY <2>7, <2>8, <2>9 DEF Prior
<1>8. AllMarked(M, number, waiting, n)
  BY <1>3, <1>5, <1>6, <1>7, CaughtUp
<1>9. QED  BY <1>2, <1>3, <1>6, <1>8 DEF Seen

LEMMA FuASeen ==
    ASSUME nalus \in Seq(Nalu), Uniform, AusInOrder, NEW c, NEW n \in DOMAIN nalus,
           Fragmented(n), ContextOK(c, nalus[n].au), c.stap = NoStap,
           NEW j \in Nat, n = j + 1, Seen(c, j, j)
    PROVE  Seen(FuAPackets(c, n), n, n)
<1>1. PICK count \in Nat : count = FuAPacketCount(nalus[n].size) /\ count > 0
  BY FuACount
<1>2. c \in Context /\ c.free \in Nat /\ nalus[n].au \in Nat
  BY ContextFields, NaluFields DEF ContextOK, PacketsOK
<1>3. PICK made \in Nat : /\ made = Min({count, c.free}) /\ made <= count
                          /\ made <= c.free /\ made \in {count, c.free}
  BY <1>2, MinOfTwo
<1>4. PICK parts \in Seq(Nat) : /\ parts = [i \in 1 .. made |-> i] /\ Len(parts) = made
                                /\ \A i \in DOMAIN parts : parts[i] = i /\ i <= count
  <2>1. [i \in 1 .. made |-> i] \in Seq(Nat) /\ Len([i \in 1 .. made |-> i]) = made
    OBVIOUS
  <2>2. \A i \in 1 .. made : [l \in 1 .. made |-> l][i] = i /\ i <= count
    BY <1>3
  <2>3. QED  BY <2>1, <2>2
<1>5. PICK e : e = Emit([c EXCEPT !.free = @ - made], <<n>>, parts, count)
  OBVIOUS
<1>6. /\ ContextOK(e, nalus[n].au) /\ e.stap = c.stap
      /\ Emitted(c, e, <<n>>, parts, count)
  <2>1. PICK ids : ids = <<n>>
    OBVIOUS
  <2>2. PICK free \in Nat : free = c.free - made
    BY <1>2, <1>3
  <2>3. PICK f : IsPool(c, f, free)
    BY DEF IsPool
  <2>4. IsEmit(f, e, ids, parts, count)
    BY <1>5, <2>1, <2>2, <2>3 DEF IsPool, IsEmit
  <2>5. c.free = free + Len(parts)
    BY <1>2, <1>4, <2>2
  <2>6. NalusOf(ids, nalus[n].au)
    BY <2>1, OneNalu
  <2>7. ContextOK(e, nalus[n].au) /\ e.stap = c.stap /\ Emitted(c, e, ids, parts, count)
    BY <1>2, <2>3, <2>4, <2>5, <2>6, TakePackets
  <2>8. QED  BY <2>1, <2>7
<1>7. FuAPackets(c, n) = IF made = count THEN e ELSE PacketFifoFlush(e)
  BY <1>1, <1>3, <1>4, <1>5 DEF FuAPackets
<1>8. e \in Context
  BY <1>6 DEF ContextOK, PacketsOK
<1>9. CASE made > 0
  <2>1. Seen(e, n, n)
    <3>1. c.free > 0 /\ Len(parts) > 0
      BY <1>2, <1>3, <1>4, <1>9
    <3>2. QED  BY <1>2, <1>4, <1>6, <1>8, <3>1, TakenSeen
  <2>2. Seen(PacketFifoFlush(e), n, n)
    BY <1>8, <2>1, FlushSeen
  <2>3. QED  BY <1>7, <2>1, <2>2
<1>10. CASE made = 0
  <2>1. ~(c.free > 0) /\ made # count
    BY <1>1, <1>3, <1>10
  <2>2. PICK d : d = PacketFifoFlush(e)
    OBVIOUS
  <2>3. d.seqNum = e.seqNum /\ d.stap = e.stap /\ ToSet(d.queue) = {}
    BY <1>8, <2>2, FlushKeeps
  <2>4. e.seqNum = c.seqNum
    BY <1>2, <1>4, <1>6, <1>10, ContextFields DEF Emitted
  <2>5. Seen(d, n, n)
    BY <1>2, <1>6, <2>1, <2>3, <2>4, LostSeen
  <2>6. QED  BY <1>7, <2>1, <2>2, <2>5
<1>11. QED  BY <1>9, <1>10

LEMMA SingleSeen ==
    ASSUME nalus \in Seq(Nalu), Uniform, AusInOrder, NEW c, NEW n \in DOMAIN nalus,
           ContextOK(c, nalus[n].au), c.stap = NoStap,
           NEW j \in Nat, n = j + 1, Seen(c, j, j)
    PROVE  Seen(SingleNaluPacket(c, n), n, n)
<1>1. c \in Context /\ c.free \in Nat /\ nalus[n].au \in Nat
  BY ContextFields, NaluFields DEF ContextOK, PacketsOK
<1>2. CASE c.free > 0
  <2>1. <<1>> \in Seq(Nat)
    OBVIOUS
  <2>2. PICK parts \in Seq(Nat) : parts = <<1>>
    BY <2>1
  <2>3. PICK free \in Nat, one \in Nat : free = c.free - 1 /\ one = 1
    BY <1>1, <1>2
  <2>4. /\ c.free = free + Len(parts) /\ Len(parts) > 0
        /\ \A i \in DOMAIN parts : parts[i] = i /\ i <= one
    BY <1>1, <2>2, <2>3
  <2>5. PICK d : d = Emit([c EXCEPT !.free = free], <<n>>, parts, one)
    OBVIOUS
  <2>6. /\ ContextOK(d, nalus[n].au) /\ d.stap = c.stap
        /\ Emitted(c, d, <<n>>, parts, one)
    <3>1. PICK ids : ids = <<n>>
      OBVIOUS
    <3>2. PICK e : IsPool(c, e, free) /\ IsEmit(e, d, ids, parts, one)
      BY <2>5, <3>1 DEF IsPool, IsEmit
    <3>3. NalusOf(ids, nalus[n].au) /\ c.free = free + Len(parts)
      BY <2>4, <3>1, OneNalu
    <3>4. ContextOK(d, nalus[n].au) /\ d.stap = c.stap /\ Emitted(c, d, ids, parts, one)
      BY <1>1, <3>2, <3>3, TakePackets
    <3>5. QED  BY <3>1, <3>4
  <2>7. d \in Context
    BY <2>6 DEF ContextOK, PacketsOK
  <2>8. Seen(d, n, n)
    BY <1>1, <1>2, <2>4, <2>6, <2>7, TakenSeen
  <2>9. SingleNaluPacket(c, n) = d
    BY <1>2, <2>2, <2>3, <2>5 DEF SingleNaluPacket
  <2>10. QED  BY <2>8, <2>9
<1>3. CASE ~(c.free > 0)
  <2>1. PICK d : d = PacketFifoFlush(c)
    OBVIOUS
  <2>2. d.seqNum = c.seqNum /\ d.stap = c.stap /\ ToSet(d.queue) = {}
    BY <1>1, <2>1, FlushKeeps
  <2>3. Seen(d, n, n)
    BY <1>1, <1>3, <2>2, LostSeen
  <2>4. QED  BY <1>3, <2>1, <2>3 DEF SingleNaluPacket
<1>4. QED  BY <1>2, <1>3

(* A NALU that joins the pending STAP-A, or a new one.                     *)
LEMMA JoinedSeen ==
    ASSUME nalus \in Seq(Nalu), NEW c, c \in Context, NEW d,
           NEW n \in DOMAIN nalus, NEW j \in Nat, n = j + 1, Seen(c, j, j),
           d.seqNum = c.seqNum, d.queue = c.queue, Waiting(d) = Waiting(c) \cup {n}
    PROVE  Seen(d, n, n)
<1>1. PICK L, number, waiting, more :
          /\ L = Packets(c) /\ L = Packets(d) /\ number = c.seqNum
          /\ waiting = Waiting(c) /\ more = Waiting(d)
  BY DEF Packets
<1>2. number \in Nat /\ n \in Nat
  BY <1>1, ContextFields
<1>3. Numbered(L, number, waiting, j) /\ AllMarked(L, number, waiting, j)
  BY <1>1 DEF Seen
<1>4. \A p \in L : \A x \in Ids(p) : x \in Nat /\ x <= j
  BY <1>3 DEF Numbered, Formed
<1>5. more = waiting \cup {n}
  BY <1>1
<1>6. Numbered(L, number, more, n)
  <2>1. \A p \in L : \A x \in Ids(p) : x <= n /\ \A y \in more : x < y
    BY <1>2, <1>3, <1>4, <1>5 DEF Numbered
  <2>2. \A y \in more : y \in Nat /\ y <= n
    BY <1>2, <1>3, <1>5 DEF Numbered
  <2>3. QED  BY <1>3, <2>1, <2>2 DEF Numbered
<1>7. AllMarked(L, number, more, j)
  BY <1>3, <1>5 DEF AllMarked, Marked
<1>8. n \in more
  BY <1>5
<1>9. AllMarked(L, number, more, n)
  BY <1>2, <1>6, <1>7, <1>8, CaughtUp
<1>10. QED  BY <1>1, <1>6, <1>9 DEF Seen

(* A number that is left out.                                              *)
LEMMA DropSeen ==
    ASSUME nalus \in Seq(Nalu), NEW c, c \in Context, NEW j \in Nat, NEW n, n = j + 1,
           Seen(c, j, j)
    PROVE  Seen(NaluDrop(c), n, n)
<1>1. PICK L, number, next, waiting :
          /\ L = Packets(c) /\ number = c.seqNum /\ next = number + 1
          /\ waiting = Waiting(c)
  OBVIOUS
<1>2. number \in Nat /\ next \in Nat /\ number <= next /\ n \in Nat /\ j <= n
  BY <1>1, ContextFields
<1>3. Numbered(L, number, waiting, j) /\ AllMarked(L, number, waiting, j)
  BY <1>1 DEF Seen
<1>4. Numbered(L, next, waiting, j) /\ AllMarked(L, next, waiting, j)
  BY <1>2, <1>3, NumberSeen
<1>5. Numbered(L, next, waiting, n)
  BY <1>2, <1>4, LaterSeen
<1>6. \A p \in L : p.seqNum + 1 < next
  BY <1>1, <1>2, <1>3, PacketFields DEF Numbered, Formed
<1>7. AllMarked(L, next, waiting, n)
  BY <1>2, <1>4, <1>5, <1>6, CaughtUp
<1>8. PICK d : d = NaluDrop(c)
  OBVIOUS
<1>9. d.seqNum = next /\ Packets(d) = L /\ Waiting(d) = waiting
  BY <1>1, <1>8 DEF NaluDrop, Context, Packets, Waiting
<1>10. QED  BY <1>5, <1>7, <1>8, <1>9 DEF Seen

(* A NALU that joins the STAP-A, or is lost for want of one.               *)
LEMMA AppendSeen ==
    ASSUME nalus \in Seq(Nalu), Uniform, AusInOrder, NEW c, NEW n \in DOMAIN nalus,
           ContextOK(c, nalus[n].au), NEW j \in Nat, n = j + 1, Seen(c, j, j),
           NEW d, d = AppendToStapAPacket(IF c.stap = NoStap THEN BeginStapAPacket(c)
                                                             ELSE c, n)
    PROVE  Seen(d, n, n)
<1>1. c \in Context /\ StapOK(c, nalus[n].au) /\ c.free \in Nat /\ nalus[n].au \in Nat
  BY ContextFields, NaluFields DEF ContextOK, PacketsOK
<1>2. CASE c.stap # NoStap
  <2>1. PICK ids \in Seq(Nat), size \in Nat : ids = c.stap.nalus /\ size = c.stap.size
    BY <1>1, ContextFields
  <2>2. size # 0
    BY <1>1, <1>2, <2>1 DEF StapOK
  <2>3. PICK longer, more : /\ longer = Append(ids, n)
                           /\ more = [nalus |-> longer, size |-> size + 2 + nalus[n].size]
    OBVIOUS
  <2>4. d = [c EXCEPT !.stap = more]
    BY <1>2, <2>1, <2>2, <2>3 DEF AppendToStapAPacket
  <2>5. d.seqNum = c.seqNum /\ d.queue = c.queue /\ d.stap = more
    BY <1>1, <2>4 DEF Context
  <2>6. ToSet(longer) = ToSet(ids) \cup {n}
    BY <2>3, ToSetAppend
  <2>7. Waiting(d) = Waiting(c) \cup {n}
    <3>1. more.nalus = longer
      BY <2>3
    <3>2. QED  BY <2>1, <2>5, <2>6, <3>1 DEF Waiting
  <2>8. QED  BY <1>1, <2>5, <2>7, JoinedSeen
<1>3. CASE c.stap = NoStap /\ c.free > 0
  <2>1. PICK free \in Nat : free = c.free - 1
    BY <1>1, <1>3
  <2>2. PICK first : first = [nalus |-> <<>>, size |-> 1]
    OBVIOUS
  <2>3. PICK e : e = [c EXCEPT !.free = free, !.stap = first]
    OBVIOUS
  <2>4. e.seqNum = c.seqNum /\ e.queue = c.queue /\ e.stap = first
    BY <1>1, <2>3 DEF Context
  <2>5. e = BeginStapAPacket(c)
    BY <1>3, <2>1, <2>2, <2>3 DEF BeginStapAPacket
  <2>6. PICK more : more = [nalus |-> Append(<<>>, n), size |-> 1 + 2 + nalus[n].size]
    OBVIOUS
  <2>7. d = [e EXCEPT !.stap = more]
    BY <1>3, <2>2, <2>4, <2>5, <2>6 DEF AppendToStapAPacket
  <2>8. DOMAIN e = DOMAIN c /\ {"seqNum", "queue", "stap"} \subseteq DOMAIN c
    BY <1>1, <2>3 DEF Context
  <2>9. d.seqNum = e.seqNum /\ d.queue = e.queue /\ d.stap = more
    BY <2>7, <2>8
  <2>10. ToSet(Append(<<>>, n)) = {n}
    BY DEF ToSet
  <2>11. Waiting(d) = {n} /\ Waiting(c) = {}
    BY <1>3, <2>6, <2>9, <2>10 DEF Waiting, NoStap, ToSet
  <2>12. QED  BY <1>1, <2>4, <2>9, <2>11, JoinedSeen
<1>4. CASE c.stap = NoStap /\ ~(c.free > 0)
  <2>1. PICK e : e = PacketFifoFlush(c)
    OBVIOUS
  <2>2. e.seqNum = c.seqNum /\ e.stap = c.stap /\ ToSet(e.queue) = {}
    BY <1>1, <2>1, FlushKeeps
  <2>3. d = e
    BY <1>4, <2>1, <2>2 DEF AppendToStapAPacket, BeginStapAPacket, NoStap
  <2>4. Seen(e, n, n)
    BY <1>1, <1>4, <2>2, LostSeen
  <2>5. QED  BY <2>3, <2>4
<1>5. QED  BY <1>2, <1>3, <1>4

(* What is made of a NALU, dropped or placed.                              *)
LEMMA PlaceSeen ==
    ASSUME nalus \in Seq(Nalu), Uniform, AusInOrder, NEW c, NEW n \in DOMAIN nalus,
           ContextOK(c, nalus[n].au), NEW j \in Nat, n = j + 1, Seen(c, j, j),
           NEW newSize, Fragmented(n) \/ Full(c, newSize) => c.stap = NoStap
    PROVE  Seen(Place(c, n, newSize), n, n)
<1>1. CASE Fragmented(n)
  <2>1. Seen(FuAPackets(c, n), n, n)
    BY <1>1, FuASeen
  <2>2. QED  BY <1>1, <2>1 DEF Place
<1>2. CASE ~Fragmented(n) /\ Full(c, newSize)
  <2>1. Seen(SingleNaluPacket(c, n), n, n)
    BY <1>2, SingleSeen
  <2>2. QED  BY <1>2, <2>1 DEF Place
<1>3. CASE ~Fragmented(n) /\ ~Full(c, newSize)
  <2>1. PICK d : d = AppendToStapAPacket(IF c.stap = NoStap THEN BeginStapAPacket(c)
                                                             ELSE c, n)
    OBVIOUS
  <2>2. Seen(d, n, n)
    BY <2>1, AppendSeen
  <2>3. QED  BY <1>3, <2>1, <2>2 DEF Place
<1>4. QED  BY <1>1, <1>2, <1>3

LEMMA MadeSeen ==
    ASSUME nalus \in Seq(Nalu), Uniform, AusInOrder, NEW c, NEW n \in DOMAIN nalus,
           ContextOK(c, nalus[n].au), NEW j \in Nat, n = j + 1, Seen(c, j, j),
           NEW d \in {NaluDrop(c),
                      FinishLast(Place(MakeRoom(c, n, NewStapSize(c, n)), n,
                                       NewStapSize(c, n)), n)}
    PROVE  Seen(d, n, n)
<1>1. c \in Context /\ nalus[n].au \in Nat /\ nalus[n].size \in Nat /\ n \in Nat
  BY NaluFields DEF ContextOK, PacketsOK
<1>2. CASE d = NaluDrop(c)
  <2>1. Seen(NaluDrop(c), n, n)
    BY <1>1, DropSeen
  <2>2. QED  BY <1>2, <2>1
<1>3. CASE d # NaluDrop(c)
  <2>1. PICK newSize \in Nat : newSize = NewStapSize(c, n) /\ newSize >= 2 + nalus[n].size
    BY <1>1, NewStapSizeLemma
  <2>2. PICK room : room = MakeRoom(c, n, newSize)
    OBVIOUS
  <2>3. ContextOK(room, nalus[n].au)
    BY <2>2, MakeRoomLemma
  <2>4. Seen(room, j, j) /\ (Fragmented(n) \/ Full(room, newSize) => room.stap = NoStap)
    <3>1. CASE Fragmented(n) \/ Full(c, newSize)
      <4>1. PICK e : e = FinishStapAPacket(c)
        OBVIOUS
      <4>2. e.stap = NoStap
        BY <1>1, <4>1, FinishLemma
      <4>3. Seen(e, j, j)
        BY <1>1, <4>1, FinishSeen
      <4>4. room = e
        BY <2>2, <3>1, <4>1 DEF MakeRoom
      <4>5. QED  BY <4>2, <4>3, <4>4
    <3>2. CASE ~(Fragmented(n) \/ Full(c, newSize))
      <4>1. room = c
        BY <2>2, <3>2 DEF MakeRoom
      <4>2. QED  BY <3>2, <4>1
    <3>3. QED  BY <3>1, <3>2
  <2>5. PICK placed : placed = Place(room, n, newSize)
    OBVIOUS
  <2>6. ContextOK(placed, nalus[n].au)
    BY <2>1, <2>3, <2>5, PlaceLemma
  <2>7. Seen(placed, n, n)
    BY <2>3, <2>4, <2>5, PlaceSeen
  <2>8. d = FinishLast(placed, n)
    BY <1>3, <2>1, <2>2, <2>5
  <2>9. CASE nalus[n].isLast
    <3>1. Seen(FinishStapAPacket(placed), n, n)
      BY <1>1, <2>6, <2>7, FinishSeen
    <3>2. QED  BY <2>8, <2>9, <3>1 DEF FinishLast
  <2>10. CASE ~nalus[n].isLast
    BY <2>7, <2>8, <2>10 DEF FinishLast
  <2>11. QED  BY <2>9, <2>10
<1>4. QED  BY <1>2, <1>3

(* The callbacks do not touch the packets.                                 *)
LEMMA CallbackSeen ==
    ASSUME NEW c, c \in Context, NEW au, NEW last, Seen(c, last, last)
    PROVE  Seen(AuCallback(c, au), last, last)
<1>1. PICK d : d = AuCallback(c, au)
  OBVIOUS
<1>2. d.seqNum = c.seqNum /\ d.stap = c.stap /\ d.queue = c.queue
  BY <1>1 DEF AuCallback, Context
<1>3. Seen(d, last, last)
  BY <1>2, ShrunkSeen
<1>4. QED  BY <1>1, <1>3

LEMMA LastInAuSeen ==
    ASSUME NEW c, c \in Context, NEW n, NEW last, Seen(c, last, last)
    PROVE  Seen(LastInAu(c, n), last, last)
<1>1. Seen(AuCallback(c, nalus[n].au), last, last)
  BY CallbackSeen
<1>2. QED  BY <1>1 DEF LastInAu

LEMMA NewAuSeen ==
    ASSUME nalus \in Seq(Nalu), Uniform, NEW c, ContextOK(c, c.previousAu),
           NEW n \in DOMAIN nalus, NEW last \in Nat, Seen(c, last, last)
    PROVE  Seen(NewAu(c, n), last, last)
<1>1. PICK a \in Nat : a = c.previousAu
  BY ContextFields DEF ContextOK, PacketsOK
<1>2. PICK e : e = FinishStapAPacket(c)
  OBVIOUS
<1>3. ContextOK(e, a)
  BY <1>1, <1>2, FinishLemma
<1>4. Seen(e, last, last)
  BY <1>1, <1>2, FinishSeen
<1>5. Seen(AuCallback(e, a), last, last)
  BY <1>3, <1>4, CallbackSeen DEF ContextOK, PacketsOK
<1>6. QED  BY <1>1, <1>2, <1>5 DEF NewAu

(* The packets of the next state, if the NALUs stay as they are.           *)
LEMMA FormedStays ==
    ASSUME \A m \in DOMAIN nalus : m \in DOMAIN nalus' /\ nalus'[m] = nalus[m],
           NEW p, Formed(p)
    PROVE  Formed(p)'
<1>1. /\ p \in Packet /\ Ids(p) # {} /\ Ids(p) \subseteq DOMAIN nalus
      /\ p.of # 0 => p.part \in 1 .. p.of /\ \A x, y \in Ids(p) : x = y
  BY DEF Formed
<1>2. PICK x \in Ids(p) : p.au = nalus[x].au /\ p.priority = nalus[x].priority
  BY DEF Formed
<1>3. Ids(p) \subseteq DOMAIN nalus' /\ nalus'[x] = nalus[x]
  BY <1>1, <1>2
<1>4. QED  BY <1>1, <1>2, <1>3 DEF Formed, Ids

LEMMA SeenFrame ==
    ASSUME \A m \in DOMAIN nalus : m \in DOMAIN nalus' /\ nalus'[m] = nalus[m],
           NEW L, NEW number, NEW waiting, NEW last, NEW top,
           Numbered(L, number, waiting, last), AllMarked(L, number, waiting, top),
           Packets(s)' = L, s'.seqNum = number, Waiting(s)' = waiting
    PROVE  Seen(s, last, top)'
<1>1. \A p \in L : Formed(p)'
  BY FormedStays DEF Numbered
<1>2. Numbered(L, number, waiting, last)'
  BY <1>1 DEF Numbered, Ids, Prior
<1>3. AllMarked(L, number, waiting, top)'
  BY DEF AllMarked, Marked, Closing, Ids
<1>4. QED  BY <1>2, <1>3 DEF Seen

LEMMA ContextSeen ==
    ASSUME NEW c, NEW last, NEW top, Seen(c, last, top), s' = c, UNCHANGED <<nalus, wire>>
    PROVE  Seen(s, last, top)'
<1>1. PICK L, number, waiting :
          /\ L = Packets(c) /\ number = c.seqNum /\ waiting = Waiting(c)
          /\ Numbered(L, number, waiting, last) /\ AllMarked(L, number, waiting, top)
  BY DEF Seen
<1>2. Packets(s)' = L /\ s'.seqNum = number /\ Waiting(s)' = waiting
  BY <1>1 DEF Packets, Waiting
<1>3. QED  BY <1>1, <1>2, SeenFrame

(* A step after which the packetizer has as many NALUs before it.          *)
LEMMA SameSeen ==
    ASSUME Visibility, UNCHANGED nalus, Ahead' = Ahead, flushes' = 0 => flushes = 0,
           ASSUME NEW last \in Nat, Uniform, Seen(s, last, last)
           PROVE  Seen(s, last, last)'
    PROVE  Visibility'
<1>1. SUFFICES ASSUME Uniform'
               PROVE  \E last \in 0 .. Len(nalus') : /\ Ahead' = last + 1 .. Len(nalus')
                                                     /\ Seen(s, last, last)'
  BY DEF Visibility
<1>2. Uniform
  BY <1>1 DEF Uniform
<1>3. PICK last \in 0 .. Len(nalus) : Ahead = last + 1 .. Len(nalus) /\ Seen(s, last, last)
  BY <1>2 DEF Visibility
<1>4. Seen(s, last, last)'
  BY <1>2, <1>3
<1>5. QED  BY <1>3, <1>4

(* A step in which it takes the next one.                                  *)
AllAfter(A, j, N) == A = j + 1 .. N
TakesOne(A, B, n) == n \in A /\ A = B \cup {n} /\ \A m \in B : n < m

LEMMA NextAhead ==
    ASSUME NEW A, NEW B, NEW j, j \in Nat, NEW N, N \in Nat, NEW n,
           AllAfter(A, j, N), TakesOne(A, B, n)
    PROVE  n = j + 1 /\ AllAfter(B, n, N) /\ n \in 0 .. N
<1>0. A = j + 1 .. N /\ n \in A /\ A = B \cup {n} /\ \A m \in B : n < m
  BY DEF AllAfter, TakesOne
<1>1. n \in Nat /\ j + 1 <= n /\ n <= N
  BY <1>0
<1>2. j + 1 \in A
  BY <1>0, <1>1
<1>3. n = j + 1
  <2>1. n = j + 1 \/ n < j + 1
    BY <1>0, <1>2
  <2>2. QED  BY <1>1, <2>1
<1>4. ASSUME NEW m \in B
      PROVE  m \in n + 1 .. N
  <2>1. m \in j + 1 .. N /\ n < m
    BY <1>0
  <2>2. QED  BY <1>1, <2>1
<1>5. ASSUME NEW m \in n + 1 .. N
      PROVE  m \in B
  <2>1. m \in A /\ m # n
    BY <1>0, <1>1
  <2>2. QED  BY <1>0, <2>1
<1>6. AllAfter(B, n, N)
  BY <1>4, <1>5 DEF AllAfter
<1>7. n \in 0 .. N
  BY <1>1
<1>8. QED  BY <1>3, <1>6, <1>7

LEMMA TakenOne ==
    ASSUME Visibility, Custody, UNCHANGED nalus, flushes' = 0 => flushes = 0,
           NEW n, TakesOne(Ahead, Ahead', n),
           ASSUME NEW j \in Nat, n = j + 1, Uniform, Seen(s, j, j)
           PROVE  Seen(s, n, n)'
    PROVE  Visibility'
<1>1. SUFFICES ASSUME Uniform'
               PROVE  \E last \in 0 .. Len(nalus') : /\ Ahead' = last + 1 .. Len(nalus')
                                                     /\ Seen(s, last, last)'
  BY DEF Visibility
<1>2. Uniform
  BY <1>1 DEF Uniform
<1>3. PICK N \in Nat : N = Len(nalus)
  BY DEF Custody
<1>4. PICK j \in 0 .. N : Ahead = j + 1 .. N /\ Seen(s, j, j)
  BY <1>2, <1>3 DEF Visibility
<1>5. PICK A, B : A = Ahead /\ B = Ahead'
  OBVIOUS
<1>6. AllAfter(A, j, N) /\ TakesOne(A, B, n) /\ j \in Nat
  BY <1>4, <1>5 DEF AllAfter, TakesOne
<1>7. n = j + 1 /\ AllAfter(B, n, N) /\ n \in 0 .. N
  BY <1>6, NextAhead
<1>8. Seen(s, n, n)'
  BY <1>2, <1>4, <1>6, <1>7
<1>9. QED  BY <1>3, <1>5, <1>7, <1>8 DEF AllAfter

(* The steps that do not disturb the packets, those in which some leave    *)
(* the queue, and those in which the packetizer has one more NALU.         *)
LEMMA IdleSeen ==
    ASSUME IInv, Visibility,
           \/ QueueFull \/ Start \/ CheckStop \/ Exit \/ Stop \/ FlushEnd
           \/ SendNNewNalu \/ FlushNaluQueue \/ FlushTake \/ DequeueNalu
           \/ UNCHANGED vars
    PROVE  Visibility'
<1>1. Custody /\ flushes \in Nat
  BY DEF IInv, Custody
<1>2. UNCHANGED <<nalus, s, wire>>
  <2>1. CASE QueueFull \/ Start \/ CheckStop \/ Exit \/ Stop
    BY <2>1 DEF QueueFull, Start, CheckStop, Exit, Stop, dataVars, threadVars, appVars
  <2>2. CASE FlushEnd \/ SendNNewNalu \/ FlushNaluQueue \/ FlushTake \/ DequeueNalu
    BY <2>2 DEF FlushEnd, SendNNewNalu, FlushNaluQueue, FlushTake, DequeueNalu,
                dataVars, threadVars, appVars
  <2>3. CASE UNCHANGED vars
    BY <2>3 DEF vars, dataVars, threadVars, appVars
  <2>4. QED  BY <2>1, <2>2, <2>3
<1>3. ASSUME NEW last \in Nat, Uniform, Seen(s, last, last)
      PROVE  Seen(s, last, last)'
  <2>1. PICK c : c = s
    OBVIOUS
  <2>2. Seen(c, last, last) /\ s' = c /\ UNCHANGED <<nalus, wire>>
    BY <1>2, <1>3, <2>1
  <2>3. QED  BY <2>2, ContextSeen
<1>4. CASE FlushTake \/ FlushNaluQueue
  <2>1. flushes' # 0
    BY <1>1, <1>4 DEF FlushTake, FlushNaluQueue, Custody
  <2>2. QED  BY <2>1 DEF Visibility, Uniform
<1>5. CASE ~(FlushTake \/ FlushNaluQueue)
  <2>1. flushes' = flushes
    <3>1. CASE QueueFull \/ Start \/ CheckStop \/ Exit \/ Stop
      BY <3>1 DEF QueueFull, Start, CheckStop, Exit, Stop, dataVars, threadVars, appVars
    <3>2. CASE FlushEnd \/ SendNNewNalu \/ DequeueNalu
      BY <3>2 DEF FlushEnd, SendNNewNalu, DequeueNalu, dataVars, threadVars, appVars
    <3>3. CASE UNCHANGED vars
      BY <3>3 DEF vars, dataVars, threadVars, appVars
    <3>4. QED  BY <1>5, <3>1, <3>2, <3>3
  <2>2. Ahead' = Ahead
    <3>1. CASE DequeueNalu
      <4>1. PICK n : n = Head(naluFifo)
        OBVIOUS
      <4>2. FifoDequeueNalu /\ nalu' = n /\ pc = "nalus"
        BY <3>1, <4>1 DEF DequeueNalu
      <4>3. ToSet(naluFifo) = ToSet(naluFifo') \cup {n} /\ n # NoNalu
        BY <1>1, <4>1, <4>2, Taken
      <4>4. nalu = NoNalu
        BY <1>1, <4>2 DEF Custody
      <4>5. QED  BY <4>2, <4>3, <4>4 DEF Ahead
    <3>2. CASE QueueFull \/ Start \/ CheckStop \/ Exit \/ Stop
      BY <3>2 DEF QueueFull, Start, CheckStop, Exit, Stop, dataVars, threadVars, Ahead
    <3>3. CASE FlushEnd \/ SendNNewNalu
      BY <3>3 DEF FlushEnd, SendNNewNalu, dataVars, threadVars, Ahead
    <3>4. CASE UNCHANGED vars
      BY <3>4 DEF vars, dataVars, threadVars, Ahead
    <3>5. QED  BY <1>5, <3>1, <3>2, <3>3, <3>4
  <2>3. QED  BY <1>2, <1>3, <2>1, <2>2, SameSeen
<1>6. QED  BY <1>4, <1>5

LEMMA CleanSeen ==
    ASSUME IInv, Visibility, CleanFromTimeout
    PROVE  Visibility'
<1>1. PICK overdue :
          s' = [s EXCEPT !.queue = Kept(s.queue, overdue),
                         !.free = @ + Len(s.queue) - Len(Kept(s.queue, overdue))]
  BY DEF CleanFromTimeout
<1>2. s \in Context
  BY DEF IInv, ContextOK, PacketsOK
<1>3. PICK q \in Seq(Packet) : q = s.queue /\ InOrder(q)
  BY <1>2, ContextFields DEF IInv, ContextOK, PacketsOK
<1>4. PICK c : c = s'
  OBVIOUS
<1>5. c.seqNum = s.seqNum /\ c.stap = s.stap /\ c.queue = Kept(q, overdue)
  BY <1>1, <1>2, <1>3, <1>4 DEF Context
<1>6. ToSet(Kept(q, overdue)) \subseteq ToSet(q)
  BY <1>3, KeptLemma
<1>7. UNCHANGED <<nalus, naluFifo, nalu, wire, flushes>>
  BY DEF CleanFromTimeout, appVars
<1>8. ASSUME NEW last \in Nat, Uniform, Seen(s, last, last)
      PROVE  Seen(s, last, last)'
  <2>1. Seen(c, last, last)
    BY <1>2, <1>3, <1>5, <1>6, <1>8, ShrunkSeen
  <2>2. QED  BY <1>4, <1>7, <2>1, ContextSeen
<1>9. Ahead' = Ahead
  BY <1>7 DEF Ahead
<1>10. QED  BY <1>7, <1>8, <1>9, SameSeen

LEMMA EndPacketsSeen ==
    ASSUME IInv, Visibility, EndPackets
    PROVE  Visibility'
<1>1. UNCHANGED <<nalus, naluFifo, nalu, flushes, wire>> /\ s' = PacketFifoFlush(s)
  BY DEF EndPackets, appVars
<1>2. s \in Context
  BY DEF IInv, ContextOK, PacketsOK
<1>3. PICK c : c = PacketFifoFlush(s)
  OBVIOUS
<1>4. ASSUME NEW last \in Nat, Uniform, Seen(s, last, last)
      PROVE  Seen(s, last, last)'
  <2>1. Seen(c, last, last)
    BY <1>2, <1>3, <1>4, FlushSeen
  <2>2. s' = c
    BY <1>1, <1>3
  <2>3. QED  BY <1>1, <2>1, <2>2, ContextSeen
<1>5. Ahead' = Ahead
  BY <1>1 DEF Ahead
<1>6. QED  BY <1>1, <1>4, <1>5, SameSeen

LEMMA SendSeen ==
    ASSUME IInv, Visibility, SendMmsg
    PROVE  Visibility'
<1>1. UNCHANGED <<nalus, naluFifo, nalu, flushes>>
  BY DEF SendMmsg, appVars
<1>2. s \in Context /\ wire \in Seq(Packet)
  BY DEF IInv, ContextOK, PacketsOK
<1>3. /\ s'.seqNum = s.seqNum /\ s'.stap = s.stap
      /\ ToSet(s'.queue) \cup ToSet(wire') \subseteq ToSet(s.queue) \cup ToSet(wire)
  <2>1. CASE UNCHANGED <<s, wire>>
    BY <2>1
  <2>2. CASE ~ UNCHANGED <<s, wire>>
    <3>1. PICK sent \in 0 .. Len(s.queue) :
              /\ wire' = wire \o SubSeq(s.queue, 1, sent)
              /\ s' = [s EXCEPT !.queue = SubSeq(@, sent + 1, Len(@)), !.free = @ + sent]
      BY <2>2 DEF SendMmsg
    <3>2. PICK q \in Seq(Packet) : q = s.queue /\ InOrder(q)
      BY <1>2, ContextFields DEF IInv, ContextOK, PacketsOK
    <3>3. PICK x, r : x = SubSeq(q, 1, sent) /\ r = SubSeq(q, sent + 1, Len(q))
      OBVIOUS
    <3>4. /\ x \in Seq(Packet) /\ InOrder(x)
          /\ ToSet(x) \subseteq ToSet(q) /\ ToSet(r) \subseteq ToSet(q)
          /\ \A y \in ToSet(x), z \in ToSet(r) : Before(y, z)
      BY <3>1, <3>2, <3>3, SplitLemma
    <3>5. InOrder(wire) /\ \A y \in ToSet(wire), z \in ToSet(q) : Before(y, z)
      BY <3>2 DEF IInv, ContextOK, PacketsOK
    <3>6. PICK w : w = wire \o x
      OBVIOUS
    <3>7. ToSet(w) \subseteq ToSet(wire) \cup ToSet(x)
      BY <1>2, <3>4, <3>5, <3>6, JoinLemma
    <3>8. wire' = w
      BY <3>1, <3>2, <3>3, <3>6
    <3>9. PICK c : c = s'
      OBVIOUS
    <3>10. c.seqNum = s.seqNum /\ c.stap = s.stap /\ c.queue = r
      BY <1>2, <3>1, <3>2, <3>3, <3>9 DEF Context
    <3>11. QED  BY <3>2, <3>4, <3>7, <3>8, <3>9, <3>10
  <2>3. QED  BY <2>1, <2>2
<1>4. ASSUME NEW last \in Nat, Uniform, Seen(s, last, last)
      PROVE  Seen(s, last, last)'
  <2>1. PICK L, M, number, waiting :
            /\ L = Packets(s) /\ M = Packets(s)' /\ number = s.seqNum /\ waiting = Waiting(s)
    OBVIOUS
  <2>2. number \in Nat
    BY <1>2, <2>1, ContextFields
  <2>3. M \subseteq L /\ s'.seqNum = number /\ Waiting(s)' = waiting
    BY <1>3, <2>1 DEF Packets, Waiting
  <2>4. Numbered(L, number, waiting, last) /\ AllMarked(L, number, waiting, last)
    BY <1>4, <2>1 DEF Seen
  <2>5. Numbered(M, number, waiting, last) /\ AllMarked(M, number, waiting, last)
    BY <2>2, <2>3, <2>4, FewerSeen
  <2>6. QED  BY <1>1, <2>1, <2>3, <2>5, SeenFrame
<1>5. Ahead' = Ahead
  BY <1>1 DEF Ahead
<1>6. QED  BY <1>1, <1>4, <1>5, SameSeen

LEMMA ProcessSeen ==
    ASSUME IInv, Visibility, ProcessNalu
    PROVE  Visibility'
<1>1. /\ UNCHANGED <<nalus, naluFifo, wire, flushes>> /\ nalu' = NoNalu
      /\ pc = "process"
  BY DEF ProcessNalu, appVars
<1>2. /\ Custody /\ AusInOrder /\ NotLater(s.previousAu) /\ ContextOK(s, s.previousAu)
  BY DEF IInv
<1>3. PICK n : n = nalu
  OBVIOUS
<1>4. n \in Ahead /\ n # NoNalu /\ n \in DOMAIN nalus /\ nalus \in Seq(Nalu)
  BY <1>1, <1>2, <1>3 DEF Custody, Ahead, NoNalu
<1>5. TakesOne(Ahead, Ahead', n)
  <2>1. \A m \in ToSet(naluFifo) : n < m
    BY <1>2, <1>3 DEF Custody
  <2>2. Ahead = ToSet(naluFifo) \cup {n} /\ Ahead' = ToSet(naluFifo)
    BY <1>1, <1>3, <1>4 DEF Ahead
  <2>3. QED  BY <2>1, <2>2 DEF TakesOne
<1>6. PICK a \in Nat : a = nalus[n].au
  BY <1>4, NaluFields
<1>7. PICK c : c = NewAu(s, n)
  OBVIOUS
<1>8. PICK d \in {NaluDrop(c),
                  FinishLast(Place(MakeRoom(c, n, NewStapSize(c, n)), n,
                                   NewStapSize(c, n)), n)} :
          s' = [LastInAu(d, n) EXCEPT !.previousAu = a]
  BY <1>3, <1>6, <1>7 DEF ProcessNalu
<1>9. ContextOK(c, nalus[n].au)
  <2>1. s.previousAu <= nalus[n].au
    BY <1>2, <1>4 DEF NotLater
  <2>2. QED  BY <1>2, <1>4, <1>7, <2>1, NewAuLemma
<1>10. ContextOK(d, a)
  BY <1>4, <1>6, <1>8, <1>9, MadeLemma
<1>11. PICK e : e = LastInAu(d, n)
  OBVIOUS
<1>12. ContextOK(e, a)
  BY <1>4, <1>6, <1>10, <1>11, LastInAuLemma
<1>13. PICK t : t = [e EXCEPT !.previousAu = a]
  OBVIOUS
<1>14. e \in Context /\ d \in Context
  BY <1>10, <1>12 DEF ContextOK, PacketsOK
<1>15. t.seqNum = e.seqNum /\ t.stap = e.stap /\ t.queue = e.queue
  BY <1>13, <1>14 DEF Context
<1>16. ASSUME NEW j \in Nat, n = j + 1, Uniform, Seen(s, j, j)
       PROVE  Seen(s, n, n)'
  <2>1. Seen(c, j, j)
    BY <1>2, <1>4, <1>7, <1>16, NewAuSeen
  <2>2. Seen(d, n, n)
    BY <1>2, <1>4, <1>8, <1>9, <1>16, <2>1, MadeSeen
  <2>3. Seen(e, n, n)
    BY <1>11, <1>14, <2>2, LastInAuSeen
  <2>4. Seen(t, n, n)
    BY <1>14, <1>15, <2>3, ShrunkSeen
  <2>5. s' = t
    BY <1>8, <1>11, <1>13
  <2>6. QED  BY <1>1, <2>4, <2>5, ContextSeen
<1>17. QED  BY <1>1, <1>2, <1>5, <1>16, TakenOne

LEMMA EndNaluSeen ==
    ASSUME IInv, Visibility, EndNalu
    PROVE  Visibility'
<1>1. /\ UNCHANGED <<nalus, nalu, wire, flushes>> /\ pc = "endNalus" /\ FifoDequeueNalu
  BY DEF EndNalu, appVars, threadVars
<1>2. Custody /\ ContextOK(s, s.previousAu)
  BY DEF IInv
<1>3. PICK n : n = Head(naluFifo)
  OBVIOUS
<1>4. /\ n \in 1 .. Len(nalus) /\ ToSet(naluFifo) = ToSet(naluFifo') \cup {n}
      /\ \A m \in ToSet(naluFifo') : n < m
  BY <1>1, <1>2, <1>3, Taken
<1>5. nalu = NoNalu
  BY <1>1, <1>2 DEF Custody
<1>6. TakesOne(Ahead, Ahead', n)
  <2>1. Ahead = ToSet(naluFifo) /\ Ahead' = ToSet(naluFifo')
    BY <1>1, <1>5 DEF Ahead
  <2>2. QED  BY <1>4, <2>1 DEF TakesOne
<1>7. PICK a \in Nat : a = s.previousAu
  BY <1>2, ContextFields DEF ContextOK, PacketsOK
<1>8. PICK d : d = NaluDrop(s)
  OBVIOUS
<1>9. d \in Context /\ s \in Context /\ nalus \in Seq(Nalu)
  BY <1>2, <1>7, <1>8, DropLemma DEF ContextOK, PacketsOK, Custody
<1>10. PICK e : e = LastInAu(d, n)
  OBVIOUS
<1>11. s' = e
  BY <1>3, <1>8, <1>10 DEF EndNalu
<1>12. ASSUME NEW j \in Nat, n = j + 1, Uniform, Seen(s, j, j)
       PROVE  Seen(s, n, n)'
  <2>1. Seen(d, n, n)
    BY <1>8, <1>9, <1>12, DropSeen
  <2>2. Seen(e, n, n)
    BY <1>9, <1>10, <2>1, LastInAuSeen
  <2>3. QED  BY <1>1, <1>11, <2>2, ContextSeen
<1>13. QED  BY <1>1, <1>2, <1>6, <1>12, TakenOne

LEMMA EnqueueSeen ==
    ASSUME IInv, Visibility, EnqueueNalu
    PROVE  Visibility'
<1>1. UNCHANGED <<s, nalu, wire, flushes>>
  BY DEF EnqueueNalu, threadVars
<1>2. Custody
  BY DEF IInv
<1>3. PICK r \in Nalu : /\ nalus' = Append(nalus, r)
                        /\ naluFifo' = Append(naluFifo, Len(nalus) + 1)
  BY <1>2, CustodyEnqueue
<1>4. PICK N \in Nat : N = Len(nalus)
  BY <1>2 DEF Custody
<1>5. /\ nalus \in Seq(Nalu) /\ Len(nalus') = N + 1
      /\ DOMAIN nalus = 1 .. N /\ DOMAIN nalus' = 1 .. N + 1
      /\ \A m \in 1 .. N : nalus'[m] = nalus[m]
  <2>1. nalus \in Seq(Nalu)
    BY <1>2 DEF Custody
  <2>2. /\ Len(Append(nalus, r)) = N + 1
        /\ \A m \in 1 .. N : Append(nalus, r)[m] = nalus[m]
        /\ DOMAIN nalus = 1 .. N /\ DOMAIN Append(nalus, r) = 1 .. N + 1
    BY <1>4, <2>1, ToSetAppend
  <2>3. PICK t : t = Append(nalus, r)
    OBVIOUS
  <2>4. QED  BY <1>3, <2>1, <2>2, <2>3
<1>6. Ahead' = Ahead \cup {N + 1}
  <2>1. naluFifo \in Seq(1 .. N)
    BY <1>2, <1>4 DEF Custody
  <2>2. \A i, j \in DOMAIN naluFifo : i < j => naluFifo[i] < naluFifo[j]
    BY <1>2 DEF Custody
  <2>3. ToSet(naluFifo') = ToSet(naluFifo) \cup {N + 1}
    BY <1>3, <1>4, <2>1, <2>2, RisingAppend
  <2>4. QED  BY <1>1, <2>3 DEF Ahead
<1>7. \A m \in DOMAIN nalus : m \in DOMAIN nalus' /\ nalus'[m] = nalus[m]
  BY <1>5
<1>8. SUFFICES ASSUME Uniform'
               PROVE  \E last \in 0 .. Len(nalus') : /\ Ahead' = last + 1 .. Len(nalus')
                                                     /\ Seen(s, last, last)'
  BY DEF Visibility
<1>9. Uniform
  <2>1. flushes = 0 /\ \A m, n \in DOMAIN nalus' : nalus'[m].priority = nalus'[n].priority
    BY <1>1, <1>8 DEF Uniform
  <2>2. \A m, n \in DOMAIN nalus : nalus[m].priority = nalus[n].priority
    BY <1>7, <2>1
  <2>3. QED  BY <2>1, <2>2 DEF Uniform
<1>10. PICK last \in 0 .. N : Ahead = last + 1 .. N /\ Seen(s, last, last)
  BY <1>4, <1>9 DEF Visibility
<1>11. Ahead' = last + 1 .. N + 1
  <2>1. \A m \in last + 1 .. N : m \in last + 1 .. N + 1
    OBVIOUS
  <2>2. \A m \in last + 1 .. N + 1 : m \in last + 1 .. N \/ m = N + 1
    OBVIOUS
  <2>3. N + 1 \in last + 1 .. N + 1
    OBVIOUS
  <2>4. QED  BY <1>6, <1>10, <2>1, <2>2, <2>3
<1>12. Seen(s, last, last)'
  <2>1. PICK L, number, waiting :
            /\ L = Packets(s) /\ number = s.seqNum /\ waiting = Waiting(s)
            /\ Numbered(L, number, waiting, last) /\ AllMarked(L, number, waiting, last)
    BY <1>10 DEF Seen
  <2>2. Packets(s)' = L /\ s'.seqNum = number /\ Waiting(s)' = waiting
    BY <1>1, <2>1 DEF Packets, Waiting
  <2>3. QED  BY <1>7, <2>1, <2>2, SeenFrame
<1>13. QED  BY <1>5, <1>10, <1>11, <1>12

LEMMA VisibilityInit == Init => Visibility
<1>1. SUFFICES ASSUME Init
               PROVE  Visibility
  OBVIOUS
<1>2. /\ nalus = <<>> /\ naluFifo = <<>> /\ wire = <<>> /\ nalu = NoNalu
      /\ s.queue = <<>> /\ s.stap = NoStap
  BY <1>1 DEF Init
<1>3. Packets(s) = {} /\ Waiting(s) = {} /\ Ahead = {} /\ Len(nalus) = 0
  BY <1>2 DEF Packets, Waiting, Ahead, NoStap, ToSet
<1>4. Seen(s, 0, 0)
  BY <1>3 DEF Seen, Numbered, AllMarked
<1>5. 0 \in 0 .. Len(nalus) /\ Ahead = 0 + 1 .. Len(nalus)
  BY <1>3
<1>6. QED  BY <1>4, <1>5 DEF Visibility

LEMMA VisibilityNext == IInv /\ Visibility /\ [Next]_vars => Visibility'
<1> SUFFICES ASSUME IInv, Visibility, [Next]_vars
             PROVE  Visibility'
  OBVIOUS
<1>1. CASE \/ QueueFull \/ Start \/ CheckStop \/ Exit \/ Stop \/ FlushEnd
           \/ SendNNewNalu \/ FlushNaluQueue \/ FlushTake \/ DequeueNalu
           \/ UNCHANGED vars
  BY <1>1, IdleSeen
<1>2. CASE EnqueueNalu
  BY <1>2, EnqueueSeen
<1>3. CASE FlushDrop
  <2>1. flushes' # 0
    BY <1>3 DEF FlushDrop, IInv, Custody
  <2>2. QED  BY <2>1 DEF Visibility, Uniform
<1>4. CASE CleanFromTimeout
  BY <1>4, CleanSeen
<1>5. CASE ProcessNalu
  BY <1>5, ProcessSeen
<1>6. CASE SendMmsg
  BY <1>6, SendSeen
<1>7. CASE EndNalu
  BY <1>7, EndNaluSeen
<1>8. CASE EndPackets
  BY <1>8, EndPacketsSeen
<1>9. QED  BY <1>1, <1>2, <1>3, <1>4, <1>5, <1>6, <1>7, <1>8 DEF Next, App, AppCall, Thread

(* When as many different parts as there are exist, the last one is there. *)
LEMMA LastPart ==
    ASSUME NEW P, NEW of, of \in Nat, of > 0, Cardinality(P) = of,
           \A x \in P : x.part \in 1 .. of,
           \A x, y \in P : x # y => x.part # y.part
    PROVE  \E z \in P : z.part = of
<1>1. SUFFICES ASSUME \A z \in P : z.part # of
               PROVE  FALSE
  OBVIOUS
<1>2. PICK below \in Nat : below = of - 1
  OBVIOUS
<1>3. \A x \in P : x.part \in 1 .. below
  BY <1>1, <1>2
<1>4. PICK f : f = [x \in P |-> x.part]
  OBVIOUS
<1>5. f \in Injection(P, 1 .. below)
  BY <1>3, <1>4 DEF Injection, IsInjective
<1>6. IsFiniteSet(1 .. below) /\ Cardinality(1 .. below) = below
  <2>1. 1 \in Int /\ below \in Int
    OBVIOUS
  <2>2. Cardinality(1 .. below) = IF 1 > below THEN 0 ELSE below - 1 + 1
    BY <2>1, FS_Interval
  <2>3. QED  BY <2>1, <2>2, FS_Interval
<1>7. Cardinality(P) <= Cardinality(1 .. below)
  BY <1>5, <1>6, FS_Injection
<1>8. QED  BY <1>2, <1>6, <1>7

(* A NALU that was sent whole has its last packet behind the others.       *)
LEMMA WholeLemma ==
    ASSUME NEW L, NEW number, NEW waiting, NEW last, Numbered(L, number, waiting, last),
           NEW P, P \subseteq L, NEW i, i \in Nat,
           \A x \in P : i \in Ids(x) /\ x.of # 0,
           NEW w, w \in P, Cardinality(P) = Max({1, w.of})
    PROVE  \E z \in P : Closing(z, i) /\ \A p \in P : p.seqNum <= z.seqNum
<1>1. ASSUME NEW x \in P
      PROVE  /\ x.part \in 1 .. x.of /\ x.of \in Nat /\ x.part \in Nat /\ x.seqNum \in Nat
             /\ Ids(x) = {i}
  <2>1. Formed(x) /\ i \in Ids(x) /\ x.of # 0
    BY DEF Numbered
  <2>2. x.of \in Nat /\ x.seqNum \in Nat
    BY <2>1, PacketFields DEF Formed, Packet
  <2>3. x.part \in 1 .. x.of /\ Ids(x) = {i}
    BY <2>1 DEF Formed
  <2>4. QED  BY <2>2, <2>3
<1>2. ASSUME NEW x \in P, NEW y \in P
      PROVE  \/ x = y
             \/ x.of = y.of /\ x.part < y.part /\ x.seqNum < y.seqNum
             \/ x.of = y.of /\ y.part < x.part /\ y.seqNum < x.seqNum
  <2>1. x = y \/ Prior(x, y) \/ Prior(y, x)
    BY DEF Numbered
  <2>2. ~(i < i)
    OBVIOUS
  <2>3. QED  BY <1>1, <2>1, <2>2 DEF Prior
<1>3. PICK of \in Nat : of = w.of /\ of > 0
  BY <1>1
<1>4. Cardinality(P) = of
  <2>1. Max({1, of}) = of
    BY <1>3, AtLeastOne
  <2>2. QED  BY <1>3, <2>1
<1>5. \A x \in P : x.of = of
  BY <1>2, <1>3
<1>6. \A x \in P : x.part \in 1 .. of
  BY <1>1, <1>5
<1>7. \A x, y \in P : x # y => x.part # y.part
  BY <1>1, <1>2
<1>8. PICK z \in P : z.part = of
  BY <1>3, <1>4, <1>6, <1>7, LastPart
<1>9. Closing(z, i)
  BY <1>3, <1>5, <1>8 DEF Closing
<1>10. ASSUME NEW p \in P
       PROVE  p.seqNum <= z.seqNum
  <2>1. ~(z.part < p.part)
    BY <1>1, <1>6, <1>8
  <2>2. QED  BY <1>1, <1>2, <2>1
<1>11. QED  BY <1>8, <1>9, <1>10

LEMMA VisibilityLemma == IInv /\ Visibility => LossesVisible
<1>1. SUFFICES ASSUME IInv, Visibility,
                      NEW i \in DOMAIN nalus, NEW j \in DOMAIN nalus,
                      i + 1 < j, Whole(i), flushes = 0,
                      \A k \in i + 1 .. j - 1 : Parts(k) = {},
                      \A k \in DOMAIN nalus : nalus[k].priority = nalus[i].priority,
                      \A p \in Parts(i) : p.of # 0,
                      NEW p \in Parts(i), NEW q \in Parts(j)
               PROVE  p.seqNum + 1 < q.seqNum
  BY DEF LossesVisible
<1>2. nalus \in Seq(Nalu) /\ i \in Nat /\ j \in Nat
  BY <1>1 DEF IInv, Custody
<1>3. Uniform
  BY <1>1 DEF Uniform
<1>4. PICK last \in 0 .. Len(nalus) : Seen(s, last, last)
  BY <1>1, <1>3 DEF Visibility
<1>5. PICK L, number, waiting :
          /\ L = Packets(s) /\ Numbered(L, number, waiting, last)
          /\ AllMarked(L, number, waiting, last)
  BY <1>4 DEF Seen
<1>6. PICK P : P = Parts(i)
  OBVIOUS
<1>7. /\ P \subseteq L /\ p \in P /\ q \in L /\ q \in ToSet(wire) /\ j \in Ids(q)
      /\ \A x \in P : i \in Ids(x) /\ x.of # 0
  BY <1>1, <1>5, <1>6 DEF Parts, Packets, Ids
<1>8. PICK w : w \in P /\ Cardinality(P) = Max({1, w.of})
  BY <1>1, <1>6 DEF Whole
<1>9. PICK z \in P : Closing(z, i) /\ p.seqNum <= z.seqNum
  BY <1>2, <1>5, <1>7, <1>8, WholeLemma
<1>10. /\ z \in L /\ Formed(z) /\ Formed(q) /\ z.of # 0 /\ Ids(z) = {i}
       /\ z = q \/ Prior(z, q) \/ Prior(q, z)
       /\ j <= last
  <2>1. z \in L /\ i \in Ids(z) /\ z.of # 0
    BY <1>7
  <2>2. Formed(z) /\ Formed(q)
    BY <1>5, <1>7, <2>1 DEF Numbered
  <2>3. Ids(z) = {i}
    BY <2>1, <2>2 DEF Formed
  <2>4. (z = q \/ Prior(z, q) \/ Prior(q, z)) /\ j <= last
    BY <1>5, <1>7, <2>1 DEF Numbered
  <2>5. QED  BY <2>1, <2>2, <2>3, <2>4
<1>11. \A x \in Ids(q) : i < x
  <2>1. j # i /\ ~(j < i)
    BY <1>1, <1>2
  <2>2. z # q /\ Ids(z) # Ids(q)
    BY <1>7, <1>10, <2>1
  <2>3. Prior(z, q)
    BY <1>7, <1>10, <2>1, <2>2 DEF Prior
  <2>4. QED  BY <1>10, <2>2, <2>3 DEF Prior
<1>12. \A x \in Ids(q) : x # i + 1
  <2>1. i + 1 \in i + 1 .. j - 1
    BY <1>1, <1>2
  <2>2. Parts(i + 1) = {}
    BY <1>1, <2>1
  <2>3. QED  BY <1>7, <2>2 DEF Parts, Ids
<1>13. \A x \in Ids(q) : i + 1 < x
  <2>1. \A x \in Ids(q) : x \in Nat
    BY <1>2, <1>10 DEF Formed
  <2>2. QED  BY <1>2, <1>11, <1>12, <2>1
<1>14. i < last
  BY <1>1, <1>2, <1>10
<1>15. z.seqNum + 1 < q.seqNum
  BY <1>2, <1>5, <1>7, <1>9, <1>10, <1>13, <1>14 DEF AllMarked, Marked
<1>16. p.seqNum \in Nat /\ z.seqNum \in Nat /\ q.seqNum \in Nat
  <2>1. Formed(p)
    BY <1>5, <1>7 DEF Numbered
  <2>2. QED  BY <1>10, <2>1, PacketFields DEF Formed
<1>17. QED  BY <1>9, <1>15, <1>16

(* When two NALUs are sent whole and all those between them are lost, on   *)
(* time-out or because the packet FIFO was full, the receiver sees a gap   *)
(* in the sequence numbers ("let the receiver know that we dropped         *)
(* something"), if all NALUs have one priority, the first was not in a     *)
(* STAP-A and FlushNaluQueue was not called: in every run, for every size  *)
(* of the packet FIFO and of the NALUs.                                    *)
THEOREM LossesShow == Spec => []LossesVisible
<1>1. IInv /\ Visibility /\ [Next]_vars => (IInv /\ Visibility)'
  BY IInvNext, VisibilityNext
<1>2. Init => IInv /\ Visibility
  BY IInvInit, VisibilityInit
<1>3. QED  BY <1>1, <1>2, VisibilityLemma, PTL DEF Spec
=============================================================================
