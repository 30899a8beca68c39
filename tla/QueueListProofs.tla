--------------------------- MODULE QueueListProofs ---------------------------
(***************************************************************************)
(* Proofs about the list of queues: with the removal of the packet FIFO    *)
(* the pointers represent the sequence of its queues, whatever their       *)
(* number, and a walk of the list has emptied exactly these when it ends.  *)
(* With the removal of the access unit FIFO only types are preserved: a    *)
(* run shows that the rest fails.                                          *)
(***************************************************************************)
EXTENDS QueueList, SeqLemmas

(* TypeOK, and what holds of a sequence of queues without repetition.      *)
LEMMA AttachedLemma ==
    ASSUME TypeOK
    PROVE  /\ Len(attached) \in Nat /\ DOMAIN attached = 1 .. Len(attached)
           /\ \A k \in DOMAIN attached : attached[k] \in Queues
           /\ ToSet(attached) = {attached[k] : k \in DOMAIN attached}
  BY DEF TypeOK, ToSet

(* Every step keeps the types, whichever removal the list has.             *)
LEMMA TypeNext ==
    ASSUME TypeOK, [Next]_vars
    PROVE  TypeOK'
<1> USE ListAssumption
<1>1. ASSUME NEW q \in Queues, AddQueue(q)
      PROVE  TypeOK'
  <2>1. attached' \in Seq(Queues)
    BY <1>1 DEF AddQueue, TypeOK, Cons
  <2>2. QED  BY <1>1, <2>1 DEF AddQueue, TypeOK, Pointers, walkVars
<1>2. ASSUME NEW q \in Queues, RemoveQueue(q)
      PROVE  TypeOK'
  <2>1. attached' \in Seq(Queues)
    <3>1. PICK k \in DOMAIN attached : attached' = RemoveAt(attached, k)
      BY <1>2 DEF RemoveQueue
    <3>2. k \in 1 .. Len(attached) /\ Len(attached) \in Nat
      BY AttachedLemma
    <3>3. /\ SubSeq(attached, 1, k - 1) \in Seq(Queues)
          /\ SubSeq(attached, k + 1, Len(attached)) \in Seq(Queues)
      BY <3>2, SubSeqProperties DEF TypeOK
    <3>4. RemoveAt(attached, k) \in Seq(Queues)
      BY <3>3, ConcatProperties DEF RemoveAt
    <3>5. QED  BY <3>1, <3>4
  <2>2. prev[q] \in Pointers /\ next[q] \in Pointers
    BY DEF TypeOK
  <2>3. first' \in Pointers
    BY <1>2, <2>2 DEF RemoveQueue, HeadWithout, TypeOK, Pointers
  <2>4. prev' \in [Queues -> Pointers] /\ next' \in [Queues -> Pointers]
    BY <1>2, <2>2 DEF RemoveQueue, TypeOK, Pointers
  <2>5. QED  BY <1>2, <2>1, <2>3, <2>4 DEF RemoveQueue, TypeOK, walkVars
<1>3. CASE StartFlush
  BY <1>3 DEF StartFlush, TypeOK, listVars
<1>4. CASE FlushQueue
  BY <1>4 DEF FlushQueue, TypeOK, listVars, Pointers
<1>5. CASE EndFlush
  BY <1>5 DEF EndFlush, TypeOK, listVars
<1>6. CASE UNCHANGED vars
  BY <1>6 DEF vars, listVars, walkVars, TypeOK
<1>7. QED  BY <1>1, <1>2, <1>3, <1>4, <1>5, <1>6 DEF Next

(* Every variable of the list and of the walk keeps its type, with either  *)
(* removal: in particular no pointer is ever anything but a queue or NULL. *)
THEOREM TypeCorrect == Spec => []TypeOK
<1>1. ASSUME Init
      PROVE  TypeOK
  <2>1. attached \in Seq(Queues)
    BY <1>1 DEF Init
  <2>2. QED  BY <1>1, <2>1 DEF Init, TypeOK, Pointers
<1>2. TypeOK /\ [Next]_vars => TypeOK'
  BY TypeNext
<1>3. QED  BY <1>1, <1>2, PTL DEF Spec

-----------------------------------------------------------------------------
(* The pointers represent the list.                                        *)

(* Head and neighbours, position by position.                              *)
LEMMA Links ==
    ASSUME TypeOK, PointersFollowList, NEW n \in Nat, n = Len(attached)
    PROVE  /\ n = 0 => first = Null
           /\ n > 0 => first = attached[1]
           /\ \A k \in 1 .. n :
                 /\ k = 1 => prev[attached[k]] = Null
                 /\ k > 1 => prev[attached[k]] = attached[k - 1]
                 /\ k = n => next[attached[k]] = Null
                 /\ k < n => next[attached[k]] = attached[k + 1]
<1>1. DOMAIN attached = 1 .. n
  BY AttachedLemma
<1>2. (n = 0 => first = Null) /\ (n > 0 => first = attached[1])
  BY <1>1 DEF PointersFollowList, At
<1>3. ASSUME NEW k \in 1 .. n
      PROVE  /\ k = 1 => prev[attached[k]] = Null
             /\ k > 1 => prev[attached[k]] = attached[k - 1]
             /\ k = n => next[attached[k]] = Null
             /\ k < n => next[attached[k]] = attached[k + 1]
  <2>1. prev[attached[k]] = At(k - 1) /\ next[attached[k]] = At(k + 1)
    BY <1>1 DEF PointersFollowList
  <2>2. /\ k = 1 => k - 1 \notin DOMAIN attached
        /\ k > 1 => k - 1 \in DOMAIN attached
        /\ k = n => k + 1 \notin DOMAIN attached
        /\ k < n => k + 1 \in DOMAIN attached
    BY <1>1
  <2>3. QED  BY <2>1, <2>2 DEF At
<1>4. QED  BY <1>2, <1>3

(* Adding a queue in front.                                                *)
LEMMA AddFollows ==
    ASSUME TypeOK, PointersFollowList, NEW q \in Queues, AddQueue(q)
    PROVE  PointersFollowList'
<1> USE ListAssumption
<1>0. PICK n \in Nat : n = Len(attached)
  BY AttachedLemma
<1>1. /\ n \in Nat /\ DOMAIN attached = 1 .. n
      /\ \A k \in 1 .. n : attached[k] \in Queues /\ attached[k] # q
                           /\ attached[k] \in ToSet(attached)
  BY <1>0, AttachedLemma DEF AddQueue
<1>2. /\ attached' = Cons(q, attached)
      /\ q \notin ToSet(attached) /\ attached \in Seq(Queues)
      /\ IsInjective(attached)
  BY DEF AddQueue, TypeOK, PointersFollowList
<1>3. IsInjective(attached')
  BY <1>2, ConsLemma
<1>4. /\ DOMAIN attached' = 1 .. n + 1 /\ attached'[1] = q
      /\ \A k \in 2 .. n + 1 : attached'[k] = attached[k - 1]
  BY <1>0, <1>2 DEF Cons
<1>5. /\ n = 0 => first = Null
      /\ n > 0 => first = attached[1]
      /\ \A k \in 1 .. n :
            /\ k = 1 => prev[attached[k]] = Null
            /\ k > 1 => prev[attached[k]] = attached[k - 1]
            /\ k = n => next[attached[k]] = Null
            /\ k < n => next[attached[k]] = attached[k + 1]
  BY <1>0, Links
<1>6. /\ first' = q
      /\ next' = [next EXCEPT ![q] = first]
      /\ prev' = [p \in Queues |-> IF p = first THEN q
                                   ELSE IF p = q THEN Null ELSE prev[p]]
      /\ next \in [Queues -> Pointers]
  BY DEF AddQueue, TypeOK
<1>7. ASSUME NEW k \in 1 .. n + 1
      PROVE  /\ prev'[attached'[k]] = At(k - 1)'
             /\ next'[attached'[k]] = At(k + 1)'
  <2>1. CASE k = 1
    <3>1. first # q
      <4>1. CASE n = 0
        BY <4>1, <1>5
      <4>2. CASE n > 0
        BY <4>2, <1>1, <1>5
      <4>3. QED  BY <4>1, <4>2
    <3>2. prev'[q] = Null /\ next'[q] = first
      BY <1>6, <3>1
    <3>3. At(0)' = Null /\ At(2)' = first
      BY <1>4, <1>5 DEF At
    <3>4. QED  BY <2>1, <3>2, <3>3, <1>4
  <2>2. CASE k > 1
    <3> DEFINE p == attached[k - 1]
    <3>1. /\ k - 1 \in 1 .. n /\ attached'[k] = p /\ p \in Queues /\ p # q
      BY <2>2, <1>1, <1>4
    <3>2. (k = 2 => p = first) /\ (k > 2 => p # first)
      BY <3>1, <1>1, <1>2, <1>5 DEF IsInjective
    <3>3. /\ next'[p] = next[p]
          /\ k = 2 => prev'[p] = q
          /\ k > 2 => prev'[p] = prev[p]
      BY <3>1, <3>2, <1>6
    <3>4. /\ k = 2 => At(k - 1)' = q
          /\ k > 2 => At(k - 1)' = attached[k - 2]
          /\ k = n + 1 => At(k + 1)' = Null
          /\ k < n + 1 => At(k + 1)' = attached[k]
      BY <2>2, <1>1, <1>4 DEF At
    <3>5. /\ k > 2 => prev[p] = attached[k - 2]
          /\ k = n + 1 => next[p] = Null
          /\ k < n + 1 => next[p] = attached[k]
      BY <3>1, <1>5
    <3>6. QED  BY <2>2, <3>1, <3>3, <3>4, <3>5
  <2>3. QED  BY <2>1, <2>2, <1>1
<1>8. first' = At(1)'
  BY <1>1, <1>4, <1>6 DEF At
<1>9. QED  BY <1>3, <1>4, <1>7, <1>8 DEF PointersFollowList

(* Removing a queue from anywhere, with the removal of the packet FIFO:    *)
(* the neighbours are linked to each other, and the head follows.          *)
LEMMA RemoveFollows ==
    ASSUME Removal = "rtp", TypeOK, PointersFollowList, NEW q \in Queues,
           RemoveQueue(q)
    PROVE  PointersFollowList'
<1> USE ListAssumption
<1>0. PICK n \in Nat : n = Len(attached)
  BY AttachedLemma
<1>1. /\ n \in Nat /\ DOMAIN attached = 1 .. n
      /\ \A k \in 1 .. n : attached[k] \in Queues /\ attached[k] # Null
  BY <1>0, AttachedLemma
<1>2. PICK j \in 1 .. n : attached[j] = q /\ attached' = RemoveAt(attached, j)
  BY <1>1 DEF RemoveQueue
<1>3. /\ IsInjective(attached) /\ attached \in Seq(Queues)
      /\ \A i, k \in 1 .. n : attached[i] = attached[k] => i = k
  BY <1>1 DEF TypeOK, PointersFollowList, IsInjective
<1>4. /\ IsInjective(attached')
      /\ DOMAIN attached' = 1 .. n - 1
      /\ \A i \in 1 .. n - 1 :
            attached'[i] = IF i < j THEN attached[i] ELSE attached[i + 1]
  <2>1. /\ attached' \in Seq(Queues) /\ IsInjective(attached')
        /\ Len(attached') = n - 1
        /\ \A i \in 1 .. n - 1 :
              attached'[i] = IF i < j THEN attached[i] ELSE attached[i + 1]
    BY <1>0, <1>2, <1>3, RemoveAtLemma
  <2>2. QED  BY <2>1
<1>5. /\ n = 0 => first = Null
      /\ n > 0 => first = attached[1]
      /\ \A k \in 1 .. n :
            /\ k = 1 => prev[attached[k]] = Null
            /\ k > 1 => prev[attached[k]] = attached[k - 1]
            /\ k = n => next[attached[k]] = Null
            /\ k < n => next[attached[k]] = attached[k + 1]
  BY <1>0, Links
<1>6. /\ j = 1 => prev[q] = Null
      /\ j > 1 => prev[q] = attached[j - 1]
      /\ j = n => next[q] = Null
      /\ j < n => next[q] = attached[j + 1]
  BY <1>2, <1>5
<1>7. /\ first' = (IF first = q THEN next[q] ELSE first)
      /\ next' = [p \in Queues |-> IF p = q THEN Null
                                   ELSE IF p = prev[q] THEN next[q] ELSE next[p]]
      /\ prev' = [p \in Queues |-> IF p = q THEN Null
                                   ELSE IF p = next[q] THEN prev[q] ELSE prev[p]]
  BY DEF RemoveQueue, HeadWithout
<1>8. ASSUME NEW i \in 1 .. n - 1
      PROVE  /\ prev'[attached'[i]] = At(i - 1)'
             /\ next'[attached'[i]] = At(i + 1)'
  <2> DEFINE p == attached'[i]
  <2>1. CASE i < j
    <3>1. p = attached[i] /\ i \in 1 .. n /\ p \in Queues /\ p # q
      BY <2>1, <1>1, <1>2, <1>3, <1>4
    <3>2. (i = j - 1 => p = prev[q]) /\ (i < j - 1 => p # prev[q])
      BY <2>1, <3>1, <1>1, <1>3, <1>6
    <3>3. p # next[q]
      <4>1. CASE j = n
        BY <4>1, <3>1, <1>6
      <4>2. CASE j < n
        <5>1. next[q] = attached[j + 1] /\ j + 1 \in 1 .. n /\ i # j + 1
          BY <4>2, <2>1, <1>6
        <5>2. QED  BY <5>1, <3>1, <1>3
      <4>3. QED  BY <4>1, <4>2
    <3>4. /\ prev'[p] = prev[p]
          /\ i = j - 1 => next'[p] = next[q]
          /\ i < j - 1 => next'[p] = next[p]
      BY <3>1, <3>2, <3>3, <1>7
    <3>5. prev'[p] = At(i - 1)'
      <4>1. CASE i = 1
        BY <4>1, <3>1, <3>4, <1>4, <1>5 DEF At
      <4>2. CASE i > 1
        <5>1. At(i - 1)' = attached[i - 1]
          BY <4>2, <2>1, <1>4 DEF At
        <5>2. QED  BY <4>2, <5>1, <3>1, <3>4, <1>5
      <4>3. QED  BY <4>1, <4>2
    <3>6. next'[p] = At(i + 1)'
      <4>1. CASE i < j - 1
        <5>1. At(i + 1)' = attached[i + 1]
          BY <4>1, <1>4 DEF At
        <5>2. QED  BY <4>1, <5>1, <3>1, <3>4, <1>5
      <4>2. CASE i = j - 1 /\ j < n
        <5>1. At(i + 1)' = attached[j + 1]
          BY <4>2, <1>4 DEF At
        <5>2. QED  BY <4>2, <5>1, <3>4, <1>6
      <4>3. CASE i = j - 1 /\ j = n
        <5>1. At(i + 1)' = Null
          BY <4>3, <1>4 DEF At
        <5>2. QED  BY <4>3, <5>1, <3>4, <1>6
      <4>4. QED  BY <2>1, <4>1, <4>2, <4>3
    <3>7. QED  BY <3>5, <3>6
  <2>2. CASE i >= j
    <3>1. p = attached[i + 1] /\ i + 1 \in 1 .. n /\ p \in Queues /\ p # q
      BY <2>2, <1>1, <1>2, <1>3, <1>4
    <3>2. p # prev[q]
      <4>1. CASE j = 1
        BY <4>1, <3>1, <1>6
      <4>2. CASE j > 1
        <5>1. prev[q] = attached[j - 1] /\ j - 1 \in 1 .. n /\ i + 1 # j - 1
          BY <4>2, <2>2, <1>6
        <5>2. QED  BY <5>1, <3>1, <1>3
      <4>3. QED  BY <4>1, <4>2
    <3>3. (i = j => p = next[q]) /\ (i > j => p # next[q])
      <4>1. j < n /\ next[q] = attached[j + 1] /\ j + 1 \in 1 .. n
        BY <2>2, <1>6
      <4>2. QED  BY <2>2, <4>1, <3>1, <1>3
    <3>4. /\ next'[p] = next[p]
          /\ i = j => prev'[p] = prev[q]
          /\ i > j => prev'[p] = prev[p]
      BY <3>1, <3>2, <3>3, <1>7
    <3>5. prev'[p] = At(i - 1)'
      <4>1. CASE i > j
        <5>1. At(i - 1)' = attached[i]
          BY <4>1, <1>4 DEF At
        <5>2. prev[p] = attached[i]
          BY <4>1, <3>1, <1>5
        <5>3. QED  BY <4>1, <5>1, <5>2, <3>4
      <4>2. CASE i = j /\ j = 1
        BY <4>2, <3>4, <1>4, <1>6 DEF At
      <4>3. CASE i = j /\ j > 1
        <5>1. At(i - 1)' = attached[j - 1]
          BY <4>3, <1>4 DEF At
        <5>2. QED  BY <4>3, <5>1, <3>4, <1>6
      <4>4. QED  BY <2>2, <4>1, <4>2, <4>3
    <3>6. next'[p] = At(i + 1)'
      <4>1. CASE i = n - 1
        <5>1. At(i + 1)' = Null
          BY <4>1, <1>4 DEF At
        <5>2. QED  BY <4>1, <5>1, <3>1, <3>4, <1>5
      <4>2. CASE i < n - 1
        <5>1. At(i + 1)' = attached[i + 2]
          BY <4>2, <2>2, <1>4 DEF At
        <5>2. next[p] = attached[i + 2]
          BY <4>2, <3>1, <1>5
        <5>3. QED  BY <5>1, <5>2, <3>4
      <4>3. QED  BY <4>1, <4>2
    <3>7. QED  BY <3>5, <3>6
  <2>3. QED  BY <2>1, <2>2
<1>9. first' = At(1)'
  <2>1. CASE j > 1
    <3>1. first = attached[1] /\ attached[1] # q
      BY <2>1, <1>2, <1>3, <1>5
    <3>2. At(1)' = attached[1]
      BY <2>1, <1>4 DEF At
    <3>3. QED  BY <3>1, <3>2, <1>7
  <2>2. CASE j = 1 /\ n = 1
    <3>1. At(1)' = Null
      BY <2>2, <1>4 DEF At
    <3>2. QED  BY <2>2, <3>1, <1>2, <1>5, <1>6, <1>7
  <2>3. CASE j = 1 /\ n > 1
    <3>1. At(1)' = attached[2]
      BY <2>3, <1>4 DEF At
    <3>2. QED  BY <2>3, <3>1, <1>2, <1>5, <1>6, <1>7
  <2>4. QED  BY <2>1, <2>2, <2>3
<1>10. QED  BY <1>4, <1>8, <1>9 DEF PointersFollowList

LEMMA FollowsNext ==
    ASSUME Removal = "rtp", TypeOK, PointersFollowList, [Next]_vars
    PROVE  PointersFollowList'
<1>1. ASSUME NEW q \in Queues, AddQueue(q)
      PROVE  PointersFollowList'
  BY <1>1, AddFollows
<1>2. ASSUME NEW q \in Queues, RemoveQueue(q)
      PROVE  PointersFollowList'
  BY <1>2, RemoveFollows
<1>3. CASE UNCHANGED listVars
  BY <1>3 DEF listVars, PointersFollowList, At
<1>4. QED
  BY <1>1, <1>2, <1>3
  DEF Next, StartFlush, FlushQueue, EndFlush, vars, listVars

(* With the removal of the packet FIFO (arstream2_rtp.c:230) the head and  *)
(* the prev and next pointers represent the sequence of the queues added   *)
(* and not removed, whatever the order of insertions and removals.         *)
THEOREM PointersRepresentList ==
    ASSUME Removal = "rtp"
    PROVE  Spec => []PointersFollowList
<1>1. Init => PointersFollowList
  BY DEF Init, PointersFollowList, At, IsInjective
<1>2. TypeOK /\ PointersFollowList /\ [Next]_vars => PointersFollowList'
  BY FollowsNext
<1>3. QED  BY <1>1, <1>2, TypeCorrect, PTL DEF Spec

-----------------------------------------------------------------------------
(* The walk: before the k-th queue it has emptied the k - 1 before it.     *)
WalkInv ==
    flushing => \E k \in 1 .. Len(attached) + 1 :
                    /\ cursor = At(k)
                    /\ flushed = {attached[i] : i \in 1 .. k - 1}

LEMMA WalkNext ==
    ASSUME Removal = "rtp", TypeOK, PointersFollowList, WalkInv, [Next]_vars
    PROVE  WalkInv'
<1> USE ListAssumption
<1>1. ASSUME NEW q \in Queues, AddQueue(q) \/ RemoveQueue(q)
      PROVE  WalkInv'
  BY <1>1 DEF AddQueue, RemoveQueue, walkVars, WalkInv
<1>2. CASE StartFlush
  <2>1. cursor' = At(1)' /\ flushed' = {} /\ attached' = attached
    BY <1>2 DEF StartFlush, PointersFollowList, listVars, At
  <2>2. 1 \in 1 .. Len(attached) + 1
    BY AttachedLemma
  <2>3. {attached[i] : i \in 1 .. 1 - 1} = {}
    OBVIOUS
  <2>4. QED  BY <2>1, <2>2, <2>3 DEF WalkInv
<1>3. CASE FlushQueue
  <2>1. PICK k \in 1 .. Len(attached) + 1 :
           cursor = At(k) /\ flushed = {attached[i] : i \in 1 .. k - 1}
    BY <1>3 DEF FlushQueue, WalkInv
  <2>2. Len(attached) \in Nat /\ DOMAIN attached = 1 .. Len(attached)
    BY AttachedLemma
  <2>3. k \in DOMAIN attached /\ cursor = attached[k]
    BY <1>3, <2>1 DEF FlushQueue, At
  <2>4. /\ cursor' = At(k + 1) /\ flushed' = flushed \cup {attached[k]}
        /\ attached' = attached
    BY <1>3, <2>3 DEF FlushQueue, PointersFollowList, listVars
  <2>5. /\ k + 1 \in 1 .. Len(attached) + 1
        /\ flushed' = {attached[i] : i \in 1 .. (k + 1) - 1}
    BY <2>1, <2>2, <2>3, <2>4
  <2>6. cursor' = At(k + 1)'
    BY <2>4 DEF At
  <2>7. QED  BY <2>4, <2>5, <2>6 DEF WalkInv
<1>4. CASE EndFlush
  BY <1>4 DEF EndFlush, WalkInv
<1>5. CASE UNCHANGED vars
  BY <1>5 DEF vars, listVars, walkVars, WalkInv, At
<1>6. QED  BY <1>1, <1>2, <1>3, <1>4, <1>5 DEF Next

(* "flush to recover" (arstream2_rtp.c:1165): with the removal of the      *)
(* packet FIFO, a flush that ends has emptied every queue of the list and  *)
(* nothing else.                                                           *)
THEOREM FlushComplete ==
    ASSUME Removal = "rtp"
    PROVE  Spec => FlushReachesAll
<1> USE ListAssumption
<1>1. Init => WalkInv
  BY DEF Init, WalkInv
<1>2. TypeOK /\ PointersFollowList /\ WalkInv /\ [Next]_vars => WalkInv'
  BY WalkNext
<1>3. TypeOK /\ WalkInv /\ [Next]_vars
         => [EndFlush => flushed = ToSet(attached)]_vars
  <2> SUFFICES ASSUME TypeOK, WalkInv, EndFlush
               PROVE  flushed = ToSet(attached)
    OBVIOUS
  <2>1. PICK k \in 1 .. Len(attached) + 1 :
           At(k) = Null /\ flushed = {attached[i] : i \in 1 .. k - 1}
    BY DEF EndFlush, WalkInv
  <2>2. /\ Len(attached) \in Nat /\ DOMAIN attached = 1 .. Len(attached)
        /\ \A i \in DOMAIN attached : attached[i] # Null
        /\ ToSet(attached) = {attached[i] : i \in DOMAIN attached}
    BY AttachedLemma
  <2>3. k = Len(attached) + 1
    BY <2>1, <2>2 DEF At
  <2>4. QED  BY <2>1, <2>2, <2>3
<1>4. QED
  BY <1>1, <1>2, <1>3, TypeCorrect, PointersRepresentList, PTL
  DEF Spec, FlushReachesAll
=============================================================================
