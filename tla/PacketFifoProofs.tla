-------------------------- MODULE PacketFifoProofs ---------------------------
(***************************************************************************)
(* Safety of PacketFifo for pools, resenders and sequence-number rings of  *)
(* any size.  The inductive invariant has three layers: PoolInv relates    *)
(* the reference counts to the items in use and the free list, PlaceInv    *)
(* says where the items are, and ControlInv ties the position of the two   *)
(* threads to the lists they work on.  The properties that follow from it  *)
(* alone come first, those that need a step of their own after them.       *)
(***************************************************************************)
EXTENDS PacketFifo, SeqLemmas, FiniteSetTheorems

-----------------------------------------------------------------------------
(* The extension of the sequence numbers, for rings of any size.           *)

(* The extended number is a 32-bit number.                                 *)
LEMMA ExtendType ==
    ASSUME NEW seq \in SeqNums, NEW highestExt \in ExtNums, NEW previousExt \in Int
    PROVE  Extend(seq, highestExt, previousExt) \in ExtNums
<1> DEFINE guess == highestExt - (highestExt % SeqRing) + seq
<1>1. guess \in ExtNums
  BY LowPart, SeqNumAssumption DEF SeqNums, ExtNums
<1>2. /\ ExtRing \in Nat /\ ExtRing > 0 /\ SeqRing \in Nat
      /\ guess \in Int
  BY <1>1, SeqNumAssumption DEF ExtNums
<1> HIDE DEF guess
<1>3. (guess + SeqRing) % ExtRing \in ExtNums /\ (guess - SeqRing) % ExtRing \in ExtNums
  BY <1>2, ModRange DEF ExtNums
<1>4. QED  BY <1>1, <1>3 DEF Extend, guess

(* The int32_t copy of an extended number is an integer.                   *)
LEMMA ToInt32Type ==
    ASSUME NEW e \in ExtNums
    PROVE  ToInt32(e) \in Int
  BY SeqNumAssumption DEF ExtNums, ToInt32

LEMMA SeqNumsExtend == SeqNums \subseteq ExtNums /\ 0 \in SeqNums /\ 0 \in ExtNums
  BY SeqNumAssumption DEF SeqNums, ExtNums

-----------------------------------------------------------------------------
(* The pools.                                                              *)

PoolInv ==
    /\ itemFree \subseteq Items
    /\ bufferFree \in Seq(Buffers)
    /\ refCount \in [Buffers -> Nat]
    /\ packet \in [Items -> Packets]
    /\ \A it \in Items \ itemFree : packet[it].buffer \in Buffers
    /\ RefCountExact
    /\ FreeBuffersUnused

(* The items that use a buffer are finitely many.                          *)
LEMMA UsersFinite ==
    ASSUME NEW b \in Buffers
    PROVE  IsFiniteSet(Users(b)) /\ Cardinality(Users(b)) \in Nat
<1>1. Users(b) \subseteq Items
  BY DEF Users
<1>2. QED  BY <1>1, PoolAssumption, FS_Subset, FS_CardinalityType

(* The same of the next state.                                             *)
LEMMA UsersFiniteNext ==
    ASSUME NEW b \in Buffers
    PROVE  IsFiniteSet(Users(b)') /\ Cardinality(Users(b)') \in Nat
<1>1. Users(b)' \subseteq Items
  BY DEF Users
<1>2. QED  BY <1>1, PoolAssumption, FS_Subset, FS_CardinalityType

(* A buffer with a user is not free and has a positive count.              *)
LEMMA UsedBuffer ==
    ASSUME PoolInv, NEW it \in Items \ itemFree
    PROVE  /\ packet[it].buffer \in Buffers
           /\ refCount[packet[it].buffer] \in Nat \ {0}
           /\ packet[it].buffer \notin ToSet(bufferFree)
<1> DEFINE b == packet[it].buffer
<1>1. b \in Buffers /\ it \in Users(b) /\ refCount[b] = Cardinality(Users(b))
  BY DEF PoolInv, Users, RefCountExact
<1>2. Cardinality(Users(b)) # 0
  BY <1>1, UsersFinite, FS_EmptySet
<1>3. refCount[b] \in Nat \ {0}
  BY <1>1, <1>2, UsersFinite
<1>4. QED  BY <1>1, <1>3 DEF PoolInv, FreeBuffersUnused

(* Letting go of an item in use keeps counts and free list exact.          *)
LEMMA ReleasePool ==
    ASSUME PoolInv, NEW it \in Items \ itemFree, ReleaseItem(it)
    PROVE  PoolInv'
<1> DEFINE b == packet[it].buffer
<1>1. /\ b \in Buffers /\ refCount[b] \in Nat \ {0} /\ b \notin ToSet(bufferFree)
  BY UsedBuffer
<1>2. Remaining(b) = refCount[b] - 1 /\ Remaining(b) \in Nat
  BY <1>1 DEF Remaining
<1>3. /\ refCount' = [refCount EXCEPT ![b] = refCount[b] - 1]
      /\ bufferFree' = IF refCount[b] - 1 = 0 THEN Cons(b, bufferFree) ELSE bufferFree
      /\ itemFree' = itemFree \cup {it} /\ packet' = packet
  BY <1>2 DEF ReleaseItem
<1>4. refCount' \in [Buffers -> Nat] /\ itemFree' \subseteq Items
      /\ packet' \in [Items -> Packets]
      /\ \A i \in Items \ itemFree' : packet'[i].buffer \in Buffers
  BY <1>1, <1>2, <1>3 DEF PoolInv
<1>5. RefCountExact'
  <2>1. SUFFICES ASSUME NEW c \in Buffers
                 PROVE  refCount'[c] = Cardinality(Users(c)')
    BY DEF RefCountExact
  <2>2. CASE c = b
    <3>1. Users(c)' = Users(c) \ {it} /\ it \in Users(c)
      BY <2>2, <1>3 DEF Users
    <3>2. Cardinality(Users(c)') = Cardinality(Users(c)) - 1
      BY <3>1, UsersFinite, FS_RemoveElement
    <3>3. QED  BY <3>2, <2>2, <1>1, <1>3 DEF PoolInv, RefCountExact
  <2>3. CASE c # b
    <3>1. Users(c)' = Users(c)
      BY <2>3, <1>3 DEF Users
    <3>2. QED  BY <3>1, <2>3, <1>1, <1>3 DEF PoolInv, RefCountExact
  <2>4. QED  BY <2>2, <2>3
<1>6. bufferFree' \in Seq(Buffers) /\ FreeBuffersUnused'
  <2>1. CASE refCount[b] - 1 = 0
    <3>1. /\ bufferFree' \in Seq(Buffers) /\ IsInjective(bufferFree')
          /\ ToSet(bufferFree') = ToSet(bufferFree) \cup {b}
      BY <2>1, <1>1, <1>3, ConsLemma DEF PoolInv, FreeBuffersUnused
    <3>2. QED  BY <3>1, <2>1, <1>1, <1>3 DEF PoolInv, FreeBuffersUnused
  <2>2. CASE refCount[b] - 1 # 0
    BY <2>2, <1>1, <1>3 DEF PoolInv, FreeBuffersUnused
  <2>3. QED  BY <2>1, <2>2
<1>7. QED  BY <1>4, <1>5, <1>6 DEF PoolInv

(* Taking a free buffer for a free item keeps them exact.                  *)
LEMMA TakePool ==
    ASSUME PoolInv, NEW it \in Items, NEW p \in Packets,
           p.buffer = Head(bufferFree), TakeBoth(it, p)
    PROVE  PoolInv'
<1> DEFINE b == Head(bufferFree)
<1>1. /\ bufferFree # <<>> /\ it \in itemFree
      /\ bufferFree' = Tail(bufferFree)
      /\ refCount' = [refCount EXCEPT ![b] = 1]
      /\ itemFree' = itemFree \ {it}
      /\ packet' = [packet EXCEPT ![it] = p]
  BY DEF TakeBoth
<1>2. /\ b \in ToSet(bufferFree) /\ b \in Buffers
      /\ Tail(bufferFree) \in Seq(Buffers) /\ IsInjective(Tail(bufferFree))
      /\ ToSet(Tail(bufferFree)) = ToSet(bufferFree) \ {b}
  BY <1>1, TailLemma DEF PoolInv, FreeBuffersUnused
<1>3. refCount[b] = 0 /\ Users(b) = {}
  <2>1. refCount[b] = 0
    BY <1>2 DEF PoolInv, FreeBuffersUnused
  <2>2. QED  BY <1>2, <2>1, UsersFinite, FS_EmptySet DEF PoolInv, RefCountExact
<1> HIDE DEF b
<1>4. /\ itemFree' \subseteq Items /\ bufferFree' \in Seq(Buffers)
      /\ refCount' \in [Buffers -> Nat] /\ packet' \in [Items -> Packets]
      /\ \A i \in Items \ itemFree' : packet'[i].buffer \in Buffers
  BY <1>1, <1>2 DEF PoolInv, b
<1>5. RefCountExact'
  <2>1. SUFFICES ASSUME NEW c \in Buffers
                 PROVE  refCount'[c] = Cardinality(Users(c)')
    BY DEF RefCountExact
  <2>2. CASE c = b
    <3>1. Users(c)' = {it}
      BY <2>2, <1>1, <1>3 DEF Users, PoolInv, b
    <3>2. QED  BY <3>1, <2>2, <1>1, <1>2, FS_Singleton DEF PoolInv
  <2>3. CASE c # b
    <3>1. Users(c)' = Users(c)
      BY <2>3, <1>1 DEF Users, PoolInv, b
    <3>2. QED  BY <3>1, <2>3, <1>1 DEF PoolInv, RefCountExact
  <2>4. QED  BY <2>2, <2>3
<1>6. FreeBuffersUnused'
  BY <1>1, <1>2 DEF PoolInv, FreeBuffersUnused
<1>7. QED  BY <1>4, <1>5, <1>6 DEF PoolInv

(* Copying an item in use into a free item, with one more reference to the *)
(* buffer they share, keeps them exact.                                    *)
LEMMA CopyPool ==
    ASSUME PoolInv, NEW src \in Items \ itemFree, NEW it \in itemFree,
           itemFree' = itemFree \ {it},
           packet' = [packet EXCEPT ![it] = packet[src]],
           refCount' = [refCount EXCEPT ![packet[src].buffer] = @ + 1],
           bufferFree' = bufferFree
    PROVE  PoolInv'
<1> DEFINE b == packet[src].buffer
<1>1. /\ b \in Buffers /\ refCount[b] \in Nat \ {0} /\ b \notin ToSet(bufferFree)
      /\ it \in Items
  BY UsedBuffer DEF PoolInv
<1>2. /\ itemFree' \subseteq Items
      /\ refCount' \in [Buffers -> Nat] /\ packet' \in [Items -> Packets]
      /\ \A i \in Items \ itemFree' : packet'[i].buffer \in Buffers
  BY <1>1 DEF PoolInv
<1>3. RefCountExact'
  <2>1. SUFFICES ASSUME NEW c \in Buffers
                 PROVE  refCount'[c] = Cardinality(Users(c)')
    BY DEF RefCountExact
  <2>2. CASE c = b
    <3>1. Users(c)' = Users(c) \cup {it} /\ it \notin Users(c)
      BY <2>2, <1>1 DEF Users, PoolInv
    <3>2. Cardinality(Users(c)') = Cardinality(Users(c)) + 1
      BY <3>1, UsersFinite, FS_AddElement
    <3>3. QED  BY <3>2, <2>2, <1>1 DEF PoolInv, RefCountExact
  <2>3. CASE c # b
    <3>1. Users(c)' = Users(c)
      BY <2>3, <1>1 DEF Users, PoolInv
    <3>2. QED  BY <3>1, <2>3 DEF PoolInv, RefCountExact
  <2>4. QED  BY <2>2, <2>3
<1>4. FreeBuffersUnused'
  BY <1>1 DEF PoolInv, FreeBuffersUnused
<1>5. QED  BY <1>2, <1>3, <1>4 DEF PoolInv

(* A step that leaves the pools alone keeps them exact.                    *)
LEMMA SamePool ==
    ASSUME PoolInv, UNCHANGED <<itemFree, bufferFree, refCount, packet>>
    PROVE  PoolInv'
  BY DEF PoolInv, RefCountExact, FreeBuffersUnused, Users
-----------------------------------------------------------------------------
(* The places of the items.                                                *)

PlaceInv ==
    /\ queue \in [Queues -> Seq(Items)]
    /\ garbage \in Seq(Items)
    /\ ItemsInOnePlace

(* An item leaves queue q, which becomes s, for the free list.             *)
LEMMA QueueToFree ==
    ASSUME PlaceInv, NEW q \in Queues, NEW it \in ToSet(queue[q]),
           NEW s \in Seq(Items), IsInjective(s),
           ToSet(s) = ToSet(queue[q]) \ {it},
           queue' = [queue EXCEPT ![q] = s],
           itemFree' = itemFree \cup {it}, garbage' = garbage
    PROVE  PlaceInv'
<1>1. queue' \in [Queues -> Seq(Items)] /\ garbage' \in Seq(Items)
  BY DEF PlaceInv
<1>2. \A p \in Queues : queue'[p] = IF p = q THEN s ELSE queue[p]
  BY DEF PlaceInv
<1>3. \A p \in Queues : ToSet(queue'[p]) = ToSet(queue[p]) \ {it}
  <2>1. \A p \in Queues \ {q} : it \notin ToSet(queue[p])
    BY DEF PlaceInv, ItemsInOnePlace
  <2>2. QED  BY <1>2, <2>1
<1>4. it \in Items
  BY ToSetType DEF PlaceInv
<1>5. \A p \in Queues : IsInjective(queue'[p])
  BY <1>2 DEF PlaceInv, ItemsInOnePlace
<1>6. IsInjective(garbage') /\ itemFree' \cap ToSet(garbage') = {}
  BY DEF PlaceInv, ItemsInOnePlace
<1>7. \A p \in Queues : ToSet(queue'[p]) \cap (itemFree' \cup ToSet(garbage')) = {}
  BY <1>3 DEF PlaceInv, ItemsInOnePlace
<1>8. \A p \in Queues : \A r \in Queues \ {p} : ToSet(queue'[p]) \cap ToSet(queue'[r]) = {}
  BY <1>3 DEF PlaceInv, ItemsInOnePlace
<1>9. Items = itemFree' \cup ToSet(garbage') \cup UNION {ToSet(queue'[p]) : p \in Queues}
  BY <1>3, <1>4 DEF PlaceInv, ItemsInOnePlace
<1>10. QED  BY <1>1, <1>5, <1>6, <1>7, <1>8, <1>9 DEF PlaceInv, ItemsInOnePlace

(* A free item enters queue q, which becomes s.                            *)
LEMMA FreeToQueue ==
    ASSUME PlaceInv, NEW q \in Queues, NEW it \in itemFree,
           NEW s \in Seq(Items), IsInjective(s),
           ToSet(s) = ToSet(queue[q]) \cup {it},
           queue' = [queue EXCEPT ![q] = s],
           itemFree' = itemFree \ {it}, garbage' = garbage
    PROVE  PlaceInv'
<1>1. queue' \in [Queues -> Seq(Items)] /\ garbage' \in Seq(Items)
  BY DEF PlaceInv
<1>2. \A p \in Queues : queue'[p] = IF p = q THEN s ELSE queue[p]
  BY DEF PlaceInv
<1>3. /\ ToSet(queue'[q]) = ToSet(queue[q]) \cup {it}
      /\ \A p \in Queues \ {q} : ToSet(queue'[p]) = ToSet(queue[p])
  BY <1>2
<1>4. it \notin ToSet(garbage) /\ \A p \in Queues : it \notin ToSet(queue[p])
  BY DEF PlaceInv, ItemsInOnePlace
<1>5. \A p \in Queues : IsInjective(queue'[p])
  BY <1>2 DEF PlaceInv, ItemsInOnePlace
<1>6. IsInjective(garbage') /\ itemFree' \cap ToSet(garbage') = {}
  BY DEF PlaceInv, ItemsInOnePlace
<1>7. \A p \in Queues : ToSet(queue'[p]) \cap (itemFree' \cup ToSet(garbage')) = {}
  BY <1>3, <1>4 DEF PlaceInv, ItemsInOnePlace
<1>8. \A p \in Queues : \A r \in Queues \ {p} : ToSet(queue'[p]) \cap ToSet(queue'[r]) = {}
  BY <1>3, <1>4 DEF PlaceInv, ItemsInOnePlace
<1>9. Items = itemFree' \cup ToSet(garbage') \cup UNION {ToSet(queue'[p]) : p \in Queues}
  <2>1. it \in Items
    BY DEF PlaceInv, ItemsInOnePlace
  <2>2. \A p \in Queues : ToSet(queue[p]) \subseteq ToSet(queue'[p])
    BY <1>3
  <2>3. UNION {ToSet(queue'[p]) : p \in Queues}
           = {it} \cup UNION {ToSet(queue[p]) : p \in Queues}
    BY <1>3, <2>2
  <2>4. QED  BY <2>1, <2>3 DEF PlaceInv, ItemsInOnePlace
<1>10. QED  BY <1>1, <1>5, <1>6, <1>7, <1>8, <1>9 DEF PlaceInv, ItemsInOnePlace

(* A free item enters the garbage list.                                    *)
LEMMA FreeToGarbage ==
    ASSUME PlaceInv, NEW it \in itemFree, it \in Items,
           garbage' = Cons(it, garbage),
           itemFree' = itemFree \ {it}, queue' = queue
    PROVE  PlaceInv'
<1>1. it \notin ToSet(garbage) /\ \A p \in Queues : it \notin ToSet(queue[p])
  BY DEF PlaceInv, ItemsInOnePlace
<1>2. /\ garbage' \in Seq(Items) /\ IsInjective(garbage')
      /\ ToSet(garbage') = ToSet(garbage) \cup {it}
  BY <1>1, ConsLemma DEF PlaceInv, ItemsInOnePlace
<1>3. QED  BY <1>1, <1>2 DEF PlaceInv, ItemsInOnePlace

(* The head of the garbage list goes back to the free list.                *)
LEMMA GarbageToFree ==
    ASSUME PlaceInv, garbage # <<>>,
           garbage' = Tail(garbage),
           itemFree' = itemFree \cup {Head(garbage)}, queue' = queue
    PROVE  PlaceInv'
<1>1. /\ garbage' \in Seq(Items) /\ IsInjective(garbage')
      /\ ToSet(garbage') = ToSet(garbage) \ {Head(garbage)}
      /\ Head(garbage) \in ToSet(garbage)
  BY TailLemma DEF PlaceInv, ItemsInOnePlace
<1>2. \A p \in Queues : Head(garbage) \notin ToSet(queue[p])
  BY <1>1 DEF PlaceInv, ItemsInOnePlace
<1>3. QED  BY <1>1, <1>2 DEF PlaceInv, ItemsInOnePlace

(* Dequeuing the head of a queue and letting go of it.                     *)
LEMMA ReleaseHeadLemma ==
    ASSUME PoolInv, PlaceInv, NEW q \in Queues, queue[q] # <<>>,
           ReleaseHead(q), garbage' = garbage
    PROVE  PoolInv' /\ PlaceInv'
<1> DEFINE it == Head(queue[q])
<1>1. /\ it \in ToSet(queue[q]) /\ it \in Items
      /\ Tail(queue[q]) \in Seq(Items) /\ IsInjective(Tail(queue[q]))
      /\ ToSet(Tail(queue[q])) = ToSet(queue[q]) \ {it}
  BY TailLemma DEF PlaceInv, ItemsInOnePlace
<1>2. it \in Items \ itemFree
  BY <1>1 DEF PlaceInv, ItemsInOnePlace
<1>3. PoolInv'
  BY <1>2, ReleasePool DEF ReleaseHead
<1>4. PlaceInv'
  <2>1. /\ queue' = [queue EXCEPT ![q] = Tail(queue[q])]
        /\ itemFree' = itemFree \cup {it}
    BY DEF ReleaseHead, ReleaseItem, PlaceInv
  <2>2. QED  BY <1>1, <2>1, QueueToFree
<1>5. QED  BY <1>3, <1>4
-----------------------------------------------------------------------------
(* The sequence numbers and the ordered insertion.                         *)

(* The backward scan stops at the last position whose number is not above  *)
(* e.                                                                      *)
LEMMA ScanStopLemma ==
    ASSUME NEW s \in Seq(Items), NEW e
    PROVE  /\ ScanStop(s, e) \in 0 .. Len(s)
           /\ ScanStop(s, e) > 0 => packet[s[ScanStop(s, e)]].ext <= e
           /\ \A i \in ScanStop(s, e) + 1 .. Len(s) : ~(packet[s[i]].ext <= e)
<1> DEFINE I == {i \in 1 .. Len(s) : packet[s[i]].ext <= e}
           k == ScanStop(s, e)
<1>1. k = IF I # {} THEN Max(I) ELSE 0
  BY DEF ScanStop, SelectLastInSeq
<1>2. Len(s) \in Nat /\ I \subseteq 0 .. Len(s)
  OBVIOUS
<1> HIDE DEF k
<1>3. CASE I = {}
  <2>1. k = 0
    BY <1>1, <1>3
  <2>2. \A i \in 1 .. Len(s) : ~(packet[s[i]].ext <= e)
    BY <1>3
  <2>3. QED  BY <1>2, <2>1, <2>2 DEF k
<1>4. CASE I # {}
  <2>1. k \in I /\ \A i \in I : k >= i
    <3> HIDE DEF I
    <3>1. QED  BY <1>1, <1>2, <1>4, MaxLemma
  <2>2. QED  BY <2>1, <1>2 DEF k
<1>5. QED  BY <1>3, <1>4

(* The extended number of a wire number is a 32-bit number, and so is what *)
(* becomes of the highest.                                                 *)
LEMMA ExtOfType ==
    ASSUME NEW s \in SeqNums, highest \in ExtNums, previous \in Int
    PROVE  ExtOf(s) \in ExtNums
<1>1. CASE previous # NoPrevious
  BY <1>1, ExtendType DEF ExtOf, NextExt
<1>2. CASE previous = NoPrevious
  BY <1>2, SeqNumsExtend DEF ExtOf, NextExt
<1>3. QED  BY <1>1, <1>2
-----------------------------------------------------------------------------
(* Where the threads are, and the types of what they read and write.       *)

ControlInv ==
    /\ content \in [Buffers -> SeqNums]
    /\ attached \in Seq(Resenders) /\ IsInjective(attached)
    /\ \A r \in Resenders \ ToSet(attached) : queue[r] = <<>>
    /\ highest \in ExtNums /\ previous \in Int
    /\ depayed \in ExtNums \cup {NoPrevious}
    /\ pc \in NetPc /\ msgVec \in Seq(Messages)
    /\ idx \in Nat /\ kdx \in Nat \ {0}
    /\ pc = "timeout" => idx # 0
    /\ curItem \in Items \cup {NoItem}
    /\ pc = "resend" => curItem \in ToSet(queue[Main])
    /\ pc \notin {"add", "resend", "garbage"} => garbage = <<>>
    /\ mutex \in {"none", "net", "start", "app"}
    /\ stopping \in Resenders \cup {Nobody}
    /\ mutex = "app" => stopping \in ToSet(attached) /\ pc # "end"
    /\ mutex = "net" <=> pc \notin {"idle", "end", "done"}

IInv == PoolInv /\ PlaceInv /\ ControlInv

LEMMA QueuesOf == Main \in Queues /\ Resenders \subseteq Queues
  BY DEF Queues

(* The initial state satisfies the invariant.                              *)
LEMMA InitIInv == Init => IInv
<1> SUFFICES ASSUME Init PROVE IInv
  OBVIOUS
<1>1. PoolInv
  <2>1. Cardinality(Buffers) \in Nat
    BY PoolAssumption, FS_CardinalityType
  <2>2. /\ bufferFree \in Seq(Buffers) /\ IsInjective(bufferFree)
        /\ ToSet(bufferFree) = Buffers
    <3>1. bufferFree \in [1 .. Cardinality(Buffers) -> Buffers]
          /\ \A b \in Buffers : \E i \in 1 .. Cardinality(Buffers) : bufferFree[i] = b
          /\ IsInjective(bufferFree)
      BY DEF Init, Bijection, Injection, Surjection, IsInjective
    <3>2. bufferFree \in Seq(Buffers)
      BY <2>1, <3>1
    <3>3. ToSet(bufferFree) \subseteq Buffers
      BY <3>2, ToSetType
    <3>4. DOMAIN bufferFree = 1 .. Cardinality(Buffers)
      BY <3>1
    <3>5. Buffers \subseteq ToSet(bufferFree)
      BY <3>1, <3>4 DEF ToSet
    <3>6. QED  BY <3>1, <3>2, <3>3, <3>5
  <2>3. \A b \in Buffers : Users(b) = {}
    BY DEF Init, Users
  <2>4. RefCountExact
    BY <2>3, FS_EmptySet DEF Init, RefCountExact
  <2>5. packet \in [Items -> Packets]
    BY SeqNumsExtend DEF Init, NoPacket, Packets
  <2>6. QED  BY <2>2, <2>4, <2>5 DEF Init, PoolInv, FreeBuffersUnused
<1>2. PlaceInv
  <2>1. ToSet(<<>>) = {} /\ IsInjective(<<>>)
    BY DEF ToSet, IsInjective
  <2>2. queue \in [Queues -> Seq(Items)] /\ garbage \in Seq(Items)
    BY DEF Init
  <2>3. \A q \in Queues : queue[q] = <<>>
    BY DEF Init
  <2>4. QED  BY <2>1, <2>2, <2>3 DEF Init, PlaceInv, ItemsInOnePlace
<1>3. ControlInv
  <2>1. IsInjective(<<>>)
    BY DEF IsInjective
  <2>2. \A q \in Queues : queue[q] = <<>>
    BY DEF Init
  <2>3. QED
    BY <2>1, <2>2, SeqNumsExtend, QueuesOf DEF Init, ControlInv, NoPrevious, NetPc
<1>4. QED  BY <1>1, <1>2, <1>3 DEF IInv

(* The queues PacketFifoFlush walks are queues.                            *)
LEMMA FifoQueuesType ==
    ASSUME ControlInv
    PROVE  /\ FifoQueues \in Seq(Queues)
           /\ ToSet(FifoQueues) = ToSet(attached) \cup {Main}
<1>1. attached \in Seq(Queues) /\ <<Main>> \in Seq(Queues) /\ <<Main>>[1] = Main
      /\ Len(<<Main>>) = 1 /\ Len(attached) \in Nat
  BY QueuesOf DEF ControlInv, Queues
<1>2. /\ FifoQueues \in Seq(Queues) /\ Len(FifoQueues) = Len(attached) + 1
      /\ \A i \in 1 .. Len(attached) + 1 :
            FifoQueues[i] = IF i <= Len(attached) THEN attached[i]
                            ELSE <<Main>>[i - Len(attached)]
  BY <1>1, ConcatProperties DEF FifoQueues
<1> HIDE DEF FifoQueues
<1>3. DOMAIN FifoQueues = 1 .. Len(attached) + 1 /\ DOMAIN attached = 1 .. Len(attached)
  BY <1>1, <1>2
<1>4. FifoQueues[Len(attached) + 1] = Main
  BY <1>1, <1>2
<1>5. \A i \in DOMAIN attached : FifoQueues[i] = attached[i] /\ i \in DOMAIN FifoQueues
  BY <1>1, <1>2, <1>3
<1>6. \A i \in DOMAIN FifoQueues : FifoQueues[i] = Main \/ (i \in DOMAIN attached /\ FifoQueues[i] = attached[i])
  BY <1>1, <1>2, <1>3, <1>4
<1>7. ToSet(FifoQueues) = ToSet(attached) \cup {Main}
  BY <1>1, <1>3, <1>4, <1>5, <1>6 DEF ToSet
<1>8. QED  BY <1>2, <1>7

(* A step of a flush.                                                      *)
LEMMA FlushLemma ==
    ASSUME IInv, FlushFirst, garbage' = garbage
    PROVE  /\ PoolInv' /\ PlaceInv'
           /\ \E q \in ToSet(attached) \cup {Main} :
                 queue[q] # <<>> /\ ReleaseHead(q)
<1>1. PICK k \in DOMAIN FifoQueues :
          queue[FifoQueues[k]] # <<>> /\ ReleaseHead(FifoQueues[k])
  BY DEF FlushFirst
<1>2. FifoQueues[k] \in Queues /\ FifoQueues[k] \in ToSet(attached) \cup {Main}
  <2>1. FifoQueues[k] \in ToSet(FifoQueues)
    BY DEF ToSet
  <2>2. QED  BY <2>1, FifoQueuesType, ToSetType DEF IInv
<1>3. QED  BY <1>1, <1>2, ReleaseHeadLemma DEF IInv
-----------------------------------------------------------------------------
(* One step: the pools and the places.                                     *)

(* AddShort, AddDuplicate and AddPacket give the head of the buffer list   *)
(* to a free item.                                                         *)
LEMMA TakeBothLemma ==
    ASSUME IInv, NEW it \in itemFree, NEW s \in SeqNums, NEW e \in ExtNums,
           TakeBoth(it, [buffer |-> Head(bufferFree), seq |-> s, ext |-> e])
    PROVE  PoolInv' /\ it \in Items /\ itemFree' = itemFree \ {it}
<1> DEFINE p == [buffer |-> Head(bufferFree), seq |-> s, ext |-> e]
<1>1. it \in Items
  BY DEF IInv, PoolInv
<1>2. p \in Packets
  <2>1. Head(bufferFree) \in Buffers
    BY DEF TakeBoth, IInv, PoolInv
  <2>2. QED  BY <2>1 DEF Packets
<1>3. PoolInv'
  BY <1>1, <1>2, TakePool DEF IInv
<1>4. QED  BY <1>1, <1>3 DEF TakeBoth

(* The number of the datagram in the buffer about to be taken.             *)
LEMMA HeadContent ==
    ASSUME IInv, bufferFree # <<>>
    PROVE  /\ Head(bufferFree) \in Buffers
           /\ content[Head(bufferFree)] \in SeqNums
           /\ ExtOf(content[Head(bufferFree)]) \in ExtNums
<1>1. Head(bufferFree) \in Buffers
  BY DEF IInv, PoolInv
<1>2. QED  BY <1>1, ExtOfType DEF IInv, ControlInv

LEMMA AddShortPlaces == IInv /\ AddShort => PoolInv' /\ PlaceInv'
<1> SUFFICES ASSUME IInv, AddShort PROVE PoolInv' /\ PlaceInv'
  OBVIOUS
<1>1. PICK it \in itemFree :
         /\ TakeBoth(it, [buffer |-> Head(bufferFree), seq |-> 0, ext |-> 0])
         /\ garbage' = Cons(it, garbage)
  BY DEF AddShort, NoPacket
<1>2. PoolInv' /\ it \in Items /\ itemFree' = itemFree \ {it}
  BY <1>1, TakeBothLemma, SeqNumsExtend
<1>3. queue' = queue
  BY DEF AddShort
<1>4. QED  BY <1>1, <1>2, <1>3, FreeToGarbage DEF IInv

LEMMA AddDuplicatePlaces == IInv /\ AddDuplicate => PoolInv' /\ PlaceInv'
<1> SUFFICES ASSUME IInv, AddDuplicate PROVE PoolInv' /\ PlaceInv'
  OBVIOUS
<1> DEFINE s == content[Head(bufferFree)]
           e == ExtOf(s)
<1>1. PICK it \in itemFree :
         /\ TakeBoth(it, [buffer |-> Head(bufferFree), seq |-> s, ext |-> e])
         /\ garbage' = Cons(it, garbage)
  BY DEF AddDuplicate
<1>2. s \in SeqNums /\ e \in ExtNums
  BY HeadContent DEF AddDuplicate
<1> HIDE DEF s, e
<1>3. PoolInv' /\ it \in Items /\ itemFree' = itemFree \ {it}
  BY <1>1, <1>2, TakeBothLemma
<1>4. queue' = queue
  BY DEF AddDuplicate
<1>5. QED  BY <1>1, <1>3, <1>4, FreeToGarbage DEF IInv

LEMMA AddPacketPlaces ==
    ASSUME IInv, AddPacket
    PROVE  PoolInv' /\ PlaceInv' /\ curItem' \in ToSet(queue'[Main])
<1> DEFINE s == content[Head(bufferFree)]
           e == ExtOf(s)
           q == queue[Main]
           k == ScanStop(q, e) + 1
<1>1. PICK it \in itemFree :
         /\ TakeBoth(it, [buffer |-> Head(bufferFree), seq |-> s, ext |-> e])
         /\ queue' = [queue EXCEPT ![Main] = InsertAt(q, k, it)]
         /\ curItem' = it
  BY DEF AddPacket
<1>2. s \in SeqNums /\ e \in ExtNums
  BY HeadContent DEF AddPacket
<1>3. q \in Seq(Items) /\ IsInjective(q) /\ it \notin ToSet(q)
  BY QueuesOf DEF IInv, PlaceInv, ItemsInOnePlace
<1>4. k \in 1 .. Len(q) + 1
  <2> HIDE DEF e, q
  <2>1. ScanStop(q, e) \in 0 .. Len(q) /\ Len(q) \in Nat
    BY <1>3, ScanStopLemma
  <2>2. QED  BY <2>1
<1> HIDE DEF s, e
<1>5. PoolInv' /\ it \in Items /\ itemFree' = itemFree \ {it}
  BY <1>1, <1>2, TakeBothLemma
<1> HIDE DEF k, q
<1>6. /\ InsertAt(q, k, it) \in Seq(Items) /\ IsInjective(InsertAt(q, k, it))
      /\ ToSet(InsertAt(q, k, it)) = ToSet(q) \cup {it}
  BY <1>3, <1>4, <1>5, InsertAtLemma
<1>7. garbage' = garbage
  BY DEF AddPacket
<1>8. PlaceInv'
  BY <1>1, <1>5, <1>6, <1>7, FreeToQueue, QueuesOf DEF IInv, q
<1>9. queue'[Main] = InsertAt(q, k, it)
  BY <1>1, QueuesOf DEF IInv, PlaceInv
<1>10. QED  BY <1>1, <1>5, <1>6, <1>8, <1>9

LEMMA ResendEnqueuePlaces ==
    ASSUME IInv, ResendEnqueue
    PROVE  /\ PoolInv' /\ PlaceInv'
           /\ queue'[Main] = queue[Main]
           /\ \A r \in Resenders \ ToSet(attached) : queue'[r] = queue[r]
<1> DEFINE r == attached[kdx]
<1>1. PICK it \in itemFree :
         /\ itemFree' = itemFree \ {it}
         /\ packet' = [packet EXCEPT ![it] = packet[curItem]]
         /\ refCount' = [refCount EXCEPT ![packet[curItem].buffer] = @ + 1]
         /\ queue' = [queue EXCEPT ![r] = Append(queue[r], it)]
  BY DEF ResendEnqueue
<1>2. bufferFree' = bufferFree /\ garbage' = garbage
  BY DEF ResendEnqueue
<1>3. r \in Resenders /\ r \in ToSet(attached) /\ r \in Queues /\ r # Main
  BY QueuesOf, QueueAssumption DEF ResendEnqueue, IInv, ControlInv, ToSet
<1>4. curItem \in Items \ itemFree
  BY QueuesOf, ToSetType DEF ResendEnqueue, IInv, ControlInv, PlaceInv, ItemsInOnePlace
<1>5. PoolInv'
  BY <1>1, <1>2, <1>4, CopyPool DEF IInv
<1>6. it \in Items /\ it \notin ToSet(queue[r])
  BY <1>3 DEF IInv, PoolInv, PlaceInv, ItemsInOnePlace
<1>7. /\ Append(queue[r], it) \in Seq(Items) /\ IsInjective(Append(queue[r], it))
      /\ ToSet(Append(queue[r], it)) = ToSet(queue[r]) \cup {it}
  <2>1. queue[r] \in Seq(Items) /\ IsInjective(queue[r])
    BY <1>3 DEF IInv, PlaceInv, ItemsInOnePlace
  <2>2. QED  BY <1>6, <2>1, AppendLemma
<1> HIDE DEF r
<1>8. PlaceInv'
  BY <1>1, <1>2, <1>3, <1>7, FreeToQueue DEF IInv
<1>9. QED  BY <1>1, <1>3, <1>5, <1>8, QueuesOf DEF IInv, PlaceInv

LEMMA FreeGarbagePlaces == IInv /\ FreeGarbage => PoolInv' /\ PlaceInv'
<1> SUFFICES ASSUME IInv, FreeGarbage PROVE PoolInv' /\ PlaceInv'
  OBVIOUS
<1> DEFINE it == Head(garbage)
<1>1. garbage # <<>> /\ ReleaseItem(it) /\ garbage' = Tail(garbage) /\ queue' = queue
  BY DEF FreeGarbage
<1>2. it \in ToSet(garbage) /\ it \in Items
  BY <1>1, TailLemma DEF IInv, PlaceInv, ItemsInOnePlace
<1>3. it \in Items \ itemFree
  BY <1>2 DEF IInv, PlaceInv, ItemsInOnePlace
<1>4. PoolInv'
  BY <1>1, <1>3, ReleasePool DEF IInv
<1>5. PlaceInv'
  BY <1>1, GarbageToFree DEF IInv, ReleaseItem
<1>6. QED  BY <1>4, <1>5

LEMMA TimeoutDropPlaces ==
    ASSUME IInv, NEW r \in Resenders, TimeoutDrop(r)
    PROVE  /\ PoolInv' /\ PlaceInv' /\ r \in ToSet(attached)
           /\ \A q \in Queues \ {r} : queue'[q] = queue[q]
<1> DEFINE s == queue[r]
           it == s[idx]
<1>1. r \in ToSet(attached)
  BY DEF TimeoutDrop, TurnOf, IInv, ControlInv, ToSet
<1>2. /\ r \in Queues /\ s \in Seq(Items) /\ IsInjective(s) /\ idx \in 1 .. Len(s)
      /\ queue' = [queue EXCEPT ![r] = RemoveAt(s, idx)]
  <2>1. Len(s) \in Nat /\ idx <= Len(s) /\ idx \in Nat /\ idx # 0
    BY QueuesOf DEF TimeoutDrop, IInv, PlaceInv, ControlInv
  <2>2. QED
    BY <2>1, QueuesOf DEF TimeoutDrop, IInv, PlaceInv, ItemsInOnePlace
<1>3. it \in ToSet(s) /\ it \in Items /\ it \notin itemFree
  BY <1>2 DEF ToSet, IInv, PlaceInv, ItemsInOnePlace
<1>4. PoolInv'
  BY <1>3, ReleasePool DEF TimeoutDrop, IInv
<1>5. /\ RemoveAt(s, idx) \in Seq(Items) /\ IsInjective(RemoveAt(s, idx))
      /\ ToSet(RemoveAt(s, idx)) = ToSet(s) \ {it}
  BY <1>2, RemoveAtLemma
<1>6. PlaceInv'
  <2>1. itemFree' = itemFree \cup {it} /\ garbage' = garbage
    BY DEF TimeoutDrop, ReleaseItem
  <2>2. QED  BY <1>2, <1>3, <1>5, <2>1, QueueToFree DEF IInv
<1>7. QED  BY <1>1, <1>2, <1>4, <1>6 DEF IInv, PlaceInv
(* A step that touches neither the pools nor the lists.                    *)
LEMMA SameLists ==
    ASSUME IInv,
           UNCHANGED <<itemFree, bufferFree, refCount, packet, queue, garbage>>
    PROVE  PoolInv' /\ PlaceInv'
<1>1. PoolInv'
  BY SamePool DEF IInv
<1>2. PlaceInv'
  BY DEF IInv, PlaceInv, ItemsInOnePlace
<1>3. QED  BY <1>1, <1>2

(* A resender that is not started has an empty queue already.              *)
LEMMA StartResenderQueue ==
    ASSUME IInv, NEW r \in Resenders, StartResender(r)
    PROVE  queue' = queue
<1>1. queue[r] = <<>> /\ queue' = [queue EXCEPT ![r] = <<>>]
  BY DEF IInv, ControlInv, StartResender
<1>2. QED  BY <1>1, QueuesOf DEF IInv, PlaceInv

LEMMA StoppingType ==
    ASSUME IInv, mutex = "app"
    PROVE  /\ stopping \in ToSet(attached) /\ stopping \in Resenders
           /\ stopping \in Queues /\ stopping # Main
  BY ToSetType, QueuesOf, QueueAssumption DEF IInv, ControlInv

(* StopResender removes a queue it has emptied.                            *)
LEMMA RemoveQueueQueue ==
    ASSUME IInv, RemoveQueue
    PROVE  queue' = queue
<1>1. queue[stopping] = <<>> /\ queue' = [queue EXCEPT ![stopping] = <<>>]
  BY DEF RemoveQueue
<1>2. stopping \in Queues
  BY StoppingType DEF RemoveQueue
<1>3. QED  BY <1>1, <1>2 DEF IInv, PlaceInv

(* Every step keeps the pools exact and the items in one place.            *)
LEMMA PlacesNext ==
    ASSUME IInv, [Next]_vars
    PROVE  PoolInv' /\ PlaceInv'
<1>1. CASE UNCHANGED vars
  BY <1>1, SameLists DEF vars, poolVars, listVars
<1>2. CASE StartTurn
  BY <1>2, SameLists DEF StartTurn, poolVars, listVars
<1>3. CASE FillMsgVec
  BY <1>3, SameLists DEF FillMsgVec, poolVars, listVars
<1>4. CASE FlushDone
  BY <1>4, SameLists DEF FlushDone, poolVars, listVars
<1>5. CASE RecvNothing
  BY <1>5, SameLists DEF RecvNothing, poolVars, listVars
<1>6. CASE AddNoRoom
  BY <1>6, SameLists DEF AddNoRoom, poolVars, listVars
<1>7. CASE ResendNoItem
  BY <1>7, SameLists DEF ResendNoItem, poolVars, listVars
<1>8. CASE ResendDone
  BY <1>8, SameLists DEF ResendDone, poolVars, listVars
<1>9. CASE AddDone
  BY <1>9, SameLists DEF AddDone, poolVars, listVars
<1>10. CASE GarbageDone
  BY <1>10, SameLists DEF GarbageDone, poolVars, listVars
<1>11. CASE DepayDone
  BY <1>11, SameLists DEF DepayDone, poolVars, listVars
<1>12. CASE EndTurn
  BY <1>12, SameLists DEF EndTurn, poolVars, listVars
<1>13. CASE StopThread
  BY <1>13, SameLists DEF StopThread, poolVars, listVars
<1>14. CASE EndDone
  BY <1>14, SameLists DEF EndDone, poolVars, listVars
<1>15. ASSUME NEW n \in 1 .. Len(bufferFree), NEW msgs \in [1 .. n -> Messages],
             RecvMmsg(msgs)
      PROVE  PoolInv' /\ PlaceInv'
  BY <1>15, SameLists DEF RecvMmsg, listVars
<1>16. CASE FlushStep
  BY <1>16, FlushLemma DEF FlushStep
<1>17. CASE EndStep
  BY <1>17, FlushLemma DEF EndStep
<1>18. CASE AddShort
  BY <1>18, AddShortPlaces
<1>19. CASE AddDuplicate
  BY <1>19, AddDuplicatePlaces
<1>20. CASE AddPacket
  BY <1>20, AddPacketPlaces
<1>21. CASE ResendEnqueue
  BY <1>21, ResendEnqueuePlaces
<1>22. CASE FreeGarbage
  BY <1>22, FreeGarbagePlaces
<1>23. CASE Depay
  BY <1>23, ReleaseHeadLemma, QueuesOf DEF Depay, IInv
<1>24. ASSUME NEW r \in Resenders, TimeoutDrop(r)
      PROVE  PoolInv' /\ PlaceInv'
  BY <1>24, TimeoutDropPlaces
<1>25. ASSUME NEW r \in Resenders, TimeoutKeep(r)
      PROVE  PoolInv' /\ PlaceInv'
  BY <1>25, SameLists DEF TimeoutKeep, poolVars, listVars
<1>26. ASSUME NEW r \in Resenders, SendMmsg(r)
      PROVE  PoolInv' /\ PlaceInv'
  BY <1>26, SameLists DEF SendMmsg, poolVars, listVars
<1>27. ASSUME NEW r \in Resenders, CleanDone(r)
      PROVE  PoolInv' /\ PlaceInv'
  BY <1>27, SameLists DEF CleanDone, poolVars, listVars
<1>28. ASSUME NEW r \in Resenders, CleanSent(r)
      PROVE  PoolInv' /\ PlaceInv'
  BY <1>28, ReleaseHeadLemma, QueuesOf DEF CleanSent, IInv
<1>29. ASSUME NEW r \in Resenders, StartResender(r)
      PROVE  PoolInv' /\ PlaceInv'
  BY <1>29, StartResenderQueue, SameLists DEF StartResender, poolVars
<1>30. ASSUME NEW r \in Resenders, StopResender(r)
      PROVE  PoolInv' /\ PlaceInv'
  BY <1>30, SameLists DEF StopResender, poolVars, listVars
<1>31. CASE StopFlush
  BY <1>31, ReleaseHeadLemma, StoppingType DEF StopFlush, IInv
<1>32. CASE RemoveQueue
  BY <1>32, RemoveQueueQueue, SameLists DEF RemoveQueue, poolVars
<1>33. CASE CountResenders
  BY <1>33, SameLists DEF CountResenders, poolVars, listVars
<1>34. QED
  BY <1>1, <1>2, <1>3, <1>4, <1>5, <1>6, <1>7, <1>8, <1>9, <1>10, <1>11,
     <1>12, <1>13, <1>14, <1>15, <1>16, <1>17, <1>18, <1>19, <1>20, <1>21,
     <1>22, <1>23, <1>24, <1>25, <1>26, <1>27, <1>28, <1>29, <1>30, <1>31,
     <1>32, <1>33
     DEF Next, Receive, Forward, Finish, App

-----------------------------------------------------------------------------
(* One step: the control.                                                  *)

(* Dequeuing the head of a queue that is attached, or of the main queue    *)
(* while no packet is being resent, respects the control.                  *)
LEMMA ReleaseHeadControl ==
    ASSUME IInv, NEW q \in ToSet(attached) \cup {Main}, ReleaseHead(q),
           pc # "resend",
           UNCHANGED <<attached, garbage, seqVars, netVars, appVars>>
    PROVE  ControlInv'
<1>1. \A r \in Resenders \ ToSet(attached) : queue'[r] = <<>>
  <2>1. TAKE r \in Resenders \ ToSet(attached)
  <2>2. r # q /\ queue[r] = <<>> /\ r \in Queues
    BY QueueAssumption, QueuesOf DEF IInv, ControlInv
  <2>3. QED  BY <2>2 DEF ReleaseHead, IInv, PlaceInv
<1>2. content' = content
  BY DEF ReleaseHead, ReleaseItem
<1>3. QED
  BY <1>1, <1>2 DEF IInv, ControlInv, seqVars, netVars, appVars

LEMMA AddShortControl == IInv /\ AddShort => ControlInv'
<1> SUFFICES ASSUME IInv, AddShort PROVE ControlInv'
  OBVIOUS
<1>1. content' = content
  BY DEF AddShort, TakeBoth
<1>2. idx' \in Nat
  BY DEF AddShort, IInv, ControlInv
<1>3. UNCHANGED <<queue, attached, seqVars, pc, msgVec, kdx, curItem, appVars>>
      /\ pc = "add"
  BY DEF AddShort, MoreMessages
<1>4. QED  BY <1>1, <1>2, <1>3 DEF IInv, ControlInv, seqVars, appVars

LEMMA UpdateSeqType ==
    ASSUME NEW e \in ExtNums, highest \in ExtNums,
           depayed \in ExtNums \cup {NoPrevious}, UpdateSeq(e)
    PROVE  /\ highest' \in ExtNums /\ previous' \in Int
           /\ depayed' \in ExtNums \cup {NoPrevious}
  BY ToInt32Type DEF UpdateSeq, NextHighest

LEMMA AddDuplicateControl == IInv /\ AddDuplicate => ControlInv'
<1> SUFFICES ASSUME IInv, AddDuplicate PROVE ControlInv'
  OBVIOUS
<1>1. content' = content
  BY DEF AddDuplicate, TakeBoth
<1>2. /\ highest' \in ExtNums /\ previous' \in Int
      /\ depayed' \in ExtNums \cup {NoPrevious}
  BY HeadContent, UpdateSeqType DEF AddDuplicate, IInv, ControlInv
<1>3. idx' \in Nat
  BY DEF AddDuplicate, IInv, ControlInv
<1>4. UNCHANGED <<queue, attached, pc, msgVec, kdx, curItem, appVars>> /\ pc = "add"
  BY DEF AddDuplicate, MoreMessages
<1>5. QED  BY <1>1, <1>2, <1>3, <1>4 DEF IInv, ControlInv, appVars

LEMMA AddPacketControl == IInv /\ AddPacket => ControlInv'
<1> SUFFICES ASSUME IInv, AddPacket PROVE ControlInv'
  OBVIOUS
<1>1. content' = content
  BY DEF AddPacket, TakeBoth
<1>2. /\ highest' \in ExtNums /\ previous' \in Int
      /\ depayed' \in ExtNums \cup {NoPrevious}
  BY HeadContent, UpdateSeqType DEF AddPacket, IInv, ControlInv
<1>3. curItem' \in ToSet(queue'[Main]) /\ curItem' \in Items
  BY AddPacketPlaces, QueuesOf, ToSetType DEF PlaceInv
<1>4. \A r \in Resenders \ ToSet(attached) : queue'[r] = <<>>
  <2>1. \A q \in Queues \ {Main} : queue'[q] = queue[q]
    BY DEF AddPacket, IInv, PlaceInv
  <2>2. QED  BY <2>1, QueuesOf, QueueAssumption DEF IInv, ControlInv
<1>5. /\ UNCHANGED <<attached, garbage, msgVec, idx, appVars>>
      /\ pc = "add" /\ pc' = "resend" /\ kdx' = 1
  BY DEF AddPacket, MoreMessages
<1>6. QED
  BY <1>1, <1>2, <1>3, <1>4, <1>5 DEF IInv, ControlInv, NetPc, appVars

LEMMA ResendEnqueueControl == IInv /\ ResendEnqueue => ControlInv'
<1> SUFFICES ASSUME IInv, ResendEnqueue PROVE ControlInv'
  OBVIOUS
<1>1. /\ queue'[Main] = queue[Main]
      /\ \A r \in Resenders \ ToSet(attached) : queue'[r] = queue[r]
  BY ResendEnqueuePlaces
<1>2. /\ kdx' = kdx + 1 /\ content' = content
      /\ UNCHANGED <<attached, garbage, seqVars, pc, msgVec, idx, curItem, appVars>>
  BY DEF ResendEnqueue
<1>3. QED
  BY <1>1, <1>2 DEF IInv, ControlInv, seqVars, appVars

LEMMA DepayControl == IInv /\ Depay => ControlInv'
<1> SUFFICES ASSUME IInv, Depay PROVE ControlInv'
  OBVIOUS
<1>1. packet[Head(queue[Main])].ext \in ExtNums
  <2>1. Head(queue[Main]) \in Items
    BY QueuesOf DEF Depay, IInv, PlaceInv
  <2>2. QED  BY <2>1 DEF IInv, PoolInv, Packets
<1>2. depayed' \in ExtNums \cup {NoPrevious}
  BY <1>1 DEF Depay, IInv, ControlInv
<1>3. content' = content
  BY DEF Depay, ReleaseHead, ReleaseItem
<1>4. \A r \in Resenders \ ToSet(attached) : queue'[r] = <<>>
  <2>1. \A q \in Queues \ {Main} : queue'[q] = queue[q]
    BY DEF Depay, ReleaseHead, IInv, PlaceInv
  <2>2. QED  BY <2>1, QueuesOf, QueueAssumption DEF IInv, ControlInv
<1>5. UNCHANGED <<attached, garbage, highest, previous, netVars, appVars>>
      /\ pc = "depay"
  BY DEF Depay
<1>6. QED
  BY <1>2, <1>3, <1>4, <1>5 DEF IInv, ControlInv, netVars, appVars

LEMMA CleanSentControl ==
    ASSUME IInv, NEW r \in Resenders, CleanSent(r)
    PROVE  ControlInv'
<1>1. r \in ToSet(attached)
  BY DEF CleanSent, TurnOf, IInv, ControlInv, ToSet
<1>2. content' = content
  BY DEF CleanSent, ReleaseHead, ReleaseItem
<1>3. \A p \in Resenders \ ToSet(attached) : queue'[p] = <<>>
  <2>1. \A q \in Queues \ {r} : queue'[q] = queue[q]
    BY DEF CleanSent, ReleaseHead, IInv, PlaceInv
  <2>2. QED  BY <1>1, <2>1, QueuesOf DEF IInv, ControlInv
<1>4. idx' \in Nat
  BY DEF CleanSent, IInv, ControlInv
<1>5. UNCHANGED <<attached, garbage, seqVars, pc, msgVec, kdx, curItem, appVars>>
      /\ pc = "clean"
  BY DEF CleanSent
<1>6. QED
  BY <1>2, <1>3, <1>4, <1>5 DEF IInv, ControlInv, seqVars, appVars

LEMMA StartResenderControl ==
    ASSUME IInv, NEW r \in Resenders, StartResender(r)
    PROVE  ControlInv'
<1>1. queue' = queue
  BY StartResenderQueue
<1>2. /\ attached' \in Seq(Resenders) /\ IsInjective(attached')
      /\ ToSet(attached') = ToSet(attached) \cup {r}
  BY ConsLemma DEF StartResender, IInv, ControlInv
<1>3. UNCHANGED <<poolVars, garbage, seqVars, netVars, stopping>>
  BY DEF StartResender
<1>4. mutex = "none" /\ mutex' = "start"
  BY DEF StartResender, AppMayAct
<1>5. QED
  BY <1>1, <1>2, <1>3, <1>4
     DEF IInv, ControlInv, poolVars, seqVars, netVars

LEMMA RemoveQueueControl == IInv /\ RemoveQueue => ControlInv'
<1> SUFFICES ASSUME IInv, RemoveQueue PROVE ControlInv'
  OBVIOUS
<1>1. queue' = queue /\ queue[stopping] = <<>> /\ mutex = "app"
  BY RemoveQueueQueue DEF RemoveQueue
<1>2. PICK k \in 1 .. Len(attached) :
          attached[k] = stopping /\ attached' = RemoveAt(attached, k)
  BY DEF RemoveQueue, IInv, ControlInv
<1>3. /\ attached' \in Seq(Resenders) /\ IsInjective(attached')
      /\ ToSet(attached') = ToSet(attached) \ {stopping}
  BY SMTT(30), <1>2, RemoveAtLemma DEF IInv, ControlInv
<1>4. \A r \in Resenders \ ToSet(attached') : queue'[r] = <<>>
  BY <1>1, <1>3 DEF IInv, ControlInv
<1>5. /\ UNCHANGED <<poolVars, garbage, seqVars, netVars>>
      /\ mutex' = "none" /\ stopping' = Nobody
  BY DEF RemoveQueue
<1>6. pc \in {"idle", "done"}
  BY <1>1 DEF IInv, ControlInv
<1>7. QED
  BY <1>1, <1>3, <1>4, <1>5, <1>6
     DEF IInv, ControlInv, poolVars, seqVars, netVars

LEMMA RecvMmsgControl ==
    ASSUME IInv, NEW n \in 1 .. Len(bufferFree), NEW msgs \in [1 .. n -> Messages],
           RecvMmsg(msgs)
    PROVE  ControlInv'
<1>1. n \in Nat /\ msgs \in Seq(Messages) /\ DOMAIN msgs = 1 .. n
  BY DEF IInv, PoolInv
<1>2. \A i \in DOMAIN msgs : msgs[i].seq \in SeqNums
  BY <1>1, WireAssumption DEF Messages
<1>3. content' \in [Buffers -> SeqNums]
  <2>1. ASSUME NEW b \in Buffers, \E i \in DOMAIN msgs : bufferFree[i] = b
        PROVE  msgs[CHOOSE i \in DOMAIN msgs : bufferFree[i] = b].seq \in SeqNums
    BY <2>1, <1>2
  <2>2. QED  BY <2>1 DEF RecvMmsg, IInv, ControlInv
<1>4. /\ UNCHANGED <<listVars, seqVars, kdx, curItem, appVars>>
      /\ pc = "recv" /\ pc' = "add" /\ msgVec' = msgs /\ idx' = 1
  BY DEF RecvMmsg
<1>5. QED
  BY <1>1, <1>3, <1>4 DEF IInv, ControlInv, NetPc, listVars, seqVars, appVars

(* Every step respects the control.                                        *)
LEMMA ControlNext ==
    ASSUME IInv, [Next]_vars
    PROVE  ControlInv'
<1>1. CASE UNCHANGED vars
  BY <1>1 DEF IInv, ControlInv, vars, poolVars, listVars, seqVars, netVars, appVars
<1>2. CASE StartTurn
  BY <1>2 DEF StartTurn, IInv, ControlInv, NetPc, poolVars, listVars,
     seqVars, appVars, MoreMessages
<1>3. CASE FillMsgVec
  BY <1>3 DEF FillMsgVec, IInv, ControlInv, NetPc, poolVars, listVars,
     seqVars, appVars, MoreMessages
<1>4. CASE FlushDone
  BY <1>4 DEF FlushDone, IInv, ControlInv, NetPc, poolVars, listVars,
     seqVars, appVars, MoreMessages
<1>5. CASE RecvNothing
  BY <1>5 DEF RecvNothing, IInv, ControlInv, NetPc, poolVars, listVars,
     seqVars, appVars, MoreMessages
<1>6. CASE AddNoRoom
  BY <1>6 DEF AddNoRoom, IInv, ControlInv, NetPc, poolVars, listVars,
     seqVars, appVars, MoreMessages
<1>7. CASE ResendNoItem
  BY <1>7 DEF ResendNoItem, IInv, ControlInv, NetPc, poolVars, listVars,
     seqVars, appVars, MoreMessages
<1>8. CASE ResendDone
  BY <1>8 DEF ResendDone, IInv, ControlInv, NetPc, poolVars, listVars,
     seqVars, appVars, MoreMessages
<1>9. CASE AddDone
  BY <1>9 DEF AddDone, IInv, ControlInv, NetPc, poolVars, listVars, seqVars,
     appVars, MoreMessages
<1>10. CASE GarbageDone
  BY <1>10 DEF GarbageDone, IInv, ControlInv, NetPc, poolVars, listVars,
     seqVars, appVars, MoreMessages
<1>11. CASE DepayDone
  BY <1>11 DEF DepayDone, IInv, ControlInv, NetPc, poolVars, listVars,
     seqVars, appVars, MoreMessages
<1>12. CASE EndTurn
  BY <1>12 DEF EndTurn, IInv, ControlInv, NetPc, poolVars, listVars,
     seqVars, appVars, MoreMessages
<1>13. CASE StopThread
  BY <1>13 DEF StopThread, IInv, ControlInv, NetPc, poolVars, listVars,
     seqVars, appVars, MoreMessages
<1>14. CASE EndDone
  BY <1>14 DEF EndDone, IInv, ControlInv, NetPc, poolVars, listVars,
     seqVars, appVars, MoreMessages
<1>15. CASE FlushStep
  BY <1>15, FlushLemma, ReleaseHeadControl DEF FlushStep, IInv, ControlInv,
     netVars, seqVars, appVars
<1>16. CASE EndStep
  BY <1>16, FlushLemma, ReleaseHeadControl DEF EndStep, IInv, ControlInv,
     netVars, seqVars, appVars
<1>17. CASE AddShort
  BY <1>17, AddShortControl
<1>18. CASE AddDuplicate
  BY <1>18, AddDuplicateControl
<1>19. CASE AddPacket
  BY <1>19, AddPacketControl
<1>20. CASE ResendEnqueue
  BY <1>20, ResendEnqueueControl
<1>21. CASE FreeGarbage
  BY <1>21 DEF FreeGarbage, ReleaseItem, IInv, ControlInv, NetPc, seqVars,
     appVars, netVars
<1>22. CASE Depay
  BY <1>22, DepayControl
<1>23. ASSUME NEW r \in Resenders, TimeoutDrop(r)
      PROVE  ControlInv'
  BY <1>23, TimeoutDropPlaces, QueuesOf, QueueAssumption DEF TimeoutDrop,
     ReleaseItem, IInv, ControlInv, seqVars, appVars, netVars, Queues
<1>24. ASSUME NEW r \in Resenders, TimeoutKeep(r)
      PROVE  ControlInv'
  BY <1>24 DEF TimeoutKeep, IInv, ControlInv, NetPc, poolVars, listVars,
     seqVars, appVars, TurnOf
<1>25. ASSUME NEW r \in Resenders, SendMmsg(r)
      PROVE  ControlInv'
  BY <1>25 DEF SendMmsg, IInv, ControlInv, NetPc, poolVars, listVars,
     seqVars, appVars, TurnOf
<1>26. ASSUME NEW r \in Resenders, CleanDone(r)
      PROVE  ControlInv'
  BY <1>26 DEF CleanDone, IInv, ControlInv, NetPc, poolVars, listVars,
     seqVars, appVars, TurnOf
<1>27. ASSUME NEW r \in Resenders, CleanSent(r)
      PROVE  ControlInv'
  BY <1>27, CleanSentControl
<1>28. ASSUME NEW r \in Resenders, StartResender(r)
      PROVE  ControlInv'
  BY <1>28, StartResenderControl
<1>29. ASSUME NEW r \in Resenders, StopResender(r)
      PROVE  ControlInv'
  BY <1>29 DEF StopResender, AppMayAct, IInv, ControlInv, NetPc, poolVars,
     listVars, seqVars, netVars
<1>30. CASE StopFlush
  BY <1>30, StoppingType, ReleaseHeadControl DEF StopFlush, IInv,
     ControlInv, netVars, seqVars, appVars
<1>31. CASE RemoveQueue
  BY <1>31, RemoveQueueControl
<1>32. ASSUME NEW m \in 1 .. Len(bufferFree), NEW msgs \in [1 .. m -> Messages],
             RecvMmsg(msgs)
      PROVE  ControlInv'
  BY <1>32, RecvMmsgControl
<1>33. CASE CountResenders
  BY <1>33 DEF CountResenders, IInv, ControlInv, poolVars, listVars, seqVars,
     netVars
<1>34. QED
  BY <1>1, <1>2, <1>3, <1>4, <1>5, <1>6, <1>7, <1>8, <1>9, <1>10, <1>11,
     <1>12, <1>13, <1>14, <1>15, <1>16, <1>17, <1>18, <1>19, <1>20, <1>21,
     <1>22, <1>23, <1>24, <1>25, <1>26, <1>27, <1>28, <1>29, <1>30, <1>31,
     <1>32, <1>33
     DEF Next, Receive, Forward, Finish, App

LEMMA NextIInv == IInv /\ [Next]_vars => IInv'
  BY PlacesNext, ControlNext DEF IInv

(* The whole of IInv holds in every reachable state.                       *)
THEOREM Invariance == Spec => []IInv
<1>1. Init => IInv
  BY InitIInv
<1>2. IInv /\ [Next]_vars => IInv'
  BY NextIInv
<1>3. QED  BY <1>1, <1>2, PTL DEF Spec

(* Every variable keeps its type, for pools of any size and rings of any   *)
(* width.                                                                  *)
THEOREM TypeCorrect == Spec => []TypeOK
<1>1. IInv => TypeOK
  BY DEF IInv, PoolInv, PlaceInv, ControlInv, TypeOK
<1>2. QED  BY <1>1, Invariance, PTL

(* No item is lost, freed twice or queued twice, whatever the number of    *)
(* items, buffers and resenders (arstream2_rtp.c 342-835, 1201-1657).      *)
THEOREM ItemsConserved == Spec => []ItemsInOnePlace
<1>1. IInv => ItemsInOnePlace
  BY DEF IInv, PlaceInv
<1>2. QED  BY <1>1, Invariance, PTL

(* A buffer's reference count is the number of items in use that point to  *)
(* it (arstream2_rtp.c 266-339).                                           *)
THEOREM CountsExact == Spec => []RefCountExact
<1>1. IInv => RefCountExact
  BY DEF IInv, PoolInv
<1>2. QED  BY <1>1, Invariance, PTL

(* The free list is exactly the buffers nobody uses (arstream2_rtp.c       *)
(* 266-339, 1152-1198).                                                    *)
THEOREM FreeListExact == Spec => []FreeBuffersUnused
<1>1. IInv => FreeBuffersUnused
  BY DEF IInv, PoolInv
<1>2. QED  BY <1>1, Invariance, PTL

-----------------------------------------------------------------------------
(* What the users of PacketFifo rely on: the main queue is a reorder       *)
(* buffer, every queued packet keeps its own data, and a flush makes room. *)
(* First, what one step does to the main queue.                            *)

MainSame ==
    /\ queue'[Main] = queue[Main]
    /\ \A it \in ToSet(queue[Main]) : packet'[it] = packet[it]

MainPop ==
    /\ queue[Main] # <<>> /\ queue'[Main] = Tail(queue[Main])
    /\ \A it \in ToSet(queue[Main]) : packet'[it] = packet[it]

MainPut(it, e) ==
    /\ queue'[Main] = InsertAt(queue[Main], ScanStop(queue[Main], e) + 1, it)
    /\ it \notin ToSet(queue[Main]) /\ ~IsDuplicate(queue[Main], e)
    /\ packet'[it].ext = e
    /\ \A i \in ToSet(queue[Main]) : packet'[i] = packet[i]

(* The number of the head of the main queue.                               *)
HeadExt == packet[Head(queue[Main])].ext

(* No item of a queue is free.                                             *)
LEMMA QueuedNotFree ==
    ASSUME IInv, NEW q \in Queues, NEW it \in ToSet(queue[q])
    PROVE  it \in Items \ itemFree
<1>1. it \in Items
  BY ToSetType DEF IInv, PlaceInv
<1>2. QED  BY <1>1 DEF IInv, PlaceInv, ItemsInOnePlace

(* A datagram put into a free item leaves the packets of all other items   *)
(* alone.                                                                  *)
LEMMA TakeBothKeeps ==
    ASSUME IInv, NEW it \in itemFree, NEW p, TakeBoth(it, p)
    PROVE  /\ packet'[it] = p /\ it \in Items
           /\ content' = content
           /\ \A q \in Queues : /\ it \notin ToSet(queue[q])
                                /\ \A i \in ToSet(queue[q]) : packet'[i] = packet[i]
<1>1. it \in Items /\ packet \in [Items -> Packets]
  BY DEF IInv, PoolInv
<1>2. QED  BY <1>1, QueuedNotFree DEF TakeBoth

(* Letting go of the head of a queue touches the main queue only if it is  *)
(* that queue.                                                             *)
LEMMA ReleaseHeadMain ==
    ASSUME IInv, NEW q \in Queues, queue[q] # <<>>, ReleaseHead(q)
    PROVE  IF q = Main THEN MainPop ELSE MainSame
  BY QueuesOf DEF ReleaseHead, ReleaseItem, MainPop, MainSame, IInv, PlaceInv

(* A step of a flush.                                                      *)
LEMMA FlushFirstMain ==
    ASSUME IInv, FlushFirst, garbage' = garbage
    PROVE  MainPop \/ MainSame
<1>1. PICK q \in ToSet(attached) \cup {Main} : queue[q] # <<>> /\ ReleaseHead(q)
  BY FlushLemma
<1>2. q \in Queues
  BY QueuesOf, ToSetType DEF IInv, ControlInv
<1>3. QED  BY <1>1, <1>2, ReleaseHeadMain

(* The steps that leave all queues and all packets alone.                  *)
QuietStep ==
    \/ StartTurn \/ FillMsgVec \/ FlushDone \/ RecvNothing \/ AddNoRoom
    \/ ResendNoItem \/ ResendDone \/ AddDone \/ GarbageDone \/ DepayDone
    \/ EndTurn \/ StopThread \/ EndDone \/ CountResenders \/ UNCHANGED vars
    \/ \E r \in Resenders :
          TimeoutKeep(r) \/ SendMmsg(r) \/ CleanDone(r) \/ StopResender(r)

LEMMA QuietStepKeeps ==
    ASSUME QuietStep
    PROVE  UNCHANGED <<poolVars, listVars, seqVars>>
<1>1. CASE StartTurn \/ FillMsgVec \/ FlushDone \/ RecvNothing \/ AddNoRoom
  BY <1>1 DEF StartTurn, FillMsgVec, FlushDone, RecvNothing, AddNoRoom
<1>2. CASE ResendNoItem \/ ResendDone \/ AddDone \/ GarbageDone \/ DepayDone
  BY <1>2 DEF ResendNoItem, ResendDone, AddDone, GarbageDone, DepayDone
<1>3. CASE \/ EndTurn \/ StopThread \/ EndDone \/ CountResenders
           \/ UNCHANGED vars
  BY <1>3 DEF EndTurn, StopThread, EndDone, CountResenders, vars
<1>4. CASE \E r \in Resenders :
              TimeoutKeep(r) \/ SendMmsg(r) \/ CleanDone(r) \/ StopResender(r)
  BY <1>4 DEF TimeoutKeep, SendMmsg, CleanDone, StopResender
<1>5. QED  BY <1>1, <1>2, <1>3, <1>4 DEF QuietStep

(* Every step leaves the main queue as it is, takes its head, or inserts   *)
(* a packet whose number is not in it.  Only a step that takes the head    *)
(* changes the last number depayloaded, to a larger one.                   *)
MainEffect ==
    \/ MainSame /\ UNCHANGED depayed
    \/ MainPop /\ UNCHANGED depayed
    \/ MainPop /\ depayed' = HeadExt /\ HeadExt > depayed
    \/ /\ UNCHANGED depayed
       /\ \E it \in itemFree, e \in ExtNums : MainPut(it, e)

LEMMA MainEffectNext ==
    ASSUME IInv, [Next]_vars
    PROVE  MainEffect
<1>1. CASE QuietStep
  BY <1>1, QuietStepKeeps DEF MainEffect, MainSame, poolVars, listVars, seqVars
<1>2. ASSUME NEW n \in 1 .. Len(bufferFree), NEW msgs \in [1 .. n -> Messages],
             RecvMmsg(msgs)
      PROVE  MainEffect
  BY <1>2 DEF RecvMmsg, MainEffect, MainSame, listVars, seqVars
<1>3. CASE FlushStep \/ EndStep
  BY <1>3, FlushFirstMain DEF FlushStep, EndStep, MainEffect, seqVars
<1>4. CASE AddShort
  BY <1>4, TakeBothKeeps, QueuesOf DEF AddShort, MainEffect, MainSame, seqVars
<1>5. CASE AddDuplicate
  BY <1>5, TakeBothKeeps, QueuesOf DEF AddDuplicate, UpdateSeq, MainEffect, MainSame
<1>6. CASE AddPacket
  <2> DEFINE s == content[Head(bufferFree)]
             e == ExtOf(s)
             q == queue[Main]
  <2>1. PICK it \in itemFree :
           /\ TakeBoth(it, [buffer |-> Head(bufferFree), seq |-> s, ext |-> e])
           /\ queue' = [queue EXCEPT ![Main] = InsertAt(q, ScanStop(q, e) + 1, it)]
    BY <1>6 DEF AddPacket
  <2>2. ~IsDuplicate(q, e) /\ UNCHANGED depayed
    BY <1>6 DEF AddPacket, UpdateSeq
  <2>3. e \in ExtNums
    BY <1>6, HeadContent DEF AddPacket
  <2>4. queue'[Main] = InsertAt(q, ScanStop(q, e) + 1, it)
    BY <2>1, QueuesOf DEF IInv, PlaceInv
  <2> HIDE DEF s, e
  <2>5. /\ it \notin ToSet(q) /\ packet'[it].ext = e
        /\ \A i \in ToSet(q) : packet'[i] = packet[i]
    BY <2>1, TakeBothKeeps, QueuesOf
  <2>6. MainPut(it, e)
    BY <2>2, <2>4, <2>5 DEF MainPut
  <2>7. QED  BY <2>2, <2>3, <2>6 DEF MainEffect
<1>7. CASE ResendEnqueue
  <2>1. queue'[Main] = queue[Main] /\ UNCHANGED depayed
    BY <1>7, ResendEnqueuePlaces DEF ResendEnqueue, seqVars
  <2>2. PICK it \in itemFree : packet' = [packet EXCEPT ![it] = packet[curItem]]
    BY <1>7 DEF ResendEnqueue
  <2>3. \A i \in ToSet(queue[Main]) : packet'[i] = packet[i]
    BY <2>2, QueuedNotFree, QueuesOf DEF IInv, PoolInv
  <2>4. QED  BY <2>1, <2>3 DEF MainEffect, MainSame
<1>8. CASE FreeGarbage
  BY <1>8 DEF FreeGarbage, ReleaseItem, MainEffect, MainSame, seqVars
<1>9. CASE Depay
  <2>1. MainPop
    BY <1>9, ReleaseHeadMain, QueuesOf DEF Depay
  <2>2. depayed' = IF HeadExt > depayed THEN HeadExt ELSE depayed
    BY <1>9 DEF Depay, HeadExt
  <2>3. QED  BY <2>1, <2>2 DEF MainEffect
<1>10. ASSUME NEW r \in Resenders, TimeoutDrop(r)
       PROVE  MainEffect
  <2>1. queue'[Main] = queue[Main] /\ packet' = packet /\ UNCHANGED depayed
    BY <1>10, TimeoutDropPlaces, QueuesOf, QueueAssumption
       DEF TimeoutDrop, ReleaseItem, seqVars
  <2>2. QED  BY <2>1 DEF MainEffect, MainSame
<1>11. ASSUME NEW r \in Resenders, CleanSent(r)
       PROVE  MainEffect
  BY <1>11, ReleaseHeadMain, QueuesOf, QueueAssumption DEF CleanSent, MainEffect, seqVars
<1>12. ASSUME NEW r \in Resenders, StartResender(r)
       PROVE  MainEffect
  BY <1>12, StartResenderQueue
     DEF StartResender, MainEffect, MainSame, poolVars, seqVars
<1>13. CASE StopFlush
  BY <1>13, ReleaseHeadMain, StoppingType DEF StopFlush, MainEffect, seqVars
<1>14. CASE RemoveQueue
  BY <1>14, RemoveQueueQueue DEF RemoveQueue, MainEffect, MainSame, poolVars, seqVars
<1>15. QED
  BY <1>1, <1>2, <1>3, <1>4, <1>5, <1>6, <1>7, <1>8, <1>9, <1>10, <1>11,
     <1>12, <1>13, <1>14
     DEF Next, Receive, Forward, Finish, App, QuietStep
-----------------------------------------------------------------------------
(* The main queue is sorted.                                               *)

(* In a sorted queue a number that is not a duplicate is above all those   *)
(* up to where the scan stops, and below all others.                       *)
LEMMA ScanSplits ==
    ASSUME IInv, MainSorted, NEW e \in ExtNums, ~IsDuplicate(queue[Main], e)
    PROVE  LET q == queue[Main]
               k == ScanStop(q, e)
           IN  /\ k \in 0 .. Len(q)
               /\ \A i \in 1 .. k : packet[q[i]].ext < e
               /\ \A i \in k + 1 .. Len(q) : e < packet[q[i]].ext
<1> DEFINE q == queue[Main]
           k == ScanStop(q, e)
<1>1. /\ q \in Seq(Items) /\ Len(q) \in Nat /\ e \in Int
      /\ \A i \in 1 .. Len(q) : packet[q[i]].ext \in Int
  <2>1. q \in Seq(Items)
    BY QueuesOf DEF IInv, PlaceInv
  <2>2. \A i \in 1 .. Len(q) : packet[q[i]] \in Packets
    BY <2>1 DEF IInv, PoolInv
  <2>3. QED  BY <2>1, <2>2, SeqNumAssumption DEF Packets, ExtNums
<1>2. /\ k \in 0 .. Len(q)
      /\ k > 0 => packet[q[k]].ext <= e
      /\ \A i \in k + 1 .. Len(q) : ~(packet[q[i]].ext <= e)
  <2> HIDE DEF q
  <2>1. QED  BY <1>1, ScanStopLemma
<1>3. k > 0 => packet[q[k]].ext # e
  BY DEF IsDuplicate
<1>4. \A i, j \in 1 .. Len(q) : i < j => packet[q[i]].ext < packet[q[j]].ext
  BY <1>1 DEF MainSorted
<1> HIDE DEF k, q
<1>5. ASSUME NEW i \in 1 .. k PROVE packet[q[i]].ext < e
  <2>1. /\ k > 0 /\ k \in 1 .. Len(q) /\ i \in 1 .. Len(q)
        /\ packet[q[k]].ext < e
    BY <1>1, <1>2, <1>3
  <2>2. CASE i = k
    BY <2>1, <2>2
  <2>3. CASE i < k
    BY <2>1, <2>3, <1>1, <1>4
  <2>4. QED  BY <2>2, <2>3, <1>2
<1>6. ASSUME NEW i \in k + 1 .. Len(q) PROVE e < packet[q[i]].ext
  BY <1>1, <1>2
<1>7. QED  BY <1>2, <1>5, <1>6 DEF k, q

(* The insertion keeps it sorted.                                          *)
LEMMA PutSorted ==
    ASSUME IInv, MainSorted, NEW it \in itemFree, NEW e \in ExtNums,
           MainPut(it, e)
    PROVE  MainSorted'
<1> DEFINE q == queue[Main]
           k == ScanStop(q, e)
           t == InsertAt(q, k + 1, it)
<1>1. /\ q \in Seq(Items) /\ Len(q) \in Nat /\ DOMAIN q = 1 .. Len(q)
      /\ IsInjective(q) /\ it \in Items
  BY QueuesOf DEF IInv, PoolInv, PlaceInv, ItemsInOnePlace
<1>2. /\ k \in 0 .. Len(q)
      /\ \A i \in 1 .. k : packet[q[i]].ext < e
      /\ \A i \in k + 1 .. Len(q) : e < packet[q[i]].ext
  BY ScanSplits DEF MainPut
<1>3. \A i, j \in 1 .. Len(q) : i < j => packet[q[i]].ext < packet[q[j]].ext
  BY <1>1 DEF MainSorted
<1> HIDE DEF k
<1>4. /\ t \in Seq(Items) /\ DOMAIN t = 1 .. Len(q) + 1
      /\ \A i \in 1 .. Len(q) + 1 :
            t[i] = IF i < k + 1 THEN q[i] ELSE IF i = k + 1 THEN it ELSE q[i - 1]
  <2> HIDE DEF q
  <2>1. k + 1 \in 1 .. Len(q) + 1 /\ it \notin ToSet(q)
    BY <1>1, <1>2 DEF MainPut, q
  <2>2. QED  BY <2>1, <1>1, InsertAtLemma
<1>5. queue'[Main] = t /\ packet'[it].ext = e
  BY DEF MainPut, k
<1>6. \A i \in 1 .. Len(q) : packet'[q[i]] = packet[q[i]]
  BY <1>1 DEF MainPut, ToSet
<1> HIDE DEF q, t
<1>7. ASSUME NEW i \in 1 .. Len(q) + 1, NEW j \in 1 .. Len(q) + 1, i < j
      PROVE  packet'[t[i]].ext < packet'[t[j]].ext
  <2>1. CASE i < k + 1 /\ j < k + 1
    <3>1. /\ t[i] = q[i] /\ t[j] = q[j]
          /\ i \in 1 .. Len(q) /\ j \in 1 .. Len(q)
      BY <2>1, <1>1, <1>2, <1>4
    <3>2. QED  BY <3>1, <1>3, <1>6, <1>7
  <2>2. CASE i < k + 1 /\ j = k + 1
    BY <2>2, <1>1, <1>2, <1>4, <1>5, <1>6
  <2>3. CASE i < k + 1 /\ j > k + 1
    <3>1. /\ t[i] = q[i] /\ t[j] = q[j - 1] /\ i < j - 1
          /\ i \in 1 .. Len(q) /\ j - 1 \in 1 .. Len(q)
      BY <2>3, <1>1, <1>2, <1>4
    <3>2. QED  BY <3>1, <1>3, <1>6
  <2>4. CASE i = k + 1
    <3>1. /\ t[i] = it /\ t[j] = q[j - 1] /\ j - 1 \in k + 1 .. Len(q)
          /\ j - 1 \in 1 .. Len(q)
      BY <2>4, <1>1, <1>2, <1>4, <1>7
    <3>2. QED  BY <3>1, <1>2, <1>5, <1>6
  <2>5. CASE i > k + 1
    <3>1. /\ t[i] = q[i - 1] /\ t[j] = q[j - 1] /\ i - 1 < j - 1
          /\ i - 1 \in 1 .. Len(q) /\ j - 1 \in 1 .. Len(q)
      BY <2>5, <1>1, <1>2, <1>4, <1>7
    <3>2. QED  BY <3>1, <1>3, <1>6
  <2>6. QED  BY <2>1, <2>2, <2>3, <2>4, <2>5, <1>2
<1>8. QED  BY <1>4, <1>5, <1>7 DEF MainSorted

(* So does taking the head.                                                *)
LEMMA PopSorted ==
    ASSUME IInv, MainSorted, MainPop
    PROVE  MainSorted'
<1> DEFINE q == queue[Main]
<1>1. /\ q \in Seq(Items) /\ Len(q) \in Nat /\ DOMAIN q = 1 .. Len(q)
      /\ IsInjective(q) /\ q # <<>>
  BY QueuesOf DEF IInv, PlaceInv, ItemsInOnePlace, MainPop
<1>2. /\ queue'[Main] = Tail(q)
      /\ DOMAIN Tail(q) = 1 .. Len(q) - 1
      /\ \A i \in 1 .. Len(q) - 1 : Tail(q)[i] = q[i + 1]
  BY <1>1 DEF MainPop
<1>3. \A i \in 1 .. Len(q) : packet'[q[i]] = packet[q[i]]
  BY <1>1 DEF MainPop, ToSet
<1>4. \A i, j \in 1 .. Len(q) : i < j => packet[q[i]].ext < packet[q[j]].ext
  BY <1>1 DEF MainSorted
<1> HIDE DEF q
<1>5. ASSUME NEW i \in 1 .. Len(q) - 1, NEW j \in 1 .. Len(q) - 1, i < j
      PROVE  packet'[Tail(q)[i]].ext < packet'[Tail(q)[j]].ext
  <2>1. i + 1 \in 1 .. Len(q) /\ j + 1 \in 1 .. Len(q) /\ i + 1 < j + 1
    BY <1>1, <1>5
  <2>2. QED  BY <2>1, <1>2, <1>3, <1>4
<1>6. QED  BY <1>2, <1>5 DEF MainSorted

LEMMA SortedNext == IInv /\ MainSorted /\ [Next]_vars => MainSorted'
<1> SUFFICES ASSUME IInv, MainSorted, [Next]_vars PROVE MainSorted'
  OBVIOUS
<1>1. CASE MainSame
  <2>1. \A i \in DOMAIN queue[Main] : packet'[queue[Main][i]] = packet[queue[Main][i]]
    BY <1>1 DEF MainSame, ToSet
  <2>2. QED  BY <1>1, <2>1 DEF MainSame, MainSorted
<1>2. CASE MainPop
  BY <1>2, PopSorted
<1>3. ASSUME NEW it \in itemFree, NEW e \in ExtNums, MainPut(it, e)
      PROVE  MainSorted'
  BY <1>3, PutSorted
<1>4. QED  BY <1>1, <1>2, <1>3, MainEffectNext DEF MainEffect

(* The main queue is strictly increasing in extended sequence number,      *)
(* whatever arrives, for queues and rings of any size                      *)
(* (EnqueueItemOrderedBySeqNum, arstream2_rtp.c 469-549).                  *)
THEOREM QueueSorted == Spec => []MainSorted
<1>1. Init => MainSorted
  BY QueuesOf DEF Init, MainSorted
<1>2. QED  BY <1>1, SortedNext, Invariance, PTL DEF Spec

-----------------------------------------------------------------------------
(* The refinement of ReorderBuffer.                                        *)

(* The numbers of the main queue: what ReorderBuffer calls pending.        *)
Waiting == {packet[it].ext : it \in ToSet(queue[Main])}

(* A packet whose number is not a duplicate adds that number.              *)
LEMMA PutInserts ==
    ASSUME IInv, MainSorted, NEW it \in itemFree, NEW e \in ExtNums,
           MainPut(it, e)
    PROVE  e \notin Waiting /\ Waiting' = Waiting \cup {e}
<1> DEFINE q == queue[Main]
           k == ScanStop(q, e)
<1>1. /\ q \in Seq(Items) /\ Len(q) \in Nat /\ DOMAIN q = 1 .. Len(q)
      /\ IsInjective(q) /\ it \in Items
  BY QueuesOf DEF IInv, PoolInv, PlaceInv, ItemsInOnePlace
<1>2. /\ k \in 0 .. Len(q)
      /\ \A i \in 1 .. k : packet[q[i]].ext < e
      /\ \A i \in k + 1 .. Len(q) : e < packet[q[i]].ext
  BY ScanSplits DEF MainPut
<1> HIDE DEF k
<1>3. e \notin Waiting
  <2>1. ASSUME NEW i \in DOMAIN q PROVE packet[q[i]].ext # e
    <3>1. e \in Int /\ (i \in 1 .. k \/ i \in k + 1 .. Len(q))
      BY <1>1, <1>2, SeqNumAssumption DEF ExtNums
    <3>2. QED  BY <3>1, <1>2
  <2>2. QED  BY <2>1 DEF Waiting, ToSet
<1>4. ToSet(queue'[Main]) = ToSet(q) \cup {it}
  <2>1. k + 1 \in 1 .. Len(q) + 1
    BY <1>1, <1>2
  <2> HIDE DEF q
  <2>2. ToSet(InsertAt(q, k + 1, it)) = ToSet(q) \cup {it}
    BY <2>1, <1>1, InsertAtLemma DEF MainPut, q
  <2>3. QED  BY <2>2 DEF MainPut, q, k
<1>5. QED  BY <1>3, <1>4 DEF MainPut, Waiting

(* Taking the head removes the lowest number.                              *)
LEMMA PopLowest ==
    ASSUME IInv, MainSorted, MainPop
    PROVE  /\ HeadExt \in Waiting /\ \A f \in Waiting : HeadExt <= f
           /\ Waiting' = Waiting \ {HeadExt}
<1> DEFINE q == queue[Main]
<1>1. /\ q \in Seq(Items) /\ Len(q) \in Nat /\ DOMAIN q = 1 .. Len(q)
      /\ IsInjective(q) /\ q # <<>> /\ Head(q) = q[1] /\ 1 \in 1 .. Len(q)
      /\ \A i \in 1 .. Len(q) : packet[q[i]].ext \in Int
  <2>1. /\ q \in Seq(Items) /\ IsInjective(q) /\ q # <<>>
    BY QueuesOf DEF IInv, PlaceInv, ItemsInOnePlace, MainPop
  <2>2. \A i \in 1 .. Len(q) : packet[q[i]] \in Packets
    BY <2>1 DEF IInv, PoolInv
  <2>3. QED  BY <2>1, <2>2, SeqNumAssumption DEF Packets, ExtNums
<1>2. \A i, j \in 1 .. Len(q) : i < j => packet[q[i]].ext < packet[q[j]].ext
  BY <1>1 DEF MainSorted
<1>3. Waiting = {packet[q[i]].ext : i \in 1 .. Len(q)}
  BY <1>1 DEF Waiting, ToSet
<1>4. HeadExt = packet[q[1]].ext
  BY <1>1 DEF HeadExt
<1>5. ASSUME NEW i \in 2 .. Len(q) PROVE HeadExt < packet[q[i]].ext
  BY <1>1, <1>2, <1>4
<1>6. Waiting' = {packet[q[i]].ext : i \in 2 .. Len(q)}
  <2>1. ToSet(Tail(q)) = {q[i] : i \in 2 .. Len(q)}
    <3>1. ASSUME NEW i \in 2 .. Len(q) PROVE i - 1 \in DOMAIN Tail(q) /\ Tail(q)[i - 1] = q[i]
      BY <1>1
    <3>2. ASSUME NEW i \in DOMAIN Tail(q) PROVE i + 1 \in 2 .. Len(q) /\ Tail(q)[i] = q[i + 1]
      BY <1>1
    <3>3. QED  BY <3>1, <3>2 DEF ToSet
  <2>2. Waiting' = {packet'[it].ext : it \in ToSet(Tail(q))}
    BY DEF Waiting, MainPop
  <2>3. \A i \in 2 .. Len(q) : packet'[q[i]] = packet[q[i]]
    BY <1>1 DEF MainPop, ToSet
  <2>4. QED  BY <2>1, <2>2, <2>3
<1> HIDE DEF q
<1>7. ASSUME NEW i \in 1 .. Len(q) PROVE i = 1 \/ i \in 2 .. Len(q)
  BY <1>1
<1>8. HeadExt \in Waiting /\ \A f \in Waiting : HeadExt <= f
  <2>1. HeadExt \in Waiting
    BY <1>1, <1>3, <1>4
  <2>2. ASSUME NEW i \in 1 .. Len(q) PROVE HeadExt <= packet[q[i]].ext
    BY <1>1, <1>4, <1>5, <1>7
  <2>3. QED  BY <2>1, <2>2, <1>3
<1>9. Waiting' = Waiting \ {HeadExt}
  <2>1. ASSUME NEW i \in 2 .. Len(q) PROVE packet[q[i]].ext # HeadExt /\ i \in 1 .. Len(q)
    BY <1>1, <1>4, <1>5
  <2>2. QED  BY <2>1, <1>3, <1>4, <1>6, <1>7
<1>10. QED  BY <1>8, <1>9

(* Every step of the FIFO is a step of the reorder buffer, or none.        *)
LEMMA StepRefines ==
    IInv /\ MainSorted /\ [Next]_vars
        => [Abstract!Next]_<<Waiting, depayed>>
<1> SUFFICES ASSUME IInv, MainSorted, [Next]_vars
             PROVE  Abstract!Next \/ UNCHANGED <<Waiting, depayed>>
  OBVIOUS
<1>1. CASE MainSame /\ UNCHANGED depayed
  BY <1>1 DEF MainSame, Waiting
<1>2. CASE MainPop /\ UNCHANGED depayed
  BY <1>2, PopLowest DEF Abstract!Next, Abstract!Discard, Abstract!Lowest, Waiting
<1>3. CASE MainPop /\ depayed' = HeadExt /\ HeadExt > depayed
  BY <1>3, PopLowest DEF Abstract!Next, Abstract!Deliver, Abstract!Lowest, Waiting
<1>4. ASSUME NEW it \in itemFree, NEW e \in ExtNums, MainPut(it, e),
             UNCHANGED depayed
      PROVE  Abstract!Next
  BY <1>4, PutInserts DEF Abstract!Next, Abstract!Insert, Waiting
<1>5. QED  BY <1>1, <1>2, <1>3, <1>4, MainEffectNext DEF MainEffect

(* The receiver's queue implements the reorder buffer the depayloader      *)
(* relies on: numbers are taken lowest first, none twice at once and none  *)
(* delivered after a larger one, for pools and rings of any size.          *)
THEOREM Reorders == Spec => ReordersPackets
<1>1. Init => Abstract!Init
  BY QueuesOf DEF Init, Abstract!Init, NoPrevious, ToSet
<1>2. QED
  BY <1>1, StepRefines, QueueSorted, Invariance, PTL
     DEF Spec, ReordersPackets, Abstract!Spec, Waiting

-----------------------------------------------------------------------------
(* The data of queued packets, and the message vector.                     *)

(* The packet has the number of the datagram in its buffer.                *)
Carries(p) == p.buffer \in Buffers /\ content[p.buffer] = p.seq

(* A queued item was queued before, or has the packet of one that was, or  *)
(* is a new one made from the datagram in its buffer, of which none is     *)
(* written then; and no buffer in use is ever written.                     *)
DataEffect ==
    /\ \A q \in Queues : \A it \in ToSet(queue'[q]) :
          \/ \E p \in Queues : \E i \in ToSet(queue[p]) : packet'[it] = packet[i]
          \/ Carries(packet'[it]) /\ content' = content
    /\ \A b \in Buffers : b \notin ToSet(bufferFree) => content'[b] = content[b]

(* A step that queues nothing.                                             *)
LEMMA NothingQueued ==
    ASSUME \A q \in Queues : \A it \in ToSet(queue'[q]) :
               it \in ToSet(queue[q]) /\ packet'[it] = packet[it],
           \A b \in Buffers : b \notin ToSet(bufferFree) => content'[b] = content[b]
    PROVE  DataEffect
  BY DEF DataEffect

LEMMA ReleaseHeadData ==
    ASSUME IInv, NEW q \in Queues, queue[q] # <<>>, ReleaseHead(q)
    PROVE  DataEffect
<1>1. queue[q] \in Seq(Items) /\ IsInjective(queue[q])
  BY DEF IInv, PlaceInv, ItemsInOnePlace
<1>2. ToSet(Tail(queue[q])) \subseteq ToSet(queue[q])
  BY <1>1, TailLemma
<1>3. \A p \in Queues : ToSet(queue'[p]) \subseteq ToSet(queue[p])
  BY <1>2 DEF ReleaseHead, IInv, PlaceInv
<1>4. QED  BY <1>3, NothingQueued DEF ReleaseHead, ReleaseItem

LEMMA FlushData ==
    ASSUME IInv, FlushFirst, garbage' = garbage
    PROVE  DataEffect
<1>1. PICK q \in ToSet(attached) \cup {Main} : queue[q] # <<>> /\ ReleaseHead(q)
  BY FlushLemma
<1>2. q \in Queues
  BY QueuesOf, ToSetType DEF IInv, ControlInv
<1>3. QED  BY <1>1, <1>2, ReleaseHeadData

LEMMA AddPacketData ==
    ASSUME IInv, AddPacket
    PROVE  DataEffect
<1> DEFINE s == content[Head(bufferFree)]
           e == ExtOf(s)
           q == queue[Main]
           k == ScanStop(q, e) + 1
           p == [buffer |-> Head(bufferFree), seq |-> s, ext |-> e]
<1>1. PICK it \in itemFree :
         /\ TakeBoth(it, p)
         /\ queue' = [queue EXCEPT ![Main] = InsertAt(q, k, it)]
  BY DEF AddPacket
<1>2. Carries(p)
  BY HeadContent DEF AddPacket, Carries
<1> HIDE DEF p
<1>3. /\ packet'[it] = p /\ it \in Items /\ content' = content
      /\ \A r \in Queues : \A i \in ToSet(queue[r]) : packet'[i] = packet[i]
  BY <1>1, TakeBothKeeps
<1>4. q \in Seq(Items) /\ IsInjective(q) /\ it \notin ToSet(q)
  BY QueuesOf DEF IInv, PlaceInv, ItemsInOnePlace
<1>5. k \in 1 .. Len(q) + 1
  <2> HIDE DEF e, q
  <2>1. ScanStop(q, e) \in 0 .. Len(q) /\ Len(q) \in Nat
    BY <1>4, ScanStopLemma
  <2>2. QED  BY <2>1
<1> HIDE DEF q, k
<1>6. ToSet(InsertAt(q, k, it)) = ToSet(q) \cup {it}
  BY <1>3, <1>4, <1>5, InsertAtLemma
<1>7. \A r \in Queues : ToSet(queue'[r]) \subseteq ToSet(queue[r]) \cup {it}
  BY <1>1, <1>6 DEF IInv, PlaceInv, q
<1>8. QED  BY <1>2, <1>3, <1>7 DEF DataEffect

LEMMA ResendEnqueueData ==
    ASSUME IInv, ResendEnqueue
    PROVE  DataEffect
<1> DEFINE r == attached[kdx]
<1>1. PICK it \in itemFree :
         /\ packet' = [packet EXCEPT ![it] = packet[curItem]]
         /\ queue' = [queue EXCEPT ![r] = Append(queue[r], it)]
  BY DEF ResendEnqueue
<1>2. curItem \in ToSet(queue[Main]) /\ content' = content
  BY DEF ResendEnqueue, IInv, ControlInv
<1>3. it \in Items /\ r \in Queues /\ it \notin ToSet(queue[r])
  BY QueuesOf DEF ResendEnqueue, IInv, ControlInv, PoolInv, PlaceInv, ItemsInOnePlace, ToSet
<1>4. ToSet(Append(queue[r], it)) = ToSet(queue[r]) \cup {it}
  <2>1. queue[r] \in Seq(Items) /\ IsInjective(queue[r])
    BY <1>3 DEF IInv, PlaceInv, ItemsInOnePlace
  <2>2. QED  BY <1>3, <2>1, AppendLemma
<1> HIDE DEF r
<1>5. \A q \in Queues : ToSet(queue'[q]) \subseteq ToSet(queue[q]) \cup {it}
  BY <1>1, <1>4 DEF IInv, PlaceInv
<1>6. \A q \in Queues : \A i \in ToSet(queue[q]) : packet'[i] = packet[i]
  BY <1>1, QueuedNotFree DEF IInv, PoolInv
<1>7. packet'[it] = packet[curItem]
  BY <1>1, <1>3 DEF IInv, PoolInv
<1>8. QED  BY <1>2, <1>5, <1>6, <1>7, QueuesOf DEF DataEffect

LEMMA TimeoutDropData ==
    ASSUME IInv, NEW r \in Resenders, TimeoutDrop(r)
    PROVE  DataEffect
<1>1. /\ r \in Queues /\ queue[r] \in Seq(Items) /\ IsInjective(queue[r])
      /\ idx \in 1 .. Len(queue[r])
  <2>1. idx \in Nat /\ idx # 0 /\ idx <= Len(queue[r])
    BY DEF TimeoutDrop, IInv, ControlInv
  <2>2. QED  BY <2>1, QueuesOf DEF IInv, PlaceInv, ItemsInOnePlace
<1>2. ToSet(RemoveAt(queue[r], idx)) \subseteq ToSet(queue[r])
  BY <1>1, RemoveAtLemma
<1>3. \A q \in Queues : ToSet(queue'[q]) \subseteq ToSet(queue[q])
  BY <1>1, <1>2 DEF TimeoutDrop, IInv, PlaceInv
<1>4. QED  BY <1>3, NothingQueued DEF TimeoutDrop, ReleaseItem

(* recvmmsg writes into free buffers only: the i-th datagram into the i-th *)
(* buffer of the free list.                                                *)
LEMMA RecvMmsgWrites ==
    ASSUME IInv, NEW n \in 1 .. Len(bufferFree), NEW msgs \in [1 .. n -> Messages],
           RecvMmsg(msgs)
    PROVE  /\ Len(msgs) = n /\ n <= Len(bufferFree)
           /\ \A i \in 1 .. n : content'[bufferFree[i]] = msgs[i].seq
           /\ \A b \in Buffers : b \notin ToSet(bufferFree) => content'[b] = content[b]
<1>1. /\ bufferFree \in Seq(Buffers) /\ Len(bufferFree) \in Nat
      /\ IsInjective(bufferFree) /\ DOMAIN bufferFree = 1 .. Len(bufferFree)
  BY DEF IInv, PoolInv, FreeBuffersUnused
<1>2. n \in Nat /\ DOMAIN msgs = 1 .. n /\ Len(msgs) = n /\ n <= Len(bufferFree)
  <2>1. n \in Nat /\ n <= Len(bufferFree)
    BY <1>1
  <2>2. QED  BY <2>1
<1>3. content' = [b \in Buffers |->
                    IF \E i \in DOMAIN msgs : bufferFree[i] = b
                    THEN msgs[CHOOSE i \in DOMAIN msgs : bufferFree[i] = b].seq
                    ELSE content[b]]
  BY DEF RecvMmsg
<1>4. ASSUME NEW i \in 1 .. n
      PROVE  content'[bufferFree[i]] = msgs[i].seq
  <2>1. i \in DOMAIN bufferFree /\ bufferFree[i] \in Buffers
    BY <1>1, <1>2
  <2>2. \A j \in DOMAIN msgs : bufferFree[j] = bufferFree[i] => j = i
    BY <1>1, <1>2, <2>1 DEF IsInjective
  <2>3. (CHOOSE j \in DOMAIN msgs : bufferFree[j] = bufferFree[i]) = i
    BY <1>2, <2>2
  <2>4. QED  BY <1>2, <1>3, <2>1, <2>3
<1>5. ASSUME NEW b \in Buffers, b \notin ToSet(bufferFree)
      PROVE  content'[b] = content[b]
  <2>1. ~ \E i \in DOMAIN msgs : bufferFree[i] = b
    BY <1>1, <1>2, <1>5 DEF ToSet
  <2>2. QED  BY <1>3, <2>1
<1>6. QED  BY <1>2, <1>4, <1>5

LEMMA DataEffectNext ==
    ASSUME IInv, [Next]_vars
    PROVE  DataEffect
<1>1. CASE QuietStep
  BY <1>1, QuietStepKeeps, NothingQueued DEF poolVars, listVars
<1>2. ASSUME NEW n \in 1 .. Len(bufferFree), NEW msgs \in [1 .. n -> Messages],
             RecvMmsg(msgs)
      PROVE  DataEffect
  BY <1>2, RecvMmsgWrites, NothingQueued DEF RecvMmsg, listVars
<1>3. CASE FlushStep \/ EndStep
  BY <1>3, FlushData DEF FlushStep, EndStep
<1>4. CASE AddShort
  BY <1>4, TakeBothKeeps, NothingQueued DEF AddShort
<1>5. CASE AddDuplicate
  BY <1>5, TakeBothKeeps, NothingQueued DEF AddDuplicate
<1>6. CASE AddPacket
  BY <1>6, AddPacketData
<1>7. CASE ResendEnqueue
  BY <1>7, ResendEnqueueData
<1>8. CASE FreeGarbage
  BY <1>8, NothingQueued DEF FreeGarbage, ReleaseItem
<1>9. CASE Depay
  BY <1>9, ReleaseHeadData, QueuesOf DEF Depay
<1>10. ASSUME NEW r \in Resenders, TimeoutDrop(r)
       PROVE  DataEffect
  BY <1>10, TimeoutDropData
<1>11. ASSUME NEW r \in Resenders, CleanSent(r)
       PROVE  DataEffect
  BY <1>11, ReleaseHeadData, QueuesOf DEF CleanSent
<1>12. ASSUME NEW r \in Resenders, StartResender(r)
       PROVE  DataEffect
  BY <1>12, StartResenderQueue, NothingQueued DEF StartResender, poolVars
<1>13. CASE StopFlush
  BY <1>13, ReleaseHeadData, StoppingType DEF StopFlush
<1>14. CASE RemoveQueue
  BY <1>14, RemoveQueueQueue, NothingQueued DEF RemoveQueue, poolVars
<1>15. QED
  BY <1>1, <1>2, <1>3, <1>4, <1>5, <1>6, <1>7, <1>8, <1>9, <1>10, <1>11,
     <1>12, <1>13, <1>14
     DEF Next, Receive, Forward, Finish, App, QuietStep

LEMMA DataNext == IInv /\ QueuedDataIntact /\ [Next]_vars => QueuedDataIntact'
<1> SUFFICES ASSUME IInv, QueuedDataIntact, [Next]_vars,
                    NEW q \in Queues, NEW it \in ToSet(queue'[q])
             PROVE  /\ packet'[it].buffer \in Buffers
                    /\ content'[packet'[it].buffer] = packet'[it].seq
  BY DEF QueuedDataIntact
<1>1. DataEffect
  BY DataEffectNext
<1>2. ASSUME NEW p \in Queues, NEW i \in ToSet(queue[p]), packet'[it] = packet[i]
      PROVE  /\ packet'[it].buffer \in Buffers
             /\ content'[packet'[it].buffer] = packet'[it].seq
  <2>1. /\ packet[i].buffer \in Buffers /\ content[packet[i].buffer] = packet[i].seq
    BY DEF QueuedDataIntact
  <2>2. packet[i].buffer \notin ToSet(bufferFree)
    BY QueuedNotFree, UsedBuffer DEF IInv
  <2>3. QED  BY <1>1, <1>2, <2>1, <2>2 DEF DataEffect
<1>3. QED  BY <1>1, <1>2 DEF DataEffect, Carries

(* A queued packet still has in its buffer the datagram it was made from,  *)
(* in every queue, whatever shares the buffer (arstream2_rtp.c 1305-1558). *)
THEOREM DataIntact == Spec => []QueuedDataIntact
<1>1. Init => QueuedDataIntact
  BY DEF Init, QueuedDataIntact, ToSet
<1>2. QED  BY <1>1, DataNext, Invariance, PTL DEF Spec

(* The head of the free list is taken for the datagram it holds; the       *)
(* datagrams after it are still in the buffers after it.                   *)
LEMMA HeadTaken ==
    ASSUME IInv, MsgVecMatchesFreeList, MoreMessages,
           NEW it, NEW p, TakeBoth(it, p), UNCHANGED msgVec,
           (pc' = "add" /\ idx' = idx + 1) \/ (pc' = "resend" /\ idx' = idx)
    PROVE  MsgVecMatchesFreeList'
<1>1. /\ idx \in Nat /\ Len(msgVec) \in Nat
      /\ bufferFree \in Seq(Buffers) /\ bufferFree # <<>> /\ Len(bufferFree) \in Nat
  BY DEF IInv, PoolInv, ControlInv, TakeBoth
<1>2. /\ bufferFree' = Tail(bufferFree) /\ content' = content
      /\ Len(Tail(bufferFree)) = Len(bufferFree) - 1
      /\ \A i \in 1 .. Len(bufferFree) - 1 : Tail(bufferFree)[i] = bufferFree[i + 1]
  BY <1>1 DEF TakeBoth
<1>3. ASSUME NEW j \in idx + 1 .. Len(msgVec)
      PROVE  /\ j - (idx + 1) + 1 <= Len(bufferFree')
             /\ content'[bufferFree'[j - (idx + 1) + 1]] = msgVec[j].seq
  <2>1. j \in idx .. Len(msgVec) /\ pc = "add"
    BY <1>1 DEF MoreMessages
  <2>2. j - idx + 1 <= Len(bufferFree) /\ content[bufferFree[j - idx + 1]] = msgVec[j].seq
    BY <2>1 DEF MsgVecMatchesFreeList
  <2>3. j - (idx + 1) + 1 = j - idx /\ j - idx \in 1 .. Len(bufferFree) - 1
    BY <1>1, <2>2
  <2>4. QED  BY <1>2, <2>2, <2>3
<1>4. QED  BY <1>1, <1>3 DEF MsgVecMatchesFreeList

LEMMA VectorNext ==
    IInv /\ MsgVecMatchesFreeList /\ [Next]_vars => MsgVecMatchesFreeList'
<1> SUFFICES ASSUME IInv, MsgVecMatchesFreeList, [Next]_vars,
                    pc' \in {"add", "resend"}
             PROVE  MsgVecMatchesFreeList'
  BY DEF MsgVecMatchesFreeList
<1>1. CASE QuietStep
  <2>1. UNCHANGED <<content, bufferFree>>
    BY <1>1, QuietStepKeeps DEF poolVars
  <2>2. UNCHANGED <<pc, idx, msgVec>> \/ ResendDone
    BY <1>1 DEF QuietStep, StartTurn, FillMsgVec, FlushDone, RecvNothing,
       AddNoRoom, ResendNoItem, AddDone, GarbageDone, DepayDone, EndTurn,
       StopThread, EndDone, CountResenders, vars, netVars, TimeoutKeep,
       SendMmsg, CleanDone, StopResender
  <2>3. CASE ResendDone
    <3>1. pc = "resend" /\ pc' = "add" /\ idx' = idx + 1 /\ msgVec' = msgVec
      BY <2>3 DEF ResendDone
    <3>2. QED  BY <2>1, <3>1 DEF MsgVecMatchesFreeList
  <2>4. QED  BY <2>1, <2>2, <2>3 DEF MsgVecMatchesFreeList
<1>2. ASSUME NEW n \in 1 .. Len(bufferFree), NEW msgs \in [1 .. n -> Messages],
             RecvMmsg(msgs)
      PROVE  MsgVecMatchesFreeList'
  <2>1. /\ pc' = "add" /\ idx' = 1 /\ msgVec' = msgs /\ bufferFree' = bufferFree
        /\ Len(bufferFree) \in Nat
    BY <1>2 DEF RecvMmsg, IInv, PoolInv
  <2>2. /\ Len(msgs) = n /\ n <= Len(bufferFree)
        /\ \A i \in 1 .. n : content'[bufferFree[i]] = msgs[i].seq
    BY <1>2, RecvMmsgWrites
  <2>3. \A j \in 1 .. n : j - 1 + 1 = j
    BY <2>1
  <2>4. QED  BY <2>1, <2>2, <2>3 DEF MsgVecMatchesFreeList
<1>3. CASE AddShort
  BY <1>3, HeadTaken DEF AddShort, MoreMessages
<1>4. CASE AddDuplicate
  BY <1>4, HeadTaken DEF AddDuplicate, MoreMessages
<1>5. CASE AddPacket
  BY <1>5, HeadTaken DEF AddPacket
<1>6. CASE ResendEnqueue
  BY <1>6 DEF ResendEnqueue, MsgVecMatchesFreeList
<1>7. CASE \/ FlushStep \/ EndStep \/ FreeGarbage \/ Depay
           \/ \E r \in Resenders : TimeoutDrop(r) \/ CleanSent(r)
  BY <1>7 DEF FlushStep, EndStep, FreeGarbage, Depay, TimeoutDrop, CleanSent, netVars
<1>8. CASE \/ StopFlush \/ RemoveQueue
           \/ \E r \in Resenders : StartResender(r)
  <2>1. mutex # "net" /\ pc' = pc
    BY <1>8 DEF StopFlush, RemoveQueue, StartResender, AppMayAct, netVars
  <2>2. QED  BY <2>1 DEF IInv, ControlInv
<1>9. QED
  BY <1>1, <1>2, <1>3, <1>4, <1>5, <1>6, <1>7, <1>8
     DEF Next, Receive, Forward, Finish, App, QuietStep

(* The head of the free list is always the buffer that holds the next      *)
(* datagram of the message vector, for any number of buffers: the call     *)
(* sequence the warning at arstream2_rtp.c:1150 asks for is kept.          *)
THEOREM VectorMatches == Spec => []MsgVecMatchesFreeList
<1>1. Init => MsgVecMatchesFreeList
  BY DEF Init, MsgVecMatchesFreeList
<1>2. QED  BY <1>1, VectorNext, Invariance, PTL DEF Spec

(* With all queues empty and no garbage every item is free, hence every    *)
(* buffer is unused, hence on the free list.                               *)
LEMMA EmptyMeansFree ==
    ASSUME IInv, garbage = <<>>, AllQueuesEmpty
    PROVE  bufferFree # <<>>
<1>1. ASSUME NEW q \in Queues PROVE queue[q] = <<>>
  <2>1. CASE q \in ToSet(FifoQueues)
    <3>1. PICK k \in DOMAIN FifoQueues : FifoQueues[k] = q
      BY <2>1 DEF ToSet
    <3>2. QED  BY <3>1 DEF AllQueuesEmpty
  <2>2. CASE q \notin ToSet(FifoQueues)
    <3>1. q \in Resenders \ ToSet(attached)
      BY <2>2, FifoQueuesType DEF Queues, IInv
    <3>2. QED  BY <3>1 DEF IInv, ControlInv
  <2>3. QED  BY <2>1, <2>2
<1>2. Items = itemFree
  <2>1. ToSet(<<>>) = {}
    BY DEF ToSet
  <2>2. UNION {ToSet(queue[q]) : q \in Queues} = {}
    BY <1>1, <2>1
  <2>3. QED  BY <2>1, <2>2 DEF IInv, PlaceInv, ItemsInOnePlace
<1>3. PICK b \in Buffers : TRUE
  BY PoolAssumption
<1>4. refCount[b] = 0
  <2>1. Users(b) = {}
    BY <1>2 DEF Users
  <2>2. QED  BY <2>1, FS_EmptySet DEF IInv, PoolInv, RefCountExact
<1>5. b \in ToSet(bufferFree)
  BY <1>4 DEF IInv, PoolInv, FreeBuffersUnused
<1>6. QED  BY <1>5 DEF ToSet

LEMMA RecoversNext == IInv /\ FlushRecovers /\ [Next]_vars => FlushRecovers'
<1> SUFFICES ASSUME IInv, FlushRecovers, [Next]_vars, pc' = "recv"
             PROVE  bufferFree' # <<>>
  BY DEF FlushRecovers
<1>1. CASE QuietStep
  <2>1. bufferFree' = bufferFree
    BY <1>1, QuietStepKeeps DEF poolVars
  <2>2. pc = "recv" \/ FillMsgVec \/ FlushDone
    BY <1>1 DEF QuietStep, StartTurn, RecvNothing, AddNoRoom, ResendNoItem,
       ResendDone, AddDone, GarbageDone, DepayDone, EndTurn, StopThread,
       EndDone, CountResenders, vars, netVars, TimeoutKeep, SendMmsg,
       CleanDone, StopResender
  <2>3. CASE FillMsgVec
    BY <2>1, <2>3 DEF FillMsgVec
  <2>4. CASE FlushDone
    BY <2>1, <2>4, EmptyMeansFree DEF FlushDone, IInv, ControlInv
  <2>5. QED  BY <2>1, <2>2, <2>3, <2>4 DEF FlushRecovers
<1>2. CASE \/ FlushStep \/ EndStep \/ FreeGarbage \/ Depay
           \/ AddShort \/ AddDuplicate \/ AddPacket \/ ResendEnqueue
           \/ \E r \in Resenders : TimeoutDrop(r) \/ CleanSent(r)
  BY <1>2 DEF FlushStep, EndStep, FreeGarbage, Depay, TimeoutDrop, CleanSent,
     AddShort, AddDuplicate, AddPacket, ResendEnqueue, MoreMessages, netVars
<1>3. ASSUME NEW n \in 1 .. Len(bufferFree), NEW msgs \in [1 .. n -> Messages],
             RecvMmsg(msgs)
      PROVE  bufferFree' # <<>>
  BY <1>3 DEF RecvMmsg
<1>4. CASE \/ StopFlush \/ RemoveQueue
           \/ \E r \in Resenders : StartResender(r)
  <2>1. mutex # "net" /\ pc' = pc
    BY <1>4 DEF StopFlush, RemoveQueue, StartResender, AppMayAct, netVars
  <2>2. QED  BY <2>1 DEF IInv, ControlInv
<1>5. QED
  BY <1>1, <1>2, <1>3, <1>4 DEF Next, Receive, Forward, Finish, App, QuietStep

(* After the flush that a full FIFO calls for there is a buffer to receive *)
(* into, even if resenders shared all of them (arstream2_rtp.c 1152-1168). *)
THEOREM FlushMakesRoom == Spec => []FlushRecovers
<1>1. Init => FlushRecovers
  BY DEF Init, FlushRecovers
<1>2. QED  BY <1>1, RecoversNext, Invariance, PTL DEF Spec
=============================================================================
