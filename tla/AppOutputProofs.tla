--------------------------- MODULE AppOutputProofs ---------------------------
(***************************************************************************)
(* Proofs about the outputs of the stream receiver: for any number of      *)
(* buffers and access units, starts, stops, recordings and requests, the   *)
(* buffers are shared correctly by the network, output and recorder        *)
(* threads, what they hold is what was received, it is delivered and       *)
(* recorded in order, and who waits for an IDR frame is given one first.   *)
(***************************************************************************)
EXTENDS AppOutput, SeqLemmas, FiniteSetTheorems

QueuePtrs == Outputs \cup {NoQueue}
ItemPtrs  == Items \cup {NoItem}

(* The shape of every variable, group by group; TypeOK is the part of it   *)
(* that is about the values.                                               *)
PoolShape == refCount \in [Buffers -> Nat] /\ content \in [Buffers -> Nat]

FifoShape ==
    /\ queue \in [Outputs -> Seq(Items)] /\ leaked \in [Buffers -> Nat]
    /\ list \in [first : QueuePtrs, prev : [Outputs -> QueuePtrs],
                 next : [Outputs -> QueuePtrs]]

FlagShape ==
    /\ registered \in BOOLEAN /\ inProgress \in BOOLEAN
    /\ sync \in BOOLEAN /\ netStop \in BOOLEAN /\ outStop \in BOOLEAN
    /\ recorder \in BOOLEAN /\ recStop \in BOOLEAN /\ startPending \in BOOLEAN
    /\ outRunning \in BOOLEAN /\ outEnding \in BOOLEAN

RunShape == running \in [Outputs -> BOOLEAN]

GrayShape ==
    pending \subseteq Outputs /\ asked \subseteq Outputs /\ dropped \subseteq Outputs

HeldShape == netItem \in ItemPtrs /\ grayItem \in ItemPtrs /\ target \in QueuePtrs

ReaderShape ==
    outItem \in ItemPtrs /\ recItem \in ItemPtrs /\ last \in [Outputs -> Nat]

BoundShape ==
    bound \in [aus : Nat, pool : SUBSET Buffers, starts : Nat,
               recordings : Nat, resyncs : Nat, gray : BOOLEAN,
               types : SUBSET SyncTypes, stop : BOOLEAN, au : Nat]

Shapes ==
    /\ PoolShape /\ FifoShape /\ FlagShape /\ RunShape /\ GrayShape
    /\ HeldShape /\ ReaderShape /\ BoundShape

(* Where each thread is when it has an item, and what the network thread's *)
(* items are.                                                              *)
NetHasNone == netPc \in {"idle", "flush", "done"}
Flushing   == netPc \in {"flush", "grayFlush"}
Outputting == netPc \in {"output", "enqueue", "signal", "free"}

NetControl ==
    /\ NetHasNone <=> netItem = NoItem
    /\ grayItem # NoItem => Outputting
    /\ ~Flushing => target \in Outputs
    /\ netPc \notin {"flush", "grayFlush", "output", "enqueue", "signal"}
          => target = "app"
    /\ netItem # NoItem => netItem.au = 2 * bound.au /\ bound.au > 0
    /\ grayItem # NoItem => /\ grayItem.au = 2 * bound.au - 1
                            /\ grayItem.sync = "idr"
                            /\ netItem.sync = "iFrame"

OutControl ==
    outItem # NoItem <=> outPc \in {"have", "inGet", "inReady", "resync", "free"}

(* One start of the recorder at a time, and only of one that is not there. *)
RecControl ==
    /\ recItem # NoItem <=> recPc = "have"
    /\ recorder <=> recPc # "none"
    /\ startPending /\ netPc \notin {"recAdd", "recRun"} => ~recorder
    /\ netPc \in {"recInit", "recAdd", "recRun"} => startPending /\ sync
    /\ appPc \in {"recInit", "recAdd", "recRun"} => sync /\ ~startPending
    /\ appPc \in {"recInit", "recPending"} => ~recorder
    /\ appPc = "recPending" => ~startPending

Control == Shapes /\ NetControl /\ OutControl /\ RecControl

(* What the network thread has queued for t is numbered Limit(t) at most,  *)
(* and what it will queue, more.                                           *)
Passed(t) ==
    \/ netPc = "free"
    \/ netPc = "signal" /\ t = target
    \/ target = "rec" /\ t = "app"

Limit(t) ==
    IF netItem = NoItem THEN 2 * bound.au
    ELSE IF ~Outputting THEN 2 * bound.au - 2
    ELSE IF grayItem # NoItem
         THEN IF Passed(t) THEN 2 * bound.au - 1 ELSE 2 * bound.au - 2
         ELSE IF Passed(t) THEN 2 * bound.au ELSE 2 * bound.au - 1

(* The item that was taken from the queue of t, and the highest number     *)
(* that ever was.                                                          *)
Taken(t) == IF t = "app" THEN outItem ELSE recItem
Bar(t)   == IF Taken(t) = NoItem THEN last[t] ELSE Taken(t).au

(* Numbers that rise, from above b to l at most.                           *)
Rising(q, b, l) ==
    /\ \A i \in DOMAIN q : b < q[i].au /\ q[i].au <= l
    /\ \A i, j \in DOMAIN q : i < j => q[i].au < q[j].au

OrderedAt(t) ==
    /\ last[t] <= Bar(t) /\ Bar(t) <= Limit(t)
    /\ Rising(queue[t], Bar(t), Limit(t))

Ordered ==
    /\ \A t \in Outputs : OrderedAt(t)
    /\ outPc \in {"have", "inGet"} => last["app"] < outItem.au
    /\ recPc = "have" => last["rec"] < recItem.au

(* The reference counts, as a sum.                                         *)
Refers(item, b)  == IF item # NoItem /\ item.buffer = b THEN 1 ELSE 0
InQueue(t, b)    == Cardinality({it \in ToSet(queue[t]) : it.buffer = b})
Count(b) ==
    InQueue("app", b) + InQueue("rec", b) + Refers(outItem, b)
        + Refers(recItem, b) + Refers(netItem, b) + Refers(grayItem, b)

CountExact == \A b \in Buffers : refCount[b] = Count(b) + leaked[b]

(* Every item, the network thread's too, still finds what it was made for. *)
Held ==
    {outItem, recItem, netItem, grayItem}
        \cup ToSet(queue["app"]) \cup ToSet(queue["rec"])

AllIntact ==
    /\ \A it \in Held : it # NoItem => content[it.buffer] = it.au
    /\ \A b \in Buffers : content[b] = 0 => refCount[b] = 0

(* A request that is not answered is pending, or an IDR frame of the       *)
(* stream is on its way to the output that made it.                        *)
IdrComes(t) ==
    /\ grayItem = NoItem /\ netItem.sync = "idr"
    /\ \/ netPc = "output" /\ ~Passed(t)
       \/ netPc \in {"enqueue", "signal"} /\ target = "app" /\ t = "rec"

RequestKept ==
    /\ asked # {} => bound.gray
    /\ \A t \in asked \ dropped :
          running[t] /\ t \notin pending => IdrComes(t)

IInv == Control /\ Ordered /\ CountExact /\ AllIntact /\ RequestKept

-----------------------------------------------------------------------------
(* Counting the items that refer to a buffer.                              *)

LEMMA ToSetFinite ==
    ASSUME NEW S, NEW s \in Seq(S)
    PROVE  IsFiniteSet(ToSet(s))
<1> DEFINE f == [i \in 1 .. Len(s) |-> s[i]]
<1>1. Len(s) \in Nat /\ DOMAIN s = 1 .. Len(s)
  OBVIOUS
<1>2. f \in Surjection(1 .. Len(s), ToSet(s))
  BY <1>1 DEF Surjection, ToSet
<1>3. IsFiniteSet(1 .. Len(s))
  BY <1>1, FS_Interval
<1>4. QED  BY <1>2, <1>3, FS_Surjection

Pointing(S, b) == {it \in S : it.buffer = b}

(* One more item in a set, or one less.                                    *)
LEMMA PointingAdd ==
    ASSUME NEW S \in SUBSET Items, IsFiniteSet(S), NEW item \in Items,
           item \notin S, NEW b
    PROVE  /\ Cardinality(Pointing(S, b)) \in Nat
           /\ Cardinality(Pointing(S \cup {item}, b))
                 = Cardinality(Pointing(S, b)) + Refers(item, b)
<1> USE NullAssumption
<1>1. IsFiniteSet(Pointing(S, b))
  BY FS_Subset DEF Pointing
<1>2. Cardinality(Pointing(S, b)) \in Nat
  BY <1>1, FS_CardinalityType
<1>3. CASE item.buffer = b
  <2>1. Pointing(S \cup {item}, b) = Pointing(S, b) \cup {item}
    BY <1>3 DEF Pointing
  <2>2. item \notin Pointing(S, b) /\ Refers(item, b) = 1
    BY <1>3 DEF Pointing, Refers
  <2>3. QED  BY <1>1, <1>2, <2>1, <2>2, FS_AddElement
<1>4. CASE item.buffer # b
  <2>1. Pointing(S \cup {item}, b) = Pointing(S, b) /\ Refers(item, b) = 0
    BY <1>4 DEF Pointing, Refers
  <2>2. QED  BY <1>2, <2>1
<1>5. QED  BY <1>3, <1>4

LEMMA InQueueType ==
    ASSUME Shapes, NEW t \in Outputs, NEW b
    PROVE  /\ ToSet(queue[t]) \in SUBSET Items /\ IsFiniteSet(ToSet(queue[t]))
           /\ InQueue(t, b) = Cardinality(Pointing(ToSet(queue[t]), b))
           /\ InQueue(t, b) \in Nat
<1>1. ToSet(queue[t]) \in SUBSET Items /\ IsFiniteSet(ToSet(queue[t]))
  BY ToSetType, ToSetFinite DEF Shapes, FifoShape
<1>2. IsFiniteSet(Pointing(ToSet(queue[t]), b))
  BY <1>1, FS_Subset DEF Pointing
<1>3. InQueue(t, b) = Cardinality(Pointing(ToSet(queue[t]), b))
  BY DEF InQueue, Pointing
<1>4. QED  BY <1>1, <1>2, <1>3, FS_CardinalityType

(* The holders of a buffer are those of the six places an item can be in.  *)
LEMMA HoldersCount ==
    ASSUME Shapes, NEW b \in Buffers
    PROVE  Cardinality(Holders(b)) = Count(b)
<1> USE NullAssumption
<1> DEFINE Q(t)      == {<<t, it>> : it \in Pointing(ToSet(queue[t]), b)}
           One(w, x) == IF x # NoItem /\ x.buffer = b THEN {<<w, x>>} ELSE {}
<1>1. ASSUME NEW t \in Outputs
      PROVE  IsFiniteSet(Q(t)) /\ Cardinality(Q(t)) = InQueue(t, b)
  <2> DEFINE P == Pointing(ToSet(queue[t]), b)
             f == [it \in P |-> <<t, it>>]
  <2>1. IsFiniteSet(P)
    BY InQueueType, FS_Subset DEF Pointing
  <2>2. f \in Bijection(P, Q(t))
    <3>1. f \in [P -> Q(t)] /\ \A x \in P : f[x] = <<t, x>>
      OBVIOUS
    <3>2. \A x, y \in P : f[x] = f[y] => x = y
      BY <3>1
    <3>3. \A c \in Q(t) : \E x \in P : f[x] = c
      BY <3>1
    <3> HIDE DEF f, Q, P
    <3>4. QED  BY <3>1, <3>2, <3>3 DEF Bijection, Injection, Surjection,
                                   IsInjective
  <2>3. ExistsBijection(P, Q(t))
    BY <2>2 DEF ExistsBijection
  <2> HIDE DEF P
  <2>4. IsFiniteSet(Q(t)) /\ Cardinality(Q(t)) = Cardinality(P)
    BY <2>1, <2>3, FS_Bijection
  <2>5. QED  BY <2>4, InQueueType DEF P
<1>2. ASSUME NEW w, NEW x
      PROVE  IsFiniteSet(One(w, x)) /\ Cardinality(One(w, x)) = Refers(x, b)
  BY FS_EmptySet, FS_Singleton DEF Refers
<1>3. Holders(b) = Q("app") \cup Q("rec") \cup One("out", outItem)
         \cup One("recorder", recItem) \cup One("net", netItem)
         \cup One("gray", grayItem)
  <2>1. ASSUME NEW c \in Holders(b)
        PROVE  c \in Q("app") \cup Q("rec") \cup One("out", outItem)
                  \cup One("recorder", recItem) \cup One("net", netItem)
                  \cup One("gray", grayItem)
    <3>1. c \in Copies /\ c[2] # NoItem /\ c[2].buffer = b
      BY DEF Holders
    <3>2. CASE c \in {<<"out", outItem>>, <<"recorder", recItem>>,
                      <<"net", netItem>>, <<"gray", grayItem>>}
      BY <3>1, <3>2
    <3>3. ASSUME NEW t \in Outputs, c \in QueuedItems(t)
          PROVE  c \in Q(t)
      BY <3>1, <3>3 DEF Pointing, QueuedItems
    <3> HIDE DEF Q, One
    <3>4. QED  BY <3>1, <3>2, <3>3 DEF Outputs, Copies
  <2>2. ASSUME NEW t \in Outputs, NEW c \in Q(t)
        PROVE  c \in Holders(b)
    <3>1. PICK it \in ToSet(queue[t]) : it.buffer = b /\ c = <<t, it>>
      BY DEF Pointing
    <3>2. it \in Items
      BY InQueueType
    <3>3. c \in QueuedItems(t)
      BY <3>1 DEF QueuedItems
    <3>4. c \in Copies
      BY <3>3 DEF Copies, Outputs
    <3>5. c[2] = it
      BY <3>1
    <3>6. QED  BY <3>1, <3>2, <3>4, <3>5 DEF Holders
  <2>3. ASSUME NEW c \in One("out", outItem) \cup One("recorder", recItem)
                   \cup One("net", netItem) \cup One("gray", grayItem)
        PROVE  c \in Holders(b)
    <3>1. c \in {<<"out", outItem>>, <<"recorder", recItem>>,
                 <<"net", netItem>>, <<"gray", grayItem>>}
      OBVIOUS
    <3>2. c \in Copies
      BY <3>1 DEF Copies
    <3>3. c[2] # NoItem /\ c[2].buffer = b
      OBVIOUS
    <3>4. QED  BY <3>2, <3>3 DEF Holders
  <2>4. "app" \in Outputs /\ "rec" \in Outputs
    BY DEF Outputs
  <2> HIDE DEF Q, One
  <2>5. QED  BY <2>1, <2>2, <2>3, <2>4
<1>4. ASSUME NEW S, NEW T, IsFiniteSet(S), IsFiniteSet(T),
             \A c \in S, d \in T : c[1] # d[1]
      PROVE  /\ IsFiniteSet(S \cup T)
             /\ Cardinality(S \cup T) = Cardinality(S) + Cardinality(T)
  <2>1. S \cap T = {}
    BY <1>4
  <2>2. /\ Cardinality(S \cap T) = 0
        /\ Cardinality(S) \in Nat /\ Cardinality(T) \in Nat
    BY <1>4, <2>1, FS_EmptySet, FS_CardinalityType
  <2>3. /\ IsFiniteSet(S \cup T)
        /\ Cardinality(S \cup T)
              = Cardinality(S) + Cardinality(T) - Cardinality(S \cap T)
    BY <1>4, FS_Union
  <2>4. QED  BY <2>2, <2>3
<1> DEFINE S2 == Q("app") \cup Q("rec")
           S3 == S2 \cup One("out", outItem)
           S4 == S3 \cup One("recorder", recItem)
           S5 == S4 \cup One("net", netItem)
           S6 == S5 \cup One("gray", grayItem)
<1>5. /\ \A c \in Q("app") : c[1] = "app"
      /\ \A c \in Q("rec") : c[1] = "rec"
      /\ \A w, x : \A c \in One(w, x) : c[1] = w
  OBVIOUS
<1>6. "app" \in Outputs /\ "rec" \in Outputs
  BY DEF Outputs
<1> HIDE DEF Q, One
<1>7. /\ IsFiniteSet(S2) /\ \A c \in S2 : c[1] \in {"app", "rec"}
      /\ Cardinality(S2) = InQueue("app", b) + InQueue("rec", b)
  BY <1>1, <1>4, <1>5, <1>6
<1>8. /\ IsFiniteSet(S3) /\ \A c \in S3 : c[1] \in {"app", "rec", "out"}
      /\ Cardinality(S3) = Cardinality(S2) + Refers(outItem, b)
  <2> HIDE DEF S2
  <2> DEFINE O == One("out", outItem)
  <2>1. \A d \in O : d[1] = "out"
    BY <1>5
  <2>2. IsFiniteSet(O) /\ Cardinality(O) = Refers(outItem, b)
    BY <1>2
  <2> HIDE DEF O
  <2>3. \A c \in S2, d \in O : c[1] # d[1]
    BY <2>1, <1>7
  <2>4. IsFiniteSet(S2 \cup O) /\ Cardinality(S2 \cup O) = Cardinality(S2) + Cardinality(O)
    BY <2>2, <2>3, <1>4, <1>7
  <2>5. QED  BY <2>1, <2>2, <2>4, <1>7 DEF O
<1>9. /\ IsFiniteSet(S4)
      /\ \A c \in S4 : c[1] \in {"app", "rec", "out", "recorder"}
      /\ Cardinality(S4) = Cardinality(S3) + Refers(recItem, b)
  <2> HIDE DEF S3
  <2> DEFINE O == One("recorder", recItem)
  <2>1. \A d \in O : d[1] = "recorder"
    BY <1>5
  <2>2. IsFiniteSet(O) /\ Cardinality(O) = Refers(recItem, b)
    BY <1>2
  <2> HIDE DEF O
  <2>3. \A c \in S3, d \in O : c[1] # d[1]
    BY <2>1, <1>8
  <2>4. IsFiniteSet(S3 \cup O) /\ Cardinality(S3 \cup O) = Cardinality(S3) + Cardinality(O)
    BY <2>2, <2>3, <1>4, <1>8
  <2>5. QED  BY <2>1, <2>2, <2>4, <1>8 DEF O
<1>10. /\ IsFiniteSet(S5)
       /\ \A c \in S5 : c[1] \in {"app", "rec", "out", "recorder", "net"}
       /\ Cardinality(S5) = Cardinality(S4) + Refers(netItem, b)
  <2> HIDE DEF S4
  <2> DEFINE O == One("net", netItem)
  <2>1. \A d \in O : d[1] = "net"
    BY <1>5
  <2>2. IsFiniteSet(O) /\ Cardinality(O) = Refers(netItem, b)
    BY <1>2
  <2> HIDE DEF O
  <2>3. \A c \in S4, d \in O : c[1] # d[1]
    BY <2>1, <1>9
  <2>4. IsFiniteSet(S4 \cup O) /\ Cardinality(S4 \cup O) = Cardinality(S4) + Cardinality(O)
    BY <2>2, <2>3, <1>4, <1>9
  <2>5. QED  BY <2>1, <2>2, <2>4, <1>9 DEF O
<1>11. Cardinality(S6) = Cardinality(S5) + Refers(grayItem, b)
  <2> HIDE DEF S5
  <2> DEFINE O == One("gray", grayItem)
  <2>1. \A d \in O : d[1] = "gray"
    BY <1>5
  <2>2. IsFiniteSet(O) /\ Cardinality(O) = Refers(grayItem, b)
    BY <1>2
  <2> HIDE DEF O
  <2>3. \A c \in S5, d \in O : c[1] # d[1]
    BY <2>1, <1>10
  <2>4. IsFiniteSet(S5 \cup O) /\ Cardinality(S5 \cup O) = Cardinality(S5) + Cardinality(O)
    BY <2>2, <2>3, <1>4, <1>10
  <2>5. QED  BY <2>1, <2>2, <2>4, <1>10 DEF O
<1>12. Holders(b) = S6
  BY <1>3
<1> HIDE DEF S2, S3, S4, S5, S6
<1>13. QED  BY <1>7, <1>8, <1>9, <1>10, <1>11, <1>12 DEF Count

-----------------------------------------------------------------------------
(* Types and control.                                                      *)

USE DEF poolVars, fifoVars, cbVars, stopVars, grayVars, recFlags, runVars,
        held, netVars, outVars, recVars, shared, notNet, recAside, threads

(* What the FIFO's operations keep of the shapes.                          *)
LEMMA UnrefShape ==
    ASSUME PoolShape, NEW b \in Buffers, Unref(b)
    PROVE  refCount' \in [Buffers -> Nat]
<1>1. (IF refCount[b] # 0 THEN refCount[b] - 1 ELSE 0) \in Nat
  BY DEF PoolShape
<1>2. QED  BY <1>1 DEF PoolShape, Unref

LEMMA AddRefShape ==
    ASSUME PoolShape, NEW b \in Buffers, AddRef(b)
    PROVE  refCount' \in [Buffers -> Nat]
  BY DEF PoolShape, AddRef

LEMMA GetBufferShape ==
    ASSUME PoolShape, NEW b \in Buffers, NEW au \in Nat, GetBuffer(b, au)
    PROVE  PoolShape'
  BY DEF PoolShape, GetBuffer

LEMMA ResetShape ==
    ASSUME Shapes, NEW t \in Outputs, AddQueue(t) \/ RemoveQueue(t)
    PROVE  FifoShape'
<1>1. ResetQueue(t)
  BY DEF AddQueue, RemoveQueue
<1>2. queue' \in [Outputs -> Seq(Items)]
  BY <1>1 DEF ResetQueue, Shapes, FifoShape
<1>3. leaked' \in [Buffers -> Nat]
  <2>1. leaked' = [b \in Buffers |-> leaked[b] + InQueue(t, b)]
    BY <1>1 DEF ResetQueue, InQueue
  <2>2. \A b \in Buffers : leaked[b] + InQueue(t, b) \in Nat
    BY InQueueType DEF Shapes, FifoShape
  <2>3. QED  BY <2>1, <2>2
<1>4. ASSUME AddQueue(t)
      PROVE  list' \in [first : QueuePtrs, prev : [Outputs -> QueuePtrs],
                        next : [Outputs -> QueuePtrs]]
  BY <1>4 DEF AddQueue, Shapes, FifoShape, QueuePtrs
<1>5. ASSUME RemoveQueue(t)
      PROVE  list' \in [first : QueuePtrs, prev : [Outputs -> QueuePtrs],
                        next : [Outputs -> QueuePtrs]]
  <2> DEFINE before == list.prev[t]
             after  == list.next[t]
  <2>1. before \in QueuePtrs /\ after \in QueuePtrs /\ list.first \in QueuePtrs
        /\ list.prev \in [Outputs -> QueuePtrs]
        /\ list.next \in [Outputs -> QueuePtrs]
    BY DEF Shapes, FifoShape
  <2>2. NoQueue \in QueuePtrs
    BY DEF QueuePtrs
  <2> HIDE DEF before, after
  <2>3. list' = [first |-> IF before = NoQueue /\ after = NoQueue
                           THEN NoQueue ELSE list.first,
                 next |-> [u \in Outputs |-> IF u = t THEN NoQueue
                             ELSE IF u = before THEN after ELSE list.next[u]],
                 prev |-> [u \in Outputs |-> IF u = t THEN NoQueue
                             ELSE IF u = after THEN before ELSE list.prev[u]]]
    BY <1>5 DEF RemoveQueue, before, after
  <2>4. QED  BY <2>1, <2>2, <2>3
<1>6. QED  BY <1>2, <1>3, <1>4, <1>5 DEF FifoShape

LEMMA EnqueueShape ==
    ASSUME FifoShape, NEW t \in Outputs, NEW it \in Items, EnqueueItem(t, it)
    PROVE  queue' \in [Outputs -> Seq(Items)]
  BY DEF EnqueueItem, FifoShape

LEMMA TailShape ==
    ASSUME FifoShape, NEW t \in Outputs, queue[t] # <<>>
    PROVE  /\ Head(queue[t]) \in Items
           /\ [queue EXCEPT ![t] = Tail(@)] \in [Outputs -> Seq(Items)]
<1>1. queue[t] \in Seq(Items)
  BY DEF FifoShape
<1>2. Head(queue[t]) \in Items /\ Tail(queue[t]) \in Seq(Items)
  BY <1>1
<1>3. QED  BY <1>2 DEF FifoShape

(* A group that is left alone keeps its shape.                             *)
LEMMA SameShapes ==
    /\ PoolShape /\ UNCHANGED poolVars => PoolShape'
    /\ FifoShape /\ UNCHANGED fifoVars => FifoShape'
    /\ FlagShape /\ UNCHANGED <<cbVars, stopVars, recFlags, outRunning, outEnding>>
          => FlagShape'
    /\ RunShape /\ UNCHANGED running => RunShape'
    /\ GrayShape /\ UNCHANGED grayVars => GrayShape'
    /\ HeldShape /\ UNCHANGED held => HeldShape'
    /\ ReaderShape /\ UNCHANGED <<outItem, recItem, last>> => ReaderShape'
    /\ BoundShape /\ UNCHANGED bound => BoundShape'
<1>1. PoolShape /\ UNCHANGED poolVars => PoolShape'
  BY DEF PoolShape
<1>2. FifoShape /\ UNCHANGED fifoVars => FifoShape'
  BY DEF FifoShape
<1>3. FlagShape /\ UNCHANGED <<cbVars, stopVars, recFlags, outRunning, outEnding>>
         => FlagShape'
  BY DEF FlagShape
<1>4. RunShape /\ UNCHANGED running => RunShape'
  BY DEF RunShape
<1>5. GrayShape /\ UNCHANGED grayVars => GrayShape'
  BY DEF GrayShape
<1>6. HeldShape /\ UNCHANGED held => HeldShape'
  BY DEF HeldShape
<1>7. ReaderShape /\ UNCHANGED <<outItem, recItem, last>> => ReaderShape'
  BY DEF ReaderShape
<1>8. BoundShape /\ UNCHANGED bound => BoundShape'
  BY DEF BoundShape
<1>9. QED  BY <1>1, <1>2, <1>3, <1>4, <1>5, <1>6, <1>7, <1>8

(* The item being queued, or freed.                                        *)
LEMMA ItemShape ==
    ASSUME Control, Outputting
    PROVE  Item \in Items /\ Item.buffer \in Buffers /\ netItem \in Items
<1> USE NullAssumption
<1>1. netItem # NoItem
  BY DEF Control, NetControl, NetHasNone, Outputting
<1>2. Item \in Items /\ netItem \in Items
  BY <1>1 DEF Control, Shapes, HeldShape, Item, ItemPtrs
<1>3. QED  BY <1>2 DEF Items

LEMMA NetShapes ==
    ASSUME Control, NetStep
    PROVE  Shapes'
<1> USE SameShapes DEF Control, Shapes
<1> USE NullAssumption
<1>1. ASSUME NEW b \in Buffers, NetNewAu(b)
      PROVE  Shapes'
  <2>1. 2 * (bound.au + 1) \in Nat /\ bound.types \subseteq SyncTypes
    BY DEF BoundShape
  <2>2. PoolShape'
    BY <1>1, <2>1, GetBufferShape DEF NetNewAu
  <2>3. HeldShape'
    BY <1>1, <2>1 DEF NetNewAu, HeldShape, Items, ItemPtrs
  <2>4. BoundShape'
    BY <1>1 DEF NetNewAu, BoundShape
  <2>5. QED  BY <1>1, <2>2, <2>3, <2>4 DEF NetNewAu
<1>2. ASSUME NEW b \in Buffers, NetGray(b)
      PROVE  Shapes'
  <2>1. PICK frame \in GrayIdrFrame(b) :
           /\ grayItem' = frame
           /\ IF frame = NoItem THEN UNCHANGED poolVars ELSE GetBuffer(b, frame.au)
    BY <1>2 DEF NetGray
  <2>2. netItem.au - 1 \in Nat
    <3>1. netItem.au = 2 * bound.au /\ bound.au > 0
      BY <1>2 DEF NetGray, GrayNeeded, NetControl, NetHasNone
    <3>2. QED  BY <3>1 DEF BoundShape
  <2>3. frame = NoItem \/ frame \in Items
    BY <2>2 DEF GrayIdrFrame, Items, SyncTypes
  <2>4. PoolShape'
    BY <2>1, <2>3, GetBufferShape DEF Items
  <2>5. HeldShape'
    BY <1>2, <2>1, <2>3 DEF NetGray, HeldShape, ItemPtrs
  <2>6. QED  BY <1>2, <2>4, <2>5 DEF NetGray
<1>3. CASE NetNoBuffer
  BY <1>3 DEF NetNoBuffer, HeldShape, FifoShape
<1>4. CASE NetFlush
  <2>1. target \in Outputs
    BY <1>4 DEF NetFlush, HeldShape, QueuePtrs
  <2>2. CASE queue[target] = <<>>
    BY <1>4, <2>1, <2>2 DEF NetFlush, HeldShape, PoolShape, FifoShape
  <2>3. CASE queue[target] # <<>>
    <3>1. Head(queue[target]).buffer \in Buffers
      BY <2>1, <2>3, TailShape DEF Items
    <3>2. PoolShape'
      BY <1>4, <2>3, <3>1, UnrefShape DEF NetFlush, PoolShape
    <3>3. FifoShape'
      BY <1>4, <2>1, <2>3, TailShape DEF NetFlush, FifoShape
    <3>4. QED  BY <1>4, <2>3, <3>2, <3>3 DEF NetFlush
  <2>4. QED  BY <2>2, <2>3
<1>5. CASE NetFlushed
  BY <1>5 DEF NetFlushed, HeldShape, QueuePtrs, Outputs
<1>6. CASE NetSync \/ NetFiltered
  BY ZenonT(60), <1>6 DEF NetSync, NetFiltered, FlagShape
<1>7. CASE NetCreateRecorder
  BY <1>7 DEF NetCreateRecorder, CreateRecorder, FlagShape
<1>8. CASE NetAddRecorder
  BY <1>8, ResetShape DEF NetAddRecorder, Outputs
<1>9. CASE NetRunRecorder
  BY ZenonT(60), <1>9 DEF NetRunRecorder, RunRecorder, AskGray, Outputs, RunShape,
     GrayShape, FlagShape
<1>10. CASE NetEnterSpsPps \/ NetLeaveSpsPps
  BY ZenonT(60), <1>10 DEF NetEnterSpsPps, NetLeaveSpsPps, EndCallback, FlagShape
<1>11. CASE NetNoGray \/ NetAccept
  BY <1>11 DEF NetNoGray, NetAccept, GrayShape
<1>12. CASE NetSkip
  BY <1>12 DEF NetSkip, HeldShape, QueuePtrs, Outputs, Other
<1>13. CASE NetEnqueue
  <2>1. target \in Outputs /\ Outputting
    BY <1>13 DEF NetEnqueue, NetControl, Outputting, Flushing
  <2>2. PoolShape'
    BY <1>13, <2>1, ItemShape, AddRefShape DEF NetEnqueue, PoolShape
  <2>3. FifoShape'
    BY <1>13, <2>1, ItemShape, EnqueueShape DEF NetEnqueue, FifoShape
  <2>4. QED  BY <1>13, <2>2, <2>3 DEF NetEnqueue
<1>14. CASE NetSignal
  <2>1. HeldShape'
    BY <1>14 DEF NetSignal, HeldShape, Other, QueuePtrs, Outputs
  <2>2. GrayShape'
    BY <1>14 DEF NetSignal, GrayShape
  <2>3. QED  BY <1>14, <2>1, <2>2 DEF NetSignal
<1>15. CASE NetFree
  <2>1. PoolShape'
    BY <1>15, ItemShape, UnrefShape DEF NetFree, Outputting, PoolShape
  <2>2. HeldShape'
    BY <1>15 DEF NetFree, HeldShape, ItemPtrs
  <2>3. QED  BY <1>15, <2>1, <2>2 DEF NetFree
<1>16. CASE NetEnd
  BY <1>16 DEF NetEnd
<1>17. QED
  BY <1>1, <1>2, <1>3, <1>4, <1>5, <1>6, <1>7, <1>8, <1>9, <1>10, <1>11,
     <1>12, <1>13, <1>14, <1>15, <1>16
  DEF NetStep

LEMMA OutShapes ==
    ASSUME Control, OutStep
    PROVE  Shapes'
<1> USE SameShapes DEF Control, Shapes
<1> USE NullAssumption
<1>1. "app" \in Outputs
  BY DEF Outputs
<1>2. ASSUME OutDequeue("check"), UNCHANGED <<list, leaked, recItem, last>>
      PROVE  FifoShape' /\ ReaderShape'
  <2>1. CASE queue["app"] = <<>>
    BY <1>2, <2>1 DEF OutDequeue, FifoShape, ReaderShape, ItemPtrs
  <2>2. CASE queue["app"] # <<>>
    <3>1. FifoShape'
      BY <1>1, <1>2, <2>2, TailShape DEF OutDequeue, FifoShape
    <3>2. ReaderShape'
      BY <1>1, <1>2, <2>2, TailShape DEF OutDequeue, ReaderShape, ItemPtrs
    <3>3. QED  BY <3>1, <3>2
  <2>3. QED  BY <2>1, <2>2
<1>3. CASE OutBegin \/ OutCheck
  BY <1>1, <1>3 DEF OutBegin, OutCheck, FlagShape, RunShape
<1>4. CASE OutLoop
  BY <1>2, <1>4 DEF OutLoop
<1>5. CASE OutEnterGet \/ OutNoBuffer
  BY ZenonT(60), <1>5 DEF OutEnterGet, OutNoBuffer, EndCallback, FlagShape
<1>6. CASE OutEnterReady
  <2>1. outItem \in Items
    BY <1>6 DEF OutEnterReady, OutControl, ReaderShape, ItemPtrs
  <2>2. content[outItem.buffer] \in Nat
    BY <2>1 DEF Items, PoolShape
  <2>3. QED  BY <1>6, <2>2 DEF OutEnterReady, ReaderShape
<1>7. CASE OutLeaveReady
  <2>1. BoundShape'
    BY <1>7 DEF OutLeaveReady, BoundShape
  <2>2. FlagShape'
    BY <1>7 DEF OutLeaveReady, EndCallback, FlagShape
  <2>3. QED  BY <1>7, <2>1, <2>2 DEF OutLeaveReady
<1>8. CASE OutResync
  BY <1>1, <1>8 DEF OutResync, AskGray, GrayShape
<1>9. CASE OutFree
  <2>1. outItem \in Items
    BY <1>9 DEF OutFree, OutControl, ReaderShape, ItemPtrs
  <2>2. PoolShape'
    BY <1>9, <2>1, UnrefShape DEF OutFree, Items, PoolShape
  <2>3. QED  BY <1>9, <2>2 DEF OutFree, ReaderShape, ItemPtrs
<1>10. CASE OutNext
  BY <1>2, <1>10 DEF OutNext
<1>11. QED
  BY <1>3, <1>4, <1>5, <1>6, <1>7, <1>8, <1>9, <1>10 DEF OutStep

LEMMA RecShapes ==
    ASSUME Control, RecStep
    PROVE  Shapes'
<1> USE SameShapes DEF Control, Shapes
<1> USE NullAssumption
<1>1. "rec" \in Outputs
  BY DEF Outputs
<1>2. CASE RecCheck
  BY <1>2 DEF RecCheck
<1>3. CASE RecDequeue
  <2>1. CASE queue["rec"] = <<>>
    BY <1>3, <2>1 DEF RecDequeue
  <2>2. CASE queue["rec"] # <<>>
    <3>1. FifoShape'
      BY <1>1, <1>3, <2>2, TailShape DEF RecDequeue, FifoShape
    <3>2. ReaderShape'
      BY <1>1, <1>3, <2>2, TailShape DEF RecDequeue, ReaderShape, ItemPtrs
    <3>3. QED  BY <1>3, <3>1, <3>2 DEF RecDequeue
  <2>3. QED  BY <2>1, <2>2
<1>4. CASE RecRecord
  <2>1. recItem \in Items
    BY <1>4 DEF RecRecord, RecControl, ReaderShape, ItemPtrs
  <2>2. PoolShape'
    BY <1>4, <2>1, UnrefShape DEF RecRecord, Items, PoolShape
  <2>3. content[recItem.buffer] \in Nat
    BY <2>1 DEF Items, PoolShape
  <2>4. ReaderShape'
    BY <1>4, <2>3 DEF RecRecord, ReaderShape, ItemPtrs
  <2>5. QED  BY <1>4, <2>2, <2>4 DEF RecRecord
<1>5. QED  BY <1>2, <1>3, <1>4 DEF RecStep

LEMMA AppShapes ==
    ASSUME Control, AppCall \/ AppStep
    PROVE  Shapes'
<1> USE SameShapes DEF Control, Shapes
<1>1. "app" \in Outputs /\ "rec" \in Outputs
  BY DEF Outputs
<1>2. CASE StartAppOutput
  <2>1. BoundShape'
    BY <1>2 DEF StartAppOutput, BoundShape
  <2>2. QED  BY <1>1, <1>2, <2>1, ResetShape DEF StartAppOutput
<1>3. CASE StopAppOutput
  BY <1>3 DEF StopAppOutput, RunShape
<1>4. CASE StartRecorder
  BY <1>4 DEF StartRecorder, BoundShape
<1>5. CASE StopRecorder
  <2>1. FlagShape'
    BY <1>5 DEF StopRecorder, EndRecorder, FlagShape, cbVars, stopVars
  <2>2. QED  BY <1>5, <2>1 DEF StopRecorder, EndRecorder
<1>6. CASE Stop
  <2>1. CASE recorder /\ EndRecorder("stopRec")
    <3>1. FlagShape'
      BY <2>1 DEF EndRecorder, FlagShape, cbVars, stopVars
    <3>2. QED  BY <2>1, <3>1 DEF EndRecorder
  <2>2. CASE UNCHANGED shared /\ UNCHANGED threads /\ UNCHANGED bound
    BY <2>2
  <2>3. QED  BY <1>6, <2>1, <2>2 DEF Stop
<1>7. CASE AppSleep
  BY <1>7 DEF AppSleep
<1>8. CASE StartRegister \/ StartEnterSpsPps \/ StartLeaveSpsPps
  <2>1. FlagShape'
    BY ZenonT(60), <1>8 DEF StartRegister, StartEnterSpsPps, StartLeaveSpsPps, FlagShape
  <2>2. QED
    BY <1>8, <2>1 DEF StartRegister, StartEnterSpsPps, StartLeaveSpsPps
<1>9. CASE StartRun
  BY <1>1, <1>9 DEF StartRun, AskGray, RunShape, GrayShape
<1>10. CASE StopUnregister \/ RecorderPending \/ StopNetwork
  <2>1. CASE StopUnregister
    <3>1. FlagShape'
      BY <2>1 DEF StopUnregister, FlagShape
    <3>2. QED  BY <2>1, <3>1 DEF StopUnregister
  <2>2. CASE RecorderPending
    <3>1. FlagShape'
      BY <2>2 DEF RecorderPending, FlagShape
    <3>2. QED  BY <2>2, <3>1 DEF RecorderPending
  <2>3. CASE StopNetwork
    <3>1. FlagShape'
      BY <2>3 DEF StopNetwork, FlagShape, cbVars
    <3>2. QED  BY <2>3, <3>1 DEF StopNetwork
  <2>4. QED  BY <1>10, <2>1, <2>2, <2>3
<1>11. CASE StopRemove \/ AppAddRecorder \/ RecorderRemove
  BY <1>1, <1>11, ResetShape DEF StopRemove, AppAddRecorder, RecorderRemove
<1>12. CASE AppCreateRecorder
  BY <1>12 DEF AppCreateRecorder, CreateRecorder, FlagShape
<1>13. CASE AppRunRecorder
  BY <1>1, <1>13 DEF AppRunRecorder, RunRecorder, AskGray, RunShape, GrayShape
<1>14. CASE RecorderStopped
  BY <1>14 DEF RecorderStopped, RunShape
<1>15. CASE FreeRecorder
  BY <1>15 DEF FreeRecorder, FlagShape
<1>16. CASE StopThread \/ StopSignal
  BY ZenonT(60), <1>16 DEF StopThread, StopSignal, FlagShape
<1>17. QED
  BY <1>2, <1>3, <1>4, <1>5, <1>6, <1>7, <1>8, <1>9, <1>10, <1>11, <1>12,
     <1>13, <1>14, <1>15, <1>16
  DEF AppCall, AppStep

LEMMA ShapesNext ==
    ASSUME Control, [Next]_vars
    PROVE  Shapes'
<1>1. CASE UNCHANGED vars
  BY <1>1, SameShapes DEF vars, Control, Shapes
<1>2. QED  BY <1>1, NetShapes, OutShapes, RecShapes, AppShapes DEF Next

LEMMA ShapesInit ==
    ASSUME Init
    PROVE  Shapes
<1> USE NullAssumption
<1>1. PoolShape /\ RunShape
  BY DEF Init, PoolShape, RunShape
<1>2. FifoShape
  BY DEF Init, FifoShape, QueuePtrs
<1>3. HeldShape /\ ReaderShape /\ GrayShape
  BY DEF Init, HeldShape, ReaderShape, GrayShape, ItemPtrs, QueuePtrs, Outputs
<1>3a. PICK s \in Scenarios :
          \E auto \in {FALSE, s.recordings > 0} : AutoStartRecorder(s, auto)
  BY DEF Init
<1>4. PICK auto \in {FALSE, s.recordings > 0} : AutoStartRecorder(s, auto)
  BY <1>3a
<1>5. s \in [aus : Nat, pool : SUBSET Buffers, starts : Nat,
             recordings : Nat, resyncs : Nat, gray : BOOLEAN,
             types : SUBSET SyncTypes, stop : BOOLEAN, au : {0}]
  BY BoundAssumption
<1>6. auto \in BOOLEAN /\ (auto => s.recordings > 0)
  <2> DEFINE more == s.recordings > 0
  <2>1. auto \in {FALSE, more}
    OBVIOUS
  <2>2. more \in BOOLEAN
    BY <1>5
  <2> HIDE DEF more
  <2>3. CASE auto = FALSE
    BY <2>3
  <2>4. CASE auto = more
    <3>1. auto \in BOOLEAN
      BY <2>2, <2>4
    <3>2. auto => more
      BY <2>4
    <3>3. QED  BY <3>1, <3>2 DEF more
  <2>5. QED  BY <2>1, <2>3, <2>4
<1>7. BoundShape
  <2>1. (IF auto THEN s.recordings - 1 ELSE s.recordings) \in Nat
    BY <1>5, <1>6
  <2>2. bound = [s EXCEPT !.recordings =
                   IF auto THEN s.recordings - 1 ELSE s.recordings]
    BY <1>4 DEF AutoStartRecorder
  <2>3. QED  BY <1>5, <2>1, <2>2 DEF BoundShape
<1>8. FlagShape
  BY <1>4, <1>6 DEF AutoStartRecorder, Init, FlagShape
<1>9. QED  BY <1>1, <1>2, <1>3, <1>7, <1>8 DEF Shapes

(* The threads other than the network's leave its variables alone.         *)
LEMMA NetAlone ==
    ASSUME Shapes, OutStep \/ RecStep \/ AppCall \/ AppStep \/ UNCHANGED vars
    PROVE  UNCHANGED netVars /\ bound'.au = bound.au
<1>1. CASE OutStep
  <2>1. CASE OutLeaveReady
    BY <2>1 DEF OutLeaveReady, Shapes, BoundShape
  <2>2. CASE ~OutLeaveReady
    BY <1>1, <2>2
    DEF OutStep, OutBegin, OutLoop, OutEnterGet, OutNoBuffer, OutEnterReady,
        OutResync, OutFree, OutNext, OutCheck
  <2>3. QED  BY <2>1, <2>2
<1>2. CASE RecStep
  BY <1>2 DEF RecStep, RecCheck, RecDequeue, RecRecord
<1>3. CASE AppCall
  <2>1. CASE StartAppOutput \/ StartRecorder
    BY <2>1 DEF StartAppOutput, StartRecorder, Shapes, BoundShape
  <2>2. CASE StopAppOutput \/ StopRecorder \/ Stop
    BY <2>2 DEF StopAppOutput, StopRecorder, Stop, EndRecorder
  <2>3. QED  BY <1>3, <2>1, <2>2 DEF AppCall
<1>4. CASE AppStep
  BY <1>4
  DEF AppStep, AppSleep, StartRegister, StartEnterSpsPps, StartLeaveSpsPps,
      StartRun, StopUnregister, StopRemove, RecorderPending,
      AppCreateRecorder, AppAddRecorder, AppRunRecorder, RecorderStopped,
      FreeRecorder, RecorderRemove, StopNetwork, StopThread, StopSignal
<1>5. CASE UNCHANGED vars
  BY <1>5 DEF vars
<1>6. QED  BY <1>1, <1>2, <1>3, <1>4, <1>5

LEMMA NetControlNext ==
    ASSUME Control, [Next]_vars
    PROVE  NetControl'
<1> USE NullAssumption DEF NetControl, NetHasNone, Flushing, Outputting
<1>0. NetControl
  BY DEF Control
<1>1. CASE UNCHANGED netVars /\ bound'.au = bound.au
  BY <1>0, <1>1
<1>2. CASE NetStep
  <2>1. ASSUME NEW b \in Buffers, NetNewAu(b)
        PROVE  NetControl'
    <3>1. PICK s \in bound.types :
             netItem' = [au |-> 2 * (bound.au + 1), buffer |-> b, sync |-> s]
      BY <2>1 DEF NetNewAu
    <3>2. bound.au \in Nat /\ bound'.au = bound.au + 1 /\ bound.types \subseteq SyncTypes
      BY <2>1 DEF NetNewAu, Control, Shapes, BoundShape
    <3>3. netItem' \in Items /\ netItem'.au = 2 * bound'.au
      BY <3>1, <3>2 DEF Items
    <3>4. grayItem' = NoItem /\ target' = "app" /\ netPc' = "filter"
      BY <1>0, <2>1 DEF NetNewAu
    <3>5. QED  BY <3>2, <3>3, <3>4 DEF Outputs
  <2>2. ASSUME NEW b \in Buffers, NetGray(b)
        PROVE  NetControl'
    <3>1. /\ netItem' = netItem /\ target' = target /\ bound' = bound
          /\ netPc' = "output" /\ netPc = "gray" /\ netItem.sync = "iFrame"
          /\ grayItem' \in GrayIdrFrame(b)
      BY <2>2 DEF NetGray, GrayNeeded
    <3>2. bound.au \in Nat
      BY DEF Control, Shapes, BoundShape
    <3>3. grayItem' = NoItem \/ (/\ grayItem'.au = 2 * bound.au - 1
                                 /\ grayItem'.sync = "idr")
      BY <1>0, <3>1, <3>2 DEF GrayIdrFrame
    <3>4. QED  BY <1>0, <3>1, <3>2, <3>3
  <2>3. CASE NetNoBuffer
    BY <1>0, <2>3 DEF NetNoBuffer, GrayNeeded
  <2>4. CASE NetFlush
    BY <1>0, <2>4 DEF NetFlush
  <2>5. CASE NetFlushed
    BY <1>0, <2>5 DEF NetFlushed, Outputs
  <2>6. CASE NetSync \/ NetFiltered \/ NetNoGray \/ NetAccept
    BY <1>0, <2>6 DEF NetSync, NetFiltered, NetNoGray, NetAccept
  <2>7. CASE NetCreateRecorder \/ NetAddRecorder \/ NetRunRecorder
    BY <1>0, <2>7 DEF NetCreateRecorder, NetAddRecorder, NetRunRecorder
  <2>8. CASE NetEnterSpsPps \/ NetLeaveSpsPps
    BY <1>0, <2>8 DEF NetEnterSpsPps, NetLeaveSpsPps
  <2>9. CASE NetSkip \/ NetSignal
    BY <1>0, <2>9 DEF NetSkip, NetSignal, AfterOutput, Other, Outputs
  <2>10. CASE NetEnqueue
    BY <1>0, <2>10 DEF NetEnqueue
  <2>11. CASE NetFree
    BY <1>0, <2>11 DEF NetFree
  <2>12. CASE NetEnd
    BY <1>0, <2>12 DEF NetEnd
  <2>13. QED
    BY <1>2, <2>1, <2>2, <2>3, <2>4, <2>5, <2>6, <2>7, <2>8, <2>9, <2>10,
       <2>11, <2>12
    DEF NetStep
<1>3. QED  BY <1>1, <1>2, NetAlone DEF Next, Control

LEMMA OutControlNext ==
    ASSUME Control, [Next]_vars
    PROVE  OutControl'
<1> USE NullAssumption DEF OutControl
<1>0. OutControl
  BY DEF Control
<1>1. CASE UNCHANGED <<outPc, outItem>>
  BY <1>0, <1>1
<1>2. CASE UNCHANGED outItem /\ SignalOutput
  BY <1>0, <1>2 DEF SignalOutput
<1>3. ASSUME OutDequeue("check"), outItem = NoItem
      PROVE  OutControl'
  <2>1. queue["app"] # <<>> => Head(queue["app"]) \in Items
    BY TailShape DEF Control, Shapes, Outputs
  <2>2. QED  BY <1>3, <2>1 DEF OutDequeue
<1>4. CASE NetStep
  <2>1. CASE NetSignal
    BY <1>1, <1>2, <2>1 DEF NetSignal
  <2>2. CASE ~NetSignal
    BY <1>1, <1>4, <2>2
    DEF NetStep, NetNewAu, NetGray, NetNoBuffer, NetFlush, NetFlushed, NetSync,
        NetFiltered, NetCreateRecorder, NetAddRecorder, NetRunRecorder,
        NetEnterSpsPps, NetLeaveSpsPps, NetNoGray, NetAccept, NetSkip,
        NetEnqueue, NetFree, NetEnd
  <2>3. QED  BY <2>1, <2>2
<1>5. CASE OutStep
  <2>1. CASE OutBegin \/ OutCheck \/ OutEnterGet \/ OutNoBuffer
    BY <1>0, <2>1 DEF OutBegin, OutCheck, OutEnterGet, OutNoBuffer
  <2>2. CASE OutEnterReady \/ OutLeaveReady \/ OutResync \/ OutFree
    BY <1>0, <2>2 DEF OutEnterReady, OutLeaveReady, OutResync, OutFree
  <2>3. CASE OutLoop \/ OutNext
    BY <1>0, <1>3, <2>3 DEF OutLoop, OutNext
  <2>4. QED  BY <1>5, <2>1, <2>2, <2>3 DEF OutStep
<1>6. CASE RecStep
  BY <1>1, <1>6 DEF RecStep, RecCheck, RecDequeue, RecRecord
<1>7. CASE AppCall
  BY <1>1, <1>7 DEF AppCall, StartAppOutput, StopAppOutput, StartRecorder,
     StopRecorder, Stop, EndRecorder
<1>8. CASE AppStep
  <2>1. CASE StopSignal
    BY <1>2, <2>1 DEF StopSignal
  <2>2. CASE ~StopSignal
    BY <1>1, <1>8, <2>2
    DEF AppStep, AppSleep, StartRegister, StartEnterSpsPps, StartLeaveSpsPps,
        StartRun, StopUnregister, StopRemove, RecorderPending,
        AppCreateRecorder, AppAddRecorder, AppRunRecorder, RecorderStopped,
        FreeRecorder, RecorderRemove, StopNetwork, StopThread
  <2>3. QED  BY <2>1, <2>2
<1>9. CASE UNCHANGED vars
  BY <1>1, <1>9 DEF vars
<1>10. QED  BY <1>4, <1>5, <1>6, <1>7, <1>8, <1>9 DEF Next

LEMMA RecControlNext ==
    ASSUME Control, [Next]_vars
    PROVE  RecControl'
<1> USE NullAssumption DEF RecControl
<1>0. RecControl /\ FlagShape
  BY DEF Control, Shapes
<1>1. CASE /\ UNCHANGED <<recVars, recorder, startPending, sync, appPc>>
           /\ netPc' \notin {"recInit", "recAdd", "recRun"}
           /\ netPc \notin {"recInit", "recAdd", "recRun"}
  BY <1>0, <1>1
<1>2. CASE UNCHANGED <<recVars, recorder, startPending, sync, netPc>>
           /\ (appPc' = appPc \/ appPc' \notin {"recInit", "recAdd", "recRun",
                                                "recPending"})
  BY <1>0, <1>2
<1>3. CASE NetStep
  <2>1. ASSUME NEW b \in Buffers, NetNewAu(b) \/ NetGray(b)
        PROVE  RecControl'
    BY <1>1, <2>1 DEF NetNewAu, NetGray, GrayNeeded
  <2>2. CASE NetNoBuffer \/ NetFlush \/ NetFlushed \/ NetFiltered
    BY <1>1, <2>2
    DEF NetNoBuffer, NetFlush, NetFlushed, NetFiltered, GrayNeeded
  <2>3. CASE NetSync
    BY <1>0, <2>3 DEF NetSync, FlagShape
  <2>4. CASE NetCreateRecorder
    BY <1>0, <2>4 DEF NetCreateRecorder, CreateRecorder, FlagShape
  <2>5. CASE NetAddRecorder
    BY <1>0, <2>5 DEF NetAddRecorder
  <2>6. CASE NetRunRecorder
    BY <1>0, <2>6 DEF NetRunRecorder
  <2>7. CASE NetEnterSpsPps
    BY <1>1, <2>7 DEF NetEnterSpsPps
  <2>8. CASE NetLeaveSpsPps
    <3>1. appPc' = appPc \/ appPc' \in {"startWait", "stopWait"}
      BY <2>8 DEF NetLeaveSpsPps, EndCallback, SignalCallback
    <3>2. QED  BY <1>0, <2>8, <3>1 DEF NetLeaveSpsPps
  <2>9. CASE NetNoGray \/ NetAccept \/ NetSkip \/ NetEnqueue
    BY <1>1, <2>9 DEF NetNoGray, NetAccept, NetSkip, NetEnqueue, AfterOutput
  <2>10. CASE NetSignal \/ NetFree \/ NetEnd
    BY <1>1, <2>10 DEF NetSignal, NetFree, NetEnd, AfterOutput
  <2>11. QED
    BY <1>3, <2>1, <2>2, <2>3, <2>4, <2>5, <2>6, <2>7, <2>8, <2>9, <2>10
    DEF NetStep
<1>4. CASE OutStep
  <2>1. CASE OutNoBuffer \/ OutLeaveReady
    <3>1. appPc' = appPc \/ appPc' \in {"startWait", "stopWait"}
      BY <2>1 DEF OutNoBuffer, OutLeaveReady, EndCallback, SignalCallback
    <3>2. QED  BY <1>2, <2>1, <3>1 DEF OutNoBuffer, OutLeaveReady
  <2>2. CASE ~(OutNoBuffer \/ OutLeaveReady)
    BY <1>2, <1>4, <2>2
    DEF OutStep, OutBegin, OutLoop, OutEnterGet, OutEnterReady, OutResync,
        OutFree, OutNext, OutCheck
  <2>3. QED  BY <2>1, <2>2
<1>5. CASE RecStep
  <2>1. queue["rec"] # <<>> => Head(queue["rec"]) \in Items
    BY TailShape DEF Control, Shapes, Outputs
  <2>2. CASE RecCheck
    BY <1>0, <2>2 DEF RecCheck
  <2>3. CASE RecDequeue
    BY <1>0, <2>1, <2>3 DEF RecDequeue
  <2>4. CASE RecRecord
    BY <1>0, <2>4 DEF RecRecord
  <2>5. QED  BY <1>5, <2>2, <2>3, <2>4 DEF RecStep
<1>6. CASE AppCall
  <2>1. CASE StartRecorder
    BY <1>0, <2>1 DEF StartRecorder, StartingRecorder
  <2>2. CASE StartAppOutput \/ StopAppOutput \/ StopRecorder \/ Stop
    BY <1>2, <2>2
    DEF StartAppOutput, StopAppOutput, StopRecorder, Stop, EndRecorder
  <2>3. QED  BY <1>6, <2>1, <2>2 DEF AppCall
<1>7. CASE AppStep
  <2>1. CASE RecorderPending
    BY <1>0, <2>1 DEF RecorderPending
  <2>2. CASE AppCreateRecorder
    BY <1>0, <2>2 DEF AppCreateRecorder, CreateRecorder
  <2>3. CASE AppAddRecorder \/ AppRunRecorder
    BY <1>0, <2>3 DEF AppAddRecorder, AppRunRecorder
  <2>4. CASE FreeRecorder
    BY <1>0, <2>4 DEF FreeRecorder
  <2>5. CASE \/ AppSleep \/ StartRegister \/ StartEnterSpsPps
             \/ StartLeaveSpsPps \/ StartRun \/ StopUnregister \/ StopRemove
    BY <1>2, <2>5
    DEF AppSleep, StartRegister, StartEnterSpsPps, StartLeaveSpsPps, StartRun,
        StopUnregister, StopRemove
  <2>6. CASE \/ RecorderStopped \/ RecorderRemove \/ StopNetwork
             \/ StopThread \/ StopSignal
    BY <1>2, <2>6
    DEF RecorderStopped, RecorderRemove, StopNetwork, StopThread, StopSignal
  <2>7. QED
    BY <1>7, <2>1, <2>2, <2>3, <2>4, <2>5, <2>6 DEF AppStep
<1>8. CASE UNCHANGED vars
  BY <1>2, <1>8 DEF vars
<1>9. QED  BY <1>3, <1>4, <1>5, <1>6, <1>7, <1>8 DEF Next

LEMMA ControlInit ==
    ASSUME Init
    PROVE  Control
<1>1. NetControl
  BY DEF Init, NetControl, NetHasNone, Outputting, Outputs
<1>2. OutControl
  BY DEF Init, OutControl
<1>3. RecControl
  BY DEF Init, RecControl
<1>4. QED  BY <1>1, <1>2, <1>3, ShapesInit DEF Control

(* Types and control are invariant by themselves.                          *)
LEMMA ControlNext ==
    ASSUME Control, [Next]_vars
    PROVE  Control'
  BY ShapesNext, NetControlNext, OutControlNext, RecControlNext DEF Control

-----------------------------------------------------------------------------
(* What one step does to the items and the buffers.                        *)

itemVars == <<queue, outItem, recItem, netItem, grayItem, leaked>>

TakesUp(t) ==
    /\ queue[t] # <<>> /\ queue' = [queue EXCEPT ![t] = Tail(@)]
    /\ Taken(t) = NoItem
    /\ outItem' = IF t = "app" THEN Head(queue[t]) ELSE outItem
    /\ recItem' = IF t = "rec" THEN Head(queue[t]) ELSE recItem
    /\ UNCHANGED <<poolVars, leaked, netItem, grayItem, last>>

Resets(t) ==
    /\ ResetQueue(t)
    /\ UNCHANGED <<poolVars, outItem, recItem, netItem, grayItem, last>>

DataEffect ==
    \/ UNCHANGED <<poolVars, itemVars, last>>
    \/ \E b \in Buffers : NetNewAu(b) \/ NetGray(b)
    \/ NetFlush /\ queue[target] # <<>> /\ target \in Outputs
    \/ NetEnqueue \/ NetFree \/ OutEnterReady \/ OutFree \/ RecRecord
    \/ \E t \in Outputs : TakesUp(t) \/ Resets(t)

LEMMA DataEffectNext ==
    ASSUME Control, [Next]_vars
    PROVE  DataEffect
<1> USE DEF itemVars
<1>1. "app" \in Outputs /\ "rec" \in Outputs /\ "app" # "rec"
  BY DEF Outputs
<1>2. CASE NetStep
  <2>1. ASSUME NEW b \in Buffers, NetNewAu(b) \/ NetGray(b)
        PROVE  DataEffect
    BY <2>1 DEF DataEffect
  <2>2. CASE NetFlush
    <3>1. target \in Outputs
      BY <2>2 DEF NetFlush, Control, Shapes, HeldShape, QueuePtrs
    <3>2. QED  BY <2>2, <3>1 DEF NetFlush, DataEffect
  <2>3. CASE NetEnqueue \/ NetFree
    BY <2>3 DEF DataEffect
  <2>4. CASE NetAddRecorder
    BY <1>1, <2>4 DEF NetAddRecorder, AddQueue, DataEffect, Resets
  <2>5. CASE \/ NetNoBuffer \/ NetFlushed \/ NetSync \/ NetFiltered
             \/ NetCreateRecorder \/ NetRunRecorder
    BY <2>5 DEF DataEffect, NetNoBuffer, NetFlushed, NetSync, NetFiltered,
       NetCreateRecorder, NetRunRecorder, CreateRecorder
  <2>6. CASE \/ NetEnterSpsPps \/ NetLeaveSpsPps \/ NetNoGray \/ NetAccept
             \/ NetSkip \/ NetSignal \/ NetEnd
    BY <2>6 DEF DataEffect, NetEnterSpsPps, NetLeaveSpsPps, NetNoGray,
       NetAccept, NetSkip, NetSignal, NetEnd
  <2>7. QED  BY <1>2, <2>1, <2>2, <2>3, <2>4, <2>5, <2>6 DEF NetStep
<1>3. CASE OutStep
  <2>1. CASE OutEnterReady \/ OutFree
    BY <2>1 DEF DataEffect
  <2>2. ASSUME OutDequeue("check"), outItem = NoItem,
               UNCHANGED <<poolVars, leaked, recItem, netItem, grayItem, last>>
        PROVE  DataEffect
    <3>1. CASE queue["app"] = <<>>
      BY <2>2, <3>1 DEF OutDequeue, DataEffect
    <3>2. CASE queue["app"] # <<>>
      <4>1. TakesUp("app")
        BY <1>1, <2>2, <3>2 DEF OutDequeue, TakesUp, Taken
      <4>2. QED  BY <1>1, <4>1 DEF DataEffect
    <3>3. QED  BY <3>1, <3>2
  <2>3. CASE OutLoop \/ OutNext
    <3>1. outItem = NoItem
      BY <2>3 DEF OutLoop, OutNext, Control, OutControl
    <3>2. CASE OutNext \/ OutDequeue("check")
      BY <2>2, <2>3, <3>1, <3>2 DEF OutLoop, OutNext
    <3>3. CASE ~(OutNext \/ OutDequeue("check"))
      BY <2>3, <3>3 DEF OutLoop, DataEffect
    <3>4. QED  BY <3>2, <3>3
  <2>4. CASE OutBegin \/ OutEnterGet \/ OutNoBuffer
    BY <2>4 DEF DataEffect, OutBegin, OutEnterGet, OutNoBuffer
  <2>5. CASE OutLeaveReady \/ OutResync \/ OutCheck
    BY <2>5 DEF DataEffect, OutLeaveReady, OutResync, OutCheck
  <2>6. QED  BY <1>3, <2>1, <2>3, <2>4, <2>5 DEF OutStep
<1>4. CASE RecStep
  <2>1. CASE RecCheck
    BY <2>1 DEF RecCheck, DataEffect
  <2>2. CASE RecDequeue
    <3>1. CASE queue["rec"] = <<>>
      BY <2>2, <3>1 DEF RecDequeue, DataEffect
    <3>2. CASE queue["rec"] # <<>>
      <4>1. recItem = NoItem
        BY <2>2 DEF RecDequeue, Control, RecControl
      <4>2. TakesUp("rec")
        BY <1>1, <2>2, <3>2, <4>1 DEF RecDequeue, TakesUp, Taken
      <4>3. QED  BY <1>1, <4>2 DEF DataEffect
    <3>3. QED  BY <3>1, <3>2
  <2>3. CASE RecRecord
    BY <2>3 DEF DataEffect
  <2>4. QED  BY <1>4, <2>1, <2>2, <2>3 DEF RecStep
<1>5. CASE AppCall
  <2>1. CASE StartAppOutput
    BY <1>1, <2>1 DEF StartAppOutput, AddQueue, DataEffect, Resets
  <2>2. CASE StopAppOutput \/ StartRecorder \/ StopRecorder \/ Stop
    BY <2>2 DEF StopAppOutput, StartRecorder, StopRecorder, Stop, EndRecorder,
       DataEffect
  <2>3. QED  BY <1>5, <2>1, <2>2 DEF AppCall
<1>6. CASE AppStep
  <2>1. CASE AppAddRecorder
    BY <1>1, <2>1 DEF AppAddRecorder, AddQueue, DataEffect, Resets
  <2>2. CASE StopRemove \/ RecorderRemove
    BY <1>1, <2>2 DEF StopRemove, RecorderRemove, RemoveQueue, DataEffect, Resets
  <2>3. CASE \/ AppSleep \/ StartRegister \/ StartEnterSpsPps
             \/ StartLeaveSpsPps \/ StartRun \/ StopUnregister
    BY <2>3 DEF DataEffect, AppSleep, StartRegister, StartEnterSpsPps,
       StartLeaveSpsPps, StartRun, StopUnregister
  <2>4. CASE \/ RecorderPending \/ AppCreateRecorder \/ AppRunRecorder
             \/ RecorderStopped \/ FreeRecorder
    BY <2>4 DEF DataEffect, RecorderPending, AppCreateRecorder, CreateRecorder,
       AppRunRecorder, RecorderStopped, FreeRecorder
  <2>5. CASE StopNetwork \/ StopThread \/ StopSignal
    BY <2>5 DEF DataEffect, StopNetwork, StopThread, StopSignal
  <2>6. QED  BY <1>6, <2>1, <2>2, <2>3, <2>4, <2>5 DEF AppStep
<1>7. CASE UNCHANGED vars
  BY <1>7 DEF vars, DataEffect
<1>8. QED  BY <1>2, <1>3, <1>4, <1>5, <1>6, <1>7 DEF Next

-----------------------------------------------------------------------------
(* The order of access units.                                              *)

LEMMA LimitType ==
    ASSUME Shapes, NEW t
    PROVE  Limit(t) \in Int
<1>1. bound.au \in Nat
  BY DEF Shapes, BoundShape
<1>2. QED  BY <1>1 DEF Limit

(* The limits never fall; an item is queued beyond the one of its queue,   *)
(* which then includes it.                                                 *)
LEMMA LimitGrows ==
    ASSUME Control, [Next]_vars, NEW t \in Outputs
    PROVE  Limit(t) <= Limit(t)'
<1> USE NullAssumption DEF Limit, Outputting
<1> DEFINE n == bound.au
<1>0. n \in Nat /\ n' \in Nat /\ NetControl /\ NetControl' /\ t \in {"app", "rec"}
  BY ShapesNext, NetControlNext DEF Control, Shapes, BoundShape, Outputs
<1>1. CASE UNCHANGED netVars /\ bound'.au = n
  BY <1>0, <1>1 DEF Passed
<1>2. CASE NetStep
  <2>1. ASSUME NEW b \in Buffers, NetNewAu(b)
        PROVE  Limit(t) <= Limit(t)'
    <3>1. netItem = NoItem /\ n' = n + 1 /\ netPc' = "filter"
      BY <1>0, <2>1 DEF NetNewAu, NetControl, NetHasNone, Control, Shapes, BoundShape
    <3>2. QED  BY <1>0, <3>1
  <2>2. CASE ~(\E b \in Buffers : NetNewAu(b))
    <3>1. n' = n
      BY <1>2, <2>2 DEF NetStep, NetGray, NetNoBuffer, NetFlush, NetFlushed,
         NetSync, NetFiltered, NetCreateRecorder, NetAddRecorder,
         NetRunRecorder, NetEnterSpsPps, NetLeaveSpsPps, NetNoGray, NetAccept,
         NetSkip, NetEnqueue, NetSignal, NetFree, NetEnd
    <3>2. CASE NetFree
      BY <1>0, <3>1, <3>2 DEF NetFree, Passed, NetControl, NetHasNone
    <3>3. CASE NetSkip \/ NetSignal
      <4>1. target \in Outputs
        BY <1>0, <3>3 DEF NetSkip, NetSignal, NetControl, Flushing
      <4>2. Passed(t) => Passed(t)'
        BY <3>3, <4>1
        DEF NetSkip, NetSignal, Passed, AfterOutput, Other, Outputs
      <4>3. UNCHANGED <<netItem, grayItem>> /\ Outputting /\ Outputting'
        BY <3>3 DEF NetSkip, NetSignal, AfterOutput
      <4>4. QED  BY <1>0, <3>1, <4>2, <4>3
    <3>4. CASE NetAccept \/ NetEnqueue
      <4>1. Passed(t) => Passed(t)'
        BY <3>4 DEF NetAccept, NetEnqueue, Passed
      <4>2. UNCHANGED <<netItem, grayItem>> /\ Outputting /\ Outputting'
        BY <3>4 DEF NetAccept, NetEnqueue
      <4>3. QED  BY <1>0, <3>1, <4>1, <4>2
    <3>5. CASE ~(NetFree \/ NetSkip \/ NetSignal \/ NetAccept \/ NetEnqueue)
      <4>1. ~Outputting
        BY <1>2, <2>2, <3>5
        DEF NetStep, NetGray, GrayNeeded, NetNoBuffer, NetFlush, NetFlushed,
            NetSync, NetFiltered, NetCreateRecorder, NetAddRecorder,
            NetRunRecorder, NetEnterSpsPps, NetLeaveSpsPps, NetNoGray, NetEnd
      <4>2. netItem' = netItem
        BY <1>2, <2>2, <3>5
        DEF NetStep, NetGray, NetNoBuffer, NetFlush, NetFlushed,
            NetSync, NetFiltered, NetCreateRecorder, NetAddRecorder,
            NetRunRecorder, NetEnterSpsPps, NetLeaveSpsPps, NetNoGray, NetEnd
      <4>3. QED  BY <1>0, <3>1, <4>1, <4>2
    <3>6. QED  BY <3>2, <3>3, <3>4, <3>5
  <2>3. QED  BY <2>1, <2>2
<1>3. QED  BY <1>1, <1>2, NetAlone DEF Next, Control

LEMMA QueuedBeyond ==
    ASSUME Control, NetEnqueue, NEW t, t = target
    PROVE  /\ t \in Outputs /\ Item \in Items
           /\ Limit(t) < Item.au /\ Item.au <= Limit(t)'
<1> USE NullAssumption
<1>1. /\ netPc = "enqueue" /\ netPc' = "signal"
      /\ UNCHANGED <<netItem, grayItem, target, bound>>
  BY DEF NetEnqueue
<1>2. target \in Outputs /\ netItem # NoItem /\ bound.au \in Nat
  BY <1>1 DEF Control, NetControl, Flushing, NetHasNone, Shapes, BoundShape
<1>3. ~Passed(t) /\ Passed(t)'
  BY <1>1, <1>2 DEF Passed, Outputs
<1>4. Item \in Items
  BY <1>1, ItemShape DEF Outputting
<1>5. Item.au = IF grayItem # NoItem THEN 2 * bound.au - 1 ELSE 2 * bound.au
  BY <1>2 DEF Item, Control, NetControl
<1>6. QED
  BY <1>1, <1>2, <1>3, <1>4, <1>5 DEF Limit, Outputting

LEMMA OrderTypes ==
    ASSUME Shapes, NEW t \in Outputs
    PROVE  /\ last[t] \in Nat /\ Bar(t) \in Nat /\ Limit(t) \in Int
           /\ queue[t] \in Seq(Items) /\ Taken(t) \in ItemPtrs
<1>1. last[t] \in Nat /\ Taken(t) \in ItemPtrs
  BY DEF Shapes, ReaderShape, Taken
<1>2. Bar(t) \in Nat
  BY <1>1 DEF Bar, ItemPtrs, Items
<1>3. queue[t] \in Seq(Items)
  BY DEF Shapes, FifoShape
<1>4. QED  BY <1>1, <1>2, <1>3, LimitType

LEMMA OrderTypesPrimed ==
    ASSUME Shapes', NEW t \in Outputs
    PROVE  last'[t] \in Nat /\ Bar(t)' \in Nat /\ Limit(t)' \in Int
<1>1. last'[t] \in Nat /\ Taken(t)' \in ItemPtrs /\ bound'.au \in Nat
  BY DEF Shapes, ReaderShape, Taken, BoundShape
<1>2. Bar(t)' \in Nat
  BY <1>1 DEF Bar, ItemPtrs, Items
<1>3. QED  BY <1>1, <1>2 DEF Limit

LEMMA AuType == \A it \in Items : it.au \in Nat /\ it.au \in Int
  BY DEF Items

LEMMA QueueElements ==
    ASSUME NEW q \in Seq(Items), NEW i \in DOMAIN q
    PROVE  i \in Int /\ q[i] \in Items /\ q[i].au \in Int
<1>1. i \in Int /\ q[i] \in Items
  OBVIOUS
<1>2. QED  BY <1>1, AuType

(* What rises rises between wider bounds; its elements are distinct.       *)
LEMMA RisingWider ==
    ASSUME NEW q \in Seq(Items), NEW b \in Int, NEW l \in Int, NEW c \in Int,
           NEW k \in Int, Rising(q, b, l), c <= b, l <= k
    PROVE  Rising(q, c, k) /\ IsInjective(q)
<1>1. ASSUME NEW i \in DOMAIN q
      PROVE  c < q[i].au /\ q[i].au <= k /\ i \in Int
  <2>1. q[i].au \in Int /\ i \in Int
    BY QueueElements
  <2>2. b < q[i].au /\ q[i].au <= l
    BY DEF Rising
  <2>3. QED  BY <2>1, <2>2
<1>2. Rising(q, c, k)
  BY <1>1 DEF Rising
<1>3. ASSUME NEW i \in DOMAIN q, NEW j \in DOMAIN q, q[i] = q[j]
      PROVE  i = j
  <2>1. i \in Int /\ j \in Int /\ q[i].au \in Int
    BY QueueElements
  <2>2. ~(i < j) /\ ~(j < i)
    BY <1>3, <2>1 DEF Rising
  <2>3. QED  BY <2>1, <2>2
<1>4. QED  BY <1>2, <1>3 DEF IsInjective

LEMMA RisingTail ==
    ASSUME NEW q \in Seq(Items), NEW b \in Int, NEW l \in Int, Rising(q, b, l),
           q # <<>>
    PROVE  /\ Tail(q) \in Seq(Items) /\ Head(q) \in Items
           /\ b < Head(q).au /\ Head(q).au <= l
           /\ Rising(Tail(q), Head(q).au, l)
<1>1. /\ Len(q) \in Nat \ {0} /\ DOMAIN q = 1 .. Len(q) /\ Head(q) = q[1]
      /\ Tail(q) \in Seq(Items) /\ DOMAIN Tail(q) = 1 .. Len(q) - 1
      /\ \A i \in 1 .. Len(q) - 1 : Tail(q)[i] = q[i + 1]
  OBVIOUS
<1>2. 1 \in DOMAIN q /\ Head(q) \in Items
  BY <1>1
<1>3. b < Head(q).au /\ Head(q).au <= l
  BY <1>1, <1>2 DEF Rising
<1>4. ASSUME NEW i \in DOMAIN Tail(q)
      PROVE  Tail(q)[i] = q[i + 1] /\ i + 1 \in DOMAIN q /\ 1 < i + 1 /\ i \in Int
  BY <1>1
<1>5. ASSUME NEW i \in DOMAIN Tail(q)
      PROVE  Head(q).au < Tail(q)[i].au /\ Tail(q)[i].au <= l
  BY <1>1, <1>2, <1>4 DEF Rising
<1>6. ASSUME NEW i \in DOMAIN Tail(q), NEW j \in DOMAIN Tail(q), i < j
      PROVE  Tail(q)[i].au < Tail(q)[j].au
  <2>1. i + 1 < j + 1
    BY <1>4, <1>6
  <2>2. q[i + 1].au < q[j + 1].au
    BY <1>4, <2>1 DEF Rising
  <2>3. QED  BY <1>4, <2>2
<1>7. QED  BY <1>1, <1>2, <1>3, <1>5, <1>6 DEF Rising

LEMMA RisingTailWider ==
    ASSUME NEW q \in Seq(Items), Tail(q) \in Seq(Items), NEW b \in Int,
           NEW l \in Int, NEW c \in Int, NEW k \in Int,
           Rising(Tail(q), b, l), c <= b, l <= k
    PROVE  Rising(Tail(q), c, k)
<1>1. PICK r \in Seq(Items) : r = Tail(q)
  OBVIOUS
<1>2. Rising(r, b, l)
  BY <1>1
<1>3. Rising(r, c, k)
  BY <1>2, RisingWider
<1>4. QED  BY <1>1, <1>3

LEMMA RisingAppend ==
    ASSUME NEW q \in Seq(Items), NEW b \in Int, NEW l \in Int, Rising(q, b, l),
           NEW it \in Items, NEW k \in Int, b <= l, l < it.au, it.au <= k
    PROVE  Rising(Append(q, it), b, k)
<1> DEFINE p == Append(q, it)
<1>1. /\ Len(q) \in Nat /\ DOMAIN q = 1 .. Len(q)
      /\ DOMAIN p = 1 .. Len(q) + 1 /\ p[Len(q) + 1] = it
      /\ \A i \in 1 .. Len(q) : p[i] = q[i]
  OBVIOUS
<1> HIDE DEF p
<1>2. ASSUME NEW i \in DOMAIN p, i # Len(q) + 1
      PROVE  p[i] = q[i] /\ i \in DOMAIN q
  BY <1>1, <1>2
<1>3. it.au \in Int /\ \A i \in DOMAIN q : q[i].au \in Int
  BY AuType, QueueElements
<1>4. ASSUME NEW i \in DOMAIN q
      PROVE  b < q[i].au /\ q[i].au <= l
  BY DEF Rising
<1>5. ASSUME NEW i \in DOMAIN p
      PROVE  b < p[i].au /\ p[i].au <= k
  <2>1. CASE i = Len(q) + 1
    BY <1>1, <1>3, <2>1
  <2>2. CASE i # Len(q) + 1
    <3>1. p[i] = q[i] /\ i \in DOMAIN q
      BY <1>2, <2>2
    <3>2. b < q[i].au /\ q[i].au <= l /\ q[i].au \in Int
      BY <1>3, <1>4, <3>1
    <3>3. QED  BY <1>3, <3>1, <3>2
  <2>3. QED  BY <2>1, <2>2
<1>6. ASSUME NEW i \in DOMAIN p, NEW j \in DOMAIN p, i < j
      PROVE  p[i].au < p[j].au
  <2>1. i # Len(q) + 1
    BY <1>1, <1>6
  <2>2. p[i] = q[i] /\ i \in DOMAIN q
    BY <1>2, <2>1
  <2>3. CASE j = Len(q) + 1
    <3>1. q[i].au <= l /\ q[i].au \in Int
      BY <1>3, <1>4, <2>2
    <3>2. QED  BY <1>1, <1>3, <2>2, <2>3, <3>1
  <2>4. CASE j # Len(q) + 1
    <3>1. p[j] = q[j] /\ j \in DOMAIN q
      BY <1>2, <2>4
    <3>2. q[i].au < q[j].au
      BY <1>6, <2>2, <3>1 DEF Rising
    <3>3. QED  BY <2>2, <3>1, <3>2
  <2>5. QED  BY <2>3, <2>4
<1>7. QED  BY <1>5, <1>6 DEF Rising, p

(* The queue of t is as it was or has lost its head, or all; the bar is    *)
(* not above what is left.                                                 *)
LEMMA OrderKept ==
    ASSUME Shapes, Shapes', NEW t \in Outputs, OrderedAt(t),
           Limit(t) <= Limit(t)', last'[t] <= Bar(t)', Bar(t)' <= Bar(t),
           \/ queue'[t] = queue[t]
           \/ queue'[t] = <<>>
           \/ queue[t] # <<>> /\ queue'[t] = Tail(queue[t])
    PROVE  OrderedAt(t)'
<1> DEFINE q == queue[t]
<1>1. /\ Bar(t) \in Nat /\ Bar(t)' \in Nat /\ Limit(t) \in Int
      /\ Limit(t)' \in Int /\ q \in Seq(Items)
  BY OrderTypes, OrderTypesPrimed
<1>2. Bar(t) <= Limit(t) /\ Rising(q, Bar(t), Limit(t))
  BY DEF OrderedAt
<1>3. Bar(t)' <= Limit(t)'
  BY <1>1, <1>2
<1>4. Rising(queue'[t], Bar(t)', Limit(t)')
  <2>1. CASE queue'[t] = q
    BY <1>1, <1>2, <2>1, RisingWider
  <2>2. CASE queue'[t] = <<>>
    BY <2>2 DEF Rising
  <2>3. CASE q # <<>> /\ queue'[t] = Tail(q)
    <3>1. /\ Tail(q) \in Seq(Items) /\ Head(q) \in Items /\ Bar(t) < Head(q).au
          /\ Rising(Tail(q), Head(q).au, Limit(t))
      BY <1>1, <1>2, <2>3, RisingTail
    <3>2. Head(q).au \in Int /\ Bar(t)' <= Head(q).au
      BY <1>1, <3>1 DEF Items
    <3>3. Rising(Tail(q), Bar(t)', Limit(t)')
      BY <1>1, <3>1, <3>2, RisingTailWider
    <3>4. QED  BY <2>3, <3>3
  <2>4. QED  BY <2>1, <2>2, <2>3
<1>5. QED  BY <1>3, <1>4 DEF OrderedAt

(* The head of the queue becomes the bar.                                  *)
LEMMA OrderTakesUp ==
    ASSUME Shapes, Shapes', NEW t \in Outputs, OrderedAt(t),
           Limit(t) <= Limit(t)', queue[t] # <<>>,
           queue'[t] = Tail(queue[t]), last'[t] = last[t],
           Taken(t)' = Head(queue[t])
    PROVE  OrderedAt(t)' /\ last'[t] < Taken(t)'.au
<1> USE NullAssumption
<1> DEFINE q == queue[t]
<1>1. /\ Bar(t) \in Nat /\ Limit(t) \in Int /\ Limit(t)' \in Int
      /\ last[t] \in Nat /\ q \in Seq(Items)
  BY OrderTypes, OrderTypesPrimed
<1>2. last[t] <= Bar(t) /\ Rising(q, Bar(t), Limit(t))
  BY DEF OrderedAt
<1>3. /\ Tail(q) \in Seq(Items) /\ Head(q) \in Items
      /\ Bar(t) < Head(q).au /\ Head(q).au <= Limit(t)
      /\ Rising(Tail(q), Head(q).au, Limit(t))
  BY <1>1, <1>2, RisingTail
<1>4. Bar(t)' = Head(q).au /\ Head(q).au \in Int
  BY <1>3 DEF Bar, Items
<1>5. Rising(Tail(q), Head(q).au, Limit(t)')
  BY <1>1, <1>3, <1>4, RisingTailWider
<1>6. last'[t] < Head(q).au /\ last'[t] <= Head(q).au /\ Head(q).au <= Limit(t)'
  BY <1>1, <1>2, <1>3, <1>4
<1>7. QED  BY <1>4, <1>5, <1>6 DEF OrderedAt

(* An item beyond the limit is appended.                                   *)
LEMMA OrderQueued ==
    ASSUME Shapes, Shapes', NEW t \in Outputs, OrderedAt(t), NEW it \in Items,
           Limit(t) < it.au, it.au <= Limit(t)',
           queue'[t] = Append(queue[t], it),
           last'[t] = last[t], Taken(t)' = Taken(t)
    PROVE  OrderedAt(t)'
<1>1. /\ Bar(t) \in Nat /\ Limit(t) \in Int /\ Limit(t)' \in Int
      /\ last[t] \in Nat /\ queue[t] \in Seq(Items) /\ it.au \in Int
  BY OrderTypes, OrderTypesPrimed, AuType
<1>2. /\ last[t] <= Bar(t) /\ Bar(t) <= Limit(t)
      /\ Rising(queue[t], Bar(t), Limit(t))
  BY DEF OrderedAt
<1>3. Bar(t)' = Bar(t)
  BY DEF Bar
<1>4. Rising(Append(queue[t], it), Bar(t), Limit(t)')
  BY <1>1, <1>2, RisingAppend
<1>5. last'[t] <= Bar(t) /\ Bar(t) <= Limit(t)'
  BY <1>1, <1>2
<1>6. QED  BY <1>3, <1>4, <1>5 DEF OrderedAt
(* What a step does to one output: it loses what it had queued or is given *)
(* an access unit, in order; takes one up; or has one queued for it.       *)
OutputEffect(t) ==
    \/ /\ \/ queue'[t] = queue[t]
          \/ queue'[t] = <<>>
          \/ queue[t] # <<>> /\ queue'[t] = Tail(queue[t])
       /\ last'[t] <= Bar(t)' /\ Bar(t)' <= Bar(t)
       /\ last'[t] = last[t] \/ last'[t] > last[t]
    \/ TakesUp(t)
    \/ NetEnqueue /\ t = target

LEMMA TakenKept ==
    ASSUME UNCHANGED <<outItem, recItem>>, NEW t \in Outputs
    PROVE  Taken(t)' = Taken(t) /\ (last' = last => Bar(t)' = Bar(t))
  BY DEF Taken, Bar

LEMMA OutputEffectNext ==
    ASSUME Control, Ordered, AllIntact, [Next]_vars, NEW t \in Outputs
    PROVE  OutputEffect(t)
<1> USE NullAssumption DEF OutputEffect
<1>1. /\ Shapes /\ Shapes' /\ t \in {"app", "rec"}
      /\ last[t] \in Nat /\ Bar(t) \in Nat /\ OrderedAt(t)
      /\ last'[t] \in Nat /\ Bar(t)' \in Nat
  BY ShapesNext, OrderTypes, OrderTypesPrimed DEF Control, Outputs, Ordered
<1>2. /\ queue \in [Outputs -> Seq(Items)] /\ last \in [Outputs -> Nat]
      /\ last[t] <= Bar(t)
  BY <1>1 DEF Shapes, FifoShape, ReaderShape, OrderedAt
<1>3. ASSUME UNCHANGED <<outItem, recItem, last>>,
             \/ queue'[t] = queue[t]
             \/ queue'[t] = <<>>
             \/ queue[t] # <<>> /\ queue'[t] = Tail(queue[t])
      PROVE  OutputEffect(t)
  <2>1. Bar(t)' = Bar(t) /\ last'[t] = last[t]
    BY <1>3, TakenKept
  <2>2. QED  BY <1>1, <1>2, <1>3, <2>1
<1>4. CASE UNCHANGED <<poolVars, itemVars, last>>
  BY <1>3, <1>4 DEF itemVars
<1>5. ASSUME NEW b \in Buffers, NetNewAu(b) \/ NetGray(b)
      PROVE  OutputEffect(t)
  BY <1>3, <1>5 DEF NetNewAu, NetGray
<1>6. CASE NetFlush /\ queue[target] # <<>> /\ target \in Outputs
  <2>1. /\ queue' = [queue EXCEPT ![target] = Tail(@)]
        /\ UNCHANGED <<outItem, recItem, last>>
    BY <1>6 DEF NetFlush
  <2>2. QED  BY <1>2, <1>3, <1>6, <2>1
<1>7. CASE NetEnqueue
  <2>1. CASE t = target
    BY <1>7, <2>1
  <2>2. CASE t # target
    <3>1. queue'[t] = queue[t]
      BY <1>2, <1>7, <2>2 DEF NetEnqueue, EnqueueItem
    <3>2. QED  BY <1>3, <1>7, <3>1 DEF NetEnqueue
  <2>3. QED  BY <2>1, <2>2
<1>8. CASE NetFree
  BY <1>3, <1>8 DEF NetFree
<1>9. CASE OutEnterReady
  <2>1. /\ outPc = "inGet" /\ UNCHANGED <<queue, outItem, recItem>>
        /\ last' = [last EXCEPT !["app"] = content[outItem.buffer]]
    BY <1>9 DEF OutEnterReady
  <2>2. outItem # NoItem /\ last["app"] < outItem.au
    BY <2>1 DEF Ordered, Control, OutControl
  <2>3. content[outItem.buffer] = outItem.au
    BY <2>2 DEF AllIntact, Held
  <2>4. CASE t = "rec"
    <3>1. last'[t] = last[t] /\ Bar(t)' = Bar(t)
      BY <1>2, <2>1, <2>4 DEF Bar, Taken
    <3>2. QED  BY <1>1, <1>2, <2>1, <3>1
  <2>5. CASE t = "app"
    <3>1. last'[t] = outItem.au /\ Bar(t)' = outItem.au /\ Bar(t) = outItem.au
      BY <1>2, <2>1, <2>2, <2>3, <2>5 DEF Bar, Taken
    <3>2. QED  BY <1>1, <2>1, <2>2, <2>5, <3>1
  <2>6. QED  BY <1>1, <2>4, <2>5
<1>10. CASE OutFree
  <2>1. UNCHANGED <<queue, recItem, last>> /\ outItem' = NoItem
    BY <1>10 DEF OutFree
  <2>2. Bar(t)' = last[t] \/ Bar(t)' = Bar(t)
    BY <2>1 DEF Bar, Taken
  <2>3. QED  BY <1>1, <1>2, <2>1, <2>2
<1>11. CASE RecRecord
  <2>1. /\ recPc = "have" /\ UNCHANGED <<queue, outItem>> /\ recItem' = NoItem
        /\ last' = [last EXCEPT !["rec"] = content[recItem.buffer]]
    BY <1>11 DEF RecRecord
  <2>2. recItem # NoItem /\ last["rec"] < recItem.au
    BY <2>1 DEF Ordered, Control, RecControl
  <2>3. content[recItem.buffer] = recItem.au
    BY <2>2 DEF AllIntact, Held
  <2>4. CASE t = "app"
    <3>1. last'[t] = last[t] /\ Bar(t)' = Bar(t)
      BY <1>2, <2>1, <2>4 DEF Bar, Taken
    <3>2. QED  BY <1>1, <1>2, <2>1, <3>1
  <2>5. CASE t = "rec"
    <3>1. last'[t] = recItem.au /\ Bar(t)' = recItem.au /\ Bar(t) = recItem.au
      BY <1>2, <2>1, <2>2, <2>3, <2>5 DEF Bar, Taken
    <3>2. QED  BY <1>1, <2>1, <2>2, <2>5, <3>1
  <2>6. QED  BY <1>1, <2>4, <2>5
<1>12. ASSUME NEW u \in Outputs, TakesUp(u)
       PROVE  OutputEffect(t)
  <2>1. CASE u = t
    BY <1>12, <2>1
  <2>2. CASE u # t
    <3>1. /\ queue'[t] = queue[t] /\ Taken(t)' = Taken(t) /\ last' = last
      BY <1>1, <1>2, <1>12, <2>2 DEF TakesUp, Taken, Outputs
    <3>2. Bar(t)' = Bar(t) /\ last'[t] = last[t]
      BY <3>1 DEF Bar
    <3>3. QED  BY <1>1, <1>2, <3>1, <3>2
  <2>3. QED  BY <2>1, <2>2
<1>13. ASSUME NEW u \in Outputs, Resets(u)
       PROVE  OutputEffect(t)
  <2>1. queue' = [queue EXCEPT ![u] = <<>>]
    BY <1>13 DEF Resets, ResetQueue
  <2>2. queue'[t] = queue[t] \/ queue'[t] = <<>>
    BY <1>2, <2>1
  <2>3. QED  BY <1>3, <1>13, <2>2 DEF Resets
<1> HIDE DEF OutputEffect
<1>14. QED
  BY <1>4, <1>5, <1>6, <1>7, <1>8, <1>9, <1>10, <1>11, <1>12, <1>13,
     DataEffectNext DEF DataEffect

(* Who has an access unit at hand has just taken it up, or still has it.   *)
LEMMA FreshNext ==
    ASSUME Control, [Next]_vars
    PROVE  /\ outPc' \in {"have", "inGet"} =>
                 \/ TakesUp("app")
                 \/ /\ outPc \in {"have", "inGet"} /\ outItem' = outItem
                    /\ last'["app"] = last["app"]
           /\ recPc' = "have" =>
                 \/ TakesUp("rec")
                 \/ /\ recPc = "have" /\ recItem' = recItem
                    /\ last'["rec"] = last["rec"]
<1> DEFINE Out == outPc' \in {"have", "inGet"} =>
                     \/ TakesUp("app")
                     \/ /\ outPc \in {"have", "inGet"} /\ outItem' = outItem
                        /\ last'["app"] = last["app"]
           Rec == recPc' = "have" =>
                     \/ TakesUp("rec")
                     \/ /\ recPc = "have" /\ recItem' = recItem
                        /\ last'["rec"] = last["rec"]
<1>0. "app" \in Outputs /\ "rec" \in Outputs /\ last \in [Outputs -> Nat]
  BY DEF Outputs, Control, Shapes, ReaderShape
<1>1. ASSUME UNCHANGED <<outItem, recVars, last>>, outPc' \in {outPc, "loop"}
      PROVE  Out /\ Rec
  BY <1>1
<1>2. CASE NetStep
  <2>1. CASE NetSignal
    BY <1>1, <2>1 DEF NetSignal, SignalOutput
  <2>2. CASE NetCreateRecorder
    <3>1. UNCHANGED <<outVars, recItem, last>> /\ recPc' = "check"
      BY <2>2 DEF NetCreateRecorder, CreateRecorder
    <3>2. QED  BY <3>1
  <2>3. CASE ~NetSignal /\ ~NetCreateRecorder
    <3>1. UNCHANGED <<outVars, recVars, last>>
      BY <1>2, <2>3
      DEF NetStep, NetNewAu, NetGray, NetNoBuffer, NetFlush, NetFlushed,
          NetSync, NetFiltered, NetAddRecorder, NetRunRecorder,
          NetEnterSpsPps, NetLeaveSpsPps, NetNoGray, NetAccept, NetSkip,
          NetEnqueue, NetFree, NetEnd
    <3>2. QED  BY <1>1, <3>1
  <2>4. QED  BY <2>1, <2>2, <2>3
<1>3. CASE OutStep
  <2>1. Rec
    <3>1. UNCHANGED recVars
      BY <1>3 DEF OutStep, OutBegin, OutLoop, OutEnterGet, OutNoBuffer,
         OutEnterReady, OutLeaveReady, OutResync, OutFree, OutNext, OutCheck
    <3>2. last'["rec"] = last["rec"]
      BY <1>0, <1>3 DEF OutStep, OutBegin, OutLoop, OutEnterGet, OutNoBuffer,
         OutEnterReady, OutLeaveReady, OutResync, OutFree, OutNext, OutCheck
    <3>3. QED  BY <3>1, <3>2
  <2>2. CASE OutLoop \/ OutNext
    <3>1. CASE OutDequeue("check") /\ queue["app"] # <<>>
      <4>1. outItem = NoItem
        BY <2>2 DEF OutLoop, OutNext, Control, OutControl
      <4>2. TakesUp("app")
        BY <1>0, <2>2, <3>1, <4>1 DEF OutLoop, OutNext, OutDequeue, TakesUp, Taken
      <4>3. QED  BY <2>1, <4>2
    <3>2. CASE ~(OutDequeue("check") /\ queue["app"] # <<>>)
      <4>1. outPc' \in {"done", "check"}
        BY <2>2, <3>2 DEF OutLoop, OutNext, OutDequeue
      <4>2. QED  BY <2>1, <4>1
    <3>3. QED  BY <3>1, <3>2
  <2>3. CASE OutEnterGet
    BY <2>1, <2>3 DEF OutEnterGet
  <2>4. CASE ~(OutLoop \/ OutNext \/ OutEnterGet)
    <3>1. outPc' \in {"loop", "free", "inReady", "resync", "next", "wait"}
      BY <1>3, <2>4 DEF OutStep, OutBegin, OutNoBuffer, OutEnterReady,
         OutLeaveReady, OutResync, OutFree, OutCheck
    <3>2. QED  BY <2>1, <3>1
  <2>5. QED  BY <2>2, <2>3, <2>4
<1>4. CASE RecStep
  <2>1. Out
    <3>1. UNCHANGED outVars
      BY <1>4 DEF RecStep, RecCheck, RecDequeue, RecRecord
    <3>2. last'["app"] = last["app"]
      BY <1>0, <1>4 DEF RecStep, RecCheck, RecDequeue, RecRecord
    <3>3. QED  BY <3>1, <3>2
  <2>2. CASE RecDequeue /\ queue["rec"] # <<>>
    <3>1. recItem = NoItem
      BY <2>2 DEF RecDequeue, Control, RecControl
    <3>2. TakesUp("rec")
      BY <1>0, <2>2, <3>1 DEF RecDequeue, TakesUp, Taken
    <3>3. QED  BY <2>1, <3>2
  <2>3. CASE ~(RecDequeue /\ queue["rec"] # <<>>)
    <3>1. recPc' \in {"done", "check", "loop"}
      BY <1>4, <2>3 DEF RecStep, RecCheck, RecDequeue, RecRecord
    <3>2. QED  BY <2>1, <3>1
  <2>4. QED  BY <2>2, <2>3
<1>5. CASE AppCall
  <2>1. UNCHANGED <<outVars, recVars, last>>
    BY <1>5 DEF AppCall, StartAppOutput, StopAppOutput, StartRecorder,
       StopRecorder, Stop, EndRecorder
  <2>2. QED  BY <1>1, <2>1
<1>6. CASE AppStep
  <2>1. CASE StopSignal
    BY <1>1, <2>1 DEF StopSignal, SignalOutput
  <2>2. CASE AppCreateRecorder \/ FreeRecorder
    <3>1. UNCHANGED <<outVars, recItem, last>> /\ recPc' \in {"check", "none"}
      BY <2>2 DEF AppCreateRecorder, CreateRecorder, FreeRecorder
    <3>2. QED  BY <3>1
  <2>3. CASE ~(StopSignal \/ AppCreateRecorder \/ FreeRecorder)
    <3>1. UNCHANGED <<outVars, recVars, last>>
      BY <1>6, <2>3 DEF AppStep, AppSleep, StartRegister, StartEnterSpsPps,
         StartLeaveSpsPps, StartRun, StopUnregister, StopRemove,
         RecorderPending, AppAddRecorder, AppRunRecorder, RecorderStopped,
         RecorderRemove, StopNetwork, StopThread
    <3>2. QED  BY <1>1, <3>1
  <2>4. QED  BY <2>1, <2>2, <2>3
<1>7. CASE UNCHANGED vars
  BY <1>1, <1>7 DEF vars
<1>8. QED  BY <1>2, <1>3, <1>4, <1>5, <1>6, <1>7 DEF Next

LEMMA OrderedNext ==
    ASSUME Control, Ordered, AllIntact, [Next]_vars
    PROVE  Ordered'
<1>1. Shapes /\ Shapes'
  BY ShapesNext DEF Control
<1>2. queue \in [Outputs -> Seq(Items)]
  BY <1>1 DEF Shapes, FifoShape
<1>3. ASSUME NEW t \in Outputs, TakesUp(t)
      PROVE  OrderedAt(t)' /\ last'[t] < Taken(t)'.au
  <2>1. /\ queue[t] # <<>> /\ queue'[t] = Tail(queue[t]) /\ last'[t] = last[t]
        /\ Taken(t)' = Head(queue[t])
    BY <1>2, <1>3 DEF TakesUp, Taken, Outputs
  <2>2. OrderedAt(t) /\ Limit(t) <= Limit(t)'
    BY LimitGrows DEF Ordered
  <2>3. QED  BY <1>1, <2>1, <2>2, OrderTakesUp
<1>4. ASSUME NEW t \in Outputs
      PROVE  OrderedAt(t)'
  <2>1. OrderedAt(t) /\ Limit(t) <= Limit(t)'
    BY LimitGrows DEF Ordered
  <2>2. CASE TakesUp(t)
    BY <1>3, <2>2
  <2>3. CASE NetEnqueue /\ t = target
    <3>1. /\ Item \in Items /\ Limit(t) < Item.au /\ Item.au <= Limit(t)'
      BY <2>3, QueuedBeyond
    <3>2. queue'[t] = Append(queue[t], Item)
      BY <1>2, <2>3 DEF NetEnqueue, EnqueueItem
    <3>3. last'[t] = last[t] /\ Taken(t)' = Taken(t)
      BY <2>3 DEF NetEnqueue, Taken
    <3>4. QED  BY <1>1, <2>1, <3>1, <3>2, <3>3, OrderQueued
  <2>4. CASE ~TakesUp(t) /\ ~(NetEnqueue /\ t = target)
    BY <1>1, <2>1, <2>4, OutputEffectNext, OrderKept DEF OutputEffect
  <2>5. QED  BY <2>2, <2>3, <2>4
<1>5. outPc' \in {"have", "inGet"} => last'["app"] < outItem'.au
  <2>1. "app" \in Outputs /\ Taken("app")' = outItem'
    BY DEF Outputs, Taken
  <2>2. QED  BY <1>3, <2>1, FreshNext DEF Ordered
<1>6. recPc' = "have" => last'["rec"] < recItem'.au
  <2>1. "rec" \in Outputs /\ Taken("rec")' = recItem'
    BY DEF Outputs, Taken
  <2>2. QED  BY <1>3, <2>1, FreshNext DEF Ordered
<1>7. QED  BY <1>4, <1>5, <1>6 DEF Ordered
-----------------------------------------------------------------------------
(* The reference counts.                                                   *)

On(q, b) == Cardinality(Pointing(ToSet(q), b))

LEMMA CountParts ==
    ASSUME Shapes, Shapes', NEW b
    PROVE  /\ Count(b) = On(queue["app"], b) + On(queue["rec"], b)
                 + Refers(outItem, b) + Refers(recItem, b)
                 + Refers(netItem, b) + Refers(grayItem, b)
           /\ Count(b)' = On(queue'["app"], b) + On(queue'["rec"], b)
                 + Refers(outItem', b) + Refers(recItem', b)
                 + Refers(netItem', b) + Refers(grayItem', b)
           /\ \A t \in Outputs : On(queue[t], b) \in Nat /\ On(queue'[t], b) \in Nat
           /\ On(queue["app"], b) \in Nat /\ On(queue["rec"], b) \in Nat
           /\ \A it : Refers(it, b) \in {0, 1}
<1>1. /\ Count(b) = On(queue["app"], b) + On(queue["rec"], b)
             + Refers(outItem, b) + Refers(recItem, b)
             + Refers(netItem, b) + Refers(grayItem, b)
      /\ Count(b)' = On(queue'["app"], b) + On(queue'["rec"], b)
             + Refers(outItem', b) + Refers(recItem', b)
             + Refers(netItem', b) + Refers(grayItem', b)
  BY DEF Count, On, InQueue, Pointing, Refers
<1>2. ASSUME NEW q \in Seq(Items)
      PROVE  On(q, b) \in Nat
  <2>1. IsFiniteSet(Pointing(ToSet(q), b))
    BY ToSetFinite, FS_Subset DEF Pointing
  <2>2. QED  BY <2>1, FS_CardinalityType DEF On
<1>3. \A t \in Outputs : queue[t] \in Seq(Items) /\ queue'[t] \in Seq(Items)
  BY DEF Shapes, FifoShape
<1>4. "app" \in Outputs /\ "rec" \in Outputs
  BY DEF Outputs
<1>5. \A it : Refers(it, b) \in {0, 1}
  BY DEF Refers
<1>6. QED  BY <1>1, <1>2, <1>3, <1>4, <1>5

(* What a queue counts when it loses its head, has an item appended, or is *)
(* emptied.                                                                *)
LEMMA OnTail ==
    ASSUME NEW q \in Seq(Items), IsInjective(q), q # <<>>, NEW b
    PROVE  /\ On(q, b) = On(Tail(q), b) + Refers(Head(q), b)
           /\ On(Tail(q), b) \in Nat /\ Head(q) \in Items
<1> DEFINE S == ToSet(Tail(q))
<1>1. /\ Tail(q) \in Seq(Items) /\ Head(q) \in Items /\ Head(q) \in ToSet(q)
      /\ S = ToSet(q) \ {Head(q)}
  BY TailLemma
<1>2. S \in SUBSET Items /\ IsFiniteSet(S)
  BY <1>1, ToSetType, ToSetFinite
<1>3. ToSet(q) = S \cup {Head(q)} /\ Head(q) \notin S
  BY <1>1
<1> HIDE DEF S
<1>4. /\ Cardinality(Pointing(S, b)) \in Nat
      /\ Cardinality(Pointing(S \cup {Head(q)}, b))
            = Cardinality(Pointing(S, b)) + Refers(Head(q), b)
  BY ZenonT(60), <1>1, <1>2, <1>3, PointingAdd
<1>5. On(q, b) = Cardinality(Pointing(S \cup {Head(q)}, b))
  BY <1>3 DEF On
<1>6. On(Tail(q), b) = Cardinality(Pointing(S, b))
  BY DEF On, S
<1>7. QED  BY <1>1, <1>4, <1>5, <1>6

LEMMA OnAppend ==
    ASSUME NEW q \in Seq(Items), NEW it \in Items, it \notin ToSet(q),
           IsInjective(q), NEW b
    PROVE  On(Append(q, it), b) = On(q, b) + Refers(it, b)
<1>1. ToSet(Append(q, it)) = ToSet(q) \cup {it}
  BY AppendLemma
<1>2. ToSet(q) \in SUBSET Items /\ IsFiniteSet(ToSet(q))
  BY ToSetType, ToSetFinite
<1>3. QED  BY <1>1, <1>2, PointingAdd DEF On

LEMMA OnEmpty == \A b : On(<<>>, b) = 0
<1>1. ToSet(<<>>) = {}
  BY DEF ToSet
<1>2. \A b : Pointing({}, b) = {}
  BY DEF Pointing
<1>3. QED  BY <1>1, <1>2, FS_EmptySet DEF On

(* A reference is given up, or added.                                      *)
LEMMA UnrefCount ==
    ASSUME PoolShape, NEW it \in Items, Unref(it.buffer),
           refCount[it.buffer] > 0, NEW b \in Buffers
    PROVE  refCount'[b] = refCount[b] - Refers(it, b)
<1> USE NullAssumption
<1>1. it.buffer \in Buffers /\ it # NoItem /\ refCount[b] \in Nat
  BY DEF Items, PoolShape
<1>2. CASE it.buffer = b
  BY <1>1, <1>2 DEF Unref, Refers, PoolShape
<1>3. CASE it.buffer # b
  BY <1>1, <1>3 DEF Unref, Refers, PoolShape
<1>4. QED  BY <1>2, <1>3

LEMMA AddRefCount ==
    ASSUME PoolShape, NEW it \in Items, AddRef(it.buffer), NEW b \in Buffers
    PROVE  refCount'[b] = refCount[b] + Refers(it, b)
<1> USE NullAssumption
<1>1. it.buffer \in Buffers /\ it # NoItem /\ refCount[b] \in Nat
  BY DEF Items, PoolShape
<1>2. QED  BY <1>1 DEF AddRef, Refers, PoolShape

(* A buffer that an item refers to is counted, one that is free has none.  *)
LEMMA HeldCounted ==
    ASSUME Shapes, Shapes', CountExact
    PROVE  /\ \A it \in Held :
                 it # NoItem => it \in Items /\ refCount[it.buffer] > 0
           /\ \A b \in Buffers : refCount[b] = 0 =>
                 /\ leaked[b] = 0
                 /\ On(queue["app"], b) = 0 /\ On(queue["rec"], b) = 0
                 /\ \A it \in {outItem, recItem, netItem, grayItem} : Refers(it, b) = 0
<1>0. /\ refCount \in [Buffers -> Nat] /\ leaked \in [Buffers -> Nat]
      /\ {outItem, recItem, netItem, grayItem} \subseteq Items \cup {NoItem}
      /\ queue \in [Outputs -> Seq(Items)]
  BY DEF Shapes, PoolShape, FifoShape, HeldShape, ReaderShape, ItemPtrs
<1>1. ASSUME NEW b \in Buffers
      PROVE  /\ refCount[b] = On(queue["app"], b) + On(queue["rec"], b)
                   + Refers(outItem, b) + Refers(recItem, b)
                   + Refers(netItem, b) + Refers(grayItem, b) + leaked[b]
             /\ refCount[b] \in Nat /\ leaked[b] \in Nat
             /\ On(queue["app"], b) \in Nat /\ On(queue["rec"], b) \in Nat
             /\ \A it : Refers(it, b) \in {0, 1}
  BY <1>0, CountParts DEF CountExact
<1>2. ASSUME NEW b \in Buffers, refCount[b] = 0
      PROVE  /\ leaked[b] = 0
             /\ On(queue["app"], b) = 0 /\ On(queue["rec"], b) = 0
             /\ Refers(outItem, b) = 0 /\ Refers(recItem, b) = 0
             /\ Refers(netItem, b) = 0 /\ Refers(grayItem, b) = 0
  <2>1. /\ Refers(outItem, b) \in Nat /\ Refers(recItem, b) \in Nat
        /\ Refers(netItem, b) \in Nat /\ Refers(grayItem, b) \in Nat
    BY <1>1
  <2>2. /\ 0 = On(queue["app"], b) + On(queue["rec"], b)
               + Refers(outItem, b) + Refers(recItem, b)
               + Refers(netItem, b) + Refers(grayItem, b) + leaked[b]
        /\ leaked[b] \in Nat
        /\ On(queue["app"], b) \in Nat /\ On(queue["rec"], b) \in Nat
    BY <1>1, <1>2
  <2> DEFINE h == On(queue["app"], b)
             i == On(queue["rec"], b)
             j == Refers(outItem, b)
             k == Refers(recItem, b)
             l == Refers(netItem, b)
             m == Refers(grayItem, b)
             n == leaked[b]
  <2>3. /\ 0 = h + i + j + k + l + m + n
        /\ h \in Nat /\ i \in Nat /\ j \in Nat /\ k \in Nat /\ l \in Nat
        /\ m \in Nat /\ n \in Nat
    BY <2>1, <2>2
  <2> HIDE DEF h, i, j, k, l, m, n
  <2>4. h = 0 /\ i = 0 /\ j = 0 /\ k = 0 /\ l = 0 /\ m = 0 /\ n = 0
    BY <2>3
  <2>5. QED  BY <2>4 DEF h, i, j, k, l, m, n
<1>3. ASSUME NEW it \in {outItem, recItem, netItem, grayItem}, it # NoItem
      PROVE  it \in Items /\ refCount[it.buffer] > 0
  <2>1. it \in Items /\ it.buffer \in Buffers
    BY <1>0, <1>3 DEF Items
  <2>2. Refers(it, it.buffer) = 1
    BY <1>3 DEF Refers
  <2>3. refCount[it.buffer] # 0
    BY <1>2, <2>1, <2>2
  <2>4. QED  BY <1>0, <2>1, <2>3
<1>4. ASSUME NEW t \in Outputs, NEW it \in ToSet(queue[t])
      PROVE  it \in Items /\ refCount[it.buffer] > 0
  <2> DEFINE P == Pointing(ToSet(queue[t]), it.buffer)
  <2>1. /\ ToSet(queue[t]) \in SUBSET Items /\ IsFiniteSet(ToSet(queue[t]))
    BY InQueueType
  <2>2. it \in Items /\ it.buffer \in Buffers
    BY <2>1 DEF Items
  <2>3. it \in P /\ IsFiniteSet(P)
    BY <2>1, FS_Subset DEF Pointing
  <2>4. Cardinality(P) # 0
    BY <2>3, FS_EmptySet
  <2>5. On(queue[t], it.buffer) # 0
    BY <2>4 DEF On
  <2>6. refCount[it.buffer] # 0
    BY <1>2, <2>2, <2>5 DEF Outputs
  <2>7. QED  BY <1>0, <2>2, <2>6
<1>5. QED  BY <1>2, <1>3, <1>4 DEF Held, Outputs

(* The queues have no item twice.                                          *)
LEMMA QueuesDistinct ==
    ASSUME Shapes, Ordered, NEW t \in Outputs
    PROVE  queue[t] \in Seq(Items) /\ IsInjective(queue[t])
<1>1. queue[t] \in Seq(Items) /\ Bar(t) \in Int /\ Limit(t) \in Int
  BY OrderTypes
<1>2. Rising(queue[t], Bar(t), Limit(t))
  BY DEF Ordered, OrderedAt
<1>3. QED  BY <1>1, <1>2, RisingWider

LEMMA CountNext ==
    ASSUME Control, Ordered, CountExact, [Next]_vars
    PROVE  CountExact'
<1> USE NullAssumption
<1>1. /\ Shapes /\ Shapes' /\ NetControl /\ NetControl' /\ OutControl /\ RecControl
      /\ refCount \in [Buffers -> Nat] /\ refCount' \in [Buffers -> Nat]
      /\ leaked \in [Buffers -> Nat] /\ leaked' \in [Buffers -> Nat]
      /\ queue \in [Outputs -> Seq(Items)]
      /\ "app" \in Outputs /\ "rec" \in Outputs
  BY ControlNext DEF Control, Shapes, PoolShape, FifoShape, Outputs
<1>2. SUFFICES ASSUME NEW b \in Buffers
               PROVE  refCount'[b] = Count(b)' + leaked'[b]
  BY DEF CountExact
<1> DEFINE x == refCount[b]            xx == refCount'[b]
           k == leaked[b]              kk == leaked'[b]
           a == On(queue["app"], b)    aa == On(queue'["app"], b)
           r == On(queue["rec"], b)    rr == On(queue'["rec"], b)
           o == Refers(outItem, b)     oo == Refers(outItem', b)
           c == Refers(recItem, b)     cc == Refers(recItem', b)
           n == Refers(netItem, b)     nn == Refers(netItem', b)
           g == Refers(grayItem, b)    gg == Refers(grayItem', b)
           Goal == xx = aa + rr + oo + cc + nn + gg + kk
<1>3. /\ x \in Nat /\ k \in Nat /\ a \in Nat /\ r \in Nat
      /\ o \in Nat /\ c \in Nat /\ n \in Nat /\ g \in Nat
      /\ x = a + r + o + c + n + g + k
  <2>1. refCount[b] = Count(b) + leaked[b]
    BY DEF CountExact
  <2>2. /\ a \in Nat /\ r \in Nat /\ Count(b) = a + r + o + c + n + g
        /\ \A it : Refers(it, b) \in {0, 1}
    BY <1>1, CountParts
  <2>3. o \in Nat /\ c \in Nat /\ n \in Nat /\ g \in Nat
    BY <2>2
  <2>4. x \in Nat /\ k \in Nat
    BY <1>1
  <2> HIDE DEF a, r, o, c, n, g
  <2>5. QED  BY <2>1, <2>2, <2>3, <2>4
<1>4. Refers(NoItem, b) = 0 /\ \A it : Refers(it, b) \in Nat
  BY DEF Refers
<1>5. SUFFICES Goal
  BY <1>1, CountParts
<1>6. ASSUME UNCHANGED <<poolVars, itemVars>>
      PROVE  Goal
  <2>1. /\ xx = x /\ kk = k /\ aa = a /\ rr = r
        /\ oo = o /\ cc = c /\ nn = n /\ gg = g
    BY <1>6 DEF itemVars
  <2> HIDE DEF x, k, a, r, o, c, n, g, xx, kk, aa, rr, oo, cc, nn, gg
  <2>2. QED  BY <1>3, <2>1
<1>7. ASSUME NEW f \in Buffers, NetNewAu(f)
      PROVE  Goal
  <2>1. /\ netItem = NoItem /\ netItem' # NoItem /\ netItem'.buffer = f
        /\ refCount[f] = 0 /\ refCount' = [refCount EXCEPT ![f] = 1]
        /\ UNCHANGED <<queue, leaked, outItem, recItem, grayItem>>
    BY <1>1, <1>7 DEF NetNewAu, GetBuffer, Free, NetControl, NetHasNone
  <2>2. n = 0 /\ kk = k /\ aa = a /\ rr = r /\ oo = o /\ cc = c /\ gg = g
    BY <1>4, <2>1
  <2>3. CASE b = f
    <3>1. xx = 1 /\ nn = 1
      BY <1>1, <2>1, <2>3 DEF Refers
    <3>2. k = 0 /\ a = 0 /\ r = 0 /\ o = 0 /\ c = 0 /\ g = 0
      BY <1>1, <2>1, <2>3, HeldCounted
    <3> HIDE DEF x, k, a, r, o, c, n, g, xx, kk, aa, rr, oo, cc, nn, gg
    <3>3. QED  BY <2>2, <3>1, <3>2
  <2>4. CASE b # f
    <3>1. xx = x /\ nn = 0
      BY <1>1, <2>1, <2>4 DEF Refers
    <3> HIDE DEF x, k, a, r, o, c, n, g, xx, kk, aa, rr, oo, cc, nn, gg
    <3>2. QED  BY <1>3, <2>2, <3>1
  <2>5. QED  BY <2>3, <2>4
<1>8. ASSUME NEW f \in Buffers, NetGray(f)
      PROVE  Goal
  <2>1. PICK frame \in GrayIdrFrame(f) :
           /\ grayItem' = frame
           /\ IF frame = NoItem THEN UNCHANGED poolVars ELSE GetBuffer(f, frame.au)
    BY <1>8 DEF NetGray
  <2>2. /\ grayItem = NoItem
        /\ UNCHANGED <<queue, leaked, outItem, recItem, netItem>>
    BY <1>1, <1>8 DEF NetGray, GrayNeeded, NetControl, Outputting
  <2>3. CASE frame = NoItem
    BY <1>6, <2>1, <2>2, <2>3 DEF itemVars
  <2>4. CASE frame # NoItem
    <3>1. /\ grayItem' # NoItem /\ grayItem'.buffer = f
          /\ refCount[f] = 0 /\ refCount' = [refCount EXCEPT ![f] = 1]
      BY <2>1, <2>4 DEF GrayIdrFrame, GetBuffer, Free
    <3>2. g = 0 /\ kk = k /\ aa = a /\ rr = r /\ oo = o /\ cc = c /\ nn = n
      BY <1>4, <2>2
    <3>3. CASE b = f
      <4>1. xx = 1 /\ gg = 1
        BY <1>1, <3>1, <3>3 DEF Refers
      <4>2. k = 0 /\ a = 0 /\ r = 0 /\ o = 0 /\ c = 0 /\ n = 0
        BY <1>1, <3>1, <3>3, HeldCounted
      <4> HIDE DEF x, k, a, r, o, c, n, g, xx, kk, aa, rr, oo, cc, nn, gg
      <4>3. QED  BY <3>2, <4>1, <4>2
    <3>4. CASE b # f
      <4>1. xx = x /\ gg = 0
        BY <1>1, <3>1, <3>4 DEF Refers
      <4> HIDE DEF x, k, a, r, o, c, n, g, xx, kk, aa, rr, oo, cc, nn, gg
      <4>2. QED  BY <1>3, <3>2, <4>1
    <3>5. QED  BY <3>3, <3>4
  <2>5. QED  BY <2>3, <2>4
<1>9. CASE NetFlush /\ queue[target] # <<>> /\ target \in Outputs
  <2> DEFINE it == Head(queue[target])
             e  == Refers(it, b)
  <2>1. /\ Unref(it.buffer) /\ queue' = [queue EXCEPT ![target] = Tail(@)]
        /\ UNCHANGED <<leaked, outItem, recItem, netItem, grayItem>>
    BY <1>9 DEF NetFlush
  <2>2. kk = k /\ oo = o /\ cc = c /\ nn = n /\ gg = g
    BY <2>1
  <2>3. /\ queue[target] \in Seq(Items) /\ IsInjective(queue[target])
        /\ it \in Held
    <3>1. queue[target] \in Seq(Items) /\ IsInjective(queue[target])
      BY <1>1, <1>9, QueuesDistinct
    <3>2. it \in ToSet(queue[target])
      BY <1>9, <3>1, TailLemma
    <3>3. QED  BY <1>9, <3>1, <3>2 DEF Held, Outputs
  <2>4. /\ On(queue[target], b) = On(Tail(queue[target]), b) + e
        /\ On(Tail(queue[target]), b) \in Nat /\ it \in Items
    BY <1>9, <2>3, OnTail
  <2>5. refCount[it.buffer] > 0
    BY <1>1, <1>9, <2>3, HeldCounted
  <2>6. xx = x - e /\ e \in Nat
    <3> HIDE DEF it
    <3>1. QED  BY <1>1, <1>4, <2>1, <2>4, <2>5, UnrefCount DEF Shapes
  <2>7. \/ target = "app" /\ aa = On(Tail(queue[target]), b) /\ rr = r
        \/ target = "rec" /\ rr = On(Tail(queue[target]), b) /\ aa = a
    BY <1>1, <1>9, <2>1 DEF Outputs
  <2>8. \/ a = aa + e /\ aa \in Nat /\ rr = r
        \/ r = rr + e /\ rr \in Nat /\ aa = a
    BY <2>4, <2>7
  <2> HIDE DEF x, k, a, r, o, c, n, g, xx, kk, aa, rr, oo, cc, nn, gg, e
  <2>9. QED  BY <1>3, <2>2, <2>6, <2>8
<1>10. CASE NetEnqueue
  <2> DEFINE e == Refers(Item, b)
             q == queue[target]
  <2>1. /\ AddRef(Item.buffer) /\ EnqueueItem(target, Item)
        /\ UNCHANGED <<leaked, outItem, recItem, netItem, grayItem>>
    BY <1>10 DEF NetEnqueue
  <2>2. kk = k /\ oo = o /\ cc = c /\ nn = n /\ gg = g
    BY <2>1
  <2>3. target \in Outputs /\ Item \in Items /\ Limit(target) < Item.au
    BY <1>10, QueuedBeyond
  <2>4. q \in Seq(Items) /\ IsInjective(q) /\ Limit(target) \in Int
    BY <1>1, <2>3, QueuesDistinct, OrderTypes
  <2>5. Item \notin ToSet(q)
    <3>1. SUFFICES ASSUME NEW i \in DOMAIN q, q[i] = Item
                   PROVE  FALSE
      BY DEF ToSet
    <3>2. q[i].au <= Limit(target)
      BY <2>3 DEF Ordered, OrderedAt, Rising
    <3>3. Item.au \in Int
      BY <2>3, AuType
    <3>4. QED  BY <2>3, <2>4, <3>1, <3>2, <3>3
  <2>6. On(Append(q, Item), b) = On(q, b) + e
    BY <2>3, <2>4, <2>5, OnAppend
  <2>7. xx = x + e /\ e \in Nat
    BY <1>1, <1>4, <2>1, <2>3, AddRefCount DEF Shapes
  <2>8. queue' = [queue EXCEPT ![target] = Append(q, Item)]
    BY <2>1 DEF EnqueueItem
  <2>9. \/ aa = a + e /\ rr = r
        \/ rr = r + e /\ aa = a
    <3>1. CASE target = "app"
      <4>1. q = queue["app"] /\ queue'["app"] = Append(q, Item)
            /\ queue'["rec"] = queue["rec"]
        BY <1>1, <2>8, <3>1
      <4>2. aa = a + e
        BY <2>6, <4>1
      <4>3. rr = r
        BY <4>1
      <4>4. QED  BY <4>2, <4>3
    <3>2. CASE target = "rec"
      <4>1. q = queue["rec"] /\ queue'["rec"] = Append(q, Item)
            /\ queue'["app"] = queue["app"]
        BY <1>1, <2>8, <3>2
      <4>2. rr = r + e
        BY <2>6, <4>1
      <4>3. aa = a
        BY <4>1
      <4>4. QED  BY <4>2, <4>3
    <3>3. QED  BY <2>3, <3>1, <3>2 DEF Outputs
  <2> HIDE DEF x, k, a, r, o, c, n, g, xx, kk, aa, rr, oo, cc, nn, gg, e
  <2>10. QED  BY <1>3, <2>2, <2>7, <2>9
<1>11. CASE NetFree
  <2> DEFINE e == Refers(Item, b)
  <2>1. /\ netPc = "free" /\ Unref(Item.buffer)
        /\ UNCHANGED <<queue, leaked, outItem, recItem>>
        /\ IF grayItem # NoItem
           THEN grayItem' = NoItem /\ UNCHANGED netItem
           ELSE netItem' = NoItem /\ UNCHANGED grayItem
    BY <1>11 DEF NetFree
  <2>2. kk = k /\ aa = a /\ rr = r /\ oo = o /\ cc = c
    BY <2>1
  <2>3. Item \in Items /\ Item \in Held /\ Item # NoItem
    BY <2>1, ItemShape DEF Outputting, Item, Held
  <2>4. refCount[Item.buffer] > 0
    BY <1>1, <2>3, HeldCounted
  <2>5. xx = x - e /\ e \in Nat
    BY <1>1, <1>4, <2>1, <2>3, <2>4, UnrefCount DEF Shapes
  <2>6. \/ e = g /\ gg = 0 /\ nn = n
        \/ e = n /\ nn = 0 /\ gg = g
    <3>1. CASE grayItem # NoItem
      <4>1. Item = grayItem /\ grayItem' = NoItem /\ netItem' = netItem
        BY <2>1, <3>1 DEF Item
      <4>2. e = g /\ nn = n
        BY <4>1
      <4>3. gg = 0
        BY <1>4, <4>1
      <4>4. QED  BY <4>2, <4>3
    <3>2. CASE grayItem = NoItem
      <4>1. Item = netItem /\ netItem' = NoItem /\ grayItem' = grayItem
        BY <2>1, <3>2 DEF Item
      <4>2. e = n /\ gg = g
        BY <4>1
      <4>3. nn = 0
        BY <1>4, <4>1
      <4>4. QED  BY <4>2, <4>3
    <3>3. QED  BY <3>1, <3>2
  <2> HIDE DEF x, k, a, r, o, c, n, g, xx, kk, aa, rr, oo, cc, nn, gg, e
  <2>7. QED  BY <1>3, <2>2, <2>5, <2>6
<1>12. CASE OutEnterReady
  BY <1>6, <1>12 DEF OutEnterReady, itemVars
<1>13. CASE OutFree
  <2>1. /\ outPc = "free" /\ Unref(outItem.buffer) /\ outItem' = NoItem
        /\ UNCHANGED <<queue, leaked, recItem, netItem, grayItem>>
    BY <1>13 DEF OutFree
  <2>2. /\ kk = k /\ aa = a /\ rr = r /\ oo = 0 /\ cc = c /\ nn = n /\ gg = g
    BY <1>4, <2>1
  <2>3. outItem \in Items /\ refCount[outItem.buffer] > 0
    BY <1>1, <2>1, HeldCounted DEF OutControl, Held
  <2>4. xx = x - o
    BY <1>1, <2>1, <2>3, UnrefCount DEF Shapes
  <2> HIDE DEF x, k, a, r, o, c, n, g, xx, kk, aa, rr, oo, cc, nn, gg
  <2>5. QED  BY <1>3, <2>2, <2>4
<1>14. CASE RecRecord
  <2>1. /\ recPc = "have" /\ Unref(recItem.buffer) /\ recItem' = NoItem
        /\ UNCHANGED <<queue, leaked, outItem, netItem, grayItem>>
    BY <1>14 DEF RecRecord
  <2>2. /\ kk = k /\ aa = a /\ rr = r /\ oo = o /\ cc = 0 /\ nn = n /\ gg = g
    BY <1>4, <2>1
  <2>3. recItem \in Items /\ refCount[recItem.buffer] > 0
    BY <1>1, <2>1, HeldCounted DEF RecControl, Held
  <2>4. xx = x - c
    BY <1>1, <2>1, <2>3, UnrefCount DEF Shapes
  <2> HIDE DEF x, k, a, r, o, c, n, g, xx, kk, aa, rr, oo, cc, nn, gg
  <2>5. QED  BY <1>3, <2>2, <2>4
<1>15. ASSUME NEW t \in Outputs, TakesUp(t)
       PROVE  Goal
  <2> DEFINE e == Refers(Head(queue[t]), b)
  <2>1. /\ queue[t] # <<>> /\ queue' = [queue EXCEPT ![t] = Tail(@)]
        /\ UNCHANGED <<refCount, leaked, netItem, grayItem>>
    BY <1>15 DEF TakesUp
  <2>2. xx = x /\ kk = k /\ nn = n /\ gg = g
    BY <2>1
  <2>3. /\ On(queue[t], b) = On(Tail(queue[t]), b) + e
        /\ On(Tail(queue[t]), b) \in Nat
    BY <1>1, <2>1, QueuesDistinct, OnTail
  <2>4. CASE t = "app"
    <3>1. a = aa + e /\ aa \in Nat /\ rr = r
      BY <1>1, <2>1, <2>3, <2>4
    <3>2. o = 0 /\ oo = e /\ cc = c
      BY <1>4, <1>15, <2>4 DEF TakesUp, Taken
    <3>3. e \in Nat
      BY <1>4
    <3> HIDE DEF x, k, a, r, o, c, n, g, xx, kk, aa, rr, oo, cc, nn, gg, e
    <3>4. QED  BY <1>3, <2>2, <3>1, <3>2, <3>3
  <2>5. CASE t = "rec"
    <3>1. r = rr + e /\ rr \in Nat /\ aa = a
      BY <1>1, <2>1, <2>3, <2>5
    <3>2. c = 0 /\ cc = e /\ oo = o
      BY <1>4, <1>15, <2>5 DEF TakesUp, Taken
    <3>3. e \in Nat
      BY <1>4
    <3> HIDE DEF x, k, a, r, o, c, n, g, xx, kk, aa, rr, oo, cc, nn, gg, e
    <3>4. QED  BY <1>3, <2>2, <3>1, <3>2, <3>3
  <2>6. QED  BY <2>4, <2>5 DEF Outputs
<1>16. ASSUME NEW t \in Outputs, Resets(t)
       PROVE  Goal
  <2>1. /\ queue' = [queue EXCEPT ![t] = <<>>]
        /\ leaked' = [f \in Buffers |-> leaked[f] + InQueue(t, f)]
        /\ UNCHANGED <<refCount, outItem, recItem, netItem, grayItem>>
    BY <1>16 DEF Resets, ResetQueue, InQueue
  <2>2. xx = x /\ oo = o /\ cc = c /\ nn = n /\ gg = g
    BY <2>1
  <2>3. kk = k + On(queue[t], b)
    BY <1>1, <2>1, InQueueType DEF On
  <2>5. \/ kk = k + a /\ aa = 0 /\ rr = r
        \/ kk = k + r /\ rr = 0 /\ aa = a
    <3>1. CASE t = "app"
      <4>1. kk = k + a
        BY <2>3, <3>1
      <4>2. queue'["app"] = <<>> /\ queue'["rec"] = queue["rec"]
        BY <1>1, <2>1, <3>1
      <4>3. aa = 0 /\ rr = r
        BY <4>2, OnEmpty
      <4>4. QED  BY <4>1, <4>3
    <3>2. CASE t = "rec"
      <4>1. kk = k + r
        BY <2>3, <3>2
      <4>2. queue'["rec"] = <<>> /\ queue'["app"] = queue["app"]
        BY <1>1, <2>1, <3>2
      <4>3. rr = 0 /\ aa = a
        BY <4>2, OnEmpty
      <4>4. QED  BY <4>1, <4>3
    <3>3. QED  BY <3>1, <3>2 DEF Outputs
  <2> HIDE DEF x, k, a, r, o, c, n, g, xx, kk, aa, rr, oo, cc, nn, gg
  <2>6. QED  BY <1>3, <2>2, <2>5
<1> HIDE DEF Goal
<1>17. QED
  BY <1>6, <1>7, <1>8, <1>9, <1>10, <1>11, <1>12, <1>13, <1>14, <1>15, <1>16,
     DataEffectNext DEF DataEffect
-----------------------------------------------------------------------------
(* What the items find in their buffers.                                   *)

LEMMA ElementsKept ==
    ASSUME NEW q \in Seq(Items), NEW it
    PROVE  /\ q # <<>> => Head(q) \in ToSet(q) /\ ToSet(Tail(q)) \subseteq ToSet(q)
           /\ ToSet(Append(q, it)) \subseteq ToSet(q) \cup {it}
           /\ ToSet(<<>>) = {}
<1>1. Len(q) \in Nat /\ DOMAIN q = 1 .. Len(q)
  OBVIOUS
<1>2. ASSUME q # <<>>
      PROVE  Head(q) \in ToSet(q) /\ ToSet(Tail(q)) \subseteq ToSet(q)
  <2>1. /\ Head(q) = q[1] /\ 1 \in DOMAIN q
        /\ DOMAIN Tail(q) = 1 .. Len(q) - 1
        /\ \A i \in 1 .. Len(q) - 1 : Tail(q)[i] = q[i + 1] /\ i + 1 \in DOMAIN q
    BY <1>1, <1>2
  <2>2. QED  BY <2>1 DEF ToSet
<1>3. ToSet(Append(q, it)) \subseteq ToSet(q) \cup {it}
  <2>1. /\ DOMAIN Append(q, it) = 1 .. Len(q) + 1 /\ Append(q, it)[Len(q) + 1] = it
        /\ \A i \in 1 .. Len(q) : Append(q, it)[i] = q[i] /\ i \in DOMAIN q
    BY <1>1
  <2>2. \A i \in DOMAIN Append(q, it) : i = Len(q) + 1 \/ i \in 1 .. Len(q)
    BY <1>1, <2>1
  <2>3. QED  BY <2>1, <2>2 DEF ToSet
<1>4. ToSet(<<>>) = {}
  BY DEF ToSet
<1>5. QED  BY <1>2, <1>3, <1>4

(* No item appears from nothing, but for a new access unit.                *)
LEMMA HeldNext ==
    ASSUME Control, [Next]_vars
    PROVE  \/ Held' \subseteq Held \cup {NoItem} /\ content' = content
           \/ \E b \in Buffers : NetNewAu(b) \/ NetGray(b)
<1> DEFINE Kept == Held' \subseteq Held \cup {NoItem} /\ content' = content
<1>0. SUFFICES ASSUME ~\E b \in Buffers : NetNewAu(b) \/ NetGray(b)
               PROVE  Kept
  OBVIOUS
<1>1. /\ queue \in [Outputs -> Seq(Items)]
      /\ "app" \in Outputs /\ "rec" \in Outputs
  BY DEF Control, Shapes, FifoShape, Outputs
<1>2. ASSUME content' = content,
             {outItem', recItem', netItem', grayItem'} \subseteq Held \cup {NoItem},
             \A t \in Outputs : ToSet(queue'[t]) \subseteq Held
      PROVE  Kept
  BY <1>1, <1>2 DEF Held
<1>3. /\ {outItem, recItem, netItem, grayItem} \subseteq Held
      /\ \A t \in Outputs : ToSet(queue[t]) \subseteq Held
  BY DEF Held, Outputs
<1>4. CASE UNCHANGED <<poolVars, itemVars, last>>
  BY <1>2, <1>3, <1>4 DEF itemVars
<1>5. ASSUME NEW t \in Outputs, queue[t] # <<>>,
             queue' = [queue EXCEPT ![t] = Tail(@)]
      PROVE  /\ Head(queue[t]) \in Held
             /\ \A u \in Outputs : ToSet(queue'[u]) \subseteq Held
  <2>1. /\ Head(queue[t]) \in ToSet(queue[t])
        /\ ToSet(Tail(queue[t])) \subseteq ToSet(queue[t])
    BY <1>1, <1>5, ElementsKept
  <2>2. ASSUME NEW u \in Outputs
        PROVE  ToSet(queue'[u]) \subseteq Held
    <3>1. CASE u = t
      <4>1. queue'[u] = Tail(queue[t])
        BY <1>1, <1>5, <3>1
      <4>2. QED  BY <1>3, <2>1, <4>1
    <3>2. CASE u # t
      <4>1. queue'[u] = queue[u]
        BY <1>1, <1>5, <3>2
      <4>2. QED  BY <1>3, <4>1
    <3>3. QED  BY <3>1, <3>2
  <2>3. QED  BY <1>3, <2>1, <2>2
<1>6. CASE NetFlush /\ queue[target] # <<>> /\ target \in Outputs
  <2>1. /\ queue' = [queue EXCEPT ![target] = Tail(@)]
        /\ UNCHANGED <<content, outItem, recItem, netItem, grayItem>>
    BY <1>6 DEF NetFlush
  <2>2. QED  BY <1>2, <1>3, <1>5, <1>6, <2>1
<1>7. CASE NetEnqueue
  <2>1. /\ queue' = [queue EXCEPT ![target] = Append(@, Item)]
        /\ UNCHANGED <<content, outItem, recItem, netItem, grayItem>>
    BY <1>7 DEF NetEnqueue, EnqueueItem
  <2>2. Item \in Held
    BY DEF Item, Held
  <2>3. ASSUME NEW u \in Outputs
        PROVE  ToSet(queue'[u]) \subseteq Held
    <3>1. ToSet(Append(queue[u], Item)) \subseteq ToSet(queue[u]) \cup {Item}
      BY <1>1, ElementsKept
    <3>2. queue'[u] = queue[u] \/ queue'[u] = Append(queue[u], Item)
      BY <1>1, <2>1
    <3>3. QED  BY <1>3, <2>2, <3>1, <3>2
  <2>4. QED  BY <1>2, <1>3, <2>1, <2>3
<1>8. CASE NetFree
  BY <1>2, <1>3, <1>8 DEF NetFree
<1>9. CASE OutEnterReady
  BY <1>2, <1>3, <1>9 DEF OutEnterReady
<1>10. CASE OutFree \/ RecRecord
  BY <1>2, <1>3, <1>10 DEF OutFree, RecRecord
<1>11. ASSUME NEW t \in Outputs, TakesUp(t)
       PROVE  Kept
  <2>1. /\ queue[t] # <<>> /\ queue' = [queue EXCEPT ![t] = Tail(@)]
        /\ UNCHANGED <<content, netItem, grayItem>>
        /\ outItem' \in {outItem, Head(queue[t])}
        /\ recItem' \in {recItem, Head(queue[t])}
    BY <1>11 DEF TakesUp
  <2>2. QED  BY <1>2, <1>3, <1>5, <2>1
<1>12. ASSUME NEW t \in Outputs, Resets(t)
       PROVE  Kept
  <2>1. /\ queue' = [queue EXCEPT ![t] = <<>>]
        /\ UNCHANGED <<content, outItem, recItem, netItem, grayItem>>
    BY <1>12 DEF Resets, ResetQueue
  <2>2. \A u \in Outputs : queue'[u] = <<>> \/ queue'[u] = queue[u]
    BY <1>1, <2>1
  <2>3. ToSet(<<>>) = {}
    BY DEF ToSet
  <2>4. QED  BY <1>2, <1>3, <2>1, <2>2, <2>3
<1> HIDE DEF Kept
<1>13. QED
  BY <1>0, <1>4, <1>6, <1>7, <1>8, <1>9, <1>10, <1>11, <1>12, DataEffectNext
  DEF DataEffect

(* A buffer holds an access unit as long as it is referred to.             *)
LEMMA ReferredNext ==
    ASSUME Control, AllIntact, [Next]_vars, content' = content,
           NEW b \in Buffers, content[b] = 0
    PROVE  refCount'[b] = 0
<1> USE NullAssumption
<1>1. /\ Shapes /\ refCount \in [Buffers -> Nat] /\ refCount[b] = 0
  BY DEF Control, Shapes, PoolShape, AllIntact
<1>2. ASSUME NEW f, Unref(f)
      PROVE  refCount'[b] = 0
  BY <1>1, <1>2 DEF Unref
<1>3. CASE NetEnqueue
  <2>1. Item \in Items /\ Item \in {netItem, grayItem} /\ Item # NoItem
    BY <1>3, ItemShape DEF NetEnqueue, Outputting, Item
  <2>2. content[Item.buffer] = Item.au /\ Item.buffer \in Buffers
    BY <2>1 DEF AllIntact, Held, Items
  <2>3. netItem # NoItem /\ bound.au \in Nat
    BY <1>3 DEF NetEnqueue, Control, NetControl, NetHasNone, Shapes, BoundShape
  <2>4. Item.au \in {2 * bound.au - 1, 2 * bound.au} /\ bound.au > 0
    BY <2>3 DEF Control, NetControl, Item
  <2>5. Item.buffer # b
    BY <2>2, <2>3, <2>4
  <2>6. QED  BY <1>1, <1>3, <2>2, <2>5 DEF NetEnqueue, AddRef
<1>4. ASSUME NEW f \in Buffers, NetNewAu(f) \/ NetGray(f)
      PROVE  refCount'[b] = 0
  <2>1. ASSUME NEW au, GetBuffer(f, au), au \in Nat, au > 0
        PROVE  refCount'[b] = 0
    <3>1. content'[f] = au
      BY <1>1, <2>1 DEF GetBuffer, Shapes, PoolShape
    <3>2. b # f
      BY <2>1, <3>1
    <3>3. QED  BY <1>1, <2>1, <3>2 DEF GetBuffer
  <2>2. bound.au \in Nat
    BY <1>1 DEF Shapes, BoundShape
  <2>3. CASE NetNewAu(f)
    <3>1. 2 * (bound.au + 1) \in Nat /\ 2 * (bound.au + 1) > 0
      BY <2>2
    <3>2. QED  BY <2>1, <2>3, <3>1 DEF NetNewAu
  <2>4. CASE NetGray(f)
    <3>1. /\ netItem # NoItem /\ netItem.au = 2 * bound.au /\ bound.au > 0
      BY <2>4 DEF NetGray, GrayNeeded, Control, NetControl, NetHasNone
    <3>2. PICK frame \in GrayIdrFrame(f) :
             IF frame = NoItem THEN UNCHANGED poolVars ELSE GetBuffer(f, frame.au)
      BY <2>4 DEF NetGray
    <3>3. CASE frame = NoItem
      BY <1>1, <3>2, <3>3
    <3>4. CASE frame # NoItem
      <4>1. frame.au = netItem.au - 1
        BY <3>2, <3>4 DEF GrayIdrFrame
      <4>2. frame.au \in Nat /\ frame.au > 0
        BY <2>2, <3>1, <4>1
      <4>3. QED  BY <2>1, <3>2, <3>4, <4>2
    <3>5. QED  BY <3>3, <3>4
  <2>5. QED  BY <1>4, <2>3, <2>4
<1>5. CASE refCount' = refCount
  BY <1>1, <1>5
<1>6. CASE NetFlush
  BY <1>2, <1>5, <1>6 DEF NetFlush
<1>7. CASE NetFree \/ OutFree \/ RecRecord
  BY <1>2, <1>7 DEF NetFree, OutFree, RecRecord
<1>8. CASE OutEnterReady
  BY <1>5, <1>8 DEF OutEnterReady
<1>9. ASSUME NEW t \in Outputs, TakesUp(t) \/ Resets(t)
      PROVE  refCount' = refCount
  BY <1>9 DEF TakesUp, Resets
<1>10. QED
  BY <1>3, <1>4, <1>5, <1>6, <1>7, <1>8, <1>9, DataEffectNext DEF DataEffect

(* A buffer is given to an access unit only when no item refers to it.     *)
LEMMA IntactNext ==
    ASSUME Control, Ordered, CountExact, AllIntact, [Next]_vars
    PROVE  AllIntact'
<1> USE NullAssumption
<1>1. /\ Shapes /\ Shapes' /\ NetControl /\ NetControl'
      /\ content \in [Buffers -> Nat] /\ refCount \in [Buffers -> Nat]
      /\ bound.au \in Nat
  BY ControlNext DEF Control, Shapes, PoolShape, BoundShape
<1>2. \A it \in Held : it # NoItem =>
         /\ it \in Items /\ it.buffer \in Buffers
         /\ refCount[it.buffer] > 0 /\ content[it.buffer] = it.au
  BY <1>1, HeldCounted DEF AllIntact, Items
<1>3. CASE Held' \subseteq Held \cup {NoItem} /\ content' = content
  <2>1. \A it \in Held' : it # NoItem => content'[it.buffer] = it.au
    BY <1>2, <1>3
  <2>2. \A b \in Buffers : content'[b] = 0 => refCount'[b] = 0
    BY <1>3, ReferredNext
  <2>3. QED  BY <2>1, <2>2 DEF AllIntact
<1>4. ASSUME NEW f \in Buffers, NEW au \in Nat, au > 0, GetBuffer(f, au),
             NEW it, it.buffer = f, it.au = au, Held' \subseteq Held \cup {it, NoItem}
      PROVE  AllIntact'
  <2>1. /\ refCount[f] = 0 /\ content' = [content EXCEPT ![f] = au]
        /\ refCount' = [refCount EXCEPT ![f] = 1]
    BY <1>4 DEF GetBuffer, Free
  <2>2. ASSUME NEW i \in Held', i # NoItem
        PROVE  content'[i.buffer] = i.au
    <3>1. CASE i = it
      BY <1>1, <1>4, <2>1, <3>1
    <3>2. CASE i \in Held
      <4>1. i.buffer # f /\ i.buffer \in Buffers /\ content[i.buffer] = i.au
        BY <1>1, <1>2, <2>1, <2>2, <3>2
      <4>2. QED  BY <1>1, <2>1, <4>1
    <3>3. QED  BY <1>4, <2>2, <3>1, <3>2
  <2>3. ASSUME NEW b \in Buffers, content'[b] = 0
        PROVE  refCount'[b] = 0
    <3>1. b # f
      BY <1>1, <1>4, <2>1, <2>3
    <3>2. content[b] = 0
      BY <1>1, <2>1, <2>3, <3>1
    <3>3. QED  BY <1>1, <2>1, <3>1, <3>2 DEF AllIntact
  <2>4. QED  BY <2>2, <2>3 DEF AllIntact
<1>5. ASSUME NEW f \in Buffers, NetNewAu(f)
      PROVE  AllIntact'
  <2>1. /\ GetBuffer(f, 2 * (bound.au + 1))
        /\ netItem'.buffer = f /\ netItem'.au = 2 * (bound.au + 1)
        /\ UNCHANGED <<queue, outItem, recItem, grayItem>>
    BY <1>5 DEF NetNewAu
  <2>2. Held' \subseteq Held \cup {netItem', NoItem}
    BY <2>1 DEF Held
  <2>3. 2 * (bound.au + 1) \in Nat /\ 2 * (bound.au + 1) > 0
    BY <1>1
  <2>4. QED  BY <1>4, <2>1, <2>2, <2>3
<1>6. ASSUME NEW f \in Buffers, NetGray(f)
      PROVE  AllIntact'
  <2>1. PICK frame \in GrayIdrFrame(f) :
           /\ grayItem' = frame
           /\ IF frame = NoItem THEN UNCHANGED poolVars ELSE GetBuffer(f, frame.au)
    BY <1>6 DEF NetGray
  <2>2. UNCHANGED <<queue, outItem, recItem, netItem>>
    BY <1>6 DEF NetGray
  <2>3. Held' \subseteq Held \cup {frame, NoItem}
    BY <2>1, <2>2 DEF Held
  <2>4. CASE frame = NoItem
    BY <1>3, <2>1, <2>3, <2>4
  <2>5. CASE frame # NoItem
    <3>1. netItem # NoItem /\ netItem.au = 2 * bound.au /\ bound.au > 0
      BY <1>1, <1>6 DEF NetGray, GrayNeeded, NetControl, NetHasNone
    <3>2. frame.au = netItem.au - 1 /\ frame.buffer = f
      BY <2>1, <2>5 DEF GrayIdrFrame
    <3>3. frame.au \in Nat /\ frame.au > 0
      BY <1>1, <3>1, <3>2
    <3>4. QED  BY <1>4, <2>1, <2>3, <2>5, <3>2, <3>3
  <2>6. QED  BY <2>4, <2>5
<1>7. QED  BY <1>3, <1>5, <1>6, HeldNext
-----------------------------------------------------------------------------
(* The requests for a gray IDR frame.                                      *)

(* The configuration of a run stays what it is.                            *)
LEMMA GrayConstant ==
    ASSUME Shapes, [Next]_vars
    PROVE  bound'.gray = bound.gray
<1>1. CASE UNCHANGED bound
  BY <1>1
<1>2. ASSUME NEW b \in Buffers, NetNewAu(b)
      PROVE  bound'.gray = bound.gray
  BY <1>2 DEF NetNewAu, Shapes, BoundShape
<1>3. CASE OutLeaveReady \/ StartAppOutput \/ StartRecorder
  BY <1>3 DEF OutLeaveReady, StartAppOutput, StartRecorder, Shapes, BoundShape
<1>4. CASE NetStep
  <2>1. ASSUME NEW b \in Buffers, NetGray(b)
        PROVE  UNCHANGED bound
    BY <2>1 DEF NetGray
  <2>2. QED
    BY <1>1, <1>2, <1>4, <2>1
    DEF NetStep, NetNoBuffer, NetFlush, NetFlushed, NetSync, NetFiltered,
        NetCreateRecorder, NetAddRecorder, NetRunRecorder, NetEnterSpsPps,
        NetLeaveSpsPps, NetNoGray, NetAccept, NetSkip, NetEnqueue, NetSignal,
        NetFree, NetEnd
<1>5. CASE OutStep
  BY <1>1, <1>3, <1>5 DEF OutStep, OutBegin, OutLoop, OutEnterGet, OutNoBuffer,
     OutEnterReady, OutResync, OutFree, OutNext, OutCheck
<1>6. CASE RecStep
  BY <1>1, <1>6 DEF RecStep, RecCheck, RecDequeue, RecRecord
<1>7. CASE AppCall
  BY <1>1, <1>3, <1>7 DEF AppCall, StopAppOutput, StopRecorder, Stop, EndRecorder
<1>8. CASE AppStep
  BY <1>1, <1>8 DEF AppStep, AppSleep, StartRegister, StartEnterSpsPps,
     StartLeaveSpsPps, StartRun, StopUnregister, StopRemove, RecorderPending,
     AppCreateRecorder, AppAddRecorder, AppRunRecorder, RecorderStopped,
     FreeRecorder, RecorderRemove, StopNetwork, StopThread, StopSignal
<1>9. CASE UNCHANGED vars
  BY <1>1, <1>9 DEF vars
<1>10. QED  BY <1>4, <1>5, <1>6, <1>7, <1>8, <1>9 DEF Next

(* What a step does to the requests: one is made, by what is started or    *)
(* has to resynchronise; an access unit is accepted; a gray frame is       *)
(* queued; an IDR frame of the stream makes gray ones unnecessary; or a    *)
(* stop makes them void.                                                   *)
RequestEffect ==
    \/ UNCHANGED <<grayVars, running>>
    \/ \E t \in Outputs :
          AskGray(t) /\ running' \in {running, [running EXCEPT ![t] = TRUE]}
    \/ UNCHANGED grayVars
          /\ \E t \in Outputs : running' = [running EXCEPT ![t] = FALSE]
    \/ NetAccept \/ NetSignal \/ NetNoGray

LEMMA RequestEffectNext ==
    ASSUME [Next]_vars
    PROVE  RequestEffect
<1> USE DEF RequestEffect
<1>1. "app" \in Outputs /\ "rec" \in Outputs
  BY DEF Outputs
<1>2. CASE NetRunRecorder \/ AppRunRecorder \/ StartRun \/ OutResync
  <2>1. CASE NetRunRecorder \/ AppRunRecorder
    <3>1. AskGray("rec") /\ running' = [running EXCEPT !["rec"] = TRUE]
      BY <2>1 DEF NetRunRecorder, AppRunRecorder, RunRecorder
    <3>2. QED  BY <1>1, <3>1
  <2>2. CASE StartRun
    <3>1. AskGray("app") /\ running' = [running EXCEPT !["app"] = TRUE]
      BY <2>2 DEF StartRun
    <3>2. QED  BY <1>1, <3>1
  <2>3. CASE OutResync
    <3>1. AskGray("app") /\ running' = running
      BY <2>3 DEF OutResync
    <3>2. QED  BY <1>1, <3>1
  <2>4. QED  BY <1>2, <2>1, <2>2, <2>3
<1>3. CASE StopAppOutput \/ RecorderStopped
  <2>1. CASE StopAppOutput
    <3>1. UNCHANGED grayVars /\ running' = [running EXCEPT !["app"] = FALSE]
      BY <2>1 DEF StopAppOutput
    <3>2. QED  BY <1>1, <3>1
  <2>2. CASE RecorderStopped
    <3>1. UNCHANGED grayVars /\ running' = [running EXCEPT !["rec"] = FALSE]
      BY <2>2 DEF RecorderStopped
    <3>2. QED  BY <1>1, <3>1
  <2>3. QED  BY <1>3, <2>1, <2>2
<1>4. CASE NetStep
  <2>1. CASE NetAccept \/ NetSignal \/ NetNoGray \/ NetRunRecorder
    BY <1>2, <2>1
  <2>2. ASSUME NEW b \in Buffers, NetNewAu(b) \/ NetGray(b)
        PROVE  UNCHANGED <<grayVars, running>>
    BY <2>2 DEF NetNewAu, NetGray
  <2>3. CASE NetNoBuffer \/ NetFlush \/ NetFlushed \/ NetSync \/ NetFiltered
    BY <2>3 DEF NetNoBuffer, NetFlush, NetFlushed, NetSync, NetFiltered
  <2>4. CASE NetCreateRecorder \/ NetAddRecorder \/ NetEnterSpsPps \/ NetLeaveSpsPps
    BY <2>4 DEF NetCreateRecorder, NetAddRecorder, NetEnterSpsPps, NetLeaveSpsPps
  <2>5. CASE NetSkip \/ NetEnqueue \/ NetFree \/ NetEnd
    BY <2>5 DEF NetSkip, NetEnqueue, NetFree, NetEnd
  <2>6. QED  BY <1>4, <2>1, <2>2, <2>3, <2>4, <2>5 DEF NetStep
<1>5. CASE OutStep
  BY <1>2, <1>5 DEF OutStep, OutBegin, OutLoop, OutEnterGet, OutNoBuffer,
     OutEnterReady, OutLeaveReady, OutFree, OutNext, OutCheck
<1>6. CASE RecStep
  BY <1>6 DEF RecStep, RecCheck, RecDequeue, RecRecord
<1>7. CASE AppCall
  BY <1>3, <1>7 DEF AppCall, StartAppOutput, StartRecorder, StopRecorder, Stop,
     EndRecorder
<1>8. CASE AppStep
  BY <1>2, <1>3, <1>8 DEF AppStep, AppSleep, StartRegister, StartEnterSpsPps,
     StartLeaveSpsPps, StopUnregister, StopRemove, RecorderPending,
     AppCreateRecorder, AppAddRecorder, FreeRecorder, RecorderRemove,
     StopNetwork, StopThread, StopSignal
<1>9. CASE UNCHANGED vars
  BY <1>9 DEF vars
<1>10. QED  BY <1>4, <1>5, <1>6, <1>7, <1>8, <1>9 DEF Next

(* An IDR frame that comes for t is not skipped.                           *)
LEMMA IdrKept ==
    ASSUME Control, [Next]_vars, NEW t \in Outputs, IdrComes(t), running[t],
           t \notin pending
    PROVE  IdrComes(t)' \/ (NetAccept /\ t = target)
<1> USE NullAssumption DEF IdrComes
<1>1. /\ grayItem = NoItem /\ netItem.sync = "idr"
      /\ netPc \in {"output", "enqueue", "signal"}
      /\ t \in {"app", "rec"} /\ target \in {"app", "rec"}
  BY DEF Control, NetControl, Flushing, Outputs
<1>2. CASE UNCHANGED netVars
  BY <1>1, <1>2 DEF Passed
<1>3. CASE NetSkip
  <2>1. target # t
    BY <1>1, <1>3 DEF NetSkip, Accepts
  <2>2. target = "app" /\ t = "rec"
    BY <1>1, <1>3, <2>1 DEF NetSkip, Passed
  <2>3. QED  BY <1>1, <1>3, <2>2 DEF NetSkip, AfterOutput, Other, Passed
<1>4. CASE NetAccept /\ t # target
  BY <1>1, <1>4 DEF NetAccept, Passed
<1>5. CASE NetEnqueue
  BY <1>1, <1>5 DEF NetEnqueue
<1>6. CASE NetSignal
  <2>1. target = "app" /\ t = "rec"
    BY <1>1, <1>6 DEF NetSignal
  <2>2. QED  BY <1>1, <1>6, <2>1 DEF NetSignal, AfterOutput, Other, Passed
<1>7. CASE NetStep
  <2>1. ASSUME NEW b \in Buffers
        PROVE  ~NetNewAu(b) /\ ~NetGray(b)
    BY <1>1 DEF NetNewAu, NetGray, GrayNeeded
  <2>2. NetSkip \/ NetAccept \/ NetEnqueue \/ NetSignal
    BY <1>1, <1>7, <2>1
    DEF NetStep, NetNoBuffer, GrayNeeded, NetFlush, NetFlushed, NetSync,
        NetFiltered, NetCreateRecorder, NetAddRecorder, NetRunRecorder,
        NetEnterSpsPps, NetLeaveSpsPps, NetNoGray, NetFree, NetEnd
  <2>3. QED  BY <1>3, <1>4, <1>5, <1>6, <2>2
<1>8. QED  BY <1>2, <1>7, NetAlone DEF Next, Control

LEMMA RequestNext ==
    ASSUME Control, RequestKept, [Next]_vars
    PROVE  RequestKept'
<1>1. /\ bound'.gray = bound.gray /\ running \in [Outputs -> BOOLEAN]
      /\ asked \subseteq Outputs
  BY GrayConstant DEF Control, Shapes, RunShape, GrayShape
<1>2. ASSUME asked' # {} => bound.gray,
             \A t \in Outputs : t \in asked' \ dropped' /\ running'[t] /\ t \notin pending'
                => /\ t \in asked \ dropped /\ running[t] /\ t \notin pending
                   /\ ~(NetAccept /\ t = target),
             asked' \subseteq Outputs
      PROVE  RequestKept'
  <2>1. ASSUME NEW t \in asked' \ dropped', running'[t], t \notin pending'
        PROVE  IdrComes(t)'
    <3>1. /\ t \in Outputs /\ t \in asked \ dropped /\ running[t] /\ t \notin pending
          /\ ~(NetAccept /\ t = target)
      BY <1>2, <2>1
    <3>2. IdrComes(t)
      BY <3>1 DEF RequestKept
    <3>3. QED  BY <3>1, <3>2, IdrKept
  <2>2. QED  BY <1>1, <1>2, <2>1 DEF RequestKept
<1>3. asked # {} => bound.gray
  BY DEF RequestKept
<1>4. CASE NetAccept
  <2>1. ASSUME NEW t \in Outputs, t = target, t \in asked' \ dropped',
               running'[t], t \notin pending'
        PROVE  FALSE
    <3>1. /\ Item.sync # "idr" /\ t \in asked \ dropped /\ running[t]
          /\ t \notin pending
      BY <1>4, <2>1 DEF NetAccept
    <3>2. grayItem = NoItem
      BY <3>1 DEF Control, NetControl, Item
    <3>3. IdrComes(t)
      BY <2>1, <3>1 DEF RequestKept
    <3>4. QED  BY <3>1, <3>2, <3>3 DEF IdrComes, Item
  <2>2. asked' \subseteq asked /\ UNCHANGED <<dropped, pending, running>>
    BY <1>4 DEF NetAccept
  <2>3. QED  BY <1>1, <1>2, <1>3, <2>1, <2>2
<1>5. CASE NetSignal
  <2>1. /\ UNCHANGED <<asked, running>> /\ ~NetAccept
        /\ \/ UNCHANGED <<pending, dropped>>
           \/ /\ pending' = pending \ {target}
              /\ dropped' = dropped \cup (asked \cap {target})
    BY <1>5 DEF NetSignal, NetAccept
  <2>2. QED  BY <1>1, <1>2, <1>3, <2>1
<1>6. CASE NetNoGray
  <2>1. CASE UNCHANGED pending
    <3>1. UNCHANGED <<asked, dropped, pending, running>> /\ ~NetAccept
      BY <1>6, <2>1 DEF NetNoGray, NetAccept
    <3>2. QED  BY <1>1, <1>2, <1>3, <3>1
  <2>2. CASE netItem.sync = "idr"
    <3>1. /\ netPc = "gray" /\ netPc' = "output"
          /\ UNCHANGED <<asked, bound, netItem, grayItem, target>>
      BY <1>6 DEF NetNoGray
    <3>2. grayItem = NoItem /\ target = "app"
      BY <3>1 DEF Control, NetControl, Outputting
    <3>3. \A t : IdrComes(t)'
      BY <2>2, <3>1, <3>2 DEF IdrComes, Passed
    <3>4. QED  BY <1>3, <3>1, <3>3 DEF RequestKept
  <2>3. QED  BY <1>6, <2>1, <2>2 DEF NetNoGray
<1>7. CASE UNCHANGED grayVars /\ running' = running
  <2>1. CASE NetAccept
    BY <1>4, <2>1
  <2>2. CASE ~NetAccept
    BY <1>1, <1>2, <1>3, <1>7, <2>2
  <2>3. QED  BY <2>1, <2>2
<1>8. ASSUME NEW t \in Outputs, UNCHANGED grayVars,
             running' = [running EXCEPT ![t] = FALSE]
      PROVE  RequestKept'
  <2>1. CASE NetAccept
    BY <1>4, <2>1
  <2>2. CASE ~NetAccept
    <3>1. \A u \in Outputs : running'[u] => running[u]
      BY <1>1, <1>8
    <3>2. QED  BY <1>1, <1>2, <1>3, <1>8, <2>2, <3>1
  <2>3. QED  BY <2>1, <2>2
<1>9. ASSUME NEW t \in Outputs, AskGray(t),
             running' \in {running, [running EXCEPT ![t] = TRUE]}
      PROVE  RequestKept'
  <2>1. CASE NetAccept
    BY <1>4, <2>1
  <2>2. CASE ~NetAccept
    <3>1. \A u \in Outputs : u # t /\ running'[u] => running[u]
      BY <1>1, <1>9
    <3>2. CASE bound.gray
      BY <1>1, <1>2, <1>9, <2>2, <3>1, <3>2 DEF AskGray
    <3>3. CASE ~bound.gray
      <4>1. asked' = {}
        BY <1>3, <1>9, <3>3 DEF AskGray
      <4>2. QED  BY <4>1 DEF RequestKept
    <3>4. QED  BY <3>2, <3>3
  <2>3. QED  BY <2>1, <2>2
<1>10. QED
  BY <1>4, <1>5, <1>6, <1>7, <1>8, <1>9, RequestEffectNext DEF RequestEffect

-----------------------------------------------------------------------------
(* The invariant, from the first state on.                                 *)

LEMMA IInvInit == Init => IInv
<1> SUFFICES ASSUME Init PROVE IInv
  OBVIOUS
<1> USE NullAssumption
<1>1. Control /\ Shapes
  BY ControlInit, ShapesInit
<1>2. /\ refCount = [b \in Buffers |-> 0] /\ content = [b \in Buffers |-> 0]
      /\ leaked = [b \in Buffers |-> 0] /\ queue = [t \in Outputs |-> <<>>]
      /\ last = [t \in Outputs |-> 0] /\ asked = {}
      /\ netItem = NoItem /\ grayItem = NoItem /\ outItem = NoItem
      /\ recItem = NoItem /\ outPc = "begin" /\ recPc = "none"
  BY DEF Init
<1>3. bound.au = 0
  BY BoundAssumption DEF Init, AutoStartRecorder
<1>4. Ordered
  <2>1. ASSUME NEW t \in Outputs
        PROVE  OrderedAt(t)
    <3>1. last[t] = 0 /\ queue[t] = <<>>
      BY <1>2
    <3>2. Bar(t) = 0 /\ Limit(t) = 0
      BY <1>2, <1>3, <3>1 DEF Bar, Taken, Limit
    <3>3. Rising(queue[t], 0, 0)
      BY <3>1 DEF Rising
    <3>4. QED  BY <3>1, <3>2, <3>3 DEF OrderedAt
  <2>2. QED  BY <1>2, <2>1 DEF Ordered
<1>5. CountExact
  <2>1. ASSUME NEW b \in Buffers
        PROVE  Count(b) = 0
    <3>1. queue["app"] = <<>> /\ queue["rec"] = <<>>
      BY <1>2 DEF Outputs
    <3>2. InQueue("app", b) = 0 /\ InQueue("rec", b) = 0
      BY <3>1, OnEmpty DEF InQueue, On, Pointing
    <3>3. QED  BY <1>2, <3>2 DEF Count, Refers
  <2>2. QED  BY <1>2, <2>1 DEF CountExact
<1>6. AllIntact
  <2>1. queue["app"] = <<>> /\ queue["rec"] = <<>>
    BY <1>2 DEF Outputs
  <2>2. ToSet(<<>>) = {}
    BY DEF ToSet
  <2>3. Held = {NoItem}
    BY <1>2, <2>1, <2>2 DEF Held
  <2>4. QED  BY <1>2, <2>3 DEF AllIntact
<1>7. RequestKept
  BY <1>2 DEF RequestKept
<1>8. QED  BY <1>1, <1>4, <1>5, <1>6, <1>7 DEF IInv

LEMMA IInvNext == IInv /\ [Next]_vars => IInv'
  BY ControlNext, OrderedNext, CountNext, IntactNext, RequestNext DEF IInv

THEOREM IInvHolds == Spec => []IInv
  BY IInvInit, IInvNext, PTL DEF Spec

-----------------------------------------------------------------------------
(* Every variable keeps its type; a buffer that holds nothing is free.     *)
THEOREM TypeCorrect == Spec => []TypeOK
<1>1. IInv => TypeOK
  BY DEF IInv, Control, Shapes, AllIntact, PoolShape, FifoShape, FlagShape,
     RunShape, GrayShape, HeldShape, ReaderShape, QueuePtrs, ItemPtrs, TypeOK
<1>2. QED  BY <1>1, IInvHolds, PTL

(* A buffer is free exactly when nothing refers to it: whatever the order  *)
(* of the enqueues, dequeues, flushes, stops and restarts, the reference   *)
(* count of the FIFO (arstream2_h264.c) is the number of items that use    *)
(* the buffer, and of those that a stop has lost.                          *)
THEOREM CountsExact == Spec => []RefCountExact
<1>1. IInv => RefCountExact
  <2> SUFFICES ASSUME IInv, NEW b \in Buffers
               PROVE  refCount[b] = Cardinality(Holders(b)) + leaked[b]
    BY DEF RefCountExact
  <2>1. Cardinality(Holders(b)) = Count(b)
    BY HoldersCount DEF IInv, Control
  <2>2. QED  BY <2>1 DEF IInv, CountExact
<1>2. QED  BY <1>1, IInvHolds, PTL

(* What the queues and the two threads hold is what was received: no       *)
(* buffer is given to another access unit while it is referred to.         *)
THEOREM Intact == Spec => []HeldAuIntact
<1>1. IInv => HeldAuIntact
  <2>1. \A t \in Outputs : ToSet(queue[t]) \subseteq Held
    BY DEF Held, Outputs
  <2>2. {outItem, recItem} \subseteq Held
    BY DEF Held
  <2>3. QED  BY <2>1, <2>2 DEF IInv, AllIntact, HeldAuIntact
<1>2. QED  BY <1>1, IInvHolds, PTL

(* What the output thread gives to the application, and the recorder's to  *)
(* the file, is each time later in the stream than the last one, a gray    *)
(* IDR frame just before what it was made for: none comes out of order,    *)
(* and none twice, through every flush, stop, restart and                  *)
(* resynchronisation.                                                      *)
THEOREM InOrder == Spec => DeliveredInOrder
<1>1. IInv /\ [Next]_vars =>
         [/\ OutEnterReady => last'["app"] > last["app"]
          /\ RecRecord     => last'["rec"] > last["rec"]]_vars
  <2>1. SUFFICES ASSUME IInv
                 PROVE  /\ OutEnterReady => last'["app"] > last["app"]
                        /\ RecRecord     => last'["rec"] > last["rec"]
    OBVIOUS
  <2>2. "app" \in Outputs /\ "rec" \in Outputs /\ last \in [Outputs -> Nat]
    BY <2>1 DEF IInv, Control, Shapes, ReaderShape, Outputs
  <2>3. ASSUME OutEnterReady
        PROVE  last'["app"] > last["app"]
    <3>1. outItem # NoItem /\ last["app"] < outItem.au
      BY <2>1, <2>3 DEF IInv, Ordered, Control, OutControl, OutEnterReady
    <3>2. content[outItem.buffer] = outItem.au
      BY <2>1, <3>1 DEF IInv, AllIntact, Held
    <3>3. QED  BY <2>2, <2>3, <3>1, <3>2 DEF OutEnterReady
  <2>4. ASSUME RecRecord
        PROVE  last'["rec"] > last["rec"]
    <3>1. recItem # NoItem /\ last["rec"] < recItem.au
      BY <2>1, <2>4 DEF IInv, Ordered, Control, RecControl, RecRecord
    <3>2. content[recItem.buffer] = recItem.au
      BY <2>1, <3>1 DEF IInv, AllIntact, Held
    <3>3. QED  BY <2>2, <2>4, <3>1, <3>2 DEF RecRecord
  <2>5. QED  BY <2>3, <2>4
<1>2. QED  BY <1>1, IInvHolds, PTL DEF Spec, DeliveredInOrder

(* An output that has asked for an IDR frame is given nothing else before, *)
(* except when its request was taken for answered by the end of the one    *)
(* before.                                                                 *)
THEOREM Served == Spec => RequestsServed
<1>1. IInv => [\A t \in Outputs :
                  NetAccept /\ t = target /\ t \in asked \ dropped
                     => Item.sync = "idr"]_vars
  <2>1. SUFFICES ASSUME IInv, NEW t \in Outputs, NetAccept, t = target,
                        t \in asked \ dropped
                 PROVE  Item.sync = "idr"
    OBVIOUS
  <2>2. running[t] /\ (grayItem = NoItem => t \notin pending \/ netItem.sync = "idr")
    BY <2>1 DEF NetAccept, Accepts
  <2>3. CASE grayItem # NoItem
    BY <2>1, <2>3 DEF IInv, Control, NetControl, Item
  <2>4. CASE grayItem = NoItem
    BY <2>1, <2>2, <2>4 DEF IInv, RequestKept, IdrComes, Item
  <2>5. QED  BY <2>3, <2>4
<1>2. QED  BY <1>1, IInvHolds, PTL DEF Spec, RequestsServed

=============================================================================
