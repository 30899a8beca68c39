---------------------------- MODULE FilterProofs -----------------------------
(***************************************************************************)
(* The frames that the filter counts: whatever the depayloader loses of a  *)
(* stream that conforms, the frames counted are the ones output, those     *)
(* missed and the non-reference ones not output, and the gap told before a *)
(* reference frame is the number of reference frames lost there.  The      *)
(* proof reads off an access unit what one call of the filter makes of it, *)
(* from the frame_num of its slices and those of the reference frames      *)
(* counted before; DepayloaderProofs says that the access units are whole  *)
(* frames, or what is left of them, in the order of the stream.            *)
(***************************************************************************)
EXTENDS DepayloaderProofs, FiniteSetTheorems

(* The fields of the filter that the counters depend on.                   *)
Tracked == {"sync", "spsSync", "ppsSync", "frameNum", "previousFrameNum", "isIdr",
            "isRef", "syncType", "slicesReceived", "inferredIdrInterval",
            "total", "output", "missed"}

Frame(k) == script.frames[k]

(* The last reference frame of C before k, and 0 if there is none.         *)
RefBefore(C, k) == Max({j \in C : j < k /\ Frame(j).ref} \cup {0})

(* What ResetAu makes of previousFrameNum.                                 *)
PreviousNum(f) == IF f.isRef THEN f.frameNum ELSE f.previousFrameNum

Typed(f) ==
    /\ Tracked \subseteq DOMAIN f
    /\ {f.sync, f.spsSync, f.ppsSync, f.isIdr, f.isRef, f.slicesReceived} \subseteq BOOLEAN
    /\ {f.frameNum, f.previousFrameNum, f.inferredIdrInterval,
        f.total, f.output, f.missed} \subseteq Int
    /\ f.sync <=> f.spsSync /\ f.ppsSync

(* frame_num of the last reference frame of C, all of them before k.       *)
Remembers(num, C, k) ==
    num = IF RefBefore(C, k) = 0 THEN -1 ELSE Frame(RefBefore(C, k)).num

(* The counters of the filter are right for the frames counted and shown.  *)
Counts(f, C, S) ==
    /\ C \subseteq DOMAIN script.frames /\ S \subseteq C /\ IsFiniteSet(C)
    /\ f.total = f.output + f.missed + Cardinality({j \in C \ S : ~Frame(j).ref})

FilterOK(f, C, S) ==
    /\ Typed(f) /\ Counts(f, C, S)
    /\ ~f.sync => C = {} /\ ~f.isRef
    /\ \A k \in Nat : f.sync /\ (\A j \in C : j < k) => Remembers(PreviousNum(f), C, k)

(* The gap that a result tells of before its frame.                        *)
GapTold(r, C) ==
    LET b    == RefBefore(C, r.frame)
        lost == IF b = 0 THEN {} ELSE {j \in b + 1 .. r.frame - 1 : Frame(j).ref}
    IN  /\ r.counted /\ r.isRef
        /\ \A j \in lost \cup {r.frame} : ~Frame(j).idr
        /\ Cardinality(lost) < script.maxFrameNum - 1
        => r.lost = IF Cardinality(lost) < r.interval THEN Cardinality(lost) ELSE 0

(* FilterOK and GapTold, of any script.                                    *)
Recorded(sc, f, C, S) ==
    LET ref(k) == Max({j \in C : j < k /\ sc.frames[j].ref} \cup {0})
    IN  /\ Typed(f)
        /\ C \subseteq DOMAIN sc.frames /\ S \subseteq C /\ IsFiniteSet(C)
        /\ f.total = f.output + f.missed + Cardinality({j \in C \ S : ~sc.frames[j].ref})
        /\ ~f.sync => C = {} /\ ~f.isRef
        /\ \A k \in Nat : f.sync /\ (\A j \in C : j < k) =>
              PreviousNum(f) = IF ref(k) = 0 THEN -1 ELSE sc.frames[ref(k)].num

Told(sc, r, C) ==
    LET b    == Max({j \in C : j < r.frame /\ sc.frames[j].ref} \cup {0})
        lost == IF b = 0 THEN {} ELSE {j \in b + 1 .. r.frame - 1 : sc.frames[j].ref}
    IN  /\ r.counted /\ r.isRef
        /\ \A j \in lost \cup {r.frame} : ~sc.frames[j].idr
        /\ Cardinality(lost) < sc.maxFrameNum - 1
        => r.lost = IF Cardinality(lost) < r.interval THEN Cardinality(lost) ELSE 0

(* The packets sent are those of the script.                               *)
SentBy(st) ==
    /\ Len(st) <= Len(script.packets)
    /\ \A j \in 1 .. Len(st) :
          /\ st[j].kind = script.packets[j].kind
          /\ st[j].marker = script.packets[j].marker
          /\ st[j].ts = script.packets[j].frame

Sent == script.packets # <<>> => SentBy(stream)

(* The frames counted are of access units that were output.                *)
CountedOutput ==
    \A j \in counted : \E i \in DOMAIN output :
        output[i].nalus # <<>> /\ j = Ts(stream, output[i].nalus[1])

FramesInv ==
    /\ FilterInv /\ Sent /\ CountedOutput
    /\ Recorded(script, filter, counted, shown)
    /\ \A i \in DOMAIN results : Told(script, results[i], counted)

-----------------------------------------------------------------------------
(* The two folds of the filter, over the NALUs of an access unit and over  *)
(* the access units of a step.                                             *)

Handled(how, acc, x) ==
    IF how[1] = "nalu" THEN FilterNalu(acc, how[2], x) ELSE ProcessAu(acc, x)

IsFold(f, how, base, seq, n) ==
    f = [z \in SUBSET (1 .. n) |->
           IF z = {} THEN base ELSE Handled(how, f[z \ {Max(z)}], seq[Max(z)])]

(* The values of a fold on the prefixes of the sequence.                   *)
Folded(st, how, base, seq) ==
    /\ st[0] = base
    /\ \A k \in 1 .. Len(seq) : st[k] = Handled(how, st[k - 1], seq[k])

LEMMA FoldExists ==
    ASSUME NEW how, NEW base, NEW seq, NEW n \in Nat
    PROVE  \E f : IsFold(f, how, base, seq, n)
<1> DEFINE E == {m \in Nat : \E f : IsFold(f, how, base, seq, m)}
<1>1. 0 \in E
  <2>1. SUBSET (1 .. 0) = {{}}
    OBVIOUS
  <2>2. PICK f : f = [z \in SUBSET (1 .. 0) |-> base]
    OBVIOUS
  <2>3. f = [z \in SUBSET (1 .. 0) |->
               IF z = {} THEN base ELSE Handled(how, f[z \ {Max(z)}], seq[Max(z)])]
    BY <2>1, <2>2
  <2>4. QED  BY <2>3 DEF IsFold
<1>2. ASSUME NEW m \in Nat, m \in E
      PROVE  m + 1 \in E
  <2>1. PICK g : IsFold(g, how, base, seq, m)
    BY <1>2
  <2> DEFINE D == SUBSET (1 .. m)
             h == [z \in SUBSET (1 .. m + 1) |->
                     IF m + 1 \in z THEN Handled(how, g[z \ {m + 1}], seq[m + 1]) ELSE g[z]]
             Value(f, z) == IF z = {} THEN base ELSE Handled(how, f[z \ {Max(z)}], seq[Max(z)])
  <2>2. \A z \in D : g[z] = Value(g, z)
    BY <2>1 DEF IsFold
  <2>3. \A z \in D : z \in SUBSET (1 .. m + 1) /\ m + 1 \notin z /\ h[z] = g[z]
    OBVIOUS
  <2>4. ASSUME NEW z \in SUBSET (1 .. m + 1)
        PROVE  h[z] = Value(h, z)
    <3>1. CASE m + 1 \in z
      <4>1. Max(z) = m + 1
        <5>1. \A y \in z : y \in Nat /\ y <= m + 1
          OBVIOUS
        <5>2. \A x \in z : (\A y \in z : x >= y) => x = m + 1
          BY <3>1, <5>1
        <5>3. \A y \in z : m + 1 >= y
          BY <5>1
        <5>4. QED  BY <3>1, <5>2, <5>3 DEF Max
      <4>2. z \ {m + 1} \in D
        OBVIOUS
      <4>3. h[z \ {m + 1}] = g[z \ {m + 1}]
        BY <2>3, <4>2
      <4>4. h[z] = Handled(how, g[z \ {m + 1}], seq[m + 1])
        BY <3>1
      <4> HIDE DEF h
      <4>5. QED  BY <3>1, <4>1, <4>3, <4>4
    <3>2. CASE m + 1 \notin z
      <4>1. z \in D
        BY <3>2
      <4>5. z \ {Max(z)} \in D
        BY <4>1
      <4>2. h[z] = g[z] /\ h[z \ {Max(z)}] = g[z \ {Max(z)}]
        BY <2>3, <4>1, <4>5
      <4> HIDE DEF h
      <4>3. QED  BY <2>2, <4>1, <4>2, <3>2
    <3>3. QED  BY <3>1, <3>2
  <2>5. h = [z \in SUBSET (1 .. m + 1) |-> h[z]]
    OBVIOUS
  <2> HIDE DEF h
  <2>6. h = [z \in SUBSET (1 .. m + 1) |-> Value(h, z)]
    BY <2>4, <2>5
  <2>7. IsFold(h, how, base, seq, m + 1)
    BY <2>6 DEF IsFold
  <2>8. QED  BY <2>7
<1> HIDE DEF E
<1>3. Nat \subseteq E
  BY <1>1, <1>2, SetInduction
<1>4. QED  BY <1>3 DEF E

LEMMA FoldStates ==
    ASSUME NEW how, NEW base, NEW seq, Len(seq) \in Nat,
           NEW f, IsFold(f, how, base, seq, Len(seq))
    PROVE  \E st : Folded(st, how, base, seq) /\ f[1 .. Len(seq)] = st[Len(seq)]
<1>1. PICK n \in Nat : n = Len(seq)
  OBVIOUS
<1>2. \A z \in SUBSET (1 .. n) :
         f[z] = IF z = {} THEN base ELSE Handled(how, f[z \ {Max(z)}], seq[Max(z)])
  BY <1>1 DEF IsFold
<1>3. PICK st : st = [k \in 0 .. n |-> f[1 .. k]]
  OBVIOUS
<1>4. st[0] = base
  <2>1. 1 .. 0 = {} /\ {} \in SUBSET (1 .. n)
    OBVIOUS
  <2>2. f[{}] = base
    BY <1>2, <2>1
  <2>3. QED  BY <1>3, <2>1, <2>2
<1>5. ASSUME NEW k \in 1 .. n
      PROVE  st[k] = Handled(how, st[k - 1], seq[k])
  <2>1. 1 .. k \in SUBSET (1 .. n) /\ 1 .. k # {}
    OBVIOUS
  <2>2. Max(1 .. k) = k
    BY DEF Max
  <2>3. (1 .. k) \ {k} = 1 .. k - 1
    OBVIOUS
  <2>4. f[1 .. k] = Handled(how, f[1 .. k - 1], seq[k])
    BY <1>2, <2>1, <2>2, <2>3
  <2>5. QED  BY <1>3, <2>4
<1>6. Folded(st, how, base, seq)
  BY <1>1, <1>4, <1>5 DEF Folded
<1>7. f[1 .. Len(seq)] = st[Len(seq)]
  BY <1>1, <1>3
<1>8. QED  BY <1>6, <1>7

LEMMA UnitFold ==
    ASSUME NEW base, NEW S, NEW seq \in Seq(S)
    PROVE  \E st : /\ Folded(st, <<"unit", 0>>, base, seq)
                   /\ FoldLeft(ProcessAu, base, seq) = st[Len(seq)]
<1> DEFINE f == CHOOSE g : g = [z \in SUBSET DOMAIN seq |->
                                  IF z = {} THEN base
                                  ELSE ProcessAu(g[z \ {Max(z)}], seq[Max(z)])]
           how == <<"unit", 0>>
<1>1. FoldLeft(ProcessAu, base, seq) = f[DOMAIN seq]
  BY DEF FoldLeft, MapThenFoldSet
<1>2. DOMAIN seq = 1 .. Len(seq) /\ Len(seq) \in Nat
  OBVIOUS
<1>3. \A acc, x : Handled(how, acc, x) = ProcessAu(acc, x)
  BY DEF Handled
<1>4. \E g : g = [z \in SUBSET DOMAIN seq |->
                    IF z = {} THEN base ELSE ProcessAu(g[z \ {Max(z)}], seq[Max(z)])]
  <2>1. PICK g : IsFold(g, how, base, seq, Len(seq))
    BY <1>2, FoldExists
  <2> HIDE DEF how
  <2>2. g = [z \in SUBSET DOMAIN seq |->
               IF z = {} THEN base ELSE ProcessAu(g[z \ {Max(z)}], seq[Max(z)])]
    BY <1>2, <1>3, <2>1 DEF IsFold
  <2>3. QED  BY <2>2
<1>5. f = [z \in SUBSET DOMAIN seq |->
             IF z = {} THEN base ELSE ProcessAu(f[z \ {Max(z)}], seq[Max(z)])]
  BY <1>4
<1> HIDE DEF f
<1>6. IsFold(f, how, base, seq, Len(seq))
  BY <1>2, <1>3, <1>5 DEF IsFold
<1> HIDE DEF how
<1>7. PICK st : Folded(st, how, base, seq) /\ f[1 .. Len(seq)] = st[Len(seq)]
  BY <1>2, <1>6, FoldStates
<1>8. QED  BY <1>1, <1>2, <1>7 DEF how

FoldNalus(f, nalus) ==
    FoldLeft(LAMBDA h, i : FilterNalu(h, nalus, i),
             Apply(LAMBDA g : ResetAu(g, nalus), f), [i \in DOMAIN nalus |-> i])

LEMMA NaluFold ==
    ASSUME NEW f, NEW S, NEW nalus \in Seq(S)
    PROVE  \E st : /\ st[0] = ResetAu(f, nalus)
                   /\ \A k \in 1 .. Len(nalus) : st[k] = FilterNalu(st[k - 1], nalus, k)
                   /\ FoldNalus(f, nalus) = st[Len(nalus)]
<1>1. PICK base : base = Apply(LAMBDA g : ResetAu(g, nalus), f) /\ base = ResetAu(f, nalus)
  BY DEF Apply
<1>2. PICK seq : seq = [i \in DOMAIN nalus |-> i]
  OBVIOUS
<1>3. /\ DOMAIN seq = 1 .. Len(nalus) /\ Len(nalus) \in Nat /\ Len(seq) = Len(nalus)
      /\ \A k \in 1 .. Len(nalus) : seq[k] = k
  <2>1. seq \in Seq(Nat) /\ DOMAIN seq = 1 .. Len(nalus) /\ Len(nalus) \in Nat
        /\ \A k \in 1 .. Len(nalus) : seq[k] = k
    BY <1>2
  <2>2. QED  BY <2>1
<1>11. DOMAIN seq = 1 .. Len(seq) /\ Len(seq) \in Nat
  BY <1>3
<1> DEFINE h == CHOOSE g : g = [z \in SUBSET DOMAIN seq |->
                                  IF z = {} THEN base
                                  ELSE FilterNalu(g[z \ {Max(z)}], nalus, seq[Max(z)])]
           how == <<"nalu", nalus>>
<1>4. FoldNalus(f, nalus) = h[DOMAIN seq]
  BY <1>1, <1>2 DEF FoldNalus, FoldLeft, MapThenFoldSet
<1>5. \A acc, x : Handled(how, acc, x) = FilterNalu(acc, nalus, x)
  BY DEF Handled
<1>6. \E g : g = [z \in SUBSET DOMAIN seq |->
                    IF z = {} THEN base
                    ELSE FilterNalu(g[z \ {Max(z)}], nalus, seq[Max(z)])]
  <2>1. PICK g : IsFold(g, how, base, seq, Len(seq))
    BY <1>3, FoldExists
  <2> HIDE DEF how
  <2>2. g = [z \in SUBSET DOMAIN seq |->
               IF z = {} THEN base
               ELSE FilterNalu(g[z \ {Max(z)}], nalus, seq[Max(z)])]
    BY <1>11, <1>5, <2>1 DEF IsFold
  <2>3. QED  BY <2>2
<1>7. h = [z \in SUBSET DOMAIN seq |->
             IF z = {} THEN base
             ELSE FilterNalu(h[z \ {Max(z)}], nalus, seq[Max(z)])]
  BY <1>6
<1> HIDE DEF h
<1>8. IsFold(h, how, base, seq, Len(seq))
  BY <1>11, <1>5, <1>7 DEF IsFold
<1> HIDE DEF how
<1>9. PICK st : Folded(st, how, base, seq) /\ h[1 .. Len(seq)] = st[Len(seq)]
  BY <1>3, <1>8, FoldStates
<1>10. QED  BY <1>1, <1>3, <1>4, <1>5, <1>9 DEF Folded

(* What Apply is.                                                          *)
LEMMA ApplyReset ==
    ASSUME NEW f, NEW nalus
    PROVE  FilterNalus(f, nalus) =
               IF nalus # <<>> /\ ~IsLast(nalus, Len(nalus))
               THEN HandleMissingEndOfFrame(FoldNalus(f, nalus)) ELSE FoldNalus(f, nalus)
<1>1. PICK x : x = FoldNalus(f, nalus)
  OBVIOUS
<1>2. QED  BY <1>1 DEF FilterNalus, FoldNalus, Apply, FoldLeft, MapThenFoldSet

LEMMA ApplyNalu ==
    ASSUME NEW f, NEW nalus, NEW i
    PROVE  LET n == Header(nalus, i)
               a == Sync(ParseNalu(f, n))
               b == IF nalus[i].missing > 0 THEN HandleMissingSlices(a, n) ELSE a
           IN  FilterNalu(f, nalus, i) = ProcessNalu(b, n, nalus[i].missing, IsLast(nalus, i))
<1>1. PICK n : n = Header(nalus, i)
  OBVIOUS
<1>2. PICK p : p = ParseNalu(f, n)
  OBVIOUS
<1>3. QED  BY <1>1, <1>2 DEF FilterNalu, Apply

LEMMA ApplyEnd ==
    ASSUME NEW s, NEW unit
    PROVE  LET g == FilterNalus(s.filter, unit.nalus)
           IN  ProcessAu(s, unit) =
                   [filter  |-> EndAu(g),
                    results |-> Append(s.results, Result(g, unit.nalus, s.filter.missed))]
<1>1. PICK g : g = FilterNalus(s.filter, unit.nalus)
  OBVIOUS
<1>2. QED  BY <1>1 DEF ProcessAu, Apply

-----------------------------------------------------------------------------
(* What the operators of the filter do to the fields tracked.              *)

Has(f) == Tracked \subseteq DOMAIN f

Kept(f, g, changed) == Has(g) /\ \A x \in Tracked \ changed : g[x] = f[x]

LEMMA KeptAgain ==
    ASSUME NEW f, NEW g, NEW h, NEW S, Kept(f, g, {}), Kept(g, h, S)
    PROVE  Kept(f, h, S)
  BY DEF Kept

LEMMA OtherField ==
    ASSUME NEW f, Has(f), NEW x, x \notin Tracked, NEW v
    PROVE  Kept(f, [f EXCEPT ![x] = v], {})
  BY DEF Has, Kept

LEMMA ConcealKept ==
    ASSUME NEW f, Has(f), NEW first, NEW count
    PROVE  Kept(f, Conceal(f, first, count), {})
<1>1. ASSUME NEW g, Has(g), NEW status
      PROVE  Kept(g, Mark(g, first, count, status), {})
  BY <1>1 DEF Mark, Has, Kept, Tracked
<1>2. ASSUME NEW g, Has(g)
      PROVE  Kept(g, Incomplete(g), {})
  BY <1>2 DEF Incomplete, Has, Kept, Tracked
<1>3. PICK g : g = [f EXCEPT !.nalus = @ + 1,
                             !.slices = Append(@, [firstMb |-> first, count |-> count])]
  OBVIOUS
<1>4. Kept(f, g, {})
  BY <1>3 DEF Has, Kept, Tracked
<1>5. Kept(f, f, {})
  BY DEF Has, Kept
<1>6. Kept(f, Mark(g, first, count, "concealed"), {})
  <2>1. Kept(g, Mark(g, first, count, "concealed"), {})
    BY <1>1, <1>4 DEF Kept
  <2>2. QED  BY <1>4, <2>1, KeptAgain
<1>7. Kept(f, Incomplete(Mark(f, first, count, "missing")), {})
  <2>1. PICK m : m = Mark(f, first, count, "missing")
    OBVIOUS
  <2>2. Kept(f, m, {})
    BY <1>1, <2>1
  <2>3. Kept(m, Incomplete(m), {})
    BY <1>2, <2>2 DEF Kept
  <2>4. QED  BY <2>1, <2>2, <2>3, KeptAgain
<1>8. \/ Conceal(f, first, count) = f
      \/ Conceal(f, first, count) = Mark(g, first, count, "concealed")
      \/ Conceal(f, first, count) = Incomplete(Mark(f, first, count, "missing"))
  BY <1>3 DEF Conceal
<1>9. QED  BY <1>5, <1>6, <1>7, <1>8

LEMMA MissingKept ==
    ASSUME NEW f, Has(f), NEW n
    PROVE  /\ Kept(f, HandleMissingSlices(f, n), {})
           /\ Kept(f, HandleMissingEndOfFrame(f), {})
<1>1. Kept(f, f, {}) /\ Kept(f, Incomplete(f), {})
  BY DEF Has, Kept, Incomplete, Tracked
<1>2. PICK g : g = [f EXCEPT !.previousFirstMb = 0, !.previousSliceIndex = 0]
  OBVIOUS
<1>3. Kept(f, g, {})
  BY <1>2 DEF Has, Kept, Tracked
<1>4. \A first, count : Kept(f, Conceal(f, first, count), {})
  BY ConcealKept
<1>5. \/ HandleMissingSlices(f, n) \in {f, g, Incomplete(f)}
      \/ \E first, count : HandleMissingSlices(f, n) = Conceal(f, first, count)
  BY <1>2 DEF HandleMissingSlices
<1>6. \/ HandleMissingEndOfFrame(f) = Incomplete(f)
      \/ \E first, count : HandleMissingEndOfFrame(f) = Conceal(f, first, count)
  BY DEF HandleMissingEndOfFrame
<1>7. QED  BY <1>1, <1>3, <1>4, <1>5, <1>6

LEMMA FillKept ==
    ASSUME NEW f, Has(f), NEW type, NEW first, NEW count
    PROVE  Kept(f, FillSliceMbStatus(f, type, first, count), {})
<1>1. PICK v : v = FillSliceMbStatus(f, type, first, count).mbStatus
  OBVIOUS
<1>2. \E u : FillSliceMbStatus(f, type, first, count) = [f EXCEPT !.mbStatus = u]
  BY DEF FillSliceMbStatus
<1>3. "mbStatus" \notin Tracked
  BY DEF Tracked
<1>4. QED  BY <1>2, <1>3, OtherField

LEMMA ProcessKept ==
    ASSUME NEW f, Has(f), NEW n, NEW missing, NEW last
    PROVE  LET g == ProcessNalu(f, n, missing, last)
           IN  /\ Kept(f, g, {"slicesReceived"})
               /\ IsSlice(n) => g.slicesReceived = TRUE
               /\ ~IsSlice(n) => g.slicesReceived = f.slicesReceived
<1> DEFINE Mine(g) == Kept(f, g, {"slicesReceived"}) /\ g.slicesReceived = TRUE
<1>1. ASSUME NEW g, NEW h, Mine(g), Kept(g, h, {})
      PROVE  Mine(h)
  <2>1. "slicesReceived" \in Tracked
    BY DEF Tracked
  <2>2. QED  BY <1>1, <2>1 DEF Kept
<1>2. Mine([f EXCEPT !.slicesReceived = TRUE])
  BY DEF Kept, Has, Tracked
<1>3. Mine(ProcessKnownSlice(f))
  <2>1. PICK index : index = SliceIndex(f)
    OBVIOUS
  <2>2. PICK g : g = [f EXCEPT !.slicesReceived = TRUE, !.previousSliceIndex = index,
                               !.previousFirstMb = f.currentFirstMb]
    OBVIOUS
  <2>3. Mine(g)
    BY <2>2 DEF Kept, Has, Tracked
  <2>4. ProcessKnownSlice(f) =
            FillSliceMbStatus(g, f.sliceType, f.currentFirstMb, f.sliceMbCount[index])
    BY <2>1, <2>2 DEF ProcessKnownSlice
  <2>5. Kept(g, ProcessKnownSlice(f), {})
    BY <2>3, <2>4, FillKept DEF Kept
  <2>6. QED  BY <1>1, <2>3, <2>5
<1>4. Mine(ProcessSlice(f, missing, last))
  <2>1. PICK g : g = [f EXCEPT !.slicesReceived = TRUE,
                               !.inferredPreviousFirstMb = f.currentFirstMb]
    OBVIOUS
  <2>2. Mine(g)
    BY <2>1 DEF Kept, Has, Tracked
  <2>3. ASSUME NEW h, Mine(h), NEW type, NEW first, NEW count
        PROVE  Mine(FillSliceMbStatus(h, type, first, count))
    <3>1. Has(h)
      BY <2>3 DEF Kept
    <3>2. Kept(h, FillSliceMbStatus(h, type, first, count), {})
      BY <3>1, FillKept
    <3> HIDE DEF Mine
    <3>3. QED  BY <1>1, <2>3, <3>2
  <2> DEFINE P == ProcessSlice(f, missing, last)
  <2>6. \/ P = g
        \/ \E type, first, count : P = FillSliceMbStatus(g, type, first, count)
        \/ \E type, first, count, t, a, c :
              P = FillSliceMbStatus(FillSliceMbStatus(g, type, first, count), t, a, c)
    BY <2>1 DEF ProcessSlice
  <2> HIDE DEF P, Mine
  <2>7. QED  BY <2>2, <2>3, <2>6 DEF P
<1>5. Kept(f, f, {"slicesReceived"})
  BY DEF Kept, Has
<1>6. PICK g : /\ IF IsSlice(n) THEN Mine(g) ELSE g = f
               /\ ProcessNalu(f, n, missing, last) =
                      [g EXCEPT !.previousSliceType = f.sliceType,
                                !.slices = IF IsSlice(n)
                                           THEN Append(@, [firstMb |-> n.firstMb,
                                                           count   |-> n.count])
                                           ELSE @]
  <2> HIDE DEF Mine
  <2>1. PICK g : g = IF ~IsSlice(n) THEN f
                     ELSE IF ~f.sync THEN [f EXCEPT !.slicesReceived = TRUE]
                     ELSE IF StreamingInfo(f) THEN ProcessKnownSlice(f)
                     ELSE ProcessSlice(f, missing, last)
    OBVIOUS
  <2>2. IF IsSlice(n) THEN Mine(g) ELSE g = f
    <3>1. CASE ~IsSlice(n)
      BY <2>1, <3>1
    <3>2. CASE IsSlice(n) /\ ~f.sync
      BY <1>2, <2>1, <3>2
    <3>3. CASE IsSlice(n) /\ f.sync /\ StreamingInfo(f)
      BY <1>3, <2>1, <3>3
    <3>4. CASE IsSlice(n) /\ f.sync /\ ~StreamingInfo(f)
      BY <1>4, <2>1, <3>4
    <3>5. QED  BY <3>1, <3>2, <3>3, <3>4
  <2>3. ProcessNalu(f, n, missing, last) =
            [g EXCEPT !.previousSliceType = f.sliceType,
                      !.slices = IF IsSlice(n)
                                 THEN Append(@, [firstMb |-> n.firstMb, count |-> n.count])
                                 ELSE @]
    BY <2>1 DEF ProcessNalu
  <2>4. QED  BY <2>2, <2>3
<1>7. PICK u, v : ProcessNalu(f, n, missing, last) =
                      [g EXCEPT !.previousSliceType = u, !.slices = v]
  BY <1>6
<1>8. Has(g)
  BY <1>6 DEF Kept
<1>9. Kept(g, ProcessNalu(f, n, missing, last), {})
  BY <1>7, <1>8 DEF Kept, Has, Tracked
<1>10. CASE IsSlice(n)
  BY <1>1, <1>6, <1>9, <1>10
<1>11. CASE ~IsSlice(n)
  <2>1. "slicesReceived" \in Tracked /\ g = f
    BY <1>6, <1>11 DEF Tracked
  <2>2. QED  BY <1>9, <1>11, <2>1 DEF Kept
<1>12. QED  BY <1>10, <1>11

LEMMA ResetFields ==
    ASSUME NEW f, Typed(f), NEW nalus
    PROVE  LET g == ResetAu(f, nalus)
           IN  /\ Typed(g)
               /\ g.sync = f.sync /\ g.total = f.total /\ g.output = f.output
               /\ g.missed = f.missed /\ g.inferredIdrInterval = f.inferredIdrInterval
               /\ g.previousFrameNum = PreviousNum(f) /\ g.frameNum = -1
               /\ ~g.isIdr /\ ~g.isRef /\ ~g.slicesReceived /\ g.syncType = "none"
<1>1. PICK u, v, w : ResetAu(f, nalus) =
          [f EXCEPT !.incomplete = FALSE, !.slicesAllI = TRUE, !.slicesReceived = FALSE,
                    !.infoV1 = FALSE, !.recoveryPoint = FALSE,
                    !.previousSliceIndex = -1, !.previousFirstMb = 0,
                    !.inferredPreviousFirstMb = 0, !.currentFirstMb = -1,
                    !.previousSliceType = "none", !.sliceType = "none",
                    !.mbStatus = u,
                    !.previousFrameNum = v,
                    !.frameNum = -1, !.isIdr = FALSE, !.isRef = FALSE,
                    !.syncType = "none", !.nalus = w, !.slices = <<>>]
          /\ v = PreviousNum(f)
  BY DEF ResetAu, PreviousNum, Typed, Tracked
<1>2. PICK g : g = ResetAu(f, nalus)
  OBVIOUS
<1>3. /\ Kept(f, g, {"slicesReceived", "previousFrameNum", "frameNum", "isIdr", "isRef", "syncType"})
      /\ g.previousFrameNum = PreviousNum(f) /\ g.frameNum = -1
      /\ g.isIdr = FALSE /\ g.isRef = FALSE /\ g.slicesReceived = FALSE
      /\ g.syncType = "none"
  <2>1. Tracked \subseteq DOMAIN f
    BY DEF Typed
  <2>2. DOMAIN g = DOMAIN f
    BY <1>1, <1>2
  <2>3. /\ g.previousFrameNum = v /\ g.frameNum = -1
        /\ g.isIdr = FALSE /\ g.isRef = FALSE /\ g.slicesReceived = FALSE
        /\ g.syncType = "none"
    BY <1>1, <1>2, <2>1 DEF Tracked
  <2>4. ASSUME NEW x \in {"sync", "spsSync", "ppsSync", "inferredIdrInterval",
                          "total", "output", "missed"}
        PROVE  g[x] = f[x]
    <3>1. /\ g.sync = f.sync /\ g.spsSync = f.spsSync /\ g.ppsSync = f.ppsSync
          /\ g.inferredIdrInterval = f.inferredIdrInterval
      BY <1>1, <1>2, <2>1 DEF Tracked
    <3>2. g.total = f.total /\ g.output = f.output /\ g.missed = f.missed
      BY <1>1, <1>2, <2>1 DEF Tracked
    <3>3. QED  BY <2>4, <3>1, <3>2
  <2>5. QED  BY <1>1, <2>1, <2>2, <2>3, <2>4 DEF Kept, Has, Tracked
<1>4. /\ g.sync = f.sync /\ g.spsSync = f.spsSync /\ g.ppsSync = f.ppsSync
      /\ g.total = f.total /\ g.output = f.output
      /\ g.missed = f.missed /\ g.inferredIdrInterval = f.inferredIdrInterval
  BY <1>3 DEF Kept, Tracked
<1>5. PreviousNum(f) \in Int
  BY DEF PreviousNum, Typed
<1>6. Typed(g)
  <2>1. {g.sync, g.spsSync, g.ppsSync, g.isIdr, g.isRef, g.slicesReceived} \subseteq BOOLEAN
    BY <1>3, <1>4 DEF Typed
  <2>2. {g.frameNum, g.previousFrameNum, g.inferredIdrInterval,
         g.total, g.output, g.missed} \subseteq Int
    BY <1>3, <1>4, <1>5 DEF Typed
  <2>3. (g.sync <=> g.spsSync /\ g.ppsSync) /\ Tracked \subseteq DOMAIN g
    BY <1>3, <1>4 DEF Typed, Kept, Has
  <2>4. QED  BY <2>1, <2>2, <2>3 DEF Typed
<1>7. QED  BY <1>2, <1>3, <1>4, <1>6

LEMMA ParseOther ==
    ASSUME NEW f, Typed(f), NEW n, n.type \in {"sei", "sps", "pps"}
    PROVE  LET g == ParseNalu(f, n)
           IN  /\ Kept(f, g, {"spsSync", "ppsSync"})
               /\ {g.spsSync, g.ppsSync} \subseteq BOOLEAN
               /\ f.spsSync => g.spsSync
               /\ f.ppsSync => g.ppsSync
<1>1. PICK e : e = [f EXCEPT !.sliceType = "none"]
  OBVIOUS
<1>2. Kept(f, e, {})
  BY <1>1 DEF Kept, Has, Typed, Tracked
<1>3. CASE n.type = "sei"
  <2>1. PICK g : g = ParseSei(e, n)
    OBVIOUS
  <2>2. Kept(e, g, {})
    BY <1>2, <2>1 DEF ParseSei, Kept, Has, Tracked
  <2>3. ParseNalu(f, n) = g
    BY <1>1, <1>3, <2>1 DEF ParseNalu
  <2>4. Kept(f, g, {})
    BY <1>2, <2>2, KeptAgain
  <2>5. g.spsSync = f.spsSync /\ g.ppsSync = f.ppsSync
    BY <2>4 DEF Kept, Tracked
  <2>6. QED  BY <2>3, <2>4, <2>5 DEF Kept, Typed
<1>4. CASE n.type = "sps"
  <2>1. PICK g : g = [e EXCEPT !.spsSync = TRUE]
    OBVIOUS
  <2>2. Kept(e, g, {"spsSync"}) /\ g.spsSync = TRUE
    BY <1>2, <2>1 DEF Kept, Has, Tracked
  <2>3. ParseNalu(f, n) = g
    BY <1>1, <1>4, <2>1 DEF ParseNalu
  <2>4. Kept(f, g, {"spsSync"})
    BY <1>2, <2>2, KeptAgain
  <2>5. g.ppsSync = f.ppsSync
    BY <2>4 DEF Kept, Tracked
  <2>6. QED  BY <2>2, <2>3, <2>4, <2>5 DEF Kept, Typed
<1>5. CASE n.type = "pps"
  <2>1. PICK g : g = [e EXCEPT !.ppsSync = TRUE]
    OBVIOUS
  <2>2. Kept(e, g, {"ppsSync"}) /\ g.ppsSync = TRUE
    BY <1>2, <2>1 DEF Kept, Has, Tracked
  <2>3. ParseNalu(f, n) = g
    BY <1>1, <1>5, <2>1 DEF ParseNalu
  <2>4. Kept(f, g, {"ppsSync"})
    BY <1>2, <2>2, KeptAgain
  <2>5. g.spsSync = f.spsSync
    BY <2>4 DEF Kept, Tracked
  <2>6. QED  BY <2>2, <2>3, <2>4, <2>5 DEF Kept, Typed
<1>6. QED  BY <1>3, <1>4, <1>5

LEMMA SyncFields ==
    ASSUME NEW f, Has(f)
    PROVE  LET g == Sync(f)
           IN  IF f.spsSync /\ f.ppsSync /\ ~f.sync
               THEN /\ Kept(f, g, {"sync", "previousFrameNum"})
                    /\ g.sync = TRUE /\ g.previousFrameNum = -1
               ELSE g = f
<1>1. CASE f.spsSync /\ f.ppsSync /\ ~f.sync
  <2>1. PICK g : g = Sync(f)
    OBVIOUS
  <2>2. PICK u, v : g = [f EXCEPT !.sync = TRUE, !.previousFrameNum = -1,
                                  !.mbStatus = u, !.refMbStatus = v]
    BY <1>1, <2>1 DEF Sync
  <2>3. /\ Kept(f, g, {"sync", "previousFrameNum"})
        /\ g.sync = TRUE /\ g.previousFrameNum = -1
    BY <2>2 DEF Kept, Has, Tracked
  <2>4. QED  BY <1>1, <2>1, <2>3
<1>2. CASE ~(f.spsSync /\ f.ppsSync /\ ~f.sync)
  BY <1>2 DEF Sync
<1>3. QED  BY <1>1, <1>2

LEMMA IntervalType ==
    ASSUME NEW num \in Int
    PROVE  Min({num + 1, MaxInterval}) \in Int
<1>1. MaxInterval \in Int
  BY FilterAssumption
<1>2. \E x \in {num + 1, MaxInterval} : \A y \in {num + 1, MaxInterval} : x <= y
  BY <1>1
<1>3. Min({num + 1, MaxInterval}) \in {num + 1, MaxInterval}
  BY <1>2 DEF Min
<1>4. QED  BY <1>1, <1>3

(* What the gap before a reference frame adds to the frames missed.        *)
Gap(previous, num, interval) ==
    LET gap == (IF num < previous THEN num + script.maxFrameNum ELSE num) - previous - 1
    IN  IF previous # -1 /\ num # (previous + 1) % script.maxFrameNum /\ gap < interval
        THEN gap ELSE 0

LEMMA GapFields ==
    ASSUME NEW f, Typed(f), script.maxFrameNum \in Int
    PROVE  LET g == HandleGapsInFrameNum(f)
               m == IF f.isRef /\ ~f.isIdr
                    THEN Gap(f.previousFrameNum, f.frameNum, f.inferredIdrInterval) ELSE 0
           IN  /\ Kept(f, g, {"total", "missed"}) /\ m \in Int
               /\ g.total = f.total + m /\ g.missed = f.missed + m
<1>0. /\ f.frameNum \in Int /\ f.previousFrameNum \in Int /\ f.inferredIdrInterval \in Int
      /\ f.total \in Int /\ f.missed \in Int
  BY DEF Typed
<1>1. PICK gap : gap = (IF f.frameNum < f.previousFrameNum
                        THEN f.frameNum + script.maxFrameNum ELSE f.frameNum)
                       - f.previousFrameNum - 1
  OBVIOUS
<1>2. gap \in Int
  BY <1>0, <1>1
<1>3. gap = (f.frameNum + (IF f.frameNum < f.previousFrameNum THEN script.maxFrameNum ELSE 0))
            - f.previousFrameNum - 1
  BY <1>0, <1>1
<1>4. gap >= f.inferredIdrInterval <=> ~(gap < f.inferredIdrInterval)
  BY <1>0, <1>2
<1>5. PICK m : m = IF gap < f.inferredIdrInterval THEN gap ELSE 0
  OBVIOUS
<1>6. PICK g : g = HandleGapsInFrameNum(f)
  OBVIOUS
<1>7. CASE /\ f.isRef /\ ~f.isIdr /\ f.previousFrameNum # -1
           /\ f.frameNum # (f.previousFrameNum + 1) % script.maxFrameNum
  <2>1. PICK u : g = [f EXCEPT !.refMbStatus = u, !.total = @ + m, !.missed = @ + m]
    <3>1. m = IF (f.frameNum + (IF f.frameNum < f.previousFrameNum
                                THEN script.maxFrameNum ELSE 0))
                 - f.previousFrameNum - 1 >= f.inferredIdrInterval
              THEN 0
              ELSE (f.frameNum + (IF f.frameNum < f.previousFrameNum
                                  THEN script.maxFrameNum ELSE 0))
                   - f.previousFrameNum - 1
      BY <1>3, <1>4, <1>5
    <3>2. HandleGapsInFrameNum(f) =
              [f EXCEPT !.refMbStatus = [mb \in DOMAIN @ |-> "missing"],
                        !.total = @ + m, !.missed = @ + m]
      BY <1>7, <3>1, Zenon DEF HandleGapsInFrameNum
    <3>3. QED  BY <1>6, <3>2
  <2>2. Kept(f, g, {"total", "missed"}) /\ g.total = f.total + m /\ g.missed = f.missed + m
    BY <2>1 DEF Kept, Typed, Has, Tracked
  <2>3. m = Gap(f.previousFrameNum, f.frameNum, f.inferredIdrInterval)
    BY <1>1, <1>5, <1>7 DEF Gap
  <2>4. m \in Int
    BY <1>2, <1>5
  <2>5. QED  BY <1>6, <1>7, <2>2, <2>3, <2>4
<1>8. CASE ~(/\ f.isRef /\ ~f.isIdr /\ f.previousFrameNum # -1
             /\ f.frameNum # (f.previousFrameNum + 1) % script.maxFrameNum)
  <2>1. g = f
    BY <1>6, <1>8 DEF HandleGapsInFrameNum
  <2>2. f.isRef /\ ~f.isIdr => Gap(f.previousFrameNum, f.frameNum, f.inferredIdrInterval) = 0
    BY <1>8 DEF Gap
  <2>3. Kept(f, g, {"total", "missed"})
    BY <2>1 DEF Kept, Typed, Has
  <2>4. QED  BY <1>0, <1>6, <2>1, <2>2, <2>3
<1>9. QED  BY <1>7, <1>8

(* The values of the fields tracked are of their types when those of       *)
(* another filter are, but for the ones given.                             *)
LEMMA TypedAgain ==
    ASSUME NEW f, Typed(f), NEW g, Kept(f, g, {})
    PROVE  Typed(g)
<1>1. /\ g.sync = f.sync /\ g.spsSync = f.spsSync /\ g.ppsSync = f.ppsSync
      /\ g.isIdr = f.isIdr /\ g.isRef = f.isRef /\ g.slicesReceived = f.slicesReceived
      /\ g.total = f.total /\ g.output = f.output /\ g.frameNum = f.frameNum
      /\ g.previousFrameNum = f.previousFrameNum
      /\ g.missed = f.missed /\ g.inferredIdrInterval = f.inferredIdrInterval
  BY DEF Kept, Tracked
<1>2. {g.sync, g.spsSync, g.ppsSync, g.isIdr, g.isRef, g.slicesReceived} \subseteq BOOLEAN
  BY <1>1 DEF Typed
<1>3. {g.frameNum, g.previousFrameNum, g.inferredIdrInterval,
       g.total, g.output, g.missed} \subseteq Int
  BY <1>1 DEF Typed
<1>4. (g.sync <=> g.spsSync /\ g.ppsSync) /\ Tracked \subseteq DOMAIN g
  BY <1>1 DEF Typed, Kept, Has
<1>5. QED  BY <1>2, <1>3, <1>4 DEF Typed

FrameOK(k) ==
    /\ Frame(k).num \in Nat /\ Frame(k).ref \in BOOLEAN /\ Frame(k).idr \in BOOLEAN
    /\ script.maxFrameNum \in Int

SliceChanged == {"syncType", "inferredIdrInterval", "isIdr", "isRef", "frameNum",
                 "total", "missed"}

LEMMA SliceFields ==
    ASSUME NEW f, Typed(f), NEW k, FrameOK(k), NEW n, n.frame = k, IsSlice(n)
    PROVE  LET g     == ParseNalu(f, n)
               type  == IF n.type = "idr" THEN "IDR" ELSE f.syncType
               first == f.frameNum = -1
               m     == IF first /\ Frame(k).ref /\ type # "IDR"
                        THEN Gap(f.previousFrameNum, Frame(k).num, g.inferredIdrInterval)
                        ELSE 0
           IN  /\ Has(g) /\ g.inferredIdrInterval \in Int
               /\ n.type # "idr" => g.inferredIdrInterval = f.inferredIdrInterval
               /\ g.syncType = type
               /\ IF f.sync
                  THEN /\ Kept(f, g, SliceChanged) /\ m \in Int
                       /\ g.isIdr = (type = "IDR") /\ g.isRef = Frame(k).ref
                       /\ g.frameNum = IF first THEN Frame(k).num ELSE f.frameNum
                       /\ g.total = f.total + m /\ g.missed = f.missed + m
                  ELSE Kept(f, g, {"syncType", "inferredIdrInterval"})
<1>1. PICK e : e = [f EXCEPT !.sliceType = "none"]
  OBVIOUS
<1>2. Kept(f, e, {})
  BY <1>1 DEF Kept, Has, Typed, Tracked
<1>3. Typed(e)
  BY <1>2, TypedAgain
<1>4. PICK type : type = IF n.type = "idr" THEN "IDR" ELSE f.syncType
  OBVIOUS
<1>5. PICK a : /\ ParseNalu(f, n) = ParseSlice(a, n)
               /\ Kept(f, a, {"syncType", "inferredIdrInterval"})
               /\ a.syncType = type /\ a.inferredIdrInterval \in Int
               /\ n.type # "idr" => a.inferredIdrInterval = f.inferredIdrInterval
  <2>1. CASE n.type = "idr"
    <3>1. PICK a : a = ParseIdr(e)
      OBVIOUS
    <3>2. PICK v : /\ v = IF e.previousFrameNum = -1 THEN e.inferredIdrInterval
                          ELSE Min({e.previousFrameNum + 1, MaxInterval})
                   /\ a = [e EXCEPT !.syncType = "IDR", !.inferredIdrInterval = v]
      BY <3>1, <1>3 DEF ParseIdr, Typed, Tracked
    <3>3. v \in Int
      <4>1. e.previousFrameNum \in Int /\ e.inferredIdrInterval \in Int
        BY <1>3 DEF Typed
      <4>2. QED  BY <3>2, <4>1, IntervalType
    <3>4. /\ Kept(e, a, {"syncType", "inferredIdrInterval"})
          /\ a.syncType = "IDR" /\ a.inferredIdrInterval = v
      BY <3>2, <1>3 DEF Kept, Has, Typed, Tracked
    <3>5. Kept(f, a, {"syncType", "inferredIdrInterval"})
      BY <3>4, <1>2, KeptAgain
    <3>6. ParseNalu(f, n) = ParseSlice(a, n)
      BY <2>1, <1>1, <3>1 DEF ParseNalu
    <3>7. QED  BY <2>1, <1>4, <3>3, <3>4, <3>5, <3>6
  <2>2. CASE n.type = "slice"
    <3>1. ParseNalu(f, n) = ParseSlice(e, n)
      BY <2>2, <1>1 DEF ParseNalu
    <3>2. e.syncType = f.syncType /\ e.inferredIdrInterval = f.inferredIdrInterval
      BY <1>2 DEF Kept, Tracked
    <3>3. Kept(f, e, {"syncType", "inferredIdrInterval"}) /\ e.inferredIdrInterval \in Int
      BY <1>2, <1>3 DEF Kept, Typed
    <3>4. QED  BY <2>2, <1>4, <3>1, <3>2, <3>3
  <2>3. QED  BY <2>1, <2>2 DEF IsSlice
<1>6. /\ a.sync = f.sync /\ a.frameNum = f.frameNum /\ Has(a)
      /\ a.previousFrameNum = f.previousFrameNum /\ a.total = f.total /\ a.missed = f.missed
      /\ a.spsSync = f.spsSync /\ a.ppsSync = f.ppsSync /\ a.output = f.output
      /\ a.slicesReceived = f.slicesReceived
  BY <1>5 DEF Kept, Tracked
<1>7. PICK g : g = ParseSlice(a, n)
  OBVIOUS
<1>8. PICK b : b = [a EXCEPT !.isIdr = (a.syncType = "IDR"), !.isRef = Frame(k).ref,
                             !.sliceType = n.sliceType,
                             !.slicesAllI = @ /\ n.sliceType = "I",
                             !.currentFirstMb = n.firstMb]
  OBVIOUS
<1>9. /\ Kept(a, b, {"isIdr", "isRef"})
      /\ b.isIdr = (type = "IDR") /\ b.isRef = Frame(k).ref
  BY <1>5, <1>6, <1>8 DEF Kept, Has, Tracked
<1>10. g = IF ~a.sync THEN [a EXCEPT !.currentFirstMb = -1]
           ELSE IF a.frameNum # -1 THEN b
           ELSE HandleGapsInFrameNum([b EXCEPT !.frameNum = Frame(k).num])
  BY <1>7, <1>8 DEF ParseSlice, Frame
<1>11. CASE ~f.sync
  <2>1. Kept(a, g, {})
    BY <1>6, <1>10, <1>11 DEF Kept, Has, Tracked
  <2>2. Kept(f, g, {"syncType", "inferredIdrInterval"})
    BY <1>5, <2>1 DEF Kept
  <2>3. g.syncType = type /\ g.inferredIdrInterval = a.inferredIdrInterval
    BY <1>5, <2>1 DEF Kept, Tracked
  <2>4. QED  BY <1>4, <1>5, <1>7, <1>11, <2>2, <2>3 DEF Kept
<1>12. CASE f.sync /\ f.frameNum # -1
  <2>1. g = b
    BY <1>6, <1>10, <1>12
  <2>2. Kept(f, g, SliceChanged) /\ Has(g)
    BY <1>5, <1>9, <2>1 DEF Kept, SliceChanged
  <2>3. /\ g.syncType = type /\ g.inferredIdrInterval = a.inferredIdrInterval
        /\ g.frameNum = f.frameNum /\ g.total = f.total /\ g.missed = f.missed
    BY <1>5, <1>6, <1>9, <2>1 DEF Kept, Tracked
  <2>4. f.total \in Int /\ f.missed \in Int
    BY DEF Typed
  <2>5. g.total = f.total + 0 /\ g.missed = f.missed + 0 /\ 0 \in Int
    BY <2>3, <2>4
  <2>6. QED  BY <1>4, <1>5, <1>7, <1>9, <1>12, <2>1, <2>2, <2>3, <2>5
<1>13. CASE f.sync /\ f.frameNum = -1
  <2>1. PICK c : c = [b EXCEPT !.frameNum = Frame(k).num]
    OBVIOUS
  <2>2. g = HandleGapsInFrameNum(c)
    BY <1>6, <1>10, <1>13, <2>1
  <2>3. Kept(b, c, {"frameNum"}) /\ c.frameNum = Frame(k).num
    BY <1>9, <2>1 DEF Kept, Has, Tracked
  <2>4. /\ c.isIdr = (type = "IDR") /\ c.isRef = Frame(k).ref
        /\ c.sync = f.sync /\ c.previousFrameNum = f.previousFrameNum
        /\ c.total = f.total /\ c.missed = f.missed /\ c.spsSync = f.spsSync
        /\ c.ppsSync = f.ppsSync /\ c.output = f.output /\ c.syncType = type
        /\ c.slicesReceived = f.slicesReceived
        /\ c.inferredIdrInterval = a.inferredIdrInterval
    BY <1>5, <1>6, <1>9, <2>3 DEF Kept, Tracked
  <2>5. Typed(c)
    <3>1. {c.sync, c.spsSync, c.ppsSync, c.isIdr, c.isRef, c.slicesReceived} \subseteq BOOLEAN
      <4>1. {f.sync, f.spsSync, f.ppsSync, f.slicesReceived, Frame(k).ref} \subseteq BOOLEAN
        BY DEF Typed, FrameOK
      <4>2. c.isIdr \in BOOLEAN
        BY <2>4
      <4>3. QED  BY <2>4, <4>1, <4>2
    <3>2. {c.frameNum, c.previousFrameNum, c.inferredIdrInterval,
           c.total, c.output, c.missed} \subseteq Int
      BY <1>5, <2>3, <2>4 DEF Typed, FrameOK
    <3>3. (c.sync <=> c.spsSync /\ c.ppsSync) /\ Tracked \subseteq DOMAIN c
      BY <2>3, <2>4 DEF Typed, Kept, Has
    <3>4. QED  BY <3>1, <3>2, <3>3 DEF Typed
  <2>6. PICK m : /\ m = IF c.isRef /\ ~c.isIdr
                        THEN Gap(c.previousFrameNum, c.frameNum, c.inferredIdrInterval) ELSE 0
                 /\ Kept(c, g, {"total", "missed"}) /\ m \in Int
                 /\ g.total = c.total + m /\ g.missed = c.missed + m
    BY <2>2, <2>5, GapFields DEF FrameOK
  <2>7. /\ g.isIdr = (type = "IDR") /\ g.isRef = Frame(k).ref /\ g.syncType = type
        /\ g.frameNum = Frame(k).num /\ g.inferredIdrInterval = a.inferredIdrInterval
    BY <2>3, <2>4, <2>6 DEF Kept, Tracked
  <2>8. Kept(f, g, SliceChanged) /\ Has(g)
    BY <1>5, <1>9, <2>3, <2>6 DEF Kept, SliceChanged
  <2>9. m = IF Frame(k).ref /\ type # "IDR"
            THEN Gap(f.previousFrameNum, Frame(k).num, g.inferredIdrInterval) ELSE 0
    BY <2>3, <2>4, <2>6, <2>7
  <2>10. g.total = f.total + m /\ g.missed = f.missed + m
    BY <2>4, <2>6
  <2>11. QED  BY <1>4, <1>5, <1>7, <1>13, <2>6, <2>7, <2>8, <2>9, <2>10
<1>14. QED  BY <1>11, <1>12, <1>13

-----------------------------------------------------------------------------
(* The NALUs of an access unit, one after another: s is the filter when it *)
(* begins the access unit, of frame k, and g what it is now.               *)

(* The number of the reference frame before.                               *)
Known(s) == IF s.sync THEN s.previousFrameNum ELSE -1

Reading(s, g, k) ==
    /\ Typed(s) /\ Typed(g)
    /\ s.sync => g.sync
    /\ g.total - s.total = g.missed - s.missed /\ g.output = s.output
    /\ ~g.slicesReceived =>
          /\ g.frameNum = -1 /\ ~g.isRef /\ g.syncType # "IDR" /\ g.missed = s.missed
          /\ g.inferredIdrInterval = s.inferredIdrInterval
    /\ g.sync => g.previousFrameNum = Known(s)
    /\ g.slicesReceived /\ g.sync =>
          /\ g.frameNum = Frame(k).num /\ g.isRef = Frame(k).ref
          /\ Frame(k).ref /\ ~Frame(k).idr =>
                g.missed - s.missed = Gap(Known(s), Frame(k).num, g.inferredIdrInterval)
    /\ ~g.sync => ~g.isRef
    /\ ~Frame(k).idr => g.syncType # "IDR"

LEMMA ReadingStart ==
    ASSUME NEW f, Typed(f), ~f.sync => ~f.isRef, NEW nalus, NEW k
    PROVE  LET s == ResetAu(f, nalus)
           IN  /\ Reading(s, s, k) /\ ~s.slicesReceived
               /\ s.sync = f.sync /\ s.missed = f.missed /\ s.total = f.total
               /\ s.output = f.output /\ s.previousFrameNum = PreviousNum(f)
<1>1. PICK s : s = ResetAu(f, nalus)
  OBVIOUS
<1>2. /\ Typed(s)
      /\ s.sync = f.sync /\ s.total = f.total /\ s.output = f.output
      /\ s.missed = f.missed /\ s.inferredIdrInterval = f.inferredIdrInterval
      /\ s.previousFrameNum = PreviousNum(f) /\ s.frameNum = -1
      /\ ~s.isIdr /\ ~s.isRef /\ ~s.slicesReceived /\ s.syncType = "none"
  BY <1>1, ResetFields
<1>3. s.total - s.total = s.missed - s.missed
  BY <1>2 DEF Typed
<1>4. Reading(s, s, k)
  BY <1>2, <1>3 DEF Reading, Known
<1>5. QED  BY <1>1, <1>2, <1>4

(* A NALU that is not a slice.                                             *)
LEMMA ReadOther ==
    ASSUME NEW s, NEW g, NEW k, Reading(s, g, k), ~g.slicesReceived,
           NEW n, n.type \in {"sei", "sps", "pps"}
    PROVE  LET h == Sync(ParseNalu(g, n))
           IN  Reading(s, h, k) /\ ~h.slicesReceived
<1>1. Typed(g) /\ Has(g)
  BY DEF Reading, Typed, Has
<1>2. PICK a : a = ParseNalu(g, n)
  OBVIOUS
<1>3. /\ Kept(g, a, {"spsSync", "ppsSync"}) /\ {a.spsSync, a.ppsSync} \subseteq BOOLEAN
      /\ g.spsSync => a.spsSync
      /\ g.ppsSync => a.ppsSync
  BY <1>1, <1>2, ParseOther
<1>4. /\ a.sync = g.sync /\ a.isIdr = g.isIdr /\ a.isRef = g.isRef
      /\ a.slicesReceived = g.slicesReceived /\ a.syncType = g.syncType
      /\ a.total = g.total /\ a.output = g.output /\ a.frameNum = g.frameNum
      /\ a.previousFrameNum = g.previousFrameNum
      /\ a.missed = g.missed /\ a.inferredIdrInterval = g.inferredIdrInterval
  BY <1>3 DEF Kept, Tracked
<1>5. PICK h : h = Sync(a)
  OBVIOUS
<1>6. IF a.spsSync /\ a.ppsSync /\ ~a.sync
      THEN /\ Kept(a, h, {"sync", "previousFrameNum"})
           /\ h.sync = TRUE /\ h.previousFrameNum = -1
      ELSE h = a
  BY <1>3, <1>5, SyncFields DEF Kept
<1>7. /\ h.isIdr = g.isIdr /\ h.isRef = g.isRef /\ Has(h)
      /\ h.slicesReceived = g.slicesReceived /\ h.syncType = g.syncType
      /\ h.total = g.total /\ h.output = g.output /\ h.frameNum = g.frameNum
      /\ h.missed = g.missed /\ h.inferredIdrInterval = g.inferredIdrInterval
      /\ h.spsSync = a.spsSync /\ h.ppsSync = a.ppsSync
  BY <1>3, <1>4, <1>6 DEF Kept, Tracked
<1>8. g.sync => h.sync /\ h.previousFrameNum = g.previousFrameNum
  BY <1>4, <1>6
<1>9. /\ h.sync <=> h.spsSync /\ h.ppsSync
      /\ h.sync \in BOOLEAN /\ h.previousFrameNum \in Int
  <2>1. g.sync \in BOOLEAN /\ (g.sync <=> g.spsSync /\ g.ppsSync) /\ g.previousFrameNum \in Int
    BY <1>1 DEF Typed
  <2>2. CASE a.spsSync /\ a.ppsSync /\ ~a.sync
    <3>1. h.sync = TRUE /\ h.previousFrameNum = -1
      BY <1>6, <2>2
    <3>2. h.spsSync /\ h.ppsSync
      BY <1>7, <2>2
    <3>3. h.sync \in BOOLEAN
      BY <3>1
    <3>4. h.sync <=> h.spsSync /\ h.ppsSync
      BY <3>1, <3>2
    <3>5. h.previousFrameNum \in Int
      BY <3>1
    <3>6. QED  BY <3>3, <3>4, <3>5
  <2>3. CASE ~(a.spsSync /\ a.ppsSync /\ ~a.sync)
    <3>1. h = a
      BY <1>6, <2>3
    <3>2. QED  BY <1>3, <1>4, <2>1, <2>3, <3>1
  <2>4. QED  BY <2>2, <2>3
<1>10. Typed(h)
  <2>1. {h.sync, h.spsSync, h.ppsSync, h.isIdr, h.isRef, h.slicesReceived} \subseteq BOOLEAN
    BY <1>1, <1>3, <1>7, <1>9 DEF Typed
  <2>2. {h.frameNum, h.previousFrameNum, h.inferredIdrInterval,
         h.total, h.output, h.missed} \subseteq Int
    BY <1>1, <1>7, <1>9 DEF Typed
  <2>3. QED  BY <1>7, <1>9, <2>1, <2>2 DEF Typed, Has
<1>11. h.sync => h.previousFrameNum = Known(s)
  <2>1. CASE g.sync
    BY <1>8, <2>1 DEF Reading
  <2>2. CASE ~g.sync
    <3>1. ~s.sync
      BY <2>2 DEF Reading
    <3>2. h.sync => h.previousFrameNum = -1
      BY <1>4, <1>6, <2>2
    <3>3. QED  BY <3>1, <3>2 DEF Known
  <2>3. QED  BY <2>1, <2>2
<1>12. Reading(s, h, k)
  BY <1>7, <1>8, <1>10, <1>11 DEF Reading
<1>13. QED  BY <1>2, <1>5, <1>7, <1>12

(* A slice.                                                                *)
LEMMA ReadSlice ==
    ASSUME NEW s, NEW g, NEW k, Reading(s, g, k), FrameOK(k),
           NEW n, n.frame = k, IsSlice(n), n.type = "idr" <=> Frame(k).idr,
           NEW h, Kept(Sync(ParseNalu(g, n)), h, {"slicesReceived"}), h.slicesReceived = TRUE
    PROVE  Reading(s, h, k)
<1>1. Typed(g) /\ Has(g)
  BY DEF Reading, Typed, Has
<1>2. PICK a : a = ParseNalu(g, n)
  OBVIOUS
<1>3. PICK type : type = IF n.type = "idr" THEN "IDR" ELSE g.syncType
  OBVIOUS
<1>4. PICK m : m = IF g.frameNum = -1 /\ Frame(k).ref /\ type # "IDR"
                   THEN Gap(g.previousFrameNum, Frame(k).num, a.inferredIdrInterval)
                   ELSE 0
  OBVIOUS
<1>5. /\ Has(a) /\ a.inferredIdrInterval \in Int
      /\ n.type # "idr" => a.inferredIdrInterval = g.inferredIdrInterval
      /\ a.syncType = type
      /\ IF g.sync
         THEN /\ Kept(g, a, SliceChanged) /\ m \in Int
              /\ a.isIdr = (type = "IDR") /\ a.isRef = Frame(k).ref
              /\ a.frameNum = IF g.frameNum = -1 THEN Frame(k).num ELSE g.frameNum
              /\ a.total = g.total + m /\ a.missed = g.missed + m
         ELSE Kept(g, a, {"syncType", "inferredIdrInterval"})
  BY <1>1, <1>2, <1>3, <1>4, SliceFields
<1>6. /\ a.sync = g.sync /\ a.spsSync = g.spsSync /\ a.ppsSync = g.ppsSync
      /\ a.output = g.output /\ a.previousFrameNum = g.previousFrameNum
  BY <1>5 DEF Kept, Tracked, SliceChanged
<1>7. Sync(a) = a
  <2>1. g.sync <=> g.spsSync /\ g.ppsSync
    BY <1>1 DEF Typed
  <2>2. ~(a.spsSync /\ a.ppsSync /\ ~a.sync)
    BY <1>6, <2>1
  <2>3. QED  BY <1>5, <2>2, SyncFields
<1>8. /\ h.sync = g.sync /\ h.spsSync = g.spsSync /\ h.ppsSync = g.ppsSync
      /\ h.output = g.output /\ h.previousFrameNum = g.previousFrameNum
      /\ h.isIdr = a.isIdr /\ h.isRef = a.isRef /\ h.frameNum = a.frameNum
      /\ h.total = a.total /\ h.missed = a.missed /\ h.syncType = a.syncType
      /\ h.inferredIdrInterval = a.inferredIdrInterval /\ Has(h)
  BY <1>2, <1>6, <1>7 DEF Kept, Tracked
<1>9. CASE ~g.sync
  <2>1. /\ h.isIdr = g.isIdr /\ h.isRef = g.isRef /\ h.frameNum = g.frameNum
        /\ h.total = g.total /\ h.missed = g.missed
    BY <1>5, <1>8, <1>9 DEF Kept, Tracked
  <2>2. Typed(h)
    <3>1. {h.sync, h.spsSync, h.ppsSync, h.isIdr, h.isRef, h.slicesReceived} \subseteq BOOLEAN
      BY <1>1, <1>8, <2>1 DEF Typed
    <3>2. {h.frameNum, h.previousFrameNum, h.inferredIdrInterval,
           h.total, h.output, h.missed} \subseteq Int
      BY <1>1, <1>5, <1>8, <2>1 DEF Typed
    <3>3. (h.sync <=> h.spsSync /\ h.ppsSync) /\ Tracked \subseteq DOMAIN h
      BY <1>1, <1>8 DEF Typed, Has
    <3>4. QED  BY <3>1, <3>2, <3>3 DEF Typed
  <2>3. ~Frame(k).idr => h.syncType # "IDR"
    BY <1>3, <1>5, <1>8 DEF Reading
  <2>4. ~h.isRef /\ ~s.sync
    BY <1>9, <2>1 DEF Reading
  <2>5. h.total - s.total = h.missed - s.missed /\ h.output = s.output
    BY <1>8, <2>1 DEF Reading
  <2>6. QED  BY <1>8, <1>9, <2>2, <2>3, <2>4, <2>5 DEF Reading
<1>10. CASE g.sync
  <2>1. /\ m \in Int /\ a.isIdr = (type = "IDR") /\ a.isRef = Frame(k).ref
        /\ a.frameNum = IF g.frameNum = -1 THEN Frame(k).num ELSE g.frameNum
        /\ a.total = g.total + m /\ a.missed = g.missed + m
    BY <1>5, <1>10
  <2>2. /\ g.total \in Int /\ g.missed \in Int /\ s.total \in Int /\ s.missed \in Int
        /\ g.frameNum \in Int
    BY DEF Reading, Typed
  <2>3. h.frameNum = Frame(k).num
    <3>1. g.slicesReceived => g.frameNum = Frame(k).num
      BY <1>10 DEF Reading
    <3>2. ~g.slicesReceived => g.frameNum = -1
      BY DEF Reading
    <3>3. QED  BY <1>8, <2>1, <3>1, <3>2
  <2>4. Typed(h)
    <3>1. {h.sync, h.spsSync, h.ppsSync, h.isIdr, h.isRef, h.slicesReceived} \subseteq BOOLEAN
      <4>1. h.isIdr \in BOOLEAN /\ h.isRef \in BOOLEAN
        BY <1>8, <2>1 DEF FrameOK
      <4>2. QED  BY <1>1, <1>8, <4>1 DEF Typed
    <3>2. {h.frameNum, h.previousFrameNum, h.inferredIdrInterval,
           h.total, h.output, h.missed} \subseteq Int
      <4>1. h.frameNum \in Int /\ h.total \in Int /\ h.missed \in Int
        BY <1>8, <2>1, <2>2, <2>3 DEF FrameOK
      <4>2. QED  BY <1>1, <1>5, <1>8, <4>1 DEF Typed
    <3>3. (h.sync <=> h.spsSync /\ h.ppsSync) /\ Tracked \subseteq DOMAIN h
      BY <1>1, <1>8 DEF Typed, Has
    <3>4. QED  BY <3>1, <3>2, <3>3 DEF Typed
  <2>5. ~Frame(k).idr => h.syncType # "IDR" /\ type # "IDR"
    BY <1>3, <1>5, <1>8 DEF Reading
  <2>6. h.total - s.total = h.missed - s.missed /\ h.output = s.output
    <3>1. g.total - s.total = g.missed - s.missed /\ g.output = s.output
      BY DEF Reading
    <3>2. QED  BY <1>8, <2>1, <2>2, <3>1
  <2>7. h.sync /\ h.previousFrameNum = Known(s)
    BY <1>8, <1>10 DEF Reading
  <2>8. ASSUME Frame(k).ref, ~Frame(k).idr
        PROVE  h.missed - s.missed = Gap(Known(s), Frame(k).num, h.inferredIdrInterval)
    <3>1. h.inferredIdrInterval = g.inferredIdrInterval /\ h.inferredIdrInterval = a.inferredIdrInterval
      BY <1>5, <1>8, <2>8
    <3>2. CASE g.slicesReceived
      <4>1. g.missed - s.missed = Gap(Known(s), Frame(k).num, g.inferredIdrInterval)
        BY <1>10, <2>8, <3>2 DEF Reading
      <4>2. g.frameNum # -1
        <5>1. g.frameNum = Frame(k).num
          BY <1>10, <3>2 DEF Reading
        <5>2. QED  BY <5>1 DEF FrameOK
      <4>3. m = 0
        BY <1>4, <4>2
      <4>4. QED  BY <1>8, <2>1, <2>2, <3>1, <4>1, <4>3
    <3>3. CASE ~g.slicesReceived
      <4>1. g.frameNum = -1 /\ g.missed = s.missed
        BY <3>3 DEF Reading
      <4>2. m = Gap(Known(s), Frame(k).num, a.inferredIdrInterval)
        BY <1>4, <1>8, <2>5, <2>7, <2>8, <4>1
      <4>3. QED  BY <1>8, <2>1, <2>2, <3>1, <4>1, <4>2
    <3>4. QED  BY <3>2, <3>3
  <2>9. h.isRef = Frame(k).ref
    BY <1>8, <2>1
  <2>10. QED
    BY <2>3, <2>4, <2>5, <2>6, <2>7, <2>8, <2>9 DEF Reading
<1>11. QED  BY <1>9, <1>10

LEMMA ReadingAgain ==
    ASSUME NEW s, NEW g, NEW k, Reading(s, g, k), NEW h, Kept(g, h, {})
    PROVE  Reading(s, h, k) /\ h.slicesReceived = g.slicesReceived
<1>1. Typed(h)
  BY TypedAgain DEF Reading
<1>2. /\ h.sync = g.sync /\ h.isRef = g.isRef /\ h.syncType = g.syncType
      /\ h.slicesReceived = g.slicesReceived /\ h.frameNum = g.frameNum
      /\ h.total = g.total /\ h.output = g.output /\ h.missed = g.missed
      /\ h.previousFrameNum = g.previousFrameNum
      /\ h.inferredIdrInterval = g.inferredIdrInterval
  BY DEF Kept, Tracked
<1>3. QED  BY <1>1, <1>2 DEF Reading

(* A NALU, whatever is missing before it.                                  *)
LEMMA ReadNalu ==
    ASSUME NEW s, NEW g, NEW k, Reading(s, g, k), FrameOK(k),
           NEW nalus, NEW i, NEW n, n = Header(nalus, i), n.frame = k,
           n.type \in {"idr", "slice", "sei", "sps", "pps"},
           IsSlice(n) => (n.type = "idr" <=> Frame(k).idr),
           g.slicesReceived => IsSlice(n)
    PROVE  LET h == FilterNalu(g, nalus, i)
           IN  Reading(s, h, k) /\ (h.slicesReceived <=> IsSlice(n))
<1>1. PICK a : a = Sync(ParseNalu(g, n))
  OBVIOUS
<1>2. PICK b : b = IF nalus[i].missing > 0 THEN HandleMissingSlices(a, n) ELSE a
  OBVIOUS
<1>3. PICK h : h = ProcessNalu(b, n, nalus[i].missing, IsLast(nalus, i))
  OBVIOUS
<1>4. FilterNalu(g, nalus, i) = h
  BY <1>1, <1>2, <1>3, ApplyNalu
<1>5. Typed(g) /\ Has(g)
  BY DEF Reading, Typed, Has
<1>6. Has(a)
  <2>1. Has(ParseNalu(g, n))
    <3>1. CASE IsSlice(n)
      BY <1>5, <3>1, SliceFields
    <3>2. CASE ~IsSlice(n)
      BY <1>5, <3>2, ParseOther DEF IsSlice, Kept
    <3>3. QED  BY <3>1, <3>2
  <2>2. QED  BY <1>1, <2>1, SyncFields DEF Kept
<1>7. Kept(a, b, {}) /\ Has(b)
  BY <1>2, <1>6, MissingKept DEF Kept, Has
<1>8. /\ Kept(b, h, {"slicesReceived"})
      /\ IsSlice(n) => h.slicesReceived = TRUE
      /\ ~IsSlice(n) => h.slicesReceived = b.slicesReceived
  <2>1. PICK m, l : h = ProcessNalu(b, n, m, l)
    BY <1>3
  <2>2. QED  BY <1>7, <2>1, ProcessKept
<1>9. Kept(a, h, {"slicesReceived"})
  BY <1>7, <1>8, KeptAgain
<1>10. CASE IsSlice(n)
  <2>1. h.slicesReceived = TRUE
    BY <1>8, <1>10
  <2>2. Reading(s, h, k)
    BY <1>1, <1>9, <1>10, <2>1, ReadSlice
  <2>3. QED  BY <1>4, <1>10, <2>1, <2>2
<1>11. CASE ~IsSlice(n)
  <2>1. n.type \in {"sei", "sps", "pps"}
    BY <1>11 DEF IsSlice
  <2>2. Reading(s, a, k) /\ ~a.slicesReceived
    BY <1>1, <1>11, <2>1, ReadOther
  <2>3. h.slicesReceived = a.slicesReceived
    BY <1>7, <1>8, <1>11 DEF Kept, Tracked
  <2>4. Kept(a, h, {})
    BY <1>9, <2>3 DEF Kept
  <2>5. QED  BY <1>4, <1>11, <2>2, <2>4, ReadingAgain
<1>12. QED  BY <1>10, <1>11

(* An access unit of frame k: what its NALUs say.                          *)
Proper(nalus, k) ==
    /\ nalus \in Seq(NaluSet) /\ k \in DOMAIN script.frames /\ FrameOK(k)
    /\ \A i \in DOMAIN nalus :
          /\ Header(nalus, i).frame = k
          /\ Header(nalus, i).type \in {"idr", "slice", "sei", "sps", "pps"}
          /\ IsSlice(Header(nalus, i)) => (Header(nalus, i).type = "idr" <=> Frame(k).idr)
          /\ i + 1 \in DOMAIN nalus /\ IsSlice(Header(nalus, i))
                => IsSlice(Header(nalus, i + 1))

LEMMA ReadUnit ==
    ASSUME NEW f, Typed(f), ~f.sync => ~f.isRef, NEW k, NEW nalus, Proper(nalus, k)
    PROVE  Reading(ResetAu(f, nalus), FilterNalus(f, nalus), k)
<1>1. PICK s : s = ResetAu(f, nalus) /\ Reading(s, s, k) /\ ~s.slicesReceived
  BY ReadingStart
<1>2. nalus \in Seq(NaluSet) /\ FrameOK(k)
  BY DEF Proper
<1>3. PICK len \in Nat : len = Len(nalus) /\ DOMAIN nalus = 1 .. len
  BY <1>2
<1>4. PICK st : /\ st[0] = s
                /\ \A m \in 1 .. len : st[m] = FilterNalu(st[m - 1], nalus, m)
                /\ FoldNalus(f, nalus) = st[len]
  BY <1>1, <1>2, <1>3, NaluFold
<1> DEFINE Read(m) == /\ Reading(s, st[m], k)
                      /\ st[m].slicesReceived => m > 0 /\ IsSlice(Header(nalus, m))
           E == {m \in Nat : m <= len => Read(m)}
<1>5. 0 \in E
  BY <1>1, <1>4
<1>6. ASSUME NEW m \in Nat, m \in E PROVE m + 1 \in E
  <2>1. SUFFICES ASSUME m + 1 <= len PROVE Read(m + 1)
    OBVIOUS
  <2>2. PICK i : i = m + 1 /\ i \in 1 .. len /\ i - 1 = m /\ m <= len /\ i > 0
    BY <1>3, <2>1
  <2>3. Read(m)
    BY <1>6, <2>2
  <2>4. PICK n : n = Header(nalus, i)
    OBVIOUS
  <2>5. /\ n.frame = k /\ n.type \in {"idr", "slice", "sei", "sps", "pps"}
        /\ IsSlice(n) => (n.type = "idr" <=> Frame(k).idr)
    BY <1>3, <2>2, <2>4 DEF Proper
  <2>6. PICK g : g = st[m]
    OBVIOUS
  <2>7. ASSUME g.slicesReceived PROVE IsSlice(n)
    <3>1. m \in DOMAIN nalus /\ m + 1 \in DOMAIN nalus /\ IsSlice(Header(nalus, m))
      BY <1>3, <2>2, <2>3, <2>6, <2>7
    <3>2. QED  BY <2>2, <2>4, <3>1 DEF Proper
  <2>8. PICK h : h = FilterNalu(g, nalus, i) /\ h = st[i]
    BY <1>4, <2>2, <2>6
  <2>9. Reading(s, h, k) /\ (h.slicesReceived <=> IsSlice(n))
    <3>1. Reading(s, g, k)
      BY <2>3, <2>6
    <3>2. FrameOK(k) /\ (g.slicesReceived => IsSlice(n))
      BY <1>2, <2>7
    <3>3. /\ Reading(s, FilterNalu(g, nalus, i), k)
          /\ FilterNalu(g, nalus, i).slicesReceived <=> IsSlice(n)
      BY <2>4, <2>5, <3>1, <3>2, ReadNalu
    <3>4. QED  BY <2>8, <3>3
  <2>10. QED  BY <2>2, <2>4, <2>8, <2>9
<1> HIDE DEF E
<1>7. Nat \subseteq E
  BY <1>5, <1>6, SetInduction
<1>8. PICK g : g = FoldNalus(f, nalus) /\ Reading(s, g, k)
  BY <1>3, <1>4, <1>7 DEF E
<1>9. PICK h : h = FilterNalus(f, nalus) /\ (h = g \/ h = HandleMissingEndOfFrame(g))
  BY <1>8, ApplyReset
<1>10. Kept(g, h, {})
  <2>1. Has(g)
    BY <1>8 DEF Reading, Typed, Has
  <2>2. Kept(g, HandleMissingEndOfFrame(g), {}) /\ Kept(g, g, {})
    BY <2>1, MissingKept DEF Kept, Has
  <2>3. QED  BY <1>9, <2>2
<1>11. QED  BY <1>1, <1>8, <1>9, <1>10, ReadingAgain

-----------------------------------------------------------------------------
(* frame_num and the frames lost.                                          *)

LEMMA ModSuccessor ==
    ASSUME NEW M \in Nat, NEW x \in 0 .. M - 1
    PROVE  (x + 1) % M = IF x + 1 = M THEN 0 ELSE x + 1
<1>1. M \in Nat \ {0} /\ x \in Nat /\ x < M
  OBVIOUS
<1>2. CASE x + 1 = M
  <2>1. M % M = 0
    BY <1>1
  <2>2. QED  BY <1>2, <2>1
<1>3. CASE x + 1 # M
  <2>1. PICK y \in Nat : y = x + 1 /\ y < M
    BY <1>1, <1>3
  <2>2. y % M = y
    BY <1>1, <2>1
  <2>3. QED  BY <1>3, <2>1, <2>2
<1>4. QED  BY <1>2, <1>3

(* What the assumptions say of the frames.                                 *)
LEMMA FramesFacts ==
    ASSUME chosen \in DOMAIN Scripts
    PROVE  /\ script.maxFrameNum \in Nat \ {0}
           /\ \E n \in Nat : DOMAIN script.frames = 1 .. n
           /\ \A k \in DOMAIN script.frames :
                 /\ FrameOK(k) /\ Frame(k).num \in 0 .. script.maxFrameNum - 1
                 /\ Frame(k).ref /\ ~Frame(k).idr =>
                       \A j \in DOMAIN script.frames :
                           /\ j < k /\ Frame(j).ref
                           /\ \A i \in j + 1 .. k - 1 : ~Frame(i).ref
                           => Frame(k).num = (Frame(j).num + 1) % script.maxFrameNum
<1>1. PICK s : s = script
  OBVIOUS
<1>2. s \in Range(Scripts)
  BY <1>1 DEF script, Range
<1>3. s.maxFrameNum \in Nat \ {0}
  BY <1>2, FilterAssumption
<1>4. /\ Len(s.frames) \in Nat /\ DOMAIN s.frames = 1 .. Len(s.frames)
      /\ \A k \in DOMAIN s.frames :
            /\ s.frames[k].num \in 0 .. s.maxFrameNum - 1
            /\ s.frames[k].ref \in BOOLEAN /\ s.frames[k].idr \in BOOLEAN
            /\ s.frames[k].ref /\ ~s.frames[k].idr =>
                  \A j \in DOMAIN s.frames :
                      /\ j < k /\ s.frames[j].ref
                      /\ \A i \in j + 1 .. k - 1 : ~s.frames[i].ref
                      => s.frames[k].num = (s.frames[j].num + 1) % s.maxFrameNum
  BY <1>2, EncoderAssumption, Zenon
<1>5. \A k \in DOMAIN script.frames : FrameOK(k)
  <2>1. SUFFICES ASSUME NEW k \in DOMAIN s.frames
                 PROVE  /\ s.frames[k].num \in Nat /\ s.frames[k].ref \in BOOLEAN
                        /\ s.frames[k].idr \in BOOLEAN /\ s.maxFrameNum \in Int
    BY <1>1 DEF FrameOK, Frame
  <2>2. s.frames[k].num \in 0 .. s.maxFrameNum - 1
    BY <1>4
  <2>3. QED  BY <1>3, <1>4, <2>2
<1>6. QED  BY <1>1, <1>3, <1>4, <1>5 DEF Frame

(* The reference frames after b and not after n.                           *)
Refs(b, n) == {j \in b + 1 .. n : Frame(j).ref}

LEMMA RefsFacts ==
    ASSUME NEW b \in Nat, NEW n \in Nat, b <= n
    PROVE  /\ Refs(b, b) = {} /\ Cardinality(Refs(b, b)) = 0
           /\ IsFiniteSet(Refs(b, n)) /\ Cardinality(Refs(b, n)) \in Nat
           /\ Frame(n + 1).ref => /\ Refs(b, n + 1) = Refs(b, n) \cup {n + 1}
                                  /\ Cardinality(Refs(b, n + 1)) = Cardinality(Refs(b, n)) + 1
           /\ ~Frame(n + 1).ref => Refs(b, n + 1) = Refs(b, n)
<1>1. Refs(b, b) = {}
  BY DEF Refs
<1>2. Cardinality(Refs(b, b)) = 0
  BY <1>1, FS_EmptySet
<1>3. Refs(b, n) \subseteq b + 1 .. n /\ n + 1 \notin Refs(b, n)
  BY DEF Refs
<1>4. IsFiniteSet(Refs(b, n))
  <2>1. b + 1 \in Int /\ n \in Int
    OBVIOUS
  <2>2. IsFiniteSet((b + 1) .. n)
    BY <2>1, FS_Interval
  <2>3. QED  BY <1>3, <2>2, FS_Subset
<1>5. Cardinality(Refs(b, n)) \in Nat
  BY <1>4, FS_CardinalityType
<1>6. \A j : j \in b + 1 .. n + 1 <=> j \in b + 1 .. n \/ j = n + 1
  OBVIOUS
<1>7. Frame(n + 1).ref => Refs(b, n + 1) = Refs(b, n) \cup {n + 1}
  BY <1>6 DEF Refs
<1>8. ~Frame(n + 1).ref => Refs(b, n + 1) = Refs(b, n)
  BY <1>6 DEF Refs
<1>9. Cardinality(Refs(b, n) \cup {n + 1}) = Cardinality(Refs(b, n)) + 1
  BY <1>3, <1>4, FS_AddElement
<1>10. QED  BY <1>1, <1>2, <1>4, <1>5, <1>7, <1>8, <1>9

(* x is y modulo the modulus of frame_num, for y less than twice that.     *)
Wraps(x, y) == x = IF y < script.maxFrameNum THEN y ELSE y - script.maxFrameNum

(* r is the last reference frame from b to n, and its frame_num counts     *)
(* those after b.                                                          *)
LastTo(b, n, r) ==
    /\ r \in b .. n /\ Frame(r).ref /\ \A i \in r + 1 .. n : ~Frame(i).ref
    /\ Cardinality(Refs(b, n)) < script.maxFrameNum =>
          Wraps(Frame(r).num, Frame(b).num + Cardinality(Refs(b, n)))

LEMMA NextNum ==
    ASSUME chosen \in DOMAIN Scripts,
           NEW b \in DOMAIN script.frames, NEW n \in Nat, b <= n,
           n + 1 \in DOMAIN script.frames, NEW r, LastTo(b, n, r),
           Frame(n + 1).ref, ~Frame(n + 1).idr,
           Cardinality(Refs(b, n)) + 1 < script.maxFrameNum
    PROVE  Wraps(Frame(n + 1).num, Frame(b).num + Cardinality(Refs(b, n)) + 1)
<1>1. PICK M \in Nat \ {0}, last \in Nat : M = script.maxFrameNum /\ DOMAIN script.frames = 1 .. last
  BY FramesFacts
<1>2. b \in Nat /\ r \in Nat /\ r \in DOMAIN script.frames /\ r < n + 1 /\ n + 1 - 1 = n
  BY <1>1 DEF LastTo
<1>3. PICK c \in Nat : c = Cardinality(Refs(b, n))
  BY <1>2, RefsFacts
<1>4. PICK p \in 0 .. M - 1, q \in 0 .. M - 1 : p = Frame(b).num /\ q = Frame(r).num
  BY <1>1, <1>2, FramesFacts
<1>5. q = IF p + c < M THEN p + c ELSE p + c - M
  <2>1. Wraps(Frame(r).num, Frame(b).num + Cardinality(Refs(b, n)))
    <3>1. Cardinality(Refs(b, n)) < script.maxFrameNum
      BY <1>1, <1>3
    <3>2. QED  BY <3>1 DEF LastTo
  <2>2. Frame(r).num = q /\ Frame(b).num + Cardinality(Refs(b, n)) = p + c
    BY <1>3, <1>4
  <2>3. QED  BY <1>1, <2>1, <2>2 DEF Wraps
<1>6. Frame(n + 1).num = (q + 1) % M
  <2>1. Frame(r).ref /\ \A i \in r + 1 .. n + 1 - 1 : ~Frame(i).ref
    BY <1>2 DEF LastTo
  <2>2. PICK k : k = n + 1 /\ k \in DOMAIN script.frames /\ Frame(k).ref /\ ~Frame(k).idr
                 /\ r < k /\ \A i \in r + 1 .. k - 1 : ~Frame(i).ref
    BY <1>2, <2>1
  <2>3. Frame(k).num = (Frame(r).num + 1) % script.maxFrameNum
    BY <1>2, <2>1, <2>2, FramesFacts
  <2>4. QED  BY <1>1, <1>4, <2>2, <2>3
<1>7. Frame(n + 1).num = IF q + 1 = M THEN 0 ELSE q + 1
  BY <1>4, <1>6, ModSuccessor
<1>8. c + 1 < M
  BY <1>1, <1>3
<1>9. Frame(n + 1).num = IF p + c + 1 < M THEN p + c + 1 ELSE p + c + 1 - M
  BY <1>4, <1>5, <1>7, <1>8
<1>10. QED  BY <1>1, <1>3, <1>4, <1>9 DEF Wraps

LEMMA LastExists ==
    ASSUME chosen \in DOMAIN Scripts,
           NEW b \in DOMAIN script.frames, Frame(b).ref,
           NEW n \in Nat, b <= n, n \in DOMAIN script.frames,
           \A j \in Refs(b, n) : ~Frame(j).idr
    PROVE  \E r : LastTo(b, n, r)
<1>1. PICK M \in Nat \ {0}, last \in Nat : M = script.maxFrameNum /\ DOMAIN script.frames = 1 .. last
  BY FramesFacts
<1>2. b \in Nat
  BY <1>1
<1> DEFINE E == {m \in Nat : b <= m /\ m <= n => \E r : LastTo(b, m, r)}
<1>3. LastTo(b, b, b)
  <2>1. Cardinality(Refs(b, b)) = 0
    BY <1>2, RefsFacts
  <2>2. PICK p \in 0 .. M - 1 : p = Frame(b).num
    BY <1>1, FramesFacts
  <2>3. Wraps(p, p + 0)
    BY <1>1, <2>2 DEF Wraps
  <2>4. b \in b .. b /\ b + 1 .. b = {}
    BY <1>2
  <2>5. QED  BY <2>1, <2>2, <2>3, <2>4 DEF LastTo
<1>4. ASSUME NEW m \in Nat, m \in E PROVE m + 1 \in E
  <2>1. SUFFICES ASSUME b <= m + 1, m + 1 <= n PROVE \E r : LastTo(b, m + 1, r)
    OBVIOUS
  <2>2. CASE b = m + 1
    BY <1>3, <2>2
  <2>3. CASE b # m + 1
    <3>1. b <= m /\ m <= n
      BY <1>2, <2>1, <2>3
    <3>2. PICK r : LastTo(b, m, r)
      BY <1>4, <3>1
    <3>3. m + 1 \in 1 .. last /\ m + 1 \in DOMAIN script.frames /\ m + 1 \in b + 1 .. n
      BY <1>1, <1>2, <2>1, <3>1
    <3>4. r \in b .. m /\ r \in b .. m + 1 /\ r \in Nat
      BY <1>2, <3>2 DEF LastTo
    <3>5. CASE Frame(m + 1).ref
      <4>1. m + 1 \in Refs(b, n)
        BY <3>3, <3>5 DEF Refs
      <4>2. /\ Cardinality(Refs(b, m + 1)) = Cardinality(Refs(b, m)) + 1
            /\ Cardinality(Refs(b, m)) \in Nat
        BY <1>2, <3>1, <3>5, RefsFacts
      <4>3. PICK c \in Nat : c = Cardinality(Refs(b, m))
        BY <4>2
      <4>4. ASSUME c + 1 < M
            PROVE  Wraps(Frame(m + 1).num, Frame(b).num + (c + 1))
        <5>1. Wraps(Frame(m + 1).num, Frame(b).num + c + 1)
          BY <1>1, <3>1, <3>2, <3>3, <3>5, <4>1, <4>3, <4>4, NextNum
        <5>2. Frame(b).num \in Int
          BY <1>1, FramesFacts
        <5>3. Frame(b).num + c + 1 = Frame(b).num + (c + 1)
          BY <5>2
        <5>4. QED  BY <5>1, <5>3
      <4>5. m + 1 \in b .. m + 1 /\ m + 1 + 1 .. m + 1 = {}
        BY <1>2, <2>1
      <4>6. LastTo(b, m + 1, m + 1)
        BY <1>1, <3>5, <4>2, <4>3, <4>4, <4>5 DEF LastTo
      <4>7. QED  BY <4>6
    <3>6. CASE ~Frame(m + 1).ref
      <4>1. Refs(b, m + 1) = Refs(b, m)
        BY <1>2, <3>1, <3>6, RefsFacts
      <4>2. \A i \in r + 1 .. m + 1 : i = m + 1 \/ i \in r + 1 .. m
        BY <3>4
      <4>3. LastTo(b, m + 1, r)
        BY <3>2, <3>4, <3>6, <4>1, <4>2 DEF LastTo
      <4>4. QED  BY <4>3
    <3>7. QED  BY <3>5, <3>6
  <2>4. QED  BY <2>2, <2>3
<1>6. 0 \in E
  <2>1. b > 0
    BY <1>1
  <2>2. QED  BY <1>2, <2>1
<1> HIDE DEF E
<1>5. Nat \subseteq E
  BY <1>4, <1>6, SetInduction
<1>7. QED  BY <1>5 DEF E

(* The gap in frame_num is the number of reference frames lost.            *)
LEMMA GapLost ==
    ASSUME chosen \in DOMAIN Scripts,
           NEW b \in DOMAIN script.frames, NEW k \in DOMAIN script.frames, b < k,
           Frame(b).ref, Frame(k).ref, ~Frame(k).idr,
           \A j \in Refs(b, k - 1) : ~Frame(j).idr,
           Cardinality(Refs(b, k - 1)) < script.maxFrameNum - 1,
           NEW interval \in Int
    PROVE  LET c == Cardinality(Refs(b, k - 1))
           IN  Gap(Frame(b).num, Frame(k).num, interval) = IF c < interval THEN c ELSE 0
<1>1. PICK M \in Nat \ {0}, last \in Nat : M = script.maxFrameNum /\ DOMAIN script.frames = 1 .. last
  BY FramesFacts
<1>2. PICK n \in Nat : n = k - 1 /\ b <= n /\ k = n + 1 /\ n \in DOMAIN script.frames /\ b \in Nat
  <2>1. b \in 1 .. last /\ k \in 1 .. last
    BY <1>1
  <2>2. k - 1 \in Nat /\ b <= k - 1 /\ k = k - 1 + 1 /\ k - 1 \in 1 .. last /\ b \in Nat
    BY <2>1
  <2>3. QED  BY <1>1, <2>2
<1>3. PICK r : LastTo(b, n, r)
  BY <1>2, LastExists
<1>4. PICK c \in Nat : c = Cardinality(Refs(b, n))
  BY <1>2, RefsFacts
<1>5. c < M - 1 /\ c + 1 < M
  <2>1. c < M - 1
    BY <1>1, <1>2, <1>4
  <2>2. QED  BY <2>1
<1>6. Wraps(Frame(k).num, Frame(b).num + c + 1)
  BY <1>1, <1>2, <1>3, <1>4, <1>5, NextNum
<1>7. PICK p \in 0 .. M - 1, q \in 0 .. M - 1 : p = Frame(b).num /\ q = Frame(k).num
  BY <1>1, FramesFacts
<1>8. q = IF p + c + 1 < M THEN p + c + 1 ELSE p + c + 1 - M
  BY <1>1, <1>6, <1>7 DEF Wraps
<1>9. (p + 1) % M = IF p + 1 = M THEN 0 ELSE p + 1
  BY <1>7, ModSuccessor
<1>10. q # (p + 1) % M <=> c # 0
  BY <1>5, <1>7, <1>8, <1>9
<1>11. (IF q < p THEN q + M ELSE q) - p - 1 = c
  BY <1>5, <1>7, <1>8
<1>12. Gap(p, q, interval) = IF p # -1 /\ q # (p + 1) % M /\ c < interval THEN c ELSE 0
  BY <1>1, <1>11 DEF Gap
<1>13. p # -1
  BY <1>7
<1>14. Gap(p, q, interval) = IF c < interval THEN c ELSE 0
  BY <1>10, <1>12, <1>13
<1>15. QED  BY <1>2, <1>4, <1>7, <1>14
-----------------------------------------------------------------------------
(* An access unit.                                                         *)

LEMMA RefBeforeSets ==
    ASSUME NEW C, NEW D, NEW k, NEW m,
           \A j : j \in C /\ j < k /\ Frame(j).ref <=> j \in D /\ j < m /\ Frame(j).ref
    PROVE  RefBefore(C, k) = RefBefore(D, m)
<1>1. {j \in C : j < k /\ Frame(j).ref} = {j \in D : j < m /\ Frame(j).ref}
  OBVIOUS
<1>2. QED  BY <1>1 DEF RefBefore

LEMMA RefBeforeFacts ==
    ASSUME chosen \in DOMAIN Scripts, NEW C, C \subseteq DOMAIN script.frames,
           NEW k \in Nat
    PROVE  LET b == RefBefore(C, k)
           IN  /\ b \in C \cup {0} /\ b \in Nat
               /\ b # 0 => b \in C /\ b < k /\ Frame(b).ref
               /\ \A j \in C : j < k /\ Frame(j).ref => j <= b
<1>1. PICK last \in Nat : DOMAIN script.frames = 1 .. last
  BY FramesFacts
<1>2. PICK T : T = {j \in C : j < k /\ Frame(j).ref} \cup {0}
  OBVIOUS
<1>3. T \subseteq 0 .. last /\ T # {}
  BY <1>1, <1>2
<1>4. PICK b : b = Max(T) /\ b \in T /\ \A y \in T : b >= y
  BY <1>3, MaxLemma
<1>5. RefBefore(C, k) = b
  BY <1>2, <1>4 DEF RefBefore
<1>6. b \in Nat
  BY <1>3, <1>4
<1>7. \A j \in C : j < k /\ Frame(j).ref => j <= b
  <2>1. SUFFICES ASSUME NEW j \in C, j < k, Frame(j).ref PROVE j <= b
    OBVIOUS
  <2>2. j \in T /\ j \in Nat
    BY <1>1, <1>2, <2>1
  <2>3. QED  BY <1>4, <1>6, <2>2
<1>8. QED  BY <1>2, <1>4, <1>5, <1>6, <1>7

LEMMA EndFields ==
    ASSUME NEW f, Typed(f)
    PROVE  LET g == EndAu(f)
           IN  /\ Kept(f, g, {"total", "output", "missed"})
               /\ ~f.sync => g = f
               /\ f.sync =>
                     /\ g.total = f.total + Count(f.slicesReceived)
                     /\ g.output = f.output + Count(f.slicesReceived /\ Outputs(f))
                     /\ g.missed = f.missed
                           + Count(f.slicesReceived /\ (f.isRef /\ ~Outputs(f)))
<1>1. PICK x, y, z : /\ x = f.total + Count(f.slicesReceived)
                     /\ y = f.output + Count(f.slicesReceived /\ Outputs(f))
                     /\ z = f.missed + Count(f.slicesReceived /\ (f.isRef /\ ~Outputs(f)))
  OBVIOUS
<1>2. PICK u, v, w : u = f.errored + Count(f.slicesReceived /\ Outputs(f) /\ HasErrors(f))
          /\ v = f.discarded + Count(f.slicesReceived /\ (f.isRef /\ ~Outputs(f))
                                        /\ f.incomplete /\ ~f.outputIncompleteAu)
          /\ w = IF f.isRef /\ ~Outputs(f) THEN [mb \in DOMAIN f.refMbStatus |-> "missing"]
                 ELSE f.mbStatus
  OBVIOUS
<1>3. PICK g : g = [f EXCEPT !.total = x, !.output = y, !.errored = u, !.discarded = v,
                             !.missed = z, !.mbStatus = f.refMbStatus, !.refMbStatus = w]
  OBVIOUS
<1>4. PICK h : h = [g EXCEPT !.mbStatus = f.mbStatus, !.refMbStatus = f.refMbStatus]
  OBVIOUS
<1>5. EndAu(f) = IF ~f.sync THEN f ELSE IF f.isRef THEN g ELSE h
  BY <1>1, <1>2, <1>3, <1>4, Zenon DEF EndAu
<1>6. Kept(f, g, {"total", "output", "missed"}) /\ g.total = x /\ g.output = y /\ g.missed = z
  BY <1>3 DEF Kept, Typed, Has, Tracked
<1>7. Kept(f, h, {"total", "output", "missed"}) /\ h.total = x /\ h.output = y /\ h.missed = z
  BY <1>4, <1>6 DEF Kept, Has, Tracked
<1>8. Kept(f, f, {"total", "output", "missed"})
  BY DEF Kept, Typed, Has
<1>9. QED  BY <1>1, <1>5, <1>6, <1>7, <1>8

LEMMA ResultFields ==
    ASSUME NEW f, NEW nalus, NEW missed
    PROVE  LET r == Result(f, nalus, missed)
           IN  /\ r.counted <=> f.sync /\ f.slicesReceived
               /\ r.output <=> Outputs(f)
               /\ r.counted \in BOOLEAN /\ r.output \in BOOLEAN
               /\ r.isRef = f.isRef /\ r.lost = f.missed - missed
               /\ r.interval = f.inferredIdrInterval
               /\ nalus # <<>> => r.frame = Header(nalus, 1).frame
<1>1. PICK a : a = (f.sync /\ f.slicesReceived)
  OBVIOUS
<1>2. PICK b : b = Outputs(f)
  OBVIOUS
<1>7. /\ a \in BOOLEAN /\ b \in BOOLEAN /\ (a <=> f.sync /\ f.slicesReceived)
      /\ (b <=> Outputs(f))
  BY <1>1, <1>2 DEF Outputs
<1>3. PICK d : d = IF nalus = <<>> THEN 0 ELSE Header(nalus, 1).frame
  OBVIOUS
<1>4. PICK u, v, w, x, y, z : Result(f, nalus, missed) =
          [lost |-> f.missed - missed, info |-> u, interval |-> f.inferredIdrInterval,
           frame |-> d, counted |-> a, output |-> b, isComplete |-> v, hasErrors |-> w,
           isRef |-> f.isRef, syncType |-> x, mbStatus |-> y, slices |-> z]
  BY <1>1, <1>2, <1>3, Zenon DEF Result
<1>5. PICK r : r = Result(f, nalus, missed)
  OBVIOUS
<1>6. /\ r.counted = a /\ r.output = b /\ r.isRef = f.isRef /\ r.lost = f.missed - missed
      /\ r.interval = f.inferredIdrInterval /\ r.frame = d
  BY <1>4, <1>5
<1>8. QED  BY <1>3, <1>5, <1>6, <1>7

(* What an access unit adds to the frames counted, and to those shown.     *)
CountedBy(r) == IF r.counted THEN {r.frame} ELSE {}
ShownBy(r)   == IF r.counted /\ r.output THEN {r.frame} ELSE {}

(* The access unit is of frame k, which comes after those of C; one that   *)
(* has no NALU is of none.                                                 *)
Fits(nalus, k, C) ==
    /\ k \in Nat
    /\ nalus # <<>> => Proper(nalus, k) /\ \A j \in C : j < k

LEMMA ReadFits ==
    ASSUME NEW f, Typed(f), ~f.sync => ~f.isRef, NEW k, NEW C, NEW nalus, Fits(nalus, k, C)
    PROVE  LET g == FilterNalus(f, nalus)
           IN  /\ Reading(ResetAu(f, nalus), g, k)
               /\ nalus = <<>> => ~g.slicesReceived
<1>1. CASE nalus # <<>>
  <2>1. Proper(nalus, k)
    BY <1>1 DEF Fits
  <2>2. QED  BY <1>1, <2>1, ReadUnit
<1>2. CASE nalus = <<>>
  <2>1. nalus \in Seq(NaluSet) /\ Len(nalus) = 0
    BY <1>2
  <2>2. PICK st : st[0] = ResetAu(f, nalus) /\ FoldNalus(f, nalus) = st[0]
    BY <2>1, NaluFold
  <2>3. FilterNalus(f, nalus) = ResetAu(f, nalus)
    BY <1>2, <2>2, ApplyReset
  <2>4. Reading(ResetAu(f, nalus), ResetAu(f, nalus), k) /\ ~ResetAu(f, nalus).slicesReceived
    BY ReadingStart
  <2>5. QED  BY <1>2, <2>3, <2>4
<1>3. QED  BY <1>1, <1>2
(* The frame_num remembered is that of the last reference frame counted.   *)
LEMMA KnownRemembers ==
    ASSUME chosen \in DOMAIN Scripts, NEW f, NEW C, NEW S, FilterOK(f, C, S),
           NEW nalus, NEW k \in Nat, \A j \in C : j < k
    PROVE  Remembers(Known(ResetAu(f, nalus)), C, k)
<1>1. PICK s : /\ s = ResetAu(f, nalus) /\ s.sync = f.sync
               /\ s.previousFrameNum = PreviousNum(f)
  BY ReadingStart DEF FilterOK
<1>2. CASE f.sync
  BY <1>1, <1>2 DEF FilterOK, Known
<1>3. CASE ~f.sync
  <2>1. C = {}
    BY <1>3 DEF FilterOK
  <2>2. RefBefore(C, k) = 0
    BY <2>1, RefBeforeFacts
  <2>3. Known(s) = -1
    BY <1>1, <1>3 DEF Known
  <2>4. QED  BY <1>1, <2>2, <2>3 DEF Remembers
<1>4. QED  BY <1>2, <1>3

LEMMA NotCounted ==
    ASSUME chosen \in DOMAIN Scripts, NEW f, NEW C, NEW S, FilterOK(f, C, S),
           NEW nalus, NEW g, NEW k, Reading(ResetAu(f, nalus), g, k),
           ~(g.sync /\ g.slicesReceived)
    PROVE  FilterOK(EndAu(g), C, S)
<1>1. Typed(f) /\ Typed(g) /\ (~f.sync => ~f.isRef)
  BY DEF FilterOK, Reading
<1>2. PICK s : /\ s = ResetAu(f, nalus) /\ s.sync = f.sync
               /\ s.missed = f.missed /\ s.total = f.total /\ s.output = f.output
  BY <1>1, ReadingStart
<1>3. Reading(s, g, k)
  BY <1>2
<1>4. PICK e : /\ e = EndAu(g) /\ Kept(g, e, {"total", "output", "missed"})
               /\ ~g.sync => e = g
               /\ g.sync => /\ e.total = g.total + Count(g.slicesReceived)
                            /\ e.output = g.output + Count(g.slicesReceived /\ Outputs(g))
                            /\ e.missed = g.missed
                                  + Count(g.slicesReceived /\ (g.isRef /\ ~Outputs(g)))
  BY <1>1, EndFields
<1>5. g.total \in Int /\ g.output \in Int /\ g.missed \in Int
  BY <1>1 DEF Typed
<1>6. e.total = g.total /\ e.output = g.output /\ e.missed = g.missed
  <2>1. CASE g.sync
    <3>1. Count(g.slicesReceived) = 0
      BY <2>1 DEF Count
    <3>2. Count(g.slicesReceived /\ Outputs(g)) = 0
      BY <2>1 DEF Count
    <3>3. Count(g.slicesReceived /\ (g.isRef /\ ~Outputs(g))) = 0
      BY <2>1 DEF Count
    <3>4. QED  BY <1>4, <1>5, <2>1, <3>1, <3>2, <3>3
  <2>2. QED  BY <1>4, <2>1
<1>7. Kept(g, e, {}) /\ Typed(e)
  <2>1. Kept(g, e, {})
    BY <1>4, <1>6 DEF Kept
  <2>2. QED  BY <1>1, <2>1, TypedAgain
<1>8. /\ e.sync = g.sync /\ e.isRef = g.isRef
      /\ e.previousFrameNum = g.previousFrameNum
  BY <1>7 DEF Kept, Tracked
<1>9. Counts(e, C, S)
  <2>1. PICK c : c = Cardinality({j \in C \ S : ~Frame(j).ref})
    OBVIOUS
  <2>2. f.total = f.output + f.missed + c
    BY <2>1 DEF FilterOK, Counts
  <2>3. c \in Nat
    <3>1. IsFiniteSet(C)
      BY DEF FilterOK, Counts
    <3>2. IsFiniteSet({j \in C \ S : ~Frame(j).ref})
      BY <3>1, FS_Subset
    <3>3. QED  BY <2>1, <3>2, FS_CardinalityType
  <2>4. g.total - f.total = g.missed - f.missed /\ g.output = f.output
    BY <1>2, <1>3 DEF Reading
  <2>5. f.total \in Int /\ f.output \in Int /\ f.missed \in Int
    BY <1>1 DEF Typed
  <2>6. e.total = e.output + e.missed + c
    BY <1>5, <1>6, <2>2, <2>3, <2>4, <2>5
  <2>7. QED  BY <2>1, <2>6 DEF FilterOK, Counts
<1>10. ~g.isRef
  BY <1>3 DEF Reading
<1>11. ~e.sync => C = {} /\ ~e.isRef
  <2>1. ~g.sync => ~s.sync
    BY <1>3 DEF Reading
  <2>2. QED  BY <1>2, <1>8, <1>10, <2>1 DEF FilterOK
<1>12. ASSUME NEW m \in Nat, e.sync, \A j \in C : j < m
       PROVE  Remembers(PreviousNum(e), C, m)
  <2>1. PreviousNum(e) = Known(s)
    BY <1>3, <1>8, <1>10, <1>12 DEF Reading, PreviousNum
  <2>2. Remembers(Known(s), C, m)
    BY <1>2, <1>12, KnownRemembers
  <2>3. QED  BY <2>1, <2>2
<1>13. FilterOK(e, C, S)
  BY <1>7, <1>9, <1>11, <1>12 DEF FilterOK
<1>14. QED  BY <1>4, <1>13

LEMMA NowCounted ==
    ASSUME chosen \in DOMAIN Scripts, NEW f, NEW C, NEW S, FilterOK(f, C, S),
           NEW nalus, NEW g, NEW k, Reading(ResetAu(f, nalus), g, k),
           k \in DOMAIN script.frames, \A j \in C : j < k,
           g.sync, g.slicesReceived
    PROVE  FilterOK(EndAu(g), C \cup {k}, S \cup (IF Outputs(g) THEN {k} ELSE {}))
<1>1. Typed(f) /\ Typed(g) /\ (~f.sync => ~f.isRef)
  BY DEF FilterOK, Reading
<1>2. PICK s : /\ s = ResetAu(f, nalus) /\ s.sync = f.sync
               /\ s.missed = f.missed /\ s.total = f.total /\ s.output = f.output
  BY <1>1, ReadingStart
<1>3. Reading(s, g, k)
  BY <1>2
<1>4. PICK o \in BOOLEAN : o <=> Outputs(g)
  BY DEF Outputs
<1>5. PICK ref \in BOOLEAN : ref = Frame(k).ref /\ ref = g.isRef
  <2>1. g.isRef = Frame(k).ref
    BY <1>3 DEF Reading
  <2>2. Frame(k).ref \in BOOLEAN
    BY FramesFacts DEF FrameOK
  <2>3. QED  BY <2>1, <2>2
<1>6. PICK e : /\ e = EndAu(g) /\ Kept(g, e, {"total", "output", "missed"})
               /\ e.total = g.total + Count(g.slicesReceived)
               /\ e.output = g.output + Count(g.slicesReceived /\ Outputs(g))
               /\ e.missed = g.missed
                                  + Count(g.slicesReceived /\ (g.isRef /\ ~Outputs(g)))
  BY <1>1, EndFields
<1>7. g.total \in Int /\ g.output \in Int /\ g.missed \in Int
  BY <1>1 DEF Typed
<1>8. /\ e.total = g.total + 1 /\ e.output = g.output + (IF o THEN 1 ELSE 0)
      /\ e.missed = g.missed + (IF ref /\ ~o THEN 1 ELSE 0)
  <2>1. Count(g.slicesReceived) = 1
    BY DEF Count
  <2>2. Count(g.slicesReceived /\ Outputs(g)) = IF o THEN 1 ELSE 0
    BY <1>4 DEF Count
  <2>3. Count(g.slicesReceived /\ (g.isRef /\ ~Outputs(g))) = IF ref /\ ~o THEN 1 ELSE 0
    BY <1>4, <1>5 DEF Count
  <2>4. QED  BY <1>6, <2>1, <2>2, <2>3
<1>9. /\ e.sync = g.sync /\ e.isRef = g.isRef /\ e.frameNum = g.frameNum
      /\ e.previousFrameNum = g.previousFrameNum
      /\ e.spsSync = g.spsSync /\ e.ppsSync = g.ppsSync /\ e.isIdr = g.isIdr
      /\ e.slicesReceived = g.slicesReceived
      /\ e.inferredIdrInterval = g.inferredIdrInterval
  BY <1>6 DEF Kept, Tracked
<1>10. Typed(e)
  <2>1. {e.sync, e.spsSync, e.ppsSync, e.isIdr, e.isRef, e.slicesReceived} \subseteq BOOLEAN
    BY <1>1, <1>9 DEF Typed
  <2>2. {e.frameNum, e.previousFrameNum, e.inferredIdrInterval,
         e.total, e.output, e.missed} \subseteq Int
    BY <1>1, <1>7, <1>8, <1>9 DEF Typed
  <2>3. (e.sync <=> e.spsSync /\ e.ppsSync) /\ Tracked \subseteq DOMAIN e
    BY <1>1, <1>6, <1>9 DEF Typed, Kept, Has
  <2>4. QED  BY <2>1, <2>2, <2>3 DEF Typed
<1>11. PICK D, T : D = C \cup {k} /\ T = S \cup (IF o THEN {k} ELSE {})
  OBVIOUS
<1>12. /\ C \subseteq DOMAIN script.frames /\ S \subseteq C /\ IsFiniteSet(C)
       /\ f.total = f.output + f.missed + Cardinality({j \in C \ S : ~Frame(j).ref})
  BY DEF FilterOK, Counts
<1>13. PICK last \in Nat : DOMAIN script.frames = 1 .. last
  BY FramesFacts
<1>14. k \notin C /\ k \in Nat
  BY <1>13
<1>15. Counts(e, D, T)
  <2>1. PICK U, V : U = {j \in C \ S : ~Frame(j).ref} /\ V = {j \in D \ T : ~Frame(j).ref}
    OBVIOUS
  <2>2. IsFiniteSet(U) /\ k \notin U
    BY <1>12, <1>14, <2>1, FS_Subset
  <2>3. PICK c \in Nat : c = Cardinality(U)
    BY <2>2, FS_CardinalityType
  <2>4. V = IF ~ref /\ ~o THEN U \cup {k} ELSE U
    BY <1>5, <1>11, <1>12, <1>14, <2>1
  <2>5. Cardinality(U \cup {k}) = c + 1
    BY <2>2, <2>3, FS_AddElement
  <2>6. Cardinality(V) = c + (IF ~ref /\ ~o THEN 1 ELSE 0)
    BY <2>3, <2>4, <2>5
  <2>7. g.total - f.total = g.missed - f.missed /\ g.output = f.output
    BY <1>2, <1>3 DEF Reading
  <2>8. f.total \in Int /\ f.output \in Int /\ f.missed \in Int
    BY <1>1 DEF Typed
  <2>9. f.total = f.output + f.missed + c
    BY <1>12, <2>1, <2>3
  <2>10. e.total = e.output + e.missed + (c + (IF ~ref /\ ~o THEN 1 ELSE 0))
    BY <1>7, <1>8, <2>7, <2>8, <2>9
  <2>11. D \subseteq DOMAIN script.frames /\ T \subseteq D /\ IsFiniteSet(D)
    BY <1>11, <1>12, FS_AddElement
  <2>12. QED  BY <2>1, <2>6, <2>10, <2>11 DEF Counts
<1>16. ASSUME NEW m \in Nat, \A j \in D : j < m
       PROVE  Remembers(PreviousNum(e), D, m)
  <2>1. k < m /\ k \in D
    BY <1>11, <1>16
  <2>2. D \subseteq DOMAIN script.frames /\ \A j \in D : j \in Nat /\ j <= k
    BY <1>11, <1>12, <1>13
  <2>3. CASE ref
    <3>1. PICK b \in Nat : /\ b = RefBefore(D, m) /\ b \in D \cup {0}
                           /\ \A j \in D : j < m /\ Frame(j).ref => j <= b
      BY <2>2, RefBeforeFacts
    <3>3. k # 0
      BY <1>13
    <3>2. b = k
      <4>1. Frame(k).ref
        BY <1>5, <2>3
      <4>2. k <= b
        BY <2>1, <3>1, <4>1
      <4>3. b # 0 => b <= k
        BY <2>2, <3>1
      <4>4. QED  BY <1>14, <3>3, <4>2, <4>3
    <3>4. PreviousNum(e) = Frame(k).num
      <4>1. g.frameNum = Frame(k).num
        BY <1>3 DEF Reading
      <4>2. QED  BY <1>5, <1>9, <2>3, <4>1 DEF PreviousNum
    <3>5. QED  BY <3>1, <3>2, <3>3, <3>4 DEF Remembers
  <2>4. CASE ~ref
    <3>1. RefBefore(D, m) = RefBefore(C, k)
      <4>1. \A j : j \in D /\ j < m /\ Frame(j).ref <=> j \in C /\ j < k /\ Frame(j).ref
        BY <1>5, <1>11, <1>14, <1>16, <2>4
      <4>2. QED  BY <4>1, RefBeforeSets
    <3>2. PreviousNum(e) = Known(s)
      <4>1. g.previousFrameNum = Known(s)
        BY <1>3 DEF Reading
      <4>2. QED  BY <1>5, <1>9, <2>4, <4>1 DEF PreviousNum
    <3>3. Remembers(Known(s), C, k)
      BY <1>2, <1>14, KnownRemembers
    <3>4. QED  BY <3>1, <3>2, <3>3 DEF Remembers
  <2>5. QED  BY <2>3, <2>4
<1>17. e.sync
  BY <1>9
<1>18. FilterOK(e, D, T)
  BY <1>10, <1>15, <1>16, <1>17 DEF FilterOK
<1>19. T = S \cup (IF Outputs(g) THEN {k} ELSE {})
  BY <1>4, <1>11
<1>20. QED  BY <1>6, <1>11, <1>18, <1>19
(* The gap before a frame that is counted.                                 *)
LEMMA GapIsTold ==
    ASSUME chosen \in DOMAIN Scripts, NEW f, NEW C, NEW S, FilterOK(f, C, S),
           NEW nalus, NEW g, NEW k, Reading(ResetAu(f, nalus), g, k),
           k \in DOMAIN script.frames, \A j \in C : j < k,
           NEW r, r.counted <=> g.sync /\ g.slicesReceived, r.isRef = g.isRef,
           r.lost = g.missed - f.missed, r.interval = g.inferredIdrInterval,
           r.counted => r.frame = k
    PROVE  GapTold(r, C)
<1>1. Typed(f) /\ Typed(g) /\ (~f.sync => ~f.isRef)
  BY DEF FilterOK, Reading
<1>2. PICK s : s = ResetAu(f, nalus) /\ s.missed = f.missed
  BY <1>1, ReadingStart
<1>3. Reading(s, g, k)
  BY <1>2
<1>4. PICK last \in Nat : DOMAIN script.frames = 1 .. last
  BY FramesFacts
<1>5. k \in Nat /\ k > 0
  BY <1>4
<1>6. PICK b \in Nat : b = RefBefore(C, k) /\ (b # 0 => b \in C /\ b < k /\ Frame(b).ref)
  <2>1. C \subseteq DOMAIN script.frames
    BY DEF FilterOK, Counts
  <2>2. QED  BY <1>5, <2>1, RefBeforeFacts
<1>7. PICK lost : lost = IF b = 0 THEN {} ELSE Refs(b, k - 1)
  OBVIOUS
<1>8. PICK c : c = Cardinality(lost)
  OBVIOUS
<1>9. PICK interval \in Int : interval = r.interval /\ interval = g.inferredIdrInterval
  BY <1>1 DEF Typed
<1>10. ASSUME r.counted, r.isRef, \A j \in lost \cup {k} : ~Frame(j).idr,
              c < script.maxFrameNum - 1
       PROVE  r.lost = IF c < interval THEN c ELSE 0
  <2>1. g.sync /\ g.slicesReceived /\ g.isRef = Frame(k).ref /\ Frame(k).ref /\ ~Frame(k).idr
    BY <1>3, <1>10 DEF Reading
  <2>2. r.lost = Gap(Known(s), Frame(k).num, interval)
    BY <1>2, <1>3, <1>9, <2>1 DEF Reading
  <2>3. Remembers(Known(s), C, k)
    BY <1>2, <1>5, KnownRemembers
  <2>4. CASE b = 0
    <3>1. c = 0
      BY <1>7, <1>8, <2>4, FS_EmptySet
    <3>2. Known(s) = -1
      BY <1>6, <2>3, <2>4 DEF Remembers
    <3>3. Gap(Known(s), Frame(k).num, interval) = 0
      BY <3>2 DEF Gap
    <3>4. QED  BY <2>2, <3>1, <3>3
  <2>5. CASE b # 0
    <3>1. Known(s) = Frame(b).num
      BY <1>6, <2>3, <2>5 DEF Remembers
    <3>2. b \in DOMAIN script.frames /\ b < k /\ Frame(b).ref
      BY <1>6, <2>5 DEF FilterOK, Counts
    <3>3. lost = Refs(b, k - 1)
      BY <1>7, <2>5
    <3>4. \A j \in Refs(b, k - 1) : ~Frame(j).idr
      BY <1>10, <3>3
    <3>5. Cardinality(Refs(b, k - 1)) < script.maxFrameNum - 1
      BY <1>8, <1>10, <3>3
    <3>6. Gap(Frame(b).num, Frame(k).num, interval)
            = IF Cardinality(Refs(b, k - 1)) < interval THEN Cardinality(Refs(b, k - 1)) ELSE 0
      BY <2>1, <3>2, <3>4, <3>5, GapLost
    <3>7. QED  BY <1>8, <2>2, <3>1, <3>3, <3>6
  <2>6. QED  BY <2>4, <2>5
<1>11. CASE ~r.counted
  BY <1>11 DEF GapTold
<1>12. CASE r.counted
  <2>1. r.frame = k
    BY <1>12
  <2>2. lost = IF b = 0 THEN {} ELSE {j \in b + 1 .. k - 1 : Frame(j).ref}
    BY <1>7 DEF Refs
  <2>3. PICK q : q = RefBefore(C, r.frame) /\ q = b
    BY <1>6, <2>1
  <2>4. PICK l : l = (IF q = 0 THEN {} ELSE {j \in q + 1 .. r.frame - 1 : Frame(j).ref}) /\ l = lost
    BY <2>1, <2>2, <2>3
  <2>5. /\ r.counted /\ r.isRef
        /\ \A j \in l \cup {r.frame} : ~Frame(j).idr
        /\ Cardinality(l) < script.maxFrameNum - 1
        => r.lost = IF Cardinality(l) < r.interval THEN Cardinality(l) ELSE 0
    BY <1>8, <1>9, <1>10, <2>1, <2>4
  <2>6. QED  BY <2>3, <2>4, <2>5 DEF GapTold
<1>13. QED  BY <1>11, <1>12

(* An access unit, its result and what it leaves in the filter.            *)
LEMMA UnitLemma ==
    ASSUME chosen \in DOMAIN Scripts, NEW f, NEW C, NEW S, FilterOK(f, C, S),
           NEW nalus, NEW k, Fits(nalus, k, C)
    PROVE  LET g == FilterNalus(f, nalus)
               r == Result(g, nalus, f.missed)
           IN  /\ FilterOK(EndAu(g), C \cup CountedBy(r), S \cup ShownBy(r))
               /\ r.counted => r.frame = k /\ nalus # <<>>
               /\ GapTold(r, C)
<1>1. PICK g : g = FilterNalus(f, nalus) /\ Reading(ResetAu(f, nalus), g, k)
               /\ (nalus = <<>> => ~g.slicesReceived)
  <2>1. Typed(f) /\ (~f.sync => ~f.isRef)
    BY DEF FilterOK
  <2>2. QED  BY <2>1, ReadFits
<1>2. PICK r : /\ r = Result(g, nalus, f.missed)
               /\ r.counted <=> g.sync /\ g.slicesReceived
               /\ r.output <=> Outputs(g)
               /\ r.counted \in BOOLEAN /\ r.output \in BOOLEAN
               /\ r.isRef = g.isRef /\ r.lost = g.missed - f.missed
               /\ r.interval = g.inferredIdrInterval
               /\ nalus # <<>> => r.frame = Header(nalus, 1).frame
  BY ResultFields
<1>3. ASSUME r.counted
      PROVE  /\ nalus # <<>> /\ r.frame = k /\ k \in DOMAIN script.frames
             /\ \A j \in C : j < k
  <2>1. nalus # <<>>
    BY <1>1, <1>2, <1>3
  <2>2. Proper(nalus, k) /\ \A j \in C : j < k
    BY <2>1 DEF Fits
  <2>3. 1 \in DOMAIN nalus
    BY <2>1, <2>2 DEF Proper
  <2>4. Header(nalus, 1).frame = k /\ k \in DOMAIN script.frames
    BY <2>2, <2>3 DEF Proper
  <2>5. QED  BY <1>2, <2>1, <2>2, <2>4
<1>4. CASE ~r.counted
  <2>1. FilterOK(EndAu(g), C, S)
    BY <1>1, <1>2, <1>4, NotCounted
  <2>2. CountedBy(r) = {} /\ ShownBy(r) = {}
    BY <1>4 DEF CountedBy, ShownBy
  <2>3. C \cup {} = C /\ S \cup {} = S
    OBVIOUS
  <2>4. FilterOK(EndAu(g), C \cup CountedBy(r), S \cup ShownBy(r))
    BY <2>1, <2>2, <2>3
  <2>5. GapTold(r, C)
    BY <1>4 DEF GapTold
  <2>6. QED  BY <1>1, <1>2, <1>4, <2>4, <2>5
<1>5. CASE r.counted
  <2>1. FilterOK(EndAu(g), C \cup {k}, S \cup (IF Outputs(g) THEN {k} ELSE {}))
    BY <1>1, <1>2, <1>3, <1>5, NowCounted
  <2>2. CountedBy(r) = {k}
    BY <1>3, <1>5 DEF CountedBy
  <2>3. ShownBy(r) = IF Outputs(g) THEN {k} ELSE {}
    BY <1>2, <1>3, <1>5 DEF ShownBy
  <2>4. FilterOK(EndAu(g), C \cup CountedBy(r), S \cup ShownBy(r))
    BY <2>1, <2>2, <2>3
  <2>5. GapTold(r, C)
    BY <1>1, <1>2, <1>3, <1>5, GapIsTold
  <2>6. QED  BY <1>1, <1>2, <1>3, <1>5, <2>4, <2>5
<1>6. QED  BY <1>2, <1>4, <1>5

(* What is counted later does not change what was told before.             *)
LEMMA ToldStill ==
    ASSUME NEW r, NEW C, GapTold(r, C), NEW k \in Nat, r.counted => r.frame \in Nat /\ r.frame <= k
    PROVE  GapTold(r, C \cup {k})
<1>1. CASE ~r.counted
  BY <1>1 DEF GapTold
<1>2. CASE r.counted
  <2>1. RefBefore(C \cup {k}, r.frame) = RefBefore(C, r.frame)
    <3>4. r.frame \in Nat /\ r.frame <= k
      BY <1>2
    <3>5. ~(k < r.frame)
      BY <3>4
    <3>1. PICK D, n : D = C \cup {k} /\ n = r.frame /\ ~(k < n)
      BY <3>5
    <3>2. \A j : j \in D /\ j < n /\ Frame(j).ref <=> j \in C /\ j < n /\ Frame(j).ref
      BY <3>1
    <3>3. RefBefore(D, n) = RefBefore(C, n)
      BY <3>2, RefBeforeSets
    <3>6. QED  BY <3>1, <3>3
  <2>2. QED  BY <2>1 DEF GapTold
<1>3. QED  BY <1>1, <1>2
-----------------------------------------------------------------------------
(* The access units of a step.                                             *)

CountedIn(rs) == {rs[i].frame : i \in {x \in DOMAIN rs : rs[x].counted}}
ShownIn(rs)   == {rs[i].frame : i \in {x \in DOMAIN rs : rs[x].counted /\ rs[x].output}}

(* The access units are of the frames of times, which come after those of  *)
(* C and rise.                                                             *)
Rising(units, times, C) ==
    \A i \in DOMAIN units :
        Fits(units[i].nalus, times[i],
             C \cup {times[m] : m \in {x \in 1 .. i - 1 : units[x].nalus # <<>>}})

(* What the first m of them give.                                          *)
Filtered(s, C, S, units, times, m) ==
    /\ \E R : s.results \in Seq(R)
    /\ FilterOK(s.filter, C \cup CountedIn(s.results), S \cup ShownIn(s.results))
    /\ \A i \in DOMAIN s.results : GapTold(s.results[i], C \cup CountedIn(s.results))
    /\ CountedIn(s.results) \subseteq {times[x] : x \in {y \in 1 .. m : units[y].nalus # <<>>}}

LEMMA ResultsMore ==
    ASSUME NEW R, NEW rs \in Seq(R), NEW r
    PROVE  LET q == Append(rs, r)
           IN  /\ \E Q : q \in Seq(Q)
               /\ CountedIn(q) = CountedIn(rs) \cup CountedBy(r)
               /\ ShownIn(q) = ShownIn(rs) \cup ShownBy(r)
               /\ \A i \in DOMAIN q : (i \in DOMAIN rs /\ q[i] = rs[i]) \/ q[i] = r
<1>1. PICK Q : Q = R \cup {r}
  OBVIOUS
<1>2. rs \in Seq(Q) /\ r \in Q
  BY <1>1
<1>9. PICK n \in Nat : n = Len(rs)
  OBVIOUS
<1>3. PICK q :
          /\ q = Append(rs, r) /\ q \in Seq(Q) /\ DOMAIN rs = 1 .. n /\ DOMAIN q = 1 .. n + 1
          /\ q[n + 1] = r /\ \A k \in 1 .. n : q[k] = rs[k]
  <2>1. PICK q : q = Append(rs, r)
    OBVIOUS
  <2>2. /\ q \in Seq(Q) /\ Len(rs) \in Nat /\ DOMAIN rs = 1 .. Len(rs)
        /\ DOMAIN q = 1 .. Len(rs) + 1
        /\ q[Len(rs) + 1] = r /\ \A k \in 1 .. Len(rs) : q[k] = rs[k]
    BY <1>2, <2>1, AppendSeq
  <2>3. QED  BY <1>9, <2>1, <2>2
<1>4. \A i : i \in 1 .. n + 1 <=> i \in 1 .. n \/ i = n + 1
  OBVIOUS
<1>5. CountedIn(q) = CountedIn(rs) \cup CountedBy(r)
  BY <1>3, <1>4 DEF CountedIn, CountedBy
<1>6. ShownIn(q) = ShownIn(rs) \cup ShownBy(r)
  BY <1>3, <1>4 DEF ShownIn, ShownBy
<1>7. \A i \in DOMAIN q : (i \in DOMAIN rs /\ q[i] = rs[i]) \/ q[i] = r
  BY <1>3, <1>4
<1>10. QED  BY <1>3, <1>5, <1>6, <1>7

LEMMA NextFiltered ==
    ASSUME chosen \in DOMAIN Scripts, NEW C, NEW S, NEW units, NEW times,
           Rising(units, times, C), NEW m \in Nat, m + 1 \in DOMAIN units,
           NEW s, Filtered(s, C, S, units, times, m)
    PROVE  Filtered(ProcessAu(s, units[m + 1]), C, S, units, times, m + 1)
<1>1. PICK n, nalus, k : n = m + 1 /\ nalus = units[n].nalus /\ k = times[n]
  OBVIOUS
<1>2. PICK R, rs : rs = s.results /\ rs \in Seq(R)
  BY DEF Filtered
<1>3. PICK f : f = s.filter
  OBVIOUS
<1>4. PICK D, T : D = C \cup CountedIn(rs) /\ T = S \cup ShownIn(rs) /\ FilterOK(f, D, T)
  BY <1>2, <1>3 DEF Filtered
<1>5. k \in Nat
  BY <1>1 DEF Rising, Fits
<1>6. \A x : x \in 1 .. m <=> x \in 1 .. n - 1
  BY <1>1
<1>7. nalus # <<>> => Proper(nalus, k) /\ \A j \in D : j < k
  <2>1. SUFFICES ASSUME nalus # <<>> PROVE Proper(nalus, k) /\ \A j \in D : j < k
    OBVIOUS
  <2>2. PICK E : E = C \cup {times[x] : x \in {y \in 1 .. n - 1 : units[y].nalus # <<>>}}
    OBVIOUS
  <2>3. Proper(nalus, k) /\ \A j \in E : j < k
    BY <1>1, <2>1, <2>2 DEF Rising, Fits
  <2>4. D \subseteq E
    BY <1>2, <1>4, <1>6, <2>2 DEF Filtered
  <2>5. QED  BY <2>3, <2>4
<1>8. Fits(nalus, k, D)
  BY <1>5, <1>7 DEF Fits
<1>9. PICK e, r : /\ ProcessAu(s, units[n]) = [filter |-> e, results |-> Append(rs, r)]
                  /\ FilterOK(e, D \cup CountedBy(r), T \cup ShownBy(r))
                  /\ r.counted => r.frame = k /\ nalus # <<>>
                  /\ GapTold(r, D)
  <2>1. PICK g, r : g = FilterNalus(f, nalus) /\ r = Result(g, nalus, f.missed)
    OBVIOUS
  <2>2. ProcessAu(s, units[n]) = [filter |-> EndAu(g), results |-> Append(rs, r)]
    BY <1>1, <1>2, <1>3, <2>1, ApplyEnd
  <2>3. /\ FilterOK(EndAu(g), D \cup CountedBy(r), T \cup ShownBy(r))
        /\ r.counted => r.frame = k /\ nalus # <<>>
        /\ GapTold(r, D)
    BY <1>4, <1>8, <2>1, UnitLemma
  <2>4. QED  BY <2>2, <2>3
<1>10. PICK z, q : /\ z = ProcessAu(s, units[n]) /\ z.filter = e /\ z.results = q
                   /\ q = Append(rs, r)
  BY <1>9
<1>11. /\ \E Q : q \in Seq(Q)
       /\ CountedIn(q) = CountedIn(rs) \cup CountedBy(r)
       /\ ShownIn(q) = ShownIn(rs) \cup ShownBy(r)
       /\ \A i \in DOMAIN q : (i \in DOMAIN rs /\ q[i] = rs[i]) \/ q[i] = r
  BY <1>2, <1>10, ResultsMore
<1>12. C \cup CountedIn(q) = D \cup CountedBy(r) /\ S \cup ShownIn(q) = T \cup ShownBy(r)
  BY <1>4, <1>11
<1>13. FilterOK(e, C \cup CountedIn(q), S \cup ShownIn(q))
  BY <1>9, <1>12
<1>14. ASSUME NEW i \in DOMAIN q
       PROVE  GapTold(q[i], C \cup CountedIn(q))
  <2>1. PICK x : x = q[i] /\ GapTold(x, D)
    BY <1>2, <1>4, <1>9, <1>11 DEF Filtered
  <2>2. CASE ~r.counted
    <3>1. D \cup CountedBy(r) = D
      BY <2>2 DEF CountedBy
    <3>2. QED  BY <1>12, <2>1, <3>1
  <2>3. CASE r.counted
    <3>1. D \cup CountedBy(r) = D \cup {k}
      BY <1>9, <2>3 DEF CountedBy
    <3>2. x.counted => x.frame \in Nat /\ x.frame <= k
      <4>1. SUFFICES ASSUME x.counted PROVE x.frame \in Nat /\ x.frame <= k
        OBVIOUS
      <4>2. CASE x = r
        BY <1>5, <1>9, <2>3, <4>2
      <4>3. CASE x # r
        <5>1. i \in DOMAIN rs /\ x = rs[i]
          BY <1>11, <2>1, <4>3
        <5>2. x.frame \in CountedIn(rs)
          BY <4>1, <5>1 DEF CountedIn
        <5>3. x.frame \in D /\ nalus # <<>>
          BY <1>4, <1>9, <2>3, <5>2
        <5>4. x.frame < k
          BY <1>7, <5>3
        <5>5. x.frame \in Nat
          <6>1. PICK last \in Nat : DOMAIN script.frames = 1 .. last
            BY FramesFacts
          <6>2. D \subseteq DOMAIN script.frames
            BY <1>4 DEF FilterOK, Counts
          <6>3. QED  BY <5>3, <6>1, <6>2
        <5>6. QED  BY <1>5, <5>4, <5>5
      <4>4. QED  BY <4>2, <4>3
    <3>3. GapTold(x, D \cup {k})
      BY <1>5, <2>1, <3>2, ToldStill
    <3>4. QED  BY <1>12, <2>1, <3>1, <3>3
  <2>4. QED  BY <2>2, <2>3
<1>15. CountedIn(q) \subseteq {times[x] : x \in {y \in 1 .. n : units[y].nalus # <<>>}}
  <2>1. PICK A, B : /\ A = {y \in 1 .. m : units[y].nalus # <<>>}
                    /\ B = {y \in 1 .. n : units[y].nalus # <<>>}
    OBVIOUS
  <2>2. A \subseteq B
    BY <1>1, <2>1
  <2>3. CountedIn(rs) \subseteq {times[x] : x \in A}
    BY <1>2, <2>1 DEF Filtered
  <2>4. r.counted => n \in B /\ r.frame = times[n]
    BY <1>1, <1>9, <2>1
  <2>5. CountedBy(r) \subseteq {times[x] : x \in B}
    BY <2>4 DEF CountedBy
  <2>6. QED  BY <1>11, <2>1, <2>2, <2>3, <2>5
<1>16. Filtered(z, C, S, units, times, n)
  BY <1>10, <1>11, <1>13, <1>14, <1>15 DEF Filtered
<1>17. QED  BY <1>1, <1>10, <1>16

LEMMA AllFiltered ==
    ASSUME chosen \in DOMAIN Scripts, NEW f, NEW C, NEW S, FilterOK(f, C, S),
           NEW U, NEW units \in Seq(U), NEW times, Rising(units, times, C)
    PROVE  LET s == FoldLeft(ProcessAu, [filter |-> f, results |-> <<>>], units)
           IN  Filtered(s, C, S, units, times, Len(units))
<1>1. PICK base : base = [filter |-> f, results |-> <<>>]
  OBVIOUS
<1>2. PICK st : /\ Folded(st, <<"unit", 0>>, base, units)
                /\ FoldLeft(ProcessAu, base, units) = st[Len(units)]
  BY UnitFold
<1>3. PICK len \in Nat : len = Len(units) /\ DOMAIN units = 1 .. len
  OBVIOUS
<1>4. /\ st[0] = base
      /\ \A k \in 1 .. len : st[k] = ProcessAu(st[k - 1], units[k])
  BY <1>2, <1>3 DEF Folded, Handled
<1> DEFINE E == {m \in Nat : m <= len => Filtered(st[m], C, S, units, times, m)}
<1>5. 0 \in E
  <2>1. base.filter = f /\ base.results = <<>>
    BY <1>1
  <2>2. <<>> \in Seq({}) /\ CountedIn(<<>>) = {} /\ ShownIn(<<>>) = {} /\ DOMAIN <<>> = {}
    BY DEF CountedIn, ShownIn
  <2>3. C \cup {} = C /\ S \cup {} = S
    OBVIOUS
  <2>4. Filtered(base, C, S, units, times, 0)
    BY <2>1, <2>2, <2>3 DEF Filtered
  <2>5. QED  BY <1>4, <2>4
<1>6. ASSUME NEW m \in Nat, m \in E PROVE m + 1 \in E
  <2>1. SUFFICES ASSUME m + 1 <= len PROVE Filtered(st[m + 1], C, S, units, times, m + 1)
    OBVIOUS
  <2>2. m <= len /\ m + 1 \in 1 .. len /\ m + 1 - 1 = m
    BY <2>1
  <2>3. st[m + 1] = ProcessAu(st[m], units[m + 1])
    BY <1>4, <2>2
  <2>4. Filtered(st[m], C, S, units, times, m)
    BY <1>6, <2>2
  <2>5. QED  BY <1>3, <2>2, <2>3, <2>4, NextFiltered
<1> HIDE DEF E
<1>7. Nat \subseteq E
  BY <1>5, <1>6, SetInduction
<1>8. Filtered(st[len], C, S, units, times, len)
  BY <1>7 DEF E
<1>9. QED  BY <1>1, <1>2, <1>3, <1>8
-----------------------------------------------------------------------------
(* What the NALUs of an access unit say: they are as the script has them.  *)

LEMMA PacketsFacts ==
    ASSUME chosen \in DOMAIN Scripts, NEW i \in 1 .. Len(script.packets)
    PROVE  LET p == script.packets[i]
           IN  /\ p.frame \in DOMAIN script.frames
               /\ p.frame = IF i = 1 THEN 1
                            ELSE script.packets[i - 1].frame
                                 + (IF script.packets[i - 1].marker THEN 1 ELSE 0)
               /\ p.kind \in {"single", "start", "stap"} => 1 \in DOMAIN p.nalus
               /\ p.kind = "stap" => 2 \in DOMAIN p.nalus
               /\ \A k \in DOMAIN p.nalus :
                     /\ p.nalus[k].frame = p.frame
                     /\ p.nalus[k].type \in {"idr", "slice", "sei", "sps", "pps"}
                     /\ IsSlice(p.nalus[k]) =>
                           (p.nalus[k].type = "idr" <=> Frame(p.frame).idr)
<1>1. PICK s : s = script
  OBVIOUS
<1>2. s \in Range(Scripts)
  BY <1>1 DEF script, Range
<1>3. PICK p : p = s.packets[i]
  OBVIOUS
<1>4. i \in DOMAIN s.packets
  BY <1>1, <1>2, EncoderAssumption
<1>5. p.frame \in DOMAIN s.frames
  BY <1>2, <1>3, <1>4, FilterAssumption
<1>6. /\ p.frame = IF i = 1 THEN 1
                   ELSE s.packets[i - 1].frame + (IF s.packets[i - 1].marker THEN 1 ELSE 0)
      /\ DOMAIN p.nalus = 1 .. CASE p.kind = "stap"            -> 2
                                 [] p.kind \in {"mid", "end"}  -> 0
                                 [] OTHER                      -> 1
      /\ \A k \in DOMAIN p.nalus :
            /\ p.nalus[k].frame = p.frame
            /\ p.nalus[k].type \in {"idr", "slice", "sei", "sps", "pps"}
            /\ IsSlice(p.nalus[k]) =>
                  (p.nalus[k].type = "idr" <=> s.frames[p.frame].idr)
  <2>1. i \in 1 .. Len(s.packets)
    BY <1>1
  <2>2. \A x \in 1 .. Len(s.packets) :
            LET q == s.packets[x]
            IN  /\ q.frame = IF x = 1 THEN 1
                             ELSE s.packets[x - 1].frame
                                  + (IF s.packets[x - 1].marker THEN 1 ELSE 0)
                /\ DOMAIN q.nalus = 1 .. CASE q.kind = "stap"            -> 2
                                           [] q.kind \in {"mid", "end"}  -> 0
                                           [] OTHER                      -> 1
                /\ \A k \in DOMAIN q.nalus :
                      /\ q.nalus[k].frame = q.frame
                      /\ q.nalus[k].type \in {"idr", "slice", "sei", "sps", "pps"}
                      /\ IsSlice(q.nalus[k]) =>
                            (q.nalus[k].type = "idr" <=> s.frames[q.frame].idr)
    BY <1>2, EncoderAssumption, Zenon
  <2>3. QED  BY <1>3, <2>1, <2>2, Zenon
<1>7. p.kind = "stap" => DOMAIN p.nalus = 1 .. 2
  BY <1>6
<1>8. p.kind \in {"single", "start"} => DOMAIN p.nalus = 1 .. 1
  BY <1>6
<1>9. /\ p.kind \in {"single", "start", "stap"} => 1 \in DOMAIN p.nalus
      /\ p.kind = "stap" => 2 \in DOMAIN p.nalus
  BY <1>7, <1>8
<1>10. QED  BY <1>1, <1>3, <1>5, <1>6, <1>9 DEF Frame

LEMMA SliceOrder ==
    ASSUME chosen \in DOMAIN Scripts,
           NEW i \in 1 .. Len(script.packets), NEW j \in 1 .. Len(script.packets),
           script.packets[i].frame = script.packets[j].frame,
           NEW k \in DOMAIN script.packets[i].nalus, NEW l \in DOMAIN script.packets[j].nalus,
           i < j \/ (i = j /\ k < l), IsSlice(script.packets[i].nalus[k])
    PROVE  IsSlice(script.packets[j].nalus[l])
<1>1. PICK s : s = script
  OBVIOUS
<1>2. s \in Range(Scripts)
  BY <1>1 DEF script, Range
<1>3. \A x, y \in 1 .. Len(s.packets) :
          s.packets[x].frame = s.packets[y].frame =>
              \A u \in DOMAIN s.packets[x].nalus, v \in DOMAIN s.packets[y].nalus :
                  (x < y \/ (x = y /\ u < v)) /\ IsSlice(s.packets[x].nalus[u])
                      => IsSlice(s.packets[y].nalus[v])
  BY <1>2, EncoderAssumption, Zenon
<1>4. QED  BY <1>1, <1>3

(* Which header a NALU of an access unit has.                              *)
LEMMA NaluHeader ==
    ASSUME chosen \in DOMAIN Scripts, NEW st \in Seq(Packets), SentBy(st),
           NEW nalus, NEW i, Good(st, nalus[i]),
           IsSecond(nalus, i) => st[First(nalus[i])].kind = "stap"
    PROVE  LET a == First(nalus[i])
               k == IF IsSecond(nalus, i) THEN 2 ELSE 1
           IN  /\ a \in 1 .. Len(script.packets)
               /\ Header(nalus, i) = script.packets[a].nalus[k]
               /\ k \in DOMAIN script.packets[a].nalus
               /\ script.packets[a].frame = Ts(st, nalus[i])
<1>1. PICK h \in Nat, e \in Nat : MadeOf(st, nalus[i], h, e)
  BY DEF Good
<1>2. First(nalus[i]) = h
  BY <1>1, GoodEnds
<1>3. Head(nalus[i].packets) = h
  <2>1. h <= e /\ nalus[i].packets = Run(h, e)
    BY <1>1 DEF MadeOf
  <2>2. Run(h, e) \in Seq(Nat) /\ Run(h, e)[1] = h
    BY <2>1, RunLemma
  <2>3. Head(Run(h, e)) = Run(h, e)[1]
    BY <2>2
  <2>4. QED  BY <2>1, <2>2, <2>3
<1>4. h \in 1 .. Len(script.packets) /\ h \in 1 .. Len(st)
  <2>1. h \in 1 .. Len(st) /\ Len(st) \in Nat
    BY <1>1 DEF MadeOf
  <2>2. Len(st) <= Len(script.packets)
    BY DEF SentBy
  <2>3. Len(script.packets) \in Nat
    <3>1. script \in Range(Scripts)
      BY DEF script, Range
    <3>2. QED  BY <3>1, ScriptAssumption
  <2>4. QED  BY <2>1, <2>2, <2>3
<1>5. PICK p : /\ p = script.packets[h] /\ p.kind = st[h].kind /\ p.frame = st[h].ts
  BY <1>4 DEF SentBy
<1>6. st[h].kind \in {"single", "stap", "start"}
  BY <1>1 DEF MadeOf
<1>7. PICK k : k = IF IsSecond(nalus, i) THEN 2 ELSE 1
  OBVIOUS
<1>8. k \in DOMAIN p.nalus
  <2>1. p.kind \in {"single", "start", "stap"} => 1 \in DOMAIN p.nalus
    BY <1>4, <1>5, PacketsFacts
  <2>2. p.kind = "stap" => 2 \in DOMAIN p.nalus
    BY <1>4, <1>5, PacketsFacts
  <2>3. IsSecond(nalus, i) => p.kind = "stap"
    BY <1>2, <1>5
  <2>4. QED  BY <1>5, <1>6, <1>7, <2>1, <2>2, <2>3
<1>9. Header(nalus, i) = p.nalus[k]
  BY <1>3, <1>5, <1>7 DEF Header
<1>10. QED  BY <1>2, <1>4, <1>5, <1>7, <1>8, <1>9 DEF Ts

(* A NALU that is the second one of its packet is of a STAP-A packet.      *)
LEMMA SecondStap ==
    ASSUME NEW st \in Seq(Packets), NEW nalus \in Seq(NaluSet),
           \A i \in DOMAIN nalus : Good(st, nalus[i]),
           \A i \in DOMAIN nalus : i + 1 \in DOMAIN nalus =>
               After(st, Final(nalus[i]), First(nalus[i + 1])),
           NEW i \in DOMAIN nalus, IsSecond(nalus, i)
    PROVE  st[First(nalus[i])].kind = "stap"
<1>1. PICK j \in DOMAIN nalus : i = j + 1 /\ nalus[i].packets = nalus[j].packets
  <2>1. PICK n \in Nat : DOMAIN nalus = 1 .. n
    OBVIOUS
  <2>2. i - 1 \in 1 .. n /\ i = i - 1 + 1
    BY <2>1 DEF IsSecond
  <2>3. QED  BY <2>1, <2>2 DEF IsSecond
<1>2. First(nalus[i]) = First(nalus[j]) /\ Final(nalus[i]) = Final(nalus[j])
  BY <1>1 DEF First, Final
<1>3. First(nalus[j]) <= Final(nalus[j]) /\ First(nalus[j]) \in Nat /\ Final(nalus[j]) \in Nat
  BY NaluTypes
<1>4. After(st, Final(nalus[j]), First(nalus[i]))
  BY <1>1
<1>5. ~(Final(nalus[j]) < First(nalus[i]))
  BY <1>2, <1>3
<1>6. QED  BY <1>4, <1>5 DEF After

LEMMA UnitProper ==
    ASSUME chosen \in DOMAIN Scripts, NEW st \in Seq(Packets), SentBy(st),
           NEW nalus \in Seq(NaluSet), nalus # <<>>,
           \A i \in DOMAIN nalus : Good(st, nalus[i]),
           \A i, j \in DOMAIN nalus : Ts(st, nalus[i]) = Ts(st, nalus[j]),
           \A i \in DOMAIN nalus : i + 1 \in DOMAIN nalus =>
               After(st, Final(nalus[i]), First(nalus[i + 1]))
    PROVE  Proper(nalus, Ts(st, nalus[1]))
<1>1. 1 \in DOMAIN nalus
  OBVIOUS
<1>2. PICK k : k = Ts(st, nalus[1]) /\ \A i \in DOMAIN nalus : Ts(st, nalus[i]) = k
  BY <1>1
<1> DEFINE P(i) == script.packets[First(nalus[i])]
           Place(i) == IF IsSecond(nalus, i) THEN 2 ELSE 1
<1>3. ASSUME NEW i \in DOMAIN nalus
      PROVE  /\ First(nalus[i]) \in 1 .. Len(script.packets)
             /\ Header(nalus, i) = P(i).nalus[Place(i)]
             /\ Place(i) \in DOMAIN P(i).nalus
             /\ P(i).frame = k
  <2>1. IsSecond(nalus, i) => st[First(nalus[i])].kind = "stap"
    BY SecondStap
  <2>2. Good(st, nalus[i])
    OBVIOUS
  <2>3. QED  BY <1>2, <2>1, <2>2, NaluHeader
<1>4. k \in DOMAIN script.frames
  <2>1. P(1).frame \in DOMAIN script.frames
    BY <1>1, <1>3, PacketsFacts
  <2>2. QED  BY <1>1, <1>3, <2>1
<1>5. FrameOK(k)
  BY <1>4, FramesFacts
<1>6. ASSUME NEW i \in DOMAIN nalus
      PROVE  /\ Header(nalus, i).frame = k
             /\ Header(nalus, i).type \in {"idr", "slice", "sei", "sps", "pps"}
             /\ IsSlice(Header(nalus, i)) => (Header(nalus, i).type = "idr" <=> Frame(k).idr)
  <2>1. PICK a, n, p : /\ a = First(nalus[i]) /\ n = Place(i) /\ p = script.packets[a]
                       /\ a \in 1 .. Len(script.packets)
                       /\ Header(nalus, i) = p.nalus[n] /\ n \in DOMAIN p.nalus /\ p.frame = k
    BY <1>3
  <2>2. \A x \in DOMAIN p.nalus :
                     /\ p.nalus[x].frame = p.frame
                     /\ p.nalus[x].type \in {"idr", "slice", "sei", "sps", "pps"}
                     /\ IsSlice(p.nalus[x]) =>
                           (p.nalus[x].type = "idr" <=> Frame(p.frame).idr)
    BY <2>1, PacketsFacts
  <2>3. QED  BY <2>1, <2>2
<1>7. ASSUME NEW i \in DOMAIN nalus, i + 1 \in DOMAIN nalus, IsSlice(Header(nalus, i))
      PROVE  IsSlice(Header(nalus, i + 1))
  <2>1. PICK j : j = i + 1 /\ j \in DOMAIN nalus /\ j > 1 /\ j - 1 = i
    <3>1. PICK n \in Nat : DOMAIN nalus = 1 .. n
      OBVIOUS
    <3>2. i + 1 > 1 /\ i + 1 - 1 = i
      BY <3>1
    <3>3. QED  BY <1>7, <3>2
  <2>2. PICK a, n : /\ a = First(nalus[i]) /\ n = Place(i)
                    /\ a \in 1 .. Len(script.packets)
                    /\ Header(nalus, i) = script.packets[a].nalus[n]
                    /\ n \in DOMAIN script.packets[a].nalus /\ script.packets[a].frame = k
    BY <1>3
  <2>3. PICK b, m : /\ b = First(nalus[j]) /\ m = Place(j)
                    /\ b \in 1 .. Len(script.packets)
                    /\ Header(nalus, j) = script.packets[b].nalus[m]
                    /\ m \in DOMAIN script.packets[b].nalus /\ script.packets[b].frame = k
    BY <1>3, <2>1
  <2>4. PICK e \in Nat : e = Final(nalus[i]) /\ a <= e /\ a \in Nat
    BY <2>2, NaluTypes
  <2>5. After(st, e, b)
    BY <2>1, <2>3, <2>4
  <2>9. /\ script.packets[a].frame = script.packets[b].frame
        /\ IsSlice(script.packets[a].nalus[n])
    BY <1>7, <2>2, <2>3
  <2>10. a < b \/ (a = b /\ n < m) => IsSlice(script.packets[b].nalus[m])
    BY <2>2, <2>3, <2>9, SliceOrder
  <2>6. CASE a < b
    <3>1. IsSlice(script.packets[b].nalus[m])
      BY <2>6, <2>10
    <3>2. QED  BY <2>1, <2>3, <3>1
  <2>7. CASE ~(a < b)
    <3>1. e = b /\ a = b /\ st[b].kind = "stap"
      BY <2>3, <2>4, <2>5, <2>7 DEF After
    <3>2. nalus[i].packets = nalus[j].packets
      <4>1. PICK h \in Nat, x \in Nat : MadeOf(st, nalus[i], h, x)
        BY DEF Good
      <4>2. h = b /\ x = b
        BY <2>2, <2>4, <3>1, <4>1, GoodEnds
      <4>3. PICK g \in Nat, y \in Nat : MadeOf(st, nalus[j], g, y)
        BY <2>1 DEF Good
      <4>4. g = b
        BY <2>3, <4>3, GoodEnds
      <4>5. y = b
        BY <3>1, <4>3, <4>4 DEF MadeOf
      <4>6. QED  BY <4>1, <4>2, <4>3, <4>4, <4>5 DEF MadeOf
    <3>3. m = 2
      BY <2>1, <2>3, <3>2 DEF IsSecond
    <3>4. n = 1 \/ n = 2
      BY <2>2
    <3>5. CASE n = 2
      BY <1>7, <2>1, <2>2, <2>3, <3>1, <3>3, <3>5
    <3>6. CASE n = 1
      <4>1. a = b /\ n < m
        BY <3>1, <3>3, <3>6
      <4>2. IsSlice(script.packets[b].nalus[m])
        BY <2>10, <4>1
      <4>3. QED  BY <2>1, <2>3, <4>2
    <3>7. QED  BY <3>4, <3>5, <3>6
  <2>8. QED  BY <2>6, <2>7
<1>8. Proper(nalus, k)
  BY <1>4, <1>5, <1>6, <1>7 DEF Proper
<1>9. QED  BY <1>2, <1>8
-----------------------------------------------------------------------------
(* The steps.                                                              *)

LEMMA RecordedTold ==
    /\ \A f, C, S : FilterOK(f, C, S) <=> Recorded(script, f, C, S)
    /\ \A r, C : GapTold(r, C) <=> Told(script, r, C)
<1>1. ASSUME NEW f, NEW C, NEW S PROVE FilterOK(f, C, S) <=> Recorded(script, f, C, S)
  BY DEF FilterOK, Counts, Remembers, RefBefore, Frame, Recorded
<1>2. ASSUME NEW r, NEW C PROVE GapTold(r, C) <=> Told(script, r, C)
  BY DEF GapTold, RefBefore, Frame, Told
<1>3. QED  BY <1>1, <1>2

(* The access units output since there were n of them.                     *)
Since(st, out, n, C, units, times) ==
    /\ units = SubSeq(out, n + 1, Len(out)) /\ units \in Seq(Unit)
    /\ Rising(units, times, C)
    /\ \A x \in 1 .. Len(units) :
          \E i \in 1 .. Len(out) :
              /\ out[i].nalus = units[x].nalus
              /\ units[x].nalus # <<>> => times[x] = Ts(st, out[i].nalus[1])

LEMMA NewUnits ==
    ASSUME chosen \in DOMAIN Scripts, NEW st \in Seq(Packets), SentBy(st),
           NEW out \in Seq(Unit), NEW c \in Ctx, NEW rf, ListsOK(st, rf, W(out, c)),
           NEW n \in Nat, n <= Len(out), NEW C,
           \A j \in C : \E i \in 1 .. n : out[i].nalus # <<>> /\ j = Ts(st, out[i].nalus[1])
    PROVE  \E units, times : Since(st, out, n, C, units, times)
<1>1. PICK len \in Nat : len = Len(out) /\ DOMAIN out = 1 .. len
  OBVIOUS
<1>2. PICK w : /\ w = W(out, c) /\ w \in Lists /\ DOMAIN w = 1 .. len + 1
               /\ \A i \in 1 .. len : w[i] = out[i].nalus
  <2>1. PICK w : /\ w = W(out, c) /\ w \in Lists /\ Len(w) = len + 1
                 /\ \A i \in 1 .. len : w[i] = out[i].nalus
    BY <1>1, WFacts
  <2>2. DOMAIN w = 1 .. len + 1
    BY <2>1 DEF Lists
  <2>3. QED  BY <2>1, <2>2
<1>3. PICK units : units = SubSeq(out, n + 1, len)
  OBVIOUS
<1>4. /\ units \in Seq(Unit) /\ Len(units) = len - n /\ DOMAIN units = 1 .. len - n
      /\ \A x \in 1 .. len - n : n + x \in 1 .. len /\ units[x] = out[n + x]
  <2>1. n + 1 \in Int /\ len \in Int /\ \A i \in n + 1 .. len : out[i] \in Unit
    BY <1>1
  <2>2. /\ units \in Seq(Unit) /\ Len(units) = IF n + 1 <= len THEN len - (n + 1) + 1 ELSE 0
        /\ \A i \in 1 .. len - (n + 1) + 1 : units[i] = out[(n + 1) + i - 1]
    BY <1>3, <2>1, SubSeqProperties
  <2>3. n <= len
    BY <1>1
  <2>4. Len(units) = len - n
    BY <2>2, <2>3
  <2>5. ASSUME NEW x \in 1 .. len - n
        PROVE  n + x \in 1 .. len /\ units[x] = out[n + x]
    <3>1. x \in 1 .. len - (n + 1) + 1 /\ (n + 1) + x - 1 = n + x /\ n + x \in 1 .. len
      BY <2>3
    <3>2. QED  BY <2>2, <3>1
  <2>6. DOMAIN units = 1 .. len - n
    BY <2>2, <2>4
  <2>7. QED  BY <2>2, <2>4, <2>5, <2>6
<1>5. PICK times : times = [x \in DOMAIN units |->
          IF units[x].nalus = <<>> THEN 0 ELSE Ts(st, units[x].nalus[1])]
  OBVIOUS
<1>6. AllGood(st, w) /\ Separate(st, w) /\ Ordered(st, w)
  BY <1>2 DEF ListsOK
<1>7. ASSUME NEW i \in 1 .. len + 1, NEW j \in 1 .. len + 1, i < j, w[i] # <<>>, w[j] # <<>>
      PROVE  Ts(st, w[i][1]) < Ts(st, w[j][1])
  <2>1. w[i] \in Seq(NaluSet) /\ w[j] \in Seq(NaluSet)
    BY <1>2 DEF Lists
  <2>2. 1 \in DOMAIN w[i] /\ 1 \in DOMAIN w[j]
    BY <1>7, <2>1
  <2>3. i <= j /\ i # j
    BY <1>7
  <2>4. QED  BY <1>2, <1>6, <2>2, <2>3 DEF Separate
<1>8. ASSUME NEW x \in 1 .. len - n, units[x].nalus # <<>>
      PROVE  /\ times[x] = Ts(st, w[n + x][1]) /\ n + x \in 1 .. len + 1
             /\ w[n + x] = units[x].nalus /\ w[n + x] # <<>>
             /\ times[x] \in Nat /\ Proper(units[x].nalus, times[x])
  <2>1. PICK i : i = n + x /\ i \in 1 .. len /\ i \in 1 .. len + 1 /\ units[x] = out[i]
    BY <1>4
  <2>2. PICK nalus \in Seq(NaluSet) : nalus = units[x].nalus /\ nalus = w[i] /\ nalus # <<>>
    <3>1. w[i] \in Seq(NaluSet)
      BY <1>2, <2>1 DEF Lists
    <3>2. w[i] = out[i].nalus /\ units[x].nalus = out[i].nalus
      BY <1>2, <2>1
    <3>3. QED  BY <1>8, <3>1, <3>2
  <2>3. times[x] = Ts(st, nalus[1])
    BY <1>4, <1>5, <1>8, <2>2
  <2>4. \A k \in DOMAIN nalus : Good(st, nalus[k])
    BY <1>2, <1>6, <2>1, <2>2 DEF AllGood
  <2>5. \A k, l \in DOMAIN nalus : Ts(st, nalus[k]) = Ts(st, nalus[l])
    <3>1. i <= i
      BY <2>1
    <3>2. i \in DOMAIN w
      BY <1>2, <2>1
    <3>3. \A k, l \in DOMAIN w[i] : Ts(st, w[i][k]) = Ts(st, w[i][l])
      BY <1>6, <3>1, <3>2 DEF Separate
    <3>4. QED  BY <2>2, <3>3
  <2>6. \A k \in DOMAIN nalus : k + 1 \in DOMAIN nalus =>
            After(st, Final(nalus[k]), First(nalus[k + 1]))
    BY <1>2, <1>6, <2>1, <2>2 DEF Ordered
  <2>7. Proper(nalus, Ts(st, nalus[1]))
    BY <2>2, <2>4, <2>5, <2>6, UnitProper
  <2>8. Ts(st, nalus[1]) \in Nat
    <3>1. 1 \in DOMAIN nalus
      BY <2>2
    <3>2. QED  BY <2>4, <3>1, NaluTypes
  <2>9. QED  BY <2>1, <2>2, <2>3, <2>7, <2>8
<1>9. Rising(units, times, C)
  <2>1. SUFFICES ASSUME NEW x \in 1 .. len - n
                 PROVE  Fits(units[x].nalus, times[x],
                             C \cup {times[m] : m \in {y \in 1 .. x - 1 : units[y].nalus # <<>>}})
    BY <1>4 DEF Rising
  <2>2. PICK D : D = C \cup {times[m] : m \in {y \in 1 .. x - 1 : units[y].nalus # <<>>}}
    OBVIOUS
  <2>3. times[x] \in Nat
    <3>1. CASE units[x].nalus = <<>>
      BY <1>4, <1>5, <3>1
    <3>2. QED  BY <1>8, <3>1
  <2>4. ASSUME units[x].nalus # <<>>, NEW j \in D PROVE j < times[x]
    <3>1. CASE j \in C
      <4>1. PICK i \in 1 .. n : out[i].nalus # <<>> /\ j = Ts(st, out[i].nalus[1])
        BY <3>1
      <4>2. i \in 1 .. len /\ i \in 1 .. len + 1 /\ i < n + x
        BY <1>1
      <4>3. w[i] = out[i].nalus
        BY <1>2, <4>2
      <4>4. QED  BY <1>7, <1>8, <2>4, <4>1, <4>2, <4>3
    <3>2. CASE j \notin C
      <4>1. PICK m \in 1 .. x - 1 : units[m].nalus # <<>> /\ j = times[m]
        BY <2>2, <2>4, <3>2
      <4>2. m \in 1 .. len - n /\ n + m < n + x
        BY <1>1
      <4>3. QED  BY <1>7, <1>8, <2>4, <4>1, <4>2
    <3>3. QED  BY <3>1, <3>2
  <2>5. QED  BY <1>8, <2>2, <2>3, <2>4 DEF Fits
<1>10. ASSUME NEW x \in 1 .. Len(units)
       PROVE  \E i \in 1 .. len :
                  /\ out[i].nalus = units[x].nalus
                  /\ units[x].nalus # <<>> => times[x] = Ts(st, out[i].nalus[1])
  <2>1. x \in 1 .. len - n
    BY <1>4
  <2>2. n + x \in 1 .. len /\ units[x] = out[n + x]
    BY <1>4, <2>1
  <2>3. units[x].nalus # <<>> => times[x] = Ts(st, units[x].nalus[1])
    BY <1>8, <2>1
  <2>4. QED  BY <2>2, <2>3
<1>11. /\ units = SubSeq(out, n + 1, Len(out)) /\ units \in Seq(Unit)
       /\ Rising(units, times, C)
  BY <1>1, <1>3, <1>4, <1>9
<1>12. \A x \in 1 .. Len(units) :
          \E i \in 1 .. Len(out) :
              /\ out[i].nalus = units[x].nalus
              /\ units[x].nalus # <<>> => times[x] = Ts(st, out[i].nalus[1])
  BY <1>1, <1>10
<1>13. Since(st, out, n, C, units, times)
  BY <1>11, <1>12 DEF Since
<1>14. QED  BY <1>13
(* What was sent and output stays.                                         *)
LEMMA Longer ==
    ASSUME NEW T, NEW q \in Seq(T), NEW x, x = <<>> \/ \E u \in T : x = <<u>>
    PROVE  /\ q \o x \in Seq(T) /\ Len(q) <= Len(q \o x)
           /\ \A i \in 1 .. Len(q) : (q \o x)[i] = q[i]
<1>1. CASE x = <<>>
  BY <1>1, ConcatLemma
<1>2. ASSUME NEW u \in T, x = <<u>> PROVE
           /\ q \o x \in Seq(T) /\ Len(q) <= Len(q \o x)
           /\ \A i \in 1 .. Len(q) : (q \o x)[i] = q[i]
  <2>1. q \o x = Append(q, u)
    BY <1>2, ConcatLemma
  <2>2. /\ Append(q, u) \in Seq(T) /\ Len(Append(q, u)) = Len(q) + 1 /\ Len(q) \in Nat
        /\ \A i \in 1 .. Len(q) : Append(q, u)[i] = q[i]
    BY AppendSeq
  <2>3. QED  BY <2>1, <2>2
<1>3. QED  BY <1>1, <1>2

LEMMA Grows ==
    ASSUME FilterInv, FilterInv', NEW p, NEW outcome, Receive(p, outcome) \/ Lose(p)
    PROVE  /\ stream' = Append(stream, p) /\ Len(stream') = Len(stream) + 1
           /\ stream'[Len(stream) + 1] = p
           /\ \A j \in 1 .. Len(stream) : stream'[j] = stream[j]
           /\ Len(output) <= Len(output') /\ Len(output) \in Nat
           /\ \A i \in 1 .. Len(output) :
                 /\ output'[i] = output[i]
                 /\ output[i].nalus # <<>> =>
                       Ts(stream', output[i].nalus[1]) = Ts(stream, output[i].nalus[1])
<1>1. stream' = Append(stream, p)
  BY DEF Receive, Lose
<1>2. /\ stream \in Seq(Packets) /\ output \in Seq(Unit) /\ ctx \in Ctx
      /\ AllGood(stream, W(output, ctx))
  BY DEF FilterInv, Inv, Resting, Arrived, Ready, ListsOK
<1>3. \E P : stream \in Seq(P) /\ p \in P
  <2>1. stream \in Seq(Packets \cup {p})
    BY <1>2
  <2>2. QED  BY <2>1
<1>4. /\ Len(stream') = Len(stream) + 1 /\ stream'[Len(stream) + 1] = p
      /\ \A j \in 1 .. Len(stream) : stream'[j] = stream[j]
  BY <1>1, <1>3, AppendSeq
<1>5. Len(output) <= Len(output') /\ \A i \in 1 .. Len(output) : output'[i] = output[i]
  <2>1. CASE Lose(p)
    BY <1>2, <2>1 DEF Lose
  <2>2. CASE Receive(p, outcome)
    <3>1. PICK u, v, x, y : /\ x = <<>> \/ x = <<u>>
                            /\ y = <<>> \/ y = <<v>>
                            /\ output' = output \o x \o y
      BY <2>2 DEF Receive
    <3>2. PICK T : T = Unit \cup {u, v}
      OBVIOUS
    <3>3. output \in Seq(T) /\ (x = <<>> \/ \E z \in T : x = <<z>>)
          /\ (y = <<>> \/ \E z \in T : y = <<z>>)
      BY <1>2, <3>1, <3>2
    <3>4. PICK q : q = output \o x
      OBVIOUS
    <3>5. /\ q \in Seq(T) /\ Len(output) <= Len(q)
          /\ \A i \in 1 .. Len(output) : q[i] = output[i]
      BY <3>3, <3>4, Longer
    <3>6. output' = q \o y
      BY <3>1, <3>4
    <3>7. /\ q \o y \in Seq(T) /\ Len(q) <= Len(q \o y)
          /\ \A i \in 1 .. Len(q) : (q \o y)[i] = q[i]
      BY <3>3, <3>5, Longer
    <3>8. Len(output) \in Nat /\ Len(q) \in Nat /\ Len(q \o y) \in Nat
      BY <1>2, <3>5, <3>7
    <3>9. \A i \in 1 .. Len(output) : i \in 1 .. Len(q)
      BY <3>5, <3>8
    <3>10. QED  BY <3>5, <3>6, <3>7, <3>8, <3>9
  <2>3. QED  BY <2>1, <2>2
<1>6. ASSUME NEW i \in 1 .. Len(output), output[i].nalus # <<>>
      PROVE  Ts(stream', output[i].nalus[1]) = Ts(stream, output[i].nalus[1])
  <2>1. PICK w : /\ w = W(output, ctx) /\ w \in Lists /\ Len(w) = Len(output) + 1
                 /\ w[i] = output[i].nalus /\ Len(output) \in Nat
    BY <1>2, WFacts
  <2>2. i \in DOMAIN w /\ w[i] \in Seq(NaluSet)
    BY <2>1 DEF Lists
  <2>3. 1 \in DOMAIN w[i]
    BY <1>6, <2>1, <2>2
  <2>4. Good(stream, w[i][1])
    BY <1>2, <2>1, <2>2, <2>3 DEF AllGood
  <2>5. First(w[i][1]) \in DOMAIN stream /\ DOMAIN stream = 1 .. Len(stream)
    BY <1>2, <2>4, NaluTypes
  <2>6. QED  BY <1>4, <2>1, <2>5 DEF Ts
<1>7. Len(output) \in Nat
  BY <1>2
<1>8. QED  BY <1>1, <1>4, <1>5, <1>6, <1>7

LEMMA InitFrames == FilterInit => FramesInv
<1> SUFFICES ASSUME FilterInit PROVE FramesInv
  OBVIOUS
<1>1. FilterInv
  BY InitFilter
<1>2. /\ stream = <<>> /\ Len(stream) = 0 /\ results = <<>> /\ counted = {} /\ shown = {}
  BY DEF FilterInit, Init
<1>3. PICK a, b : filter = NewFilter(a, b)
  BY DEF FilterInit
<1>4. Sent
  <2>1. script.packets # <<>> => SentBy(stream)
    <3>1. Len(script.packets) \in Nat
      <4>1. script \in Range(Scripts)
        BY <1>1 DEF script, Range, FilterInv
      <4>2. QED  BY <4>1, ScriptAssumption
    <3>2. QED  BY <1>2, <3>1 DEF SentBy
  <2>2. QED  BY <2>1 DEF Sent
<1>5. CountedOutput
  BY <1>2 DEF CountedOutput
<1>6. /\ Tracked \subseteq DOMAIN filter
      /\ filter.sync = FALSE /\ filter.spsSync = FALSE /\ filter.ppsSync = FALSE
      /\ filter.isIdr = FALSE /\ filter.isRef = FALSE /\ filter.slicesReceived = FALSE
      /\ filter.frameNum = 0 /\ filter.previousFrameNum = 0
      /\ filter.inferredIdrInterval = MaxInterval
      /\ filter.total = 0 /\ filter.output = 0 /\ filter.missed = 0
  BY <1>3 DEF NewFilter, Tracked
<1>7. Typed(filter)
  <2>1. MaxInterval \in Int
    BY FilterAssumption
  <2>2. {filter.sync, filter.spsSync, filter.ppsSync, filter.isIdr, filter.isRef,
         filter.slicesReceived} \subseteq BOOLEAN
    BY <1>6
  <2>3. {filter.frameNum, filter.previousFrameNum, filter.inferredIdrInterval,
         filter.total, filter.output, filter.missed} \subseteq Int
    BY <1>6, <2>1
  <2>4. filter.sync <=> filter.spsSync /\ filter.ppsSync
    BY <1>6
  <2>5. QED  BY <1>6, <2>2, <2>3, <2>4 DEF Typed
<1>8. Cardinality({j \in {} \ {} : ~Frame(j).ref}) = 0
  <2>1. {j \in {} \ {} : ~Frame(j).ref} = {}
    OBVIOUS
  <2>2. QED  BY <2>1, FS_EmptySet
<1>9. FilterOK(filter, {}, {})
  <2>1. IsFiniteSet({})
    BY FS_EmptySet
  <2>2. QED  BY <1>6, <1>7, <1>8, <2>1 DEF FilterOK, Counts
<1>10. Recorded(script, filter, counted, shown)
  BY <1>2, <1>9, RecordedTold
<1>11. QED  BY <1>1, <1>2, <1>4, <1>5, <1>10 DEF FramesInv
(* A packet of the script is sent, and the access units that it ends are   *)
(* filtered.                                                               *)
LEMMA SentStep ==
    ASSUME FramesInv, FilterInv', Scripted
    PROVE  Sent' /\ \A st : st = stream' => SentBy(st)
<1>1. PICK n \in Nat : n = Len(stream)
  BY DEF FramesInv, FilterInv, Inv, Resting
<1>2. PICK packets : packets = script.packets /\ n < Len(packets) /\ chosen' = chosen
  BY <1>1 DEF Scripted
<1>3. PICK next : next = packets[n + 1]
  OBVIOUS
<1>4. PICK p : p = [kind |-> next.kind, ts |-> SentTs, marker |-> next.marker]
  OBVIOUS
<1>5. Receive(p, "both") \/ Lose(p)
  BY <1>1, <1>2, <1>3, <1>4 DEF Scripted
<1>6. /\ Len(stream') = n + 1 /\ stream'[n + 1] = p
      /\ \A j \in 1 .. n : stream'[j] = stream[j]
  BY <1>1, <1>5, Grows DEF FramesInv
<1>7. script' = script /\ Len(packets) \in Nat
  <2>1. script \in Range(Scripts)
    BY DEF FramesInv, FilterInv, script, Range
  <2>2. QED  BY <1>2, <2>1, ScriptAssumption DEF script
<1>8. packets # <<>>
  <2>1. Len(<<>>) = 0
    OBVIOUS
  <2>2. QED  BY <1>1, <1>2, <2>1
<1>9. \A j \in 1 .. n : /\ stream[j].kind = packets[j].kind
                        /\ stream[j].marker = packets[j].marker
                        /\ stream[j].ts = packets[j].frame
  BY <1>1, <1>2, <1>8 DEF FramesInv, Sent, SentBy
<1>10. SentTs = next.frame
  <2>1. n + 1 \in 1 .. Len(script.packets) /\ n + 1 - 1 = n /\ (n + 1 = 1 <=> n = 0)
    BY <1>1, <1>2, <1>7
  <2>2. next.frame = IF n = 0 THEN 1 ELSE packets[n].frame + (IF packets[n].marker THEN 1 ELSE 0)
    <3>1. chosen \in DOMAIN Scripts
      BY DEF FramesInv, FilterInv
    <3>2. PICK i : i = n + 1 /\ i \in 1 .. Len(script.packets)
      BY <2>1
    <3>3. script.packets[i].frame = IF i = 1 THEN 1
                                    ELSE script.packets[i - 1].frame
                                         + (IF script.packets[i - 1].marker THEN 1 ELSE 0)
      BY <3>1, <3>2, PacketsFacts
    <3>4. QED  BY <1>2, <1>3, <2>1, <3>2, <3>3
  <2>3. stream = <<>> <=> n = 0
    BY <1>1 DEF FramesInv, FilterInv, Inv, Resting
  <2>4. ASSUME n # 0 PROVE LastSent.marker = packets[n].marker /\ LastSent.ts = packets[n].frame
    <3>1. n \in 1 .. n
      BY <2>4
    <3>2. QED  BY <1>1, <1>9, <3>1 DEF LastSent
  <2>5. packets[n].frame \in Int \/ n = 0
    <3>1. CASE n # 0
      <4>1. n \in 1 .. n /\ n \in DOMAIN stream
        BY <1>1, <3>1 DEF FramesInv, FilterInv, Inv, Resting
      <4>2. stream[n] \in Packets
        BY <4>1 DEF FramesInv, FilterInv, Inv, Resting
      <4>3. stream[n].ts \in Nat
        BY <4>2 DEF Packets
      <4>4. QED  BY <1>9, <4>1, <4>3
    <3>2. QED  BY <3>1
  <2>6. QED  BY <2>2, <2>3, <2>4, <2>5 DEF SentTs
<1>11. ASSUME NEW j \in 1 .. Len(stream')
       PROVE  /\ stream'[j].kind = packets[j].kind
              /\ stream'[j].marker = packets[j].marker
              /\ stream'[j].ts = packets[j].frame
  <2>1. CASE j = n + 1
    BY <1>3, <1>4, <1>6, <1>10, <2>1
  <2>2. CASE j # n + 1
    <3>1. j \in 1 .. n
      BY <1>1, <1>6, <2>2
    <3>2. QED  BY <1>6, <1>9, <3>1
  <2>3. QED  BY <2>1, <2>2
<1>12. Len(stream') <= Len(packets)
  BY <1>1, <1>2, <1>6, <1>7
<1>13. SentBy(stream)'
  BY <1>2, <1>7, <1>11, <1>12 DEF SentBy
<1>14. \A st : st = stream' => SentBy(st)
  BY <1>2, <1>11, <1>12 DEF SentBy
<1>15. QED  BY <1>13, <1>14 DEF Sent

(* The frames counted before are of access units output before.            *)
LEMMA CountedBefore ==
    ASSUME FramesInv, FilterInv', NEW p, NEW outcome, Receive(p, outcome) \/ Lose(p)
    PROVE  \A j \in counted : \E i \in 1 .. Len(output) :
               output'[i].nalus # <<>> /\ j = Ts(stream', output'[i].nalus[1])
<1>1. SUFFICES ASSUME NEW j \in counted
               PROVE  \E i \in 1 .. Len(output) :
                          output'[i].nalus # <<>> /\ j = Ts(stream', output'[i].nalus[1])
  OBVIOUS
<1>2. DOMAIN output = 1 .. Len(output)
  BY DEF FramesInv, FilterInv, Inv, Resting, Arrived, Ready
<1>3. PICK i \in 1 .. Len(output) :
          output[i].nalus # <<>> /\ j = Ts(stream, output[i].nalus[1])
  BY <1>1, <1>2 DEF FramesInv, CountedOutput
<1>4. output'[i] = output[i] /\ Ts(stream', output[i].nalus[1]) = Ts(stream, output[i].nalus[1])
  BY <1>3, Grows DEF FramesInv
<1>5. QED  BY <1>3, <1>4
LEMMA FilteredStep ==
    ASSUME FramesInv, FilterInv', Scripted
    PROVE  FramesInv'
<1>1. PICK p : (Receive(p, "both") \/ Lose(p)) /\ chosen' = chosen /\ ProcessAus
  BY DEF Scripted
<1>2. /\ stream' \in Seq(Packets) /\ output' \in Seq(Unit) /\ ctx' \in Ctx
      /\ ListsOK(stream', refused', W(output', ctx'))
  BY DEF FilterInv, Inv, Resting, Arrived, Ready
<1>3. PICK st \in Seq(Packets) : st = stream' /\ SentBy(st)
  BY <1>2, SentStep
<1>4. PICK out \in Seq(Unit) : out = output'
  BY <1>2
<1>5. PICK c \in Ctx : c = ctx'
  BY <1>2
<1>6. PICK rf, f, C, S : rf = refused' /\ f = filter /\ C = counted /\ S = shown
  OBVIOUS
<1>7. ListsOK(st, rf, W(out, c))
  BY <1>2, <1>3, <1>4, <1>5, <1>6
<1>8. PICK n \in Nat : n = Len(output) /\ n <= Len(out)
  BY <1>1, <1>4, Grows DEF FramesInv
<1>9. \A j \in C : \E i \in 1 .. n : out[i].nalus # <<>> /\ j = Ts(st, out[i].nalus[1])
  BY <1>1, <1>3, <1>4, <1>6, <1>8, CountedBefore
<1>10. chosen \in DOMAIN Scripts /\ FilterOK(f, C, S)
  BY <1>6, RecordedTold DEF FramesInv, FilterInv
<1>11. PICK units, times : Since(st, out, n, C, units, times)
  BY <1>3, <1>7, <1>8, <1>9, <1>10, NewUnits
<1>12. PICK s : /\ s = FoldLeft(ProcessAu, [filter |-> f, results |-> <<>>], units)
                /\ Filtered(s, C, S, units, times, Len(units))
  <2>1. units \in Seq(Unit) /\ Rising(units, times, C)
    BY <1>11 DEF Since
  <2>2. QED  BY <1>10, <2>1, AllFiltered
<1>13. units = SubSeq(output', Len(output) + 1, Len(output'))
  BY <1>4, <1>8, <1>11 DEF Since
<1>14. filter' = s.filter /\ results' = s.results
  BY <1>1, <1>6, <1>12, <1>13 DEF ProcessAus
<1>15. PICK rs : rs = results' /\ rs = s.results
  BY <1>14
<1>16. counted' = C \cup CountedIn(rs)
  <2>1. counted' = counted \cup {r.frame : r \in {x \in ToSet(results') : x.counted}}
    BY <1>1 DEF ProcessAus
  <2>2. {r.frame : r \in {x \in ToSet(rs) : x.counted}} = CountedIn(rs)
    BY DEF ToSet, CountedIn
  <2>3. QED  BY <1>6, <1>15, <2>1, <2>2
<1>17. shown' = S \cup ShownIn(rs)
  <2>1. shown' = shown \cup {r.frame : r \in {x \in ToSet(results') : x.counted /\ x.output}}
    BY <1>1 DEF ProcessAus
  <2>2. {r.frame : r \in {x \in ToSet(rs) : x.counted /\ x.output}} = ShownIn(rs)
    BY DEF ToSet, ShownIn
  <2>3. QED  BY <1>6, <1>15, <2>1, <2>2
<1>18. script' = script
  BY <1>1 DEF script
<1>19. Recorded(script, filter', counted', shown')
  <2>1. FilterOK(s.filter, C \cup CountedIn(rs), S \cup ShownIn(rs))
    BY <1>12, <1>15 DEF Filtered
  <2>2. Recorded(script, s.filter, C \cup CountedIn(rs), S \cup ShownIn(rs))
    BY <2>1, RecordedTold
  <2>3. QED  BY <1>14, <1>16, <1>17, <2>2
<1>20. \A i \in DOMAIN results' : Told(script, results'[i], counted')
  <2>1. \A i \in DOMAIN rs : GapTold(rs[i], C \cup CountedIn(rs))
    BY <1>12, <1>15 DEF Filtered
  <2>2. \A i \in DOMAIN rs : Told(script, rs[i], C \cup CountedIn(rs))
    BY <2>1, RecordedTold
  <2>3. QED  BY <1>15, <1>16, <2>2
<1>21. CountedOutput'
  <2>1. SUFFICES ASSUME NEW j \in counted'
                 PROVE  \E i \in DOMAIN output' :
                            output'[i].nalus # <<>> /\ j = Ts(stream', output'[i].nalus[1])
    BY DEF CountedOutput
  <2>2. DOMAIN output' = 1 .. Len(out)
    BY <1>4
  <2>3. CASE j \in C
    <3>1. PICK i \in 1 .. n : out[i].nalus # <<>> /\ j = Ts(st, out[i].nalus[1])
      BY <1>9, <2>3
    <3>2. i \in 1 .. Len(out)
      BY <1>8
    <3>3. QED  BY <1>3, <1>4, <2>2, <3>1, <3>2
  <2>4. CASE j \notin C
    <3>1. j \in CountedIn(rs)
      BY <1>16, <2>1, <2>4
    <3>2. PICK x \in 1 .. Len(units) : units[x].nalus # <<>> /\ j = times[x]
      BY <1>12, <1>15, <3>1 DEF Filtered
    <3>3. PICK i \in 1 .. Len(out) :
              /\ out[i].nalus = units[x].nalus
              /\ units[x].nalus # <<>> => times[x] = Ts(st, out[i].nalus[1])
      BY <1>11 DEF Since
    <3>4. QED  BY <1>3, <1>4, <2>2, <3>2, <3>3
  <2>5. QED  BY <2>3, <2>4
<1>22. Sent'
  BY SentStep
<1>23. QED  BY <1>18, <1>19, <1>20, <1>21, <1>22 DEF FramesInv

LEMMA NextFrames == FramesInv /\ [FilterNext]_<<vars, filterVars>> => FramesInv'
<1> SUFFICES ASSUME FramesInv, [FilterNext]_<<vars, filterVars>> PROVE FramesInv'
  OBVIOUS
<1>1. FilterInv /\ FilterInv'
  BY NextFilter DEF FramesInv
<1>2. CASE Scripted
  BY <1>1, <1>2, FilteredStep
<1>3. CASE AnyStream
  <2>1. /\ script.packets = <<>> /\ chosen' = chosen /\ filter' = filter
        /\ results' = results /\ counted' = counted /\ shown' = shown
    BY <1>3 DEF AnyStream, filterVars
  <2>2. script' = script
    BY <2>1 DEF script
  <2>3. PICK p, outcome : Receive(p, outcome) \/ Lose(p)
    BY <1>3 DEF AnyStream, Next
  <2>4. CountedOutput'
    <3>1. SUFFICES ASSUME NEW j \in counted
                   PROVE  \E i \in DOMAIN output' :
                              output'[i].nalus # <<>> /\ j = Ts(stream', output'[i].nalus[1])
      BY <2>1 DEF CountedOutput
    <3>2. PICK i \in 1 .. Len(output) :
              output'[i].nalus # <<>> /\ j = Ts(stream', output'[i].nalus[1])
      BY <1>1, <2>3, CountedBefore
    <3>3. i \in DOMAIN output'
      <4>1. Len(output) <= Len(output') /\ Len(output) \in Nat
        BY <1>1, <2>3, Grows
      <4>2. output' \in Seq(Unit)
        BY <1>1 DEF FilterInv, Inv, Resting, Arrived, Ready
      <4>3. QED  BY <4>1, <4>2
    <3>4. QED  BY <3>2, <3>3
  <2>5. Sent'
    BY <2>1, <2>2 DEF Sent
  <2>6. QED  BY <1>1, <2>1, <2>2, <2>4, <2>5 DEF FramesInv
<1>4. CASE UNCHANGED <<vars, filterVars>>
  <2>1. /\ chosen' = chosen /\ filter' = filter /\ results' = results
        /\ counted' = counted /\ shown' = shown /\ stream' = stream /\ output' = output
    BY <1>4 DEF filterVars, vars
  <2>2. script' = script
    BY <2>1 DEF script
  <2>3. Sent'
    BY <2>1, <2>2 DEF FramesInv, Sent, SentBy
  <2>4. CountedOutput'
    BY <2>1 DEF FramesInv, CountedOutput
  <2>5. QED  BY <1>1, <2>1, <2>2, <2>3, <2>4 DEF FramesInv
<1>5. QED  BY <1>2, <1>3, <1>4 DEF FilterNext

(* The frames are accounted for: those counted are the ones output, those  *)
(* missed and those that are no reference and not output; and a gap before *)
(* a reference frame counts the reference frames lost there.               *)
THEOREM FramesCounted == FilterSpec => []FramesAccounted
<1>1. FramesInv => FramesAccounted
  <2>1. SUFFICES ASSUME FramesInv PROVE FramesAccounted
    OBVIOUS
  <2>2. filter.total = filter.output + filter.missed
            + Cardinality({j \in counted \ shown : ~script.frames[j].ref})
    BY <2>1 DEF FramesInv, Recorded
  <2>3. \A i \in DOMAIN results : Told(script, results[i], counted)
    BY <2>1 DEF FramesInv
  <2>4. QED  BY <2>2, <2>3 DEF FramesAccounted, Told, LostBefore, Before
<1>2. FramesInv /\ [FilterNext]_<<vars, filterVars>> => FramesInv'
  BY NextFrames
<1>3. QED  BY <1>1, <1>2, InitFrames, PTL DEF FilterSpec

=============================================================================
