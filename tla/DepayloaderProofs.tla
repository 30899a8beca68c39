-------------------------- MODULE DepayloaderProofs --------------------------
(***************************************************************************)
(* Theorems about the depayloader: whatever packets are lost, refused or   *)
(* left without a NALU item, the NALUs it makes are whole ones, access     *)
(* units are neither mixed nor split, and what is missing before a NALU is *)
(* told.  They hold of Depayloader alone, for any stream the sender may    *)
(* send, and of its composition with the filter, for any scripts.          *)
(*                                                                         *)
(* The NALUs handed on so far, those of the current access unit included,  *)
(* are a list of lists w.  A step puts NALUs in the last list, or opens a  *)
(* new one.                                                                *)
(***************************************************************************)
EXTENDS Filter, SeqLemmas

NaluSet == [packets : Seq(Nat), missing : Nat]
Lists   == Seq(Seq(NaluSet))

(* The consecutive packets from h to e.                                    *)
Run(h, e) == [k \in 1 .. e - h + 1 |-> h + k - 1]

(* A NALU made of all its packets, h to e, of one timestamp.               *)
MadeOf(st, nalu, h, e) ==
    /\ h \in DOMAIN st /\ e \in DOMAIN st /\ h <= e
    /\ nalu.packets = Run(h, e)
    /\ \A j \in h .. e : st[j].ts = st[h].ts
    /\ \/ h = e /\ st[h].kind \in {"single", "stap"}
       \/ /\ h < e /\ st[h].kind = "start" /\ st[e].kind = "end"
          /\ \A j \in h + 1 .. e - 1 : st[j].kind = "mid"

Good(st, nalu) == nalu \in NaluSet /\ \E h, e \in Nat : MadeOf(st, nalu, h, e)

First(nalu) == nalu.packets[1]
Final(nalu) == nalu.packets[Len(nalu.packets)]
Ts(st, nalu) == st[First(nalu)].ts

(* The three properties, of a list of lists.                               *)
AllGood(st, w) == \A i \in DOMAIN w : \A k \in DOMAIN w[i] : Good(st, w[i][k])

Separate(st, w) ==
    \A i, j \in DOMAIN w : i <= j =>
        \A k \in DOMAIN w[i], l \in DOMAIN w[j] :
            IF i = j THEN Ts(st, w[i][k]) = Ts(st, w[j][l])
                     ELSE Ts(st, w[i][k]) < Ts(st, w[j][l])

Beside(w, i, k, j, l) ==
    \/ i = j /\ l = k + 1
    \/ /\ i < j /\ k = Len(w[i]) /\ l = 1
       /\ \A m \in i + 1 .. j - 1 : w[m] = <<>>

Skipped(x, y, rf) == x + 1 < y /\ (x + 1 .. y - 1) \cap rf = {}

Reported(rf, w) ==
    \A i, j \in DOMAIN w : \A k \in DOMAIN w[i], l \in DOMAIN w[j] :
        Beside(w, i, k, j, l) /\ Skipped(Final(w[i][k]), First(w[j][l]), rf)
            => w[j][l].missing > 0

(* A packet that comes after another, or a STAP-A packet after itself.     *)
After(st, x, y) == x < y \/ (x = y /\ st[y].kind = "stap")

(* The NALUs of a list are in the order of the stream.                     *)
Ordered(st, w) ==
    \A i \in DOMAIN w : \A k \in DOMAIN w[i] :
        k + 1 \in DOMAIN w[i] => After(st, Final(w[i][k]), First(w[i][k + 1]))

ListsOK(st, rf, w) ==
    /\ w \in Lists /\ Len(w) > 0
    /\ AllGood(st, w) /\ Separate(st, w) /\ Reported(rf, w) /\ Ordered(st, w)

(* The NALUs of the last list are of time t, the others are earlier; all   *)
(* of them are.                                                            *)
AtTime(st, w, t) ==
    \A i \in DOMAIN w : \A k \in DOMAIN w[i] :
        IF i = Len(w) THEN Ts(st, w[i][k]) = t ELSE Ts(st, w[i][k]) < t

Below(st, w, t) == \A i \in DOMAIN w : \A k \in DOMAIN w[i] : Ts(st, w[i][k]) < t

(* The last packet of the last NALU.                                       *)
EndsAt(w, x) ==
    \E i \in DOMAIN w : /\ w[i] # <<>> /\ \A m \in i + 1 .. Len(w) : w[m] = <<>>
                        /\ x = Final(w[i][Len(w[i])])

Put(w, nalu) == [w EXCEPT ![Len(w)] = Append(@, nalu)]
Open(w) == Append(w, <<>>)

-----------------------------------------------------------------------------
(* Packets and NALUs.                                                      *)

LEMMA RunLemma ==
    ASSUME NEW h \in Nat, NEW e \in Nat, h <= e
    PROVE  /\ Run(h, e) \in Seq(Nat) /\ Len(Run(h, e)) = e - h + 1
           /\ Run(h, e)[1] = h /\ Run(h, e)[e - h + 1] = e
<1>1. e - h + 1 \in Nat
  OBVIOUS
<1>2. Run(h, e) \in [1 .. e - h + 1 -> Nat]
  BY DEF Run
<1>3. Run(h, e) \in Seq(Nat) /\ Len(Run(h, e)) = e - h + 1
  BY <1>1, <1>2
<1>4. QED  BY <1>3 DEF Run

LEMMA GoodEnds ==
    ASSUME NEW st, NEW nalu, NEW h \in Nat, NEW e \in Nat, MadeOf(st, nalu, h, e)
    PROVE  First(nalu) = h /\ Final(nalu) = e
<1>1. h <= e /\ nalu.packets = Run(h, e)
  BY DEF MadeOf
<1>2. /\ Len(nalu.packets) = e - h + 1
      /\ nalu.packets[1] = h /\ nalu.packets[e - h + 1] = e
  BY <1>1, RunLemma
<1>3. QED  BY <1>2 DEF First, Final

(* A NALU of a stream is one of the longer stream.                         *)
LEMMA GoodLonger ==
    ASSUME NEW S, NEW st \in Seq(S), NEW p \in S, NEW nalu, Good(st, nalu)
    PROVE  /\ Good(Append(st, p), nalu) /\ Ts(Append(st, p), nalu) = Ts(st, nalu)
           /\ First(nalu) \in DOMAIN st /\ Final(nalu) \in DOMAIN st
           /\ First(nalu) <= Final(nalu)
<1> DEFINE t == Append(st, p)
<1>1. /\ Len(st) \in Nat /\ DOMAIN st = 1 .. Len(st) /\ DOMAIN t = 1 .. Len(st) + 1
      /\ \A i \in DOMAIN st : t[i] = st[i]
  OBVIOUS
<1>2. PICK h \in Nat, e \in Nat : MadeOf(st, nalu, h, e)
  BY DEF Good
<1>3. h \in 1 .. Len(st) /\ e \in 1 .. Len(st) /\ h <= e
  BY <1>1, <1>2 DEF MadeOf
<1>4. \A j \in h .. e : j \in DOMAIN st /\ t[j] = st[j]
  BY <1>1, <1>3
<1>5. MadeOf(t, nalu, h, e)
  <2> HIDE DEF t
  <2>1. /\ h \in DOMAIN t /\ e \in DOMAIN t /\ nalu.packets = Run(h, e)
        /\ t[h] = st[h] /\ t[e] = st[e]
    BY <1>1, <1>2, <1>3, <1>4 DEF MadeOf
  <2>2. \A j \in h .. e : t[j].ts = t[h].ts
    BY <1>2, <1>4, <2>1 DEF MadeOf
  <2>3. \A j \in h + 1 .. e - 1 : t[j] = st[j]
    BY <1>3, <1>4
  <2>4. QED  BY <1>2, <1>3, <2>1, <2>2, <2>3 DEF MadeOf
<1>6. First(nalu) = h /\ Final(nalu) = e
  BY <1>2, GoodEnds
<1>7. Good(t, nalu)
  BY <1>5 DEF Good
<1>8. t[h] = st[h]
  BY <1>3, <1>4
<1>9. QED
  BY <1>1, <1>3, <1>6, <1>7, <1>8 DEF Ts

-----------------------------------------------------------------------------
(* The lists.                                                              *)

(* A packet is sent, and perhaps one more refused.                         *)
LEMMA ListsLonger ==
    ASSUME NEW S, NEW st \in Seq(S), NEW p \in S, NEW rf, NEW r,
           NEW w, ListsOK(st, rf, w), rf \subseteq r
    PROVE  /\ ListsOK(Append(st, p), r, w)
           /\ \A t : Below(st, w, t) => Below(Append(st, p), w, t)
           /\ \A t : AtTime(st, w, t) => AtTime(Append(st, p), w, t)
<1> DEFINE a == Append(st, p)
<1>1. \A i \in DOMAIN w : \A k \in DOMAIN w[i] :
          /\ Good(a, w[i][k]) /\ Ts(a, w[i][k]) = Ts(st, w[i][k])
          /\ First(w[i][k]) \in DOMAIN st
  BY GoodLonger DEF ListsOK, AllGood
<1>8. \A y \in DOMAIN st : a[y] = st[y]
  OBVIOUS
<1> HIDE DEF a
<1>9. Ordered(st, w) => Ordered(a, w)
  BY <1>1, <1>8 DEF Ordered, After
<1>2. AllGood(a, w) /\ (Separate(st, w) => Separate(a, w))
  BY <1>1 DEF AllGood, Separate
<1>3. Reported(rf, w) => Reported(r, w)
  <2>1. \A x, y : Skipped(x, y, r) => Skipped(x, y, rf)
    BY DEF Skipped
  <2>2. QED  BY <2>1 DEF Reported
<1>4. ListsOK(a, r, w)
  BY <1>2, <1>3, <1>9 DEF ListsOK
<1>5. \A t : Below(st, w, t) => Below(a, w, t)
  BY <1>1 DEF Below
<1>6. \A t : AtTime(st, w, t) => AtTime(a, w, t)
  BY <1>1 DEF AtTime
<1>7. QED  BY <1>4, <1>5, <1>6 DEF a

(* The packet and the time of a NALU are numbers.                          *)
LEMMA NaluTypes ==
    ASSUME NEW st \in Seq(Packets), NEW nalu, Good(st, nalu)
    PROVE  /\ First(nalu) \in DOMAIN st /\ Final(nalu) \in DOMAIN st
           /\ First(nalu) \in Nat /\ Final(nalu) \in Nat
           /\ First(nalu) <= Final(nalu)
           /\ Ts(st, nalu) \in Nat
           /\ st[Final(nalu)].kind \in {"single", "stap", "end"}
<1>1. PICK h \in Nat, e \in Nat : MadeOf(st, nalu, h, e)
  BY DEF Good
<1>2. First(nalu) = h /\ Final(nalu) = e
  BY <1>1, GoodEnds
<1>3. /\ h \in DOMAIN st /\ e \in DOMAIN st /\ h <= e
      /\ st[e].kind \in {"single", "stap", "end"}
  BY <1>1 DEF MadeOf
<1>4. st[h] \in Packets /\ DOMAIN st = 1 .. Len(st)
  BY <1>3
<1>5. st[h].ts \in Nat
  BY <1>4 DEF Packets
<1>6. QED  BY <1>2, <1>3, <1>4, <1>5 DEF Ts

(* A new list is opened.                                                   *)
LEMMA OpenLemma ==
    ASSUME NEW st \in Seq(Packets), NEW rf, NEW w, ListsOK(st, rf, w)
    PROVE  /\ ListsOK(st, rf, Open(w))
           /\ Open(w) \in Lists /\ Len(Open(w)) = Len(w) + 1
           /\ Open(w)[Len(w) + 1] = <<>>
           /\ \A t : Below(st, w, t) => AtTime(st, Open(w), t) /\ Below(st, Open(w), t)
           /\ \A x : EndsAt(Open(w), x) => EndsAt(w, x)
<1> DEFINE o == Open(w)
           n == Len(w)
<1>1. /\ w \in Lists /\ n \in Nat /\ n > 0 /\ DOMAIN w = 1 .. n
      /\ o \in Lists /\ Len(o) = n + 1 /\ DOMAIN o = 1 .. n + 1
      /\ \A i \in 1 .. n : o[i] = w[i] /\ o[i] \in Seq(NaluSet)
      /\ o[n + 1] = <<>> /\ DOMAIN o[n + 1] = {}
  BY DEF ListsOK, Lists, Open
<1> HIDE DEF o, n
<1>2. \A i \in DOMAIN o : \A k \in DOMAIN o[i] : i \in 1 .. n /\ i \in DOMAIN w /\ o[i] = w[i]
  BY <1>1
<1>3. AllGood(st, o)
  BY <1>2 DEF ListsOK, AllGood
<1>4. Separate(st, o)
  BY <1>2 DEF ListsOK, Separate
<1>5. Reported(rf, o)
  <2>1. SUFFICES ASSUME NEW i \in DOMAIN o, NEW j \in DOMAIN o,
                        NEW k \in DOMAIN o[i], NEW l \in DOMAIN o[j],
                        Beside(o, i, k, j, l)
                 PROVE  Skipped(Final(o[i][k]), First(o[j][l]), rf) => o[j][l].missing > 0
    BY DEF Reported
  <2>2. /\ i \in 1 .. n /\ j \in 1 .. n /\ o[i] = w[i] /\ o[j] = w[j]
        /\ i \in DOMAIN w /\ j \in DOMAIN w
    BY <1>2
  <2>3. ASSUME NEW m \in i + 1 .. j - 1 PROVE o[m] = w[m]
    BY <1>1, <2>2
  <2>4. Beside(w, i, k, j, l)
    BY <2>1, <2>2, <2>3 DEF Beside
  <2>5. QED  BY <2>2, <2>4 DEF ListsOK, Reported
<1>6. ASSUME NEW t, Below(st, w, t)
      PROVE  AtTime(st, o, t) /\ Below(st, o, t)
  <2>1. Below(st, o, t)
    BY <1>2, <1>6 DEF Below
  <2>2. \A i \in DOMAIN o : \A k \in DOMAIN o[i] : i # Len(o)
    BY <1>1, <1>2
  <2>3. QED  BY <2>1, <2>2 DEF AtTime, Below
<1>7. ASSUME NEW x, EndsAt(o, x)
      PROVE  EndsAt(w, x)
  <2>1. PICK i \in DOMAIN o : /\ o[i] # <<>> /\ \A m \in i + 1 .. Len(o) : o[m] = <<>>
                              /\ x = Final(o[i][Len(o[i])])
    BY <1>7 DEF EndsAt
  <2>2. i \in 1 .. n /\ i \in DOMAIN w /\ o[i] = w[i]
    BY <1>1, <2>1
  <2>3. \A m \in i + 1 .. Len(w) : w[m] = <<>>
    <3>1. SUFFICES ASSUME NEW m \in i + 1 .. n PROVE w[m] = <<>>
      BY DEF n
    <3>2. m \in i + 1 .. Len(o) /\ o[m] = w[m]
      BY <1>1, <2>2
    <3>3. QED  BY <2>1, <3>2
  <2>4. QED  BY <2>1, <2>2, <2>3 DEF EndsAt
<1>10. Ordered(st, o)
  BY <1>2 DEF ListsOK, Ordered
<1>8. ListsOK(st, rf, o)
  BY <1>1, <1>3, <1>4, <1>5, <1>10 DEF ListsOK
<1>9. QED  BY <1>1, <1>6, <1>7, <1>8 DEF o, n

LEMMA AppendSeq ==
    ASSUME NEW S, NEW q \in Seq(S), NEW x \in S
    PROVE  /\ Append(q, x) \in Seq(S) /\ Append(q, x) # <<>>
           /\ Len(q) \in Nat /\ DOMAIN q = 1 .. Len(q)
           /\ Len(Append(q, x)) = Len(q) + 1
           /\ DOMAIN Append(q, x) = 1 .. Len(q) + 1
           /\ Append(q, x)[Len(q) + 1] = x
           /\ \A k \in 1 .. Len(q) : Append(q, x)[k] = q[k]
  OBVIOUS

(* A NALU is put in the last list: it is of the time of that list, comes   *)
(* after the others, and tells of what was skipped.                        *)
LEMMA PutLemma ==
    ASSUME NEW st \in Seq(Packets), NEW rf, NEW w, ListsOK(st, rf, w),
           NEW t \in Nat, AtTime(st, w, t),
           NEW nalu, Good(st, nalu), Ts(st, nalu) = t,
           \A x : EndsAt(w, x) /\ Skipped(x, First(nalu), rf) => nalu.missing > 0,
           \A x : EndsAt(w, x) => After(st, x, First(nalu))
    PROVE  /\ ListsOK(st, rf, Put(w, nalu)) /\ AtTime(st, Put(w, nalu), t)
           /\ Len(Put(w, nalu)) = Len(w)
           /\ Put(w, nalu)[Len(w)] = Append(w[Len(w)], nalu)
           /\ \A x : EndsAt(Put(w, nalu), x) => x = Final(nalu)
<1> DEFINE v == Put(w, nalu)
           n == Len(w)
           q == w[Len(w)]
<1>1. /\ w \in Lists /\ n \in Nat /\ n > 0 /\ DOMAIN w = 1 .. n
      /\ n \in DOMAIN w /\ q \in Seq(NaluSet) /\ nalu \in NaluSet
  BY DEF ListsOK, Lists, Good
<1>2. /\ v \in Lists /\ Len(v) = n /\ DOMAIN v = 1 .. n
      /\ v[n] = Append(q, nalu) /\ \A i \in 1 .. n : i # n => v[i] = w[i]
  <2>1. PICK L : L = Seq(NaluSet)
    OBVIOUS
  <2>2. PICK a \in L : a = Append(q, nalu)
    BY <1>1, <2>1, AppendSeq
  <2>3. w \in Seq(L) /\ v = [w EXCEPT ![n] = a]
    BY <1>1, <2>1, <2>2 DEF Put, Lists
  <2> HIDE DEF v, n, q
  <2>4. /\ v \in Seq(L) /\ Len(v) = n /\ DOMAIN v = 1 .. n
        /\ v[n] = a /\ \A i \in 1 .. n : i # n => v[i] = w[i]
    BY <1>1, <2>3 DEF n
  <2>5. QED  BY <2>1, <2>2, <2>4 DEF Lists
<1>4. q = w[n]
  BY DEF n
<1> HIDE DEF v, n, q
<1>3. /\ Len(q) \in Nat /\ DOMAIN q = 1 .. Len(q) /\ DOMAIN v[n] = 1 .. Len(q) + 1
      /\ Len(v[n]) = Len(q) + 1 /\ v[n] # <<>>
      /\ v[n][Len(q) + 1] = nalu /\ \A k \in 1 .. Len(q) : v[n][k] = q[k]
  BY <1>1, <1>2, AppendSeq
(* Each NALU is an old one or the new one.                                 *)
<1> DEFINE Old(i, k) == /\ i \in DOMAIN w /\ k \in DOMAIN w[i] /\ v[i][k] = w[i][k]
                        /\ i < n \/ k <= Len(q)
           New(i, k) == i = n /\ k = Len(q) + 1 /\ v[i][k] = nalu
<1>5. ASSUME NEW i \in DOMAIN v, NEW k \in DOMAIN v[i]
      PROVE  Old(i, k) \/ New(i, k)
  <2>1. CASE i = n
    BY <2>1, <1>1, <1>2, <1>3, <1>4
  <2>2. CASE i # n
    BY <2>2, <1>1, <1>2
  <2>3. QED  BY <2>1, <2>2
<1>6. AllGood(st, v)
  BY <1>5 DEF ListsOK, AllGood
<1>7. AtTime(st, v, t)
  <2>1. ASSUME NEW i \in DOMAIN v, NEW k \in DOMAIN v[i]
        PROVE  IF i = n THEN Ts(st, v[i][k]) = t ELSE Ts(st, v[i][k]) < t
    <3>1. CASE Old(i, k)
      BY <3>1 DEF AtTime, n
    <3>2. CASE New(i, k)
      BY <3>2
    <3>3. QED  BY <1>5, <3>1, <3>2
  <2>2. QED  BY <2>1, <1>2 DEF AtTime
<1>8. Separate(st, v)
  <2>1. SUFFICES ASSUME NEW i \in DOMAIN v, NEW j \in DOMAIN v, i <= j,
                        NEW k \in DOMAIN v[i], NEW l \in DOMAIN v[j]
                 PROVE  IF i = j THEN Ts(st, v[i][k]) = Ts(st, v[j][l])
                                 ELSE Ts(st, v[i][k]) < Ts(st, v[j][l])
    BY DEF Separate
  <2>2. CASE j = n
    BY <2>2, <1>2, <1>7 DEF AtTime
  <2>3. CASE j # n
    <3>1. i # n
      BY <2>1, <2>3, <1>1, <1>2
    <3>2. Old(i, k) /\ Old(j, l)
      BY <1>5, <2>3, <3>1
    <3>3. QED  BY <2>1, <3>2 DEF ListsOK, Separate
  <2>4. QED  BY <2>2, <2>3
<1>9. Reported(rf, v)
  <2>1. SUFFICES ASSUME NEW i \in DOMAIN v, NEW j \in DOMAIN v,
                        NEW k \in DOMAIN v[i], NEW l \in DOMAIN v[j],
                        Beside(v, i, k, j, l),
                        Skipped(Final(v[i][k]), First(v[j][l]), rf)
                 PROVE  v[j][l].missing > 0
    BY DEF Reported
  <2>2. i \in 1 .. n /\ j \in 1 .. n /\ i <= j /\ k \in Nat /\ l \in Nat
    <3>1. v[i] \in Seq(NaluSet) /\ v[j] \in Seq(NaluSet)
      BY <1>2, <2>1 DEF Lists
    <3>2. DOMAIN v[i] \subseteq Nat /\ DOMAIN v[j] \subseteq Nat
      BY <3>1
    <3>3. QED  BY <1>1, <1>2, <2>1, <3>2 DEF Beside
  <2>3. Old(i, k)
    <3>1. SUFFICES ASSUME New(i, k) PROVE FALSE
      BY <1>5
    <3>2. j = n /\ l = Len(q) + 2
      BY <1>1, <1>3, <2>1, <2>2, <3>1 DEF Beside
    <3>3. QED  BY <1>3, <3>2
  <2>4. ASSUME NEW m \in i + 1 .. j - 1 PROVE v[m] = w[m]
    BY <1>1, <1>2, <2>2
  <2>5. CASE Old(j, l)
    <3>1. Beside(w, i, k, j, l)
      <4>1. CASE i = j
        BY <4>1, <2>1, <2>2 DEF Beside
      <4>2. CASE i # j
        BY <4>2, <1>1, <1>2, <2>1, <2>2, <2>4 DEF Beside
      <4>3. QED  BY <4>1, <4>2
    <3>2. QED  BY <2>1, <2>3, <2>5, <3>1 DEF ListsOK, Reported
  <2>6. CASE New(j, l)
    <3>1. /\ k = Len(w[i]) /\ w[i] # <<>>
          /\ \A m \in i + 1 .. n : w[m] = <<>>
      <4>1. CASE i = j
        <5> HIDE DEF Old
        <5>1. i = n /\ k = Len(q)
          <6>1. l = k + 1
            BY <4>1, <2>1, <2>2 DEF Beside
          <6>2. j = n /\ l = Len(q) + 1
            BY <2>6
          <6>3. k + 1 = Len(q) + 1 /\ k \in Nat /\ Len(q) \in Nat
            BY <6>1, <6>2, <2>2, <1>3
          <6>4. QED  BY <4>1, <6>2, <6>3
        <5> USE DEF Old
        <5>2. i + 1 .. n = {} /\ q # <<>>
          BY <5>1, <1>1, <2>3, <1>3, <1>4
        <5>3. QED  BY <5>1, <5>2, <1>4
      <4>2. CASE i # j
        <5>1. /\ i < n /\ j = n /\ k = Len(v[i]) /\ v[i] = w[i] /\ l = 1
              /\ \A m \in i + 1 .. n - 1 : w[m] = <<>>
          BY <4>2, <1>1, <1>2, <2>1, <2>2, <2>4, <2>6 DEF Beside
        <5>2. q = <<>>
          BY <1>1, <1>3, <2>6, <5>1
        <5>3. w[i] # <<>>
          BY <5>1, <2>3
        <5>4. \A m \in i + 1 .. n : m = n \/ m \in i + 1 .. n - 1
          BY <1>1, <2>2
        <5>5. QED  BY <5>1, <5>2, <5>3, <5>4, <1>4
      <4>3. QED  BY <4>1, <4>2
    <3>2. EndsAt(w, Final(w[i][k]))
      BY <2>3, <3>1 DEF EndsAt, n
    <3>3. QED  BY <2>1, <2>3, <2>6, <3>2
  <2>7. QED  BY <1>5, <2>5, <2>6
<1>10. ASSUME NEW x, EndsAt(v, x)
       PROVE  x = Final(nalu)
  <2>1. PICK i \in DOMAIN v : /\ v[i] # <<>> /\ \A m \in i + 1 .. Len(v) : v[m] = <<>>
                              /\ x = Final(v[i][Len(v[i])])
    BY <1>10 DEF EndsAt
  <2>2. i = n
    <3>1. SUFFICES ASSUME i # n PROVE FALSE
      OBVIOUS
    <3>2. n \in i + 1 .. Len(v)
      BY <1>1, <1>2, <3>1
    <3>3. QED  BY <1>3, <2>1, <3>2
  <2>3. QED  BY <1>3, <2>1, <2>2
<1>13. Ordered(st, v)
  <2>1. SUFFICES ASSUME NEW i \in DOMAIN v, NEW k \in DOMAIN v[i], k + 1 \in DOMAIN v[i]
                 PROVE  After(st, Final(v[i][k]), First(v[i][k + 1]))
    BY DEF Ordered
  <2>2. k \in Nat
    <3>1. v[i] \in Seq(NaluSet)
      BY <1>2 DEF Lists
    <3>2. QED  BY <3>1
  <2>3. CASE New(i, k + 1)
    <3>1. i = n /\ k = Len(q) /\ v[i][k + 1] = nalu /\ k \in 1 .. Len(q)
      <4>1. i = n /\ k + 1 = Len(q) + 1 /\ v[i][k + 1] = nalu
        BY <2>3
      <4>2. k \in 1 .. Len(q) + 1 /\ Len(q) \in Nat
        BY <1>3, <2>1, <4>1
      <4>3. k = Len(q) /\ k \in 1 .. Len(q)
        BY <2>2, <4>1, <4>2
      <4>4. QED  BY <4>1, <4>3
    <3>2. v[i][k] = w[n][Len(w[n])] /\ w[n] # <<>> /\ n + 1 .. Len(w) = {} /\ n \in DOMAIN w
      BY <1>1, <1>3, <1>4, <3>1 DEF n
    <3>3. EndsAt(w, Final(v[i][k]))
      BY <3>2 DEF EndsAt
    <3>4. QED  BY <3>1, <3>3
  <2>4. CASE Old(i, k + 1)
    <3>1. Old(i, k)
      <4>1. SUFFICES ASSUME New(i, k) PROVE FALSE
        BY <1>5
      <4>2. i = n /\ k = Len(q) + 1
        BY <4>1
      <4>3. QED  BY <1>3, <2>2, <2>4, <4>2
    <3>2. QED  BY <2>1, <2>4, <3>1 DEF ListsOK, Ordered
  <2>5. QED  BY <1>5, <2>1, <2>3, <2>4
<1>11. ListsOK(st, rf, v)
  BY <1>1, <1>2, <1>6, <1>8, <1>9, <1>13 DEF ListsOK
<1>12. QED  BY <1>2, <1>7, <1>10, <1>11 DEF v, n, q

-----------------------------------------------------------------------------
(* The context.                                                            *)

Ctx == [prevSeq : Nat, prevTs : Nat, auItem : {"none", "own", "free"},
        nalus : Seq(NaluSet), fuPending : BOOLEAN, fuCount : Nat,
        fuNalu : NaluSet, pending : Nat]

Unit == [nalus : Seq(NaluSet), owned : BOOLEAN]

(* The lists of the access units output and of the current one.            *)
W(out, c) ==
    [i \in 1 .. Len(out) + 1 |-> IF i <= Len(out) THEN out[i].nalus ELSE c.nalus]

(* The fragments h to e behind the place of the first byte.                *)
Shape(h, e) == [k \in 1 .. e - h + 2 |-> IF k = 1 THEN 0 ELSE h + k - 2]

FuOK(c) ==
    /\ c.fuPending <=> c.fuNalu # NoNalu
    /\ Len(c.nalus) + (IF c.fuPending THEN 1 ELSE 0) <= NaluCapacity

(* The first packet of the incomplete NALU when e is the last.             *)
Start(c, e) == e - c.fuCount + 1

Frag(st, c, e, t) ==
    /\ c.fuCount \in 1 .. e /\ e \in DOMAIN st
    /\ c.fuNalu.packets = Shape(Start(c, e), e)
    /\ st[Start(c, e)].kind = "start"
    /\ \A j \in Start(c, e) + 1 .. e : st[j].kind = "mid"
    /\ \A j \in Start(c, e) .. e : st[j].ts = t

(* The last packet received is e, those up to upTo are accounted for, and  *)
(* extra more are missing; the last NALU ends at x.                        *)
Accounted(c, rf, x, e, upTo, extra) ==
    /\ x <= e
    /\ c.fuPending => /\ x < Start(c, e)
                      /\ Skipped(x, Start(c, e), rf) => c.fuNalu.missing > 0
    /\ ~c.fuPending => (Skipped(x, upTo + 1, rf) => c.pending + extra > 0)

Ready(st, rf, out, c, e, upTo, extra) ==
    /\ out \in Seq(Unit) /\ c \in Ctx /\ FuOK(c)
    /\ e \in Nat /\ upTo \in Nat /\ extra \in Nat /\ e <= upTo
    /\ ListsOK(st, rf, W(out, c))
    /\ c.fuPending => (e < upTo => c.pending + extra > 0)
    /\ \A x : EndsAt(W(out, c), x) => Accounted(c, rf, x, e, upTo, extra)

(* The same for the packets of time t.                                     *)
Stage(st, rf, out, c, e, upTo, extra, t) ==
    /\ Ready(st, rf, out, c, e, upTo, extra)
    /\ AtTime(st, W(out, c), t)
    /\ c.fuPending => Frag(st, c, e, t)

-----------------------------------------------------------------------------
(* What the operators do to the fields of the context.                     *)

LEMMA NoNaluType == NoNalu \in NaluSet
<1>1. <<>> \in Seq(Nat)
  OBVIOUS
<1>2. QED  BY <1>1 DEF NoNalu, Nalu, NaluSet

LEMMA EnqueueFields ==
    ASSUME NEW c \in Ctx, NEW nalu \in NaluSet
    PROVE  LET d == EnqueueNalu(c, nalu)
           IN  /\ d \in Ctx /\ d.nalus = Append(c.nalus, nalu)
               /\ d.prevSeq = c.prevSeq /\ d.prevTs = c.prevTs /\ d.auItem = c.auItem
               /\ d.fuPending = c.fuPending /\ d.fuCount = c.fuCount
               /\ d.fuNalu = c.fuNalu /\ d.pending = c.pending
<1>1. PICK L : L = Seq(NaluSet)
  OBVIOUS
<1>2. PICK q \in L : q = Append(c.nalus, nalu)
  <2>1. c.nalus \in Seq(NaluSet)
    BY DEF Ctx
  <2>2. QED  BY <1>1, <2>1, AppendSeq
<1>3. EnqueueNalu(c, nalu) = [c EXCEPT !.nalus = q]
  BY <1>2 DEF EnqueueNalu
<1>4. QED  BY <1>1, <1>2, <1>3 DEF Ctx

LEMMA PendingFields ==
    ASSUME NEW c \in Ctx, NEW k \in Nat
    PROVE  LET d == [c EXCEPT !.pending = k]
           IN  /\ d \in Ctx /\ d.pending = k
               /\ d.prevSeq = c.prevSeq /\ d.prevTs = c.prevTs /\ d.auItem = c.auItem
               /\ d.nalus = c.nalus /\ d.fuPending = c.fuPending
               /\ d.fuCount = c.fuCount /\ d.fuNalu = c.fuNalu
  BY DEF Ctx

LEMMA DropFields ==
    ASSUME NEW c \in Ctx
    PROVE  LET d == DropFuA(c)
           IN  /\ d \in Ctx /\ d.fuPending = FALSE /\ d.fuCount = 0 /\ d.fuNalu = NoNalu
               /\ d.prevSeq = c.prevSeq /\ d.prevTs = c.prevTs /\ d.auItem = c.auItem
               /\ d.nalus = c.nalus /\ d.pending = c.pending
<1>1. PICK a : a = [c EXCEPT !.fuPending = FALSE]
  OBVIOUS
<1>2. PICK b : b = [a EXCEPT !.fuCount = 0]
  OBVIOUS
<1>3. PICK none \in NaluSet : none = NoNalu
  BY NoNaluType
<1>4. PICK d : d = [b EXCEPT !.fuNalu = none]
  OBVIOUS
<1>5. /\ a \in Ctx /\ a.fuPending = FALSE
      /\ a.prevSeq = c.prevSeq /\ a.prevTs = c.prevTs /\ a.auItem = c.auItem
      /\ a.nalus = c.nalus /\ a.pending = c.pending
  BY <1>1 DEF Ctx
<1>6. /\ b \in Ctx /\ b.fuPending = FALSE /\ b.fuCount = 0
      /\ b.prevSeq = c.prevSeq /\ b.prevTs = c.prevTs /\ b.auItem = c.auItem
      /\ b.nalus = c.nalus /\ b.pending = c.pending
  BY <1>2, <1>5 DEF Ctx
<1>7. /\ d \in Ctx /\ d.fuPending = FALSE /\ d.fuCount = 0 /\ d.fuNalu = none
      /\ d.prevSeq = c.prevSeq /\ d.prevTs = c.prevTs /\ d.auItem = c.auItem
      /\ d.nalus = c.nalus /\ d.pending = c.pending
  BY <1>4, <1>6 DEF Ctx
<1>8. d = [c EXCEPT !.fuPending = FALSE, !.fuCount = 0, !.fuNalu = none]
  BY <1>1, <1>2, <1>4 DEF Ctx
<1>9. DropFuA(c) = d
  BY <1>3, <1>8 DEF DropFuA
<1>10. QED  BY <1>3, <1>7, <1>9

LEMMA AbandonFields ==
    ASSUME NEW c \in Ctx, NEW k \in Nat
    PROVE  LET d == AbandonFuA(c, k)
           IN  /\ d \in Ctx /\ d.fuPending = FALSE /\ d.fuCount = 0 /\ d.fuNalu = NoNalu
               /\ d.pending = c.pending + c.fuCount + k
               /\ d.prevSeq = c.prevSeq /\ d.prevTs = c.prevTs /\ d.auItem = c.auItem
               /\ d.nalus = c.nalus
<1>1. PICK n \in Nat : n = c.pending + c.fuCount + k
  BY DEF Ctx
<1>2. PICK b : b = [c EXCEPT !.pending = n]
  OBVIOUS
<1>3. AbandonFuA(c, k) = DropFuA(b)
  BY <1>1, <1>2 DEF AbandonFuA
<1>4. /\ b \in Ctx /\ b.pending = n /\ b.prevSeq = c.prevSeq /\ b.prevTs = c.prevTs
      /\ b.auItem = c.auItem /\ b.nalus = c.nalus
  BY <1>2, PendingFields
<1>5. PICK d : d = DropFuA(b)
  OBVIOUS
<1>6. /\ d \in Ctx /\ d.fuPending = FALSE /\ d.fuCount = 0 /\ d.fuNalu = NoNalu
      /\ d.prevSeq = b.prevSeq /\ d.prevTs = b.prevTs /\ d.auItem = b.auItem
      /\ d.nalus = b.nalus /\ d.pending = b.pending
  BY <1>4, <1>5, DropFields
<1>7. QED  BY <1>1, <1>3, <1>4, <1>5, <1>6

LEMMA BeginFields ==
    ASSUME NEW c \in Ctx, NEW missing \in Nat, HasNalu(c)
    PROVE  LET d == BeginFuA(c, missing)
           IN  /\ d \in Ctx /\ d.fuPending = TRUE /\ d.fuCount = 0 /\ d.pending = 0
               /\ d.fuNalu.packets = <<0>> /\ d.fuNalu.missing = missing + c.pending
               /\ d.prevSeq = c.prevSeq /\ d.prevTs = c.prevTs /\ d.auItem = c.auItem
               /\ d.nalus = c.nalus
<1>1. PICK m \in Nat : m = missing + c.pending
  BY DEF Ctx
<1>2. PICK q \in Seq(Nat) : q = <<0>>
  <2>1. <<0>> \in Seq(Nat)
    OBVIOUS
  <2>2. QED  BY <2>1
<1>3. PICK f : f = Nalu(q, m)
  OBVIOUS
<1>4. f \in NaluSet /\ f.packets = q /\ f.missing = m
  BY <1>3 DEF Nalu, NaluSet
<1>5. PICK a : a = [c EXCEPT !.fuPending = TRUE]
  OBVIOUS
<1>6. PICK b : b = [a EXCEPT !.fuCount = 0]
  OBVIOUS
<1>7. PICK e : e = [b EXCEPT !.pending = 0]
  OBVIOUS
<1>8. PICK d : d = [e EXCEPT !.fuNalu = f]
  OBVIOUS
<1>9. /\ a \in Ctx /\ a.fuPending = TRUE
      /\ a.prevSeq = c.prevSeq /\ a.prevTs = c.prevTs /\ a.auItem = c.auItem
      /\ a.nalus = c.nalus
  BY <1>5 DEF Ctx
<1>10. /\ b \in Ctx /\ b.fuPending = TRUE /\ b.fuCount = 0
       /\ b.prevSeq = c.prevSeq /\ b.prevTs = c.prevTs /\ b.auItem = c.auItem
       /\ b.nalus = c.nalus
  BY <1>6, <1>9 DEF Ctx
<1>11. /\ e \in Ctx /\ e.fuPending = TRUE /\ e.fuCount = 0 /\ e.pending = 0
       /\ e.prevSeq = c.prevSeq /\ e.prevTs = c.prevTs /\ e.auItem = c.auItem
       /\ e.nalus = c.nalus
  BY <1>7, <1>10 DEF Ctx
<1>12. /\ d \in Ctx /\ d.fuPending = TRUE /\ d.fuCount = 0 /\ d.pending = 0
       /\ d.prevSeq = c.prevSeq /\ d.prevTs = c.prevTs /\ d.auItem = c.auItem
       /\ d.nalus = c.nalus /\ d.fuNalu = f
  BY <1>8, <1>11, <1>4 DEF Ctx
<1>13. d = [c EXCEPT !.fuPending = TRUE, !.fuCount = 0, !.pending = 0, !.fuNalu = f]
  BY <1>5, <1>6, <1>7, <1>8 DEF Ctx
<1>14. BeginFuA(c, missing) = d
  BY <1>1, <1>2, <1>3, <1>13 DEF BeginFuA
<1>15. QED  BY <1>1, <1>2, <1>4, <1>12, <1>14

LEMMA AppendFields ==
    ASSUME NEW c \in Ctx, NEW n \in Nat
    PROVE  LET d == AppendFuA(c, n)
           IN  /\ d \in Ctx /\ d.fuCount = c.fuCount + 1
               /\ d.fuNalu.packets = Append(c.fuNalu.packets, n)
               /\ d.fuNalu.missing = c.fuNalu.missing
               /\ d.prevSeq = c.prevSeq /\ d.prevTs = c.prevTs /\ d.auItem = c.auItem
               /\ d.nalus = c.nalus /\ d.fuPending = c.fuPending
               /\ d.pending = c.pending
<1>1. /\ c.fuNalu \in NaluSet /\ c.fuNalu.packets \in Seq(Nat)
      /\ c.fuNalu.missing \in Nat /\ c.fuCount \in Nat
  BY DEF Ctx, NaluSet
<1>2. PICK k \in Nat : k = c.fuCount + 1
  BY <1>1
<1>3. PICK q \in Seq(Nat) : q = Append(c.fuNalu.packets, n)
  BY <1>1, AppendSeq
<1>4. PICK f \in NaluSet : /\ f = [c.fuNalu EXCEPT !.packets = q]
                           /\ f.packets = q /\ f.missing = c.fuNalu.missing
  <2>1. PICK g \in NaluSet : g = c.fuNalu
    BY <1>1
  <2>2. /\ [g EXCEPT !.packets = q] \in NaluSet
        /\ [g EXCEPT !.packets = q].packets = q
        /\ [g EXCEPT !.packets = q].missing = g.missing
    BY DEF NaluSet
  <2>3. QED  BY <2>1, <2>2
<1>5. AppendFuA(c, n) = [c EXCEPT !.fuCount = k, !.fuNalu = f]
  BY <1>2, <1>3, <1>4 DEF AppendFuA, Ctx
<1>6. QED  BY <1>2, <1>3, <1>4, <1>5 DEF Ctx

-----------------------------------------------------------------------------
(* The steps of an operation, from stage to stage.                         *)

LEMMA WFacts ==
    ASSUME NEW out \in Seq(Unit), NEW c \in Ctx
    PROVE  /\ W(out, c) \in Lists /\ Len(W(out, c)) = Len(out) + 1
           /\ W(out, c)[Len(out) + 1] = c.nalus /\ Len(out) \in Nat
           /\ \A i \in 1 .. Len(out) : W(out, c)[i] = out[i].nalus
           /\ \A d : d.nalus = c.nalus => W(out, d) = W(out, c)
<1>1. Len(out) \in Nat /\ \A i \in 1 .. Len(out) : out[i].nalus \in Seq(NaluSet)
  <2>1. Len(out) \in Nat /\ \A i \in 1 .. Len(out) : out[i] \in Unit
    OBVIOUS
  <2>2. QED  BY <2>1 DEF Unit
<1>2. c.nalus \in Seq(NaluSet)
  BY DEF Ctx
<1>3. W(out, c) \in [1 .. Len(out) + 1 -> Seq(NaluSet)]
  BY <1>1, <1>2 DEF W
<1>4. W(out, c) \in Seq(Seq(NaluSet)) /\ Len(W(out, c)) = Len(out) + 1
  BY <1>1, <1>3
<1>5. \A d : d.nalus = c.nalus => W(out, d) = W(out, c)
  BY DEF W
<1>6. /\ W(out, c)[Len(out) + 1] = c.nalus
      /\ \A i \in 1 .. Len(out) : W(out, c)[i] = out[i].nalus
  BY <1>1 DEF W
<1>7. QED  BY <1>1, <1>4, <1>5, <1>6 DEF Lists

LEMMA PutW ==
    ASSUME NEW out \in Seq(Unit), NEW c \in Ctx, NEW nalu \in NaluSet,
           NEW d, d.nalus = Append(c.nalus, nalu)
    PROVE  W(out, d) = Put(W(out, c), nalu)
<1>1. Len(out) \in Nat
  OBVIOUS
<1>2. PICK n \in Nat : n = Len(out) + 1
  BY <1>1
<1>3. Len(W(out, c)) = n /\ W(out, c)[n] = c.nalus
  BY <1>2, WFacts
<1>4. PICK q : q = Append(c.nalus, nalu)
  OBVIOUS
<1>5. Put(W(out, c), nalu) = [W(out, c) EXCEPT ![n] = q]
  BY <1>3, <1>4 DEF Put
<1>6. W(out, d) = [W(out, c) EXCEPT ![n] = q]
  <2>1. W(out, d) = [i \in 1 .. n |-> IF i <= Len(out) THEN out[i].nalus ELSE q]
    BY <1>2, <1>4 DEF W
  <2>2. W(out, c) = [i \in 1 .. n |-> IF i <= Len(out) THEN out[i].nalus ELSE c.nalus]
    BY <1>2 DEF W
  <2>3. \A i \in 1 .. n : i <= Len(out) <=> i # n
    BY <1>1, <1>2
  <2>4. QED  BY <2>1, <2>2, <2>3
<1>7. QED  BY <1>5, <1>6

LEMMA ReadyTypes ==
    ASSUME NEW st \in Seq(Packets), NEW rf, NEW out, NEW c, NEW e, NEW upTo, NEW extra,
           Ready(st, rf, out, c, e, upTo, extra)
    PROVE  /\ out \in Seq(Unit) /\ c \in Ctx /\ e \in Nat /\ upTo \in Nat
           /\ extra \in Nat /\ e <= upTo
           /\ c.pending \in Nat /\ c.fuCount \in Nat /\ c.fuPending \in BOOLEAN
           /\ c.fuNalu.missing \in Nat /\ Len(c.nalus) \in Nat
           /\ c.fuNalu \in NaluSet
           /\ \A x : EndsAt(W(out, c), x) =>
                  /\ x \in Nat /\ x \in DOMAIN st
                  /\ st[x].kind \in {"single", "stap", "end"}
<1>1. c \in Ctx /\ ListsOK(st, rf, W(out, c))
  BY DEF Ready
<1>2. /\ c.pending \in Nat /\ c.fuCount \in Nat /\ c.fuPending \in BOOLEAN
      /\ c.fuNalu \in NaluSet /\ c.nalus \in Seq(NaluSet)
  BY <1>1 DEF Ctx
<1>3. c.fuNalu.missing \in Nat
  BY <1>2 DEF NaluSet
<1>4. ASSUME NEW x, EndsAt(W(out, c), x)
      PROVE  /\ x \in Nat /\ x \in DOMAIN st
             /\ st[x].kind \in {"single", "stap", "end"}
  <2>1. PICK w : w = W(out, c)
    OBVIOUS
  <2>2. w \in Lists /\ AllGood(st, w) /\ EndsAt(w, x)
    BY <1>1, <1>4, <2>1 DEF ListsOK
  <2>3. PICK i \in DOMAIN w : w[i] # <<>> /\ x = Final(w[i][Len(w[i])])
    BY <2>2 DEF EndsAt
  <2>4. w[i] \in Seq(NaluSet)
    BY <2>2, <2>3 DEF Lists
  <2>5. Len(w[i]) \in DOMAIN w[i]
    BY <2>3, <2>4
  <2>6. Good(st, w[i][Len(w[i])])
    BY <2>2, <2>5 DEF AllGood
  <2>7. QED  BY <2>3, <2>6, NaluTypes
<1>5. Len(c.nalus) \in Nat
  BY <1>2
<1>6. QED  BY <1>2, <1>3, <1>4, <1>5 DEF Ready

(* The incomplete NALU is dropped: its packets are missing, and k more.    *)
LEMMA AbandonReady ==
    ASSUME NEW st \in Seq(Packets), NEW rf, NEW out, NEW c, NEW e, NEW upTo, NEW extra,
           Ready(st, rf, out, c, e, upTo, extra),
           c.fuPending => c.fuCount > 0, NEW k \in Nat
    PROVE  LET d == AbandonFuA(c, k)
           IN  /\ Ready(st, rf, out, d, e, upTo, extra)
               /\ W(out, d) = W(out, c) /\ ~d.fuPending /\ d.auItem = c.auItem
               /\ d.nalus = c.nalus
               /\ k > 0 => d.pending > 0
<1>1. PICK d : d = AbandonFuA(c, k)
  OBVIOUS
<1>2. /\ out \in Seq(Unit) /\ c \in Ctx /\ e \in Nat /\ upTo \in Nat /\ extra \in Nat
      /\ e <= upTo /\ c.pending \in Nat /\ c.fuCount \in Nat /\ Len(c.nalus) \in Nat
  BY ReadyTypes
<1>3. /\ d \in Ctx /\ d.fuPending = FALSE /\ d.fuNalu = NoNalu
      /\ d.pending = c.pending + c.fuCount + k
      /\ d.auItem = c.auItem /\ d.nalus = c.nalus
  BY <1>1, <1>2, AbandonFields
<1>4. W(out, d) = W(out, c)
  BY <1>2, <1>3, WFacts
<1>5. FuOK(d)
  <2>1. /\ NaluCapacity \in Nat
        /\ Len(c.nalus) + (IF c.fuPending THEN 1 ELSE 0) <= NaluCapacity
    BY DepayAssumption DEF Ready, FuOK
  <2>2. Len(c.nalus) + 0 <= NaluCapacity
    <3>1. CASE c.fuPending
      BY <3>1, <2>1, <1>2
    <3>2. CASE ~c.fuPending
      BY <3>2, <2>1
    <3>3. QED  BY <3>1, <3>2
  <2>3. /\ d.fuPending <=> d.fuNalu # NoNalu
        /\ (IF d.fuPending THEN 1 ELSE 0) = 0
    BY <1>3
  <2>4. QED  BY <1>3, <2>2, <2>3 DEF FuOK
<1>6. ASSUME NEW x, EndsAt(W(out, d), x)
      PROVE  Accounted(d, rf, x, e, upTo, extra)
  <2>1. Accounted(c, rf, x, e, upTo, extra)
    BY <1>4, <1>6 DEF Ready
  <2>2. ASSUME Skipped(x, upTo + 1, rf) PROVE d.pending + extra > 0
    <3>1. CASE c.fuPending
      BY <3>1, <1>2, <1>3
    <3>2. CASE ~c.fuPending
      BY <3>2, <1>2, <1>3, <2>1, <2>2 DEF Accounted
    <3>3. QED  BY <3>1, <3>2
  <2>3. QED  BY <1>3, <2>1, <2>2 DEF Accounted
<1>7. Ready(st, rf, out, d, e, upTo, extra)
  BY <1>2, <1>3, <1>4, <1>5, <1>6 DEF Ready
<1>8. k > 0 => d.pending > 0
  BY <1>2, <1>3
<1>9. QED  BY <1>1, <1>3, <1>4, <1>7, <1>8

(* Packet n was of no use, and something says that it is missing.          *)
LEMMA UselessReady ==
    ASSUME NEW st \in Seq(Packets), NEW rf, NEW out, NEW c, NEW e, NEW upTo, NEW extra,
           Ready(st, rf, out, c, e, upTo, extra), ~c.fuPending,
           NEW n \in Nat, upTo <= n,
           \A x : EndsAt(W(out, c), x) /\ Skipped(x, n + 1, rf) => c.pending > 0
    PROVE  Ready(st, rf, out, c, n, n, 0)
<1>1. /\ out \in Seq(Unit) /\ c \in Ctx /\ e \in Nat /\ upTo \in Nat
      /\ e <= upTo /\ c.pending \in Nat
      /\ \A x : EndsAt(W(out, c), x) => x \in Nat
  BY ReadyTypes
<1>2. ASSUME NEW x, EndsAt(W(out, c), x)
      PROVE  Accounted(c, rf, x, n, n, 0)
  <2>1. x <= e /\ x \in Nat
    BY <1>1, <1>2 DEF Ready, Accounted
  <2>2. x <= n
    BY <2>1, <1>1
  <2>3. Skipped(x, n + 1, rf) => c.pending + 0 > 0
    BY <1>1, <1>2
  <2>4. QED  BY <2>2, <2>3 DEF Accounted
<1>3. QED  BY <1>1, <1>2 DEF Ready

(* A whole NALU that ends at n is put in the current access unit.          *)
LEMMA EnqueueReady ==
    ASSUME NEW st \in Seq(Packets), NEW rf, NEW out, NEW c, NEW e, NEW upTo, NEW extra,
           Ready(st, rf, out, c, e, upTo, extra),
           NEW t \in Nat, AtTime(st, W(out, c), t),
           NEW nalu, Good(st, nalu), Ts(st, nalu) = t,
           \A x : EndsAt(W(out, c), x) /\ Skipped(x, First(nalu), rf) => nalu.missing > 0,
           \A x : EndsAt(W(out, c), x) => After(st, x, First(nalu)),
           NEW n \in Nat, n = Final(nalu),
           NEW d \in Ctx, d.nalus = Append(c.nalus, nalu), ~d.fuPending, FuOK(d)
    PROVE  /\ Ready(st, rf, out, d, n, n, 0) /\ AtTime(st, W(out, d), t)
           /\ \A x : EndsAt(W(out, d), x) => x = n
<1>1. out \in Seq(Unit) /\ c \in Ctx /\ ListsOK(st, rf, W(out, c))
  BY DEF Ready
<1>2. nalu \in NaluSet
  BY DEF Good
<1>3. W(out, d) = Put(W(out, c), nalu)
  BY <1>1, <1>2, PutW
<1>4. PICK w : w = W(out, c)
  OBVIOUS
<1>5. /\ ListsOK(st, rf, Put(w, nalu)) /\ AtTime(st, Put(w, nalu), t)
      /\ \A x : EndsAt(Put(w, nalu), x) => x = Final(nalu)
  BY <1>1, <1>4, PutLemma
<1>6. ASSUME NEW x, EndsAt(W(out, d), x)
      PROVE  x = n /\ Accounted(d, rf, x, n, n, 0)
  <2>1. x = n
    BY <1>3, <1>4, <1>5, <1>6
  <2>2. x <= n /\ ~Skipped(x, n + 1, rf)
    BY <2>1 DEF Skipped
  <2>3. QED  BY <2>1, <2>2 DEF Accounted
<1>7. QED  BY <1>1, <1>3, <1>4, <1>5, <1>6 DEF Ready

(* There is no NALU item for it.                                           *)
LEMMA NoItemReady ==
    ASSUME NEW st \in Seq(Packets), NEW rf, NEW out, NEW c, NEW e, NEW upTo, NEW extra,
           Ready(st, rf, out, c, e, upTo, extra), ~c.fuPending,
           NEW n \in Nat, upTo <= n
    PROVE  LET d == [c EXCEPT !.pending = @ + 1]
           IN  /\ Ready(st, rf, out, d, n, n, 0) /\ W(out, d) = W(out, c)
               /\ ~d.fuPending /\ d.auItem = c.auItem
<1>1. /\ out \in Seq(Unit) /\ c \in Ctx /\ c.pending \in Nat
  BY ReadyTypes
<1>2. PICK k \in Nat : k = c.pending + 1
  BY <1>1
<1>3. PICK d : d = [c EXCEPT !.pending = k]
  OBVIOUS
<1>4. /\ d \in Ctx /\ d.pending = k /\ d.auItem = c.auItem /\ d.nalus = c.nalus
      /\ d.fuPending = c.fuPending /\ d.fuNalu = c.fuNalu /\ d.fuCount = c.fuCount
  BY <1>1, <1>3, PendingFields
<1>5. W(out, d) = W(out, c)
  BY <1>1, <1>4, WFacts
<1>6. FuOK(d)
  BY <1>4 DEF Ready, FuOK
<1>7. d.pending > 0
  BY <1>1, <1>2, <1>4
<1>8. Ready(st, rf, out, d, e, upTo, extra)
  <2>1. ASSUME NEW x, EndsAt(W(out, c), x)
        PROVE  Accounted(d, rf, x, e, upTo, extra)
    <3>1. Accounted(c, rf, x, e, upTo, extra) /\ extra \in Nat
      BY <2>1, ReadyTypes DEF Ready
    <3>2. d.pending + extra > 0
      BY <1>2, <1>4, <1>7, <3>1
    <3>3. QED  BY <1>4, <3>1, <3>2 DEF Accounted
  <2>2. QED  BY <1>4, <1>5, <1>6, <2>1 DEF Ready
<1>9. Ready(st, rf, out, d, n, n, 0)
  BY <1>4, <1>7, <1>8, UselessReady
<1>10. d = [c EXCEPT !.pending = @ + 1]
  BY <1>1, <1>2, <1>3 DEF Ctx
<1>11. QED  BY <1>4, <1>5, <1>9, <1>10

(* A NALU that is one packet, or in one.                                   *)
LEMMA OnePacket ==
    ASSUME NEW st \in Seq(Packets), NEW n \in DOMAIN st,
           st[n].kind \in {"single", "stap"}, NEW m \in Nat
    PROVE  /\ Good(st, Nalu(<<n>>, m)) /\ Nalu(<<n>>, m).missing = m
           /\ First(Nalu(<<n>>, m)) = n /\ Final(Nalu(<<n>>, m)) = n
           /\ Ts(st, Nalu(<<n>>, m)) = st[n].ts
<1>1. n \in Nat
  OBVIOUS
<1>2. <<n>> = Run(n, n) /\ <<n>> \in Seq(Nat)
  BY <1>1 DEF Run
<1>3. PICK nalu : nalu = Nalu(<<n>>, m)
  OBVIOUS
<1>4. nalu \in NaluSet /\ nalu.packets = Run(n, n) /\ nalu.missing = m
  BY <1>2, <1>3 DEF Nalu, NaluSet
<1>5. \A j \in n .. n : j = n
  BY <1>1
<1>6. MadeOf(st, nalu, n, n)
  BY <1>1, <1>4, <1>5 DEF MadeOf
<1>7. First(nalu) = n /\ Final(nalu) = n
  BY <1>1, <1>6, GoodEnds
<1>8. Good(st, nalu)
  BY <1>1, <1>4, <1>6 DEF Good
<1>9. QED  BY <1>3, <1>4, <1>7, <1>8 DEF Ts

(* It is put in the access unit.                                           *)
LEMMA WholeReady ==
    ASSUME NEW st \in Seq(Packets), NEW rf, NEW out, NEW c, NEW e, NEW upTo, NEW extra,
           NEW n \in DOMAIN st, Ready(st, rf, out, c, e, upTo, extra), ~c.fuPending,
           AtTime(st, W(out, c), st[n].ts), st[n].kind \in {"single", "stap"},
           HasNalu(c), NEW m \in Nat,
           \A x : EndsAt(W(out, c), x) /\ Skipped(x, n, rf) => m > 0,
           \A x : EndsAt(W(out, c), x) => After(st, x, n)
    PROVE  LET d == EnqueueNalu(c, Nalu(<<n>>, m))
           IN  /\ Ready(st, rf, out, d, n, n, 0) /\ AtTime(st, W(out, d), st[n].ts)
               /\ d.pending = c.pending /\ d.auItem = c.auItem /\ ~d.fuPending
               /\ \A x : EndsAt(W(out, d), x) => x = n
<1>1. /\ c \in Ctx /\ n \in Nat /\ Len(c.nalus) \in Nat
  BY ReadyTypes
<1>2. st[n].ts \in Nat
  <2>1. st[n] \in Packets
    OBVIOUS
  <2>2. QED  BY <2>1 DEF Packets
<1>3. PICK nalu : nalu = Nalu(<<n>>, m)
  OBVIOUS
<1>4. /\ Good(st, nalu) /\ nalu.missing = m /\ First(nalu) = n /\ Final(nalu) = n
      /\ Ts(st, nalu) = st[n].ts
  BY <1>3, OnePacket
<1>5. nalu \in NaluSet
  BY <1>4 DEF Good
<1>6. PICK d : d = EnqueueNalu(c, nalu)
  OBVIOUS
<1>7. /\ d \in Ctx /\ d.nalus = Append(c.nalus, nalu) /\ d.auItem = c.auItem
      /\ d.fuPending = c.fuPending /\ d.fuNalu = c.fuNalu /\ d.pending = c.pending
  BY <1>1, <1>5, <1>6, EnqueueFields
<1>8. FuOK(d)
  <2>1. Len(d.nalus) = Len(c.nalus) + 1
    <3>1. c.nalus \in Seq(NaluSet)
      BY <1>1 DEF Ctx
    <3>2. QED  BY <3>1, <1>5, <1>7, AppendSeq
  <2>2. c.fuNalu = NoNalu
    BY DEF Ready, FuOK
  <2>3. Len(c.nalus) < NaluCapacity /\ NaluCapacity \in Nat
    BY <1>1, <2>2, DepayAssumption DEF HasNalu
  <2>4. Len(d.nalus) + 0 <= NaluCapacity
    BY <1>1, <2>1, <2>3
  <2>5. (IF d.fuPending THEN 1 ELSE 0) = 0
    BY <1>7
  <2>6. QED  BY <1>7, <2>2, <2>4, <2>5 DEF FuOK
<1>9. Ready(st, rf, out, d, n, n, 0) /\ AtTime(st, W(out, d), st[n].ts)
      /\ \A x : EndsAt(W(out, d), x) => x = n
  BY <1>1, <1>2, <1>4, <1>7, <1>8, EnqueueReady
<1>10. QED  BY <1>3, <1>6, <1>7, <1>9

(* After a NALU that ends at n, the packets missing so far may be any.     *)
LEMMA PendingReady ==
    ASSUME NEW st \in Seq(Packets), NEW rf, NEW out, NEW c, NEW n \in Nat,
           Ready(st, rf, out, c, n, n, 0), ~c.fuPending,
           \A x : EndsAt(W(out, c), x) => x = n, NEW k \in Nat
    PROVE  LET d == [c EXCEPT !.pending = k]
           IN  /\ Ready(st, rf, out, d, n, n, 0) /\ W(out, d) = W(out, c)
               /\ ~d.fuPending /\ d.auItem = c.auItem
<1>1. out \in Seq(Unit) /\ c \in Ctx
  BY ReadyTypes
<1>2. PICK d : d = [c EXCEPT !.pending = k]
  OBVIOUS
<1>3. /\ d \in Ctx /\ d.auItem = c.auItem /\ d.nalus = c.nalus
      /\ d.fuPending = c.fuPending /\ d.fuNalu = c.fuNalu
  BY <1>1, <1>2, PendingFields
<1>4. W(out, d) = W(out, c) /\ FuOK(d)
  BY <1>1, <1>3, WFacts DEF Ready, FuOK
<1>5. ASSUME NEW x, EndsAt(W(out, d), x)
      PROVE  Accounted(d, rf, x, n, n, 0)
  <2>1. x = n
    BY <1>4, <1>5
  <2>2. ~Skipped(x, n + 1, rf)
    BY <2>1 DEF Skipped
  <2>3. QED  BY <1>3, <2>1, <2>2 DEF Accounted
<1>6. QED  BY <1>2, <1>3, <1>4, <1>5 DEF Ready

LEMMA SingleStage ==
    ASSUME NEW st \in Seq(Packets), NEW rf, NEW out, NEW c, NEW e, NEW extra,
           NEW n \in DOMAIN st, Ready(st, rf, out, c, e, n - 1, extra), ~c.fuPending,
           AtTime(st, W(out, c), st[n].ts), st[n].kind = "single"
    PROVE  LET d == Single(c, n, extra)
           IN  /\ Stage(st, rf, out, d, n, n, 0, st[n].ts)
               /\ ~d.fuPending /\ d.auItem = c.auItem
<1>1. /\ c.pending \in Nat /\ extra \in Nat /\ n \in Nat /\ n - 1 <= n /\ n <= n
      /\ 0 \in Nat
  BY ReadyTypes
<1>2. PICK d : d = Single(c, n, extra)
  OBVIOUS
<1>3. CASE HasNalu(c)
  <2>1. PICK m \in Nat : m = extra + c.pending
    BY <1>1
  <2>2. PICK b : b = EnqueueNalu(c, Nalu(<<n>>, m))
    OBVIOUS
  <2>3. ASSUME NEW x, EndsAt(W(out, c), x), Skipped(x, n, rf)
        PROVE  m > 0
    <3>1. Accounted(c, rf, x, e, n - 1, extra) /\ n - 1 + 1 = n
      BY <1>1, <2>3 DEF Ready
    <3>2. QED  BY <1>1, <2>1, <2>3, <3>1 DEF Accounted
  <2>9. ASSUME NEW x, EndsAt(W(out, c), x)
        PROVE  After(st, x, n)
    <3>3. Accounted(c, rf, x, e, n - 1, extra)
      BY <2>9 DEF Ready
    <3>4. x \in Nat /\ e \in Nat /\ e <= n - 1
      BY <2>9, ReadyTypes
    <3>1. x \in Nat /\ e \in Nat /\ e <= n - 1 /\ x <= e
      BY <3>3, <3>4 DEF Accounted
    <3>2. QED  BY <1>1, <3>1 DEF After
  <2>4. /\ Ready(st, rf, out, b, n, n, 0) /\ AtTime(st, W(out, b), st[n].ts)
        /\ b.auItem = c.auItem /\ ~b.fuPending
        /\ \A x : EndsAt(W(out, b), x) => x = n
    BY <1>3, <2>2, <2>3, <2>9, WholeReady
  <2>5. PICK k \in Nat : k = 0
    BY <1>1
  <2>6. d = [b EXCEPT !.pending = k]
    BY <2>5, <1>2, <1>3, <2>1, <2>2 DEF Single
  <2>7. /\ Ready(st, rf, out, d, n, n, 0) /\ W(out, d) = W(out, b)
        /\ ~d.fuPending /\ d.auItem = b.auItem
    <3>1. PICK o : o = [b EXCEPT !.pending = k]
      OBVIOUS
    <3>2. /\ Ready(st, rf, out, o, n, n, 0) /\ W(out, o) = W(out, b)
          /\ ~o.fuPending /\ o.auItem = b.auItem
      BY <1>1, <2>4, <3>1, PendingReady
    <3>3. QED  BY <2>6, <3>1, <3>2
  <2>8. QED  BY <1>2, <2>4, <2>7 DEF Stage
<1>4. CASE ~HasNalu(c)
  <2>1. d = [c EXCEPT !.pending = @ + 1]
    BY <1>2, <1>4 DEF Single
  <2>2. /\ Ready(st, rf, out, d, n, n, 0) /\ W(out, d) = W(out, c)
        /\ ~d.fuPending /\ d.auItem = c.auItem
    BY <1>1, <2>1, NoItemReady
  <2>3. QED  BY <1>2, <2>2 DEF Stage
<1>5. QED  BY <1>3, <1>4

LEMMA StapStage ==
    ASSUME NEW st \in Seq(Packets), NEW rf, NEW out, NEW c, NEW e, NEW extra,
           NEW n \in DOMAIN st, Ready(st, rf, out, c, e, n - 1, extra), ~c.fuPending,
           AtTime(st, W(out, c), st[n].ts), st[n].kind = "stap"
    PROVE  LET d == StapA(c, n, extra)
           IN  /\ Stage(st, rf, out, d, n, n, 0, st[n].ts)
               /\ ~d.fuPending /\ d.auItem = c.auItem
<1>1. /\ c.pending \in Nat /\ extra \in Nat /\ n \in Nat /\ n - 1 <= n /\ n <= n
      /\ 0 \in Nat
  BY ReadyTypes
<1>2. PICK d : d = StapA(c, n, extra)
  OBVIOUS
<1>3. CASE HasNalu(c)
  <2>1. PICK m \in Nat : m = extra + c.pending
    BY <1>1
  <2>2. PICK b : b = EnqueueNalu(c, Nalu(<<n>>, m))
    OBVIOUS
  <2>3. ASSUME NEW x, EndsAt(W(out, c), x), Skipped(x, n, rf)
        PROVE  m > 0
    <3>1. Accounted(c, rf, x, e, n - 1, extra) /\ n - 1 + 1 = n
      BY <1>1, <2>3 DEF Ready
    <3>2. QED  BY <1>1, <2>1, <2>3, <3>1 DEF Accounted
  <2>9. ASSUME NEW x, EndsAt(W(out, c), x)
        PROVE  After(st, x, n)
    <3>3. Accounted(c, rf, x, e, n - 1, extra)
      BY <2>9 DEF Ready
    <3>4. x \in Nat /\ e \in Nat /\ e <= n - 1
      BY <2>9, ReadyTypes
    <3>1. x \in Nat /\ e \in Nat /\ e <= n - 1 /\ x <= e
      BY <3>3, <3>4 DEF Accounted
    <3>2. QED  BY <1>1, <3>1 DEF After
  <2>4. /\ Ready(st, rf, out, b, n, n, 0) /\ AtTime(st, W(out, b), st[n].ts)
        /\ b.auItem = c.auItem /\ ~b.fuPending
        /\ \A x : EndsAt(W(out, b), x) => x = n
    BY <1>3, <2>2, <2>3, <2>9, WholeReady
  <2>5. b.pending \in Nat
    BY <2>4, ReadyTypes
  <2>6. CASE HasNalu(b)
    <3>1. PICK a : a = EnqueueNalu(b, Nalu(<<n>>, 0))
      OBVIOUS
    <3>2. \A x : EndsAt(W(out, b), x) => ~Skipped(x, n, rf)
      BY <1>1, <2>4 DEF Skipped
    <3>7. \A x : EndsAt(W(out, b), x) => After(st, x, n)
      BY <2>4 DEF After
    <3>3. /\ Ready(st, rf, out, a, n, n, 0) /\ AtTime(st, W(out, a), st[n].ts)
          /\ a.auItem = b.auItem /\ ~a.fuPending
          /\ \A x : EndsAt(W(out, a), x) => x = n
      BY <2>4, <2>6, <3>1, <3>2, <3>7, WholeReady
    <3>4. PICK k \in Nat : k = 0
      BY <1>1
    <3>4a. d = [a EXCEPT !.pending = k]
      BY <3>4, <1>2, <1>3, <2>1, <2>2, <2>6, <3>1 DEF StapA
    <3>5. /\ Ready(st, rf, out, d, n, n, 0) /\ W(out, d) = W(out, a)
          /\ ~d.fuPending /\ d.auItem = a.auItem
      <4>1. PICK f : f = [a EXCEPT !.pending = k]
        OBVIOUS
      <4>2. n \in Nat
        BY <1>1
      <4>3. /\ Ready(st, rf, out, f, n, n, 0) /\ W(out, f) = W(out, a)
            /\ ~f.fuPending /\ f.auItem = a.auItem
        BY <4>1, <4>2, <3>3, PendingReady
      <4>4. QED  BY <4>1, <4>3, <3>4a
    <3>6. QED  BY <1>2, <2>4, <3>3, <3>5 DEF Stage
  <2>7. CASE ~HasNalu(b)
    <3>1. d = [b EXCEPT !.pending = @ + 1]
      BY <1>2, <1>3, <2>1, <2>2, <2>7 DEF StapA
    <3>2. /\ Ready(st, rf, out, d, n, n, 0) /\ W(out, d) = W(out, b)
          /\ ~d.fuPending /\ d.auItem = b.auItem
      BY <1>1, <2>4, <3>1, NoItemReady
    <3>3. QED  BY <1>2, <2>4, <3>2 DEF Stage
  <2>8. QED  BY <2>6, <2>7
<1>4. CASE ~HasNalu(c)
  <2>1. d = [c EXCEPT !.pending = @ + 1]
    BY <1>2, <1>4 DEF StapA
  <2>2. /\ Ready(st, rf, out, d, n, n, 0) /\ W(out, d) = W(out, c)
        /\ ~d.fuPending /\ d.auItem = c.auItem
    BY <1>1, <2>1, NoItemReady
  <2>3. QED  BY <1>2, <2>2 DEF Stage
<1>5. QED  BY <1>3, <1>4

-----------------------------------------------------------------------------
(* Fragments.                                                              *)

LEMMA ShapeLemma ==
    ASSUME NEW h \in Nat, NEW e \in Nat, h <= e
    PROVE  /\ Append(Shape(h, e), e + 1) = Shape(h, e + 1)
           /\ Tail(Shape(h, e)) = Run(h, e)
           /\ Append(<<0>>, h) = Shape(h, h)
           /\ Shape(h, e) # <<>> /\ Shape(h, e) \in Seq(Nat)
<1>1. PICK n \in Nat : n = e - h + 2 /\ n >= 2
  <2>1. e - h + 2 \in Nat /\ e - h + 2 >= 2
    OBVIOUS
  <2>2. QED  BY <2>1
<1>2. Shape(h, e) \in [1 .. n -> Nat]
  <2>1. \A k \in 1 .. n : (IF k = 1 THEN 0 ELSE h + k - 2) \in Nat
    BY <1>1
  <2>2. QED  BY <1>1, <2>1 DEF Shape
<1>3. PICK q : q = Shape(h, e)
  OBVIOUS
<1>4. /\ q \in Seq(Nat) /\ Len(q) = n /\ q # <<>>
      /\ q = [k \in 1 .. n |-> IF k = 1 THEN 0 ELSE h + k - 2]
  BY <1>1, <1>2, <1>3 DEF Shape
<1>5. Append(q, e + 1) = [k \in 1 .. n + 1 |-> IF k = 1 THEN 0 ELSE h + k - 2]
  BY <1>1, <1>4
<1>6. PICK m \in Nat : m = e + 1 /\ m - h + 2 = n + 1
  BY <1>1
<1>7. Append(q, e + 1) = Shape(h, e + 1)
  <2>1. Shape(h, m) = [k \in 1 .. n + 1 |-> IF k = 1 THEN 0 ELSE h + k - 2]
    BY <1>6 DEF Shape
  <2>2. QED  BY <1>5, <1>6, <2>1
<1>8. Tail(q) = [k \in 1 .. n - 1 |-> q[k + 1]]
  BY <1>1, <1>4
<1>9. Tail(q) = Run(h, e)
  <2>1. Run(h, e) = [k \in 1 .. n - 1 |-> h + k - 1]
    <3>1. e - h + 1 = n - 1
      BY <1>1
    <3>2. QED  BY <3>1 DEF Run
  <2>2. \A k \in 1 .. n - 1 : q[k + 1] = h + k - 1
    BY <1>1, <1>4
  <2>3. QED  BY <1>8, <2>1, <2>2
<1>10. Append(<<0>>, h) = Shape(h, h)
  <2>1. h - h + 2 = 2
    OBVIOUS
  <2>2. Shape(h, h) = [k \in 1 .. 2 |-> IF k = 1 THEN 0 ELSE h + k - 2]
    BY <2>1 DEF Shape
  <2>3. PICK s \in Seq(Nat) : s = <<0>> /\ Len(s) = 1 /\ s[1] = 0
    <3>1. <<0>> \in Seq(Nat) /\ Len(<<0>>) = 1 /\ <<0>>[1] = 0
      OBVIOUS
    <3>2. QED  BY <3>1
  <2>4. Append(s, h) = [k \in 1 .. 2 |-> IF k = 1 THEN 0 ELSE h + k - 2]
    BY <2>3
  <2>5. QED  BY <2>2, <2>3, <2>4
<1>11. QED  BY <1>3, <1>4, <1>7, <1>9, <1>10

(* The NALU begins with packet n.                                          *)
LEMMA StartStage ==
    ASSUME NEW st \in Seq(Packets), NEW rf, NEW out, NEW c, NEW e, NEW extra,
           NEW n \in DOMAIN st, Ready(st, rf, out, c, e, n - 1, extra), ~c.fuPending,
           AtTime(st, W(out, c), st[n].ts), st[n].kind = "start"
    PROVE  LET b == BeginFuA(c, extra)
               d == IF ~b.fuPending THEN b ELSE AppendFuA(b, n)
           IN  Stage(st, rf, out, d, n, n, 0, st[n].ts) /\ d.auItem = c.auItem
<1>1. /\ c \in Ctx /\ out \in Seq(Unit) /\ c.pending \in Nat /\ extra \in Nat
      /\ n \in Nat /\ n >= 1 /\ n - 1 <= n /\ n <= n /\ e \in Nat /\ e <= n - 1 /\ 0 \in Nat
      /\ Len(c.nalus) \in Nat
  BY ReadyTypes
<1>2. PICK b : b = BeginFuA(c, extra)
  OBVIOUS
<1>3. PICK d : d = IF ~b.fuPending THEN b ELSE AppendFuA(b, n)
  OBVIOUS
<1>4. CASE HasNalu(c)
  <2>1. /\ b \in Ctx /\ b.fuPending = TRUE /\ b.fuCount = 0 /\ b.pending = 0
        /\ b.fuNalu.packets = <<0>> /\ b.fuNalu.missing = extra + c.pending
        /\ b.auItem = c.auItem /\ b.nalus = c.nalus
    BY <1>1, <1>2, <1>4, BeginFields
  <2>2. d = AppendFuA(b, n)
    BY <1>3, <2>1
  <2>3. /\ d \in Ctx /\ d.fuPending /\ d.fuCount = 1 /\ d.pending = 0
        /\ d.fuNalu.packets = Shape(n, n) /\ d.fuNalu.packets # <<>>
        /\ d.fuNalu.missing = extra + c.pending
        /\ d.auItem = c.auItem /\ d.nalus = c.nalus
    <3>1. /\ d \in Ctx /\ d.fuCount = b.fuCount + 1
          /\ d.fuNalu.packets = Append(b.fuNalu.packets, n)
          /\ d.fuNalu.missing = b.fuNalu.missing
          /\ d.auItem = b.auItem /\ d.nalus = b.nalus
          /\ d.fuPending = b.fuPending /\ d.pending = b.pending
      BY <1>1, <2>1, <2>2, AppendFields
    <3>2. Append(<<0>>, n) = Shape(n, n) /\ Shape(n, n) # <<>>
      BY <1>1, ShapeLemma
    <3>3. QED  BY <2>1, <3>1, <3>2
  <2>4. Start(d, n) = n
    BY <1>1, <2>3 DEF Start
  <2>5. W(out, d) = W(out, c)
    BY <1>1, <2>3, WFacts
  <2>6. FuOK(d)
    <3>1. d.fuNalu # NoNalu
      <4>1. NoNalu.packets = <<>>
        BY DEF NoNalu, Nalu
      <4>2. QED  BY <2>3, <4>1
    <3>2. c.fuNalu = NoNalu
      BY DEF Ready, FuOK
    <3>3. Len(c.nalus) + 0 < NaluCapacity /\ NaluCapacity \in Nat
      BY <1>4, <3>2, DepayAssumption DEF HasNalu
    <3>4. Len(d.nalus) + 1 <= NaluCapacity
      BY <1>1, <2>3, <3>3
    <3>5. QED  BY <2>3, <3>1, <3>4 DEF FuOK
  <2>7. ASSUME NEW x, EndsAt(W(out, d), x)
        PROVE  Accounted(d, rf, x, n, n, 0)
    <3>1. Accounted(c, rf, x, e, n - 1, extra) /\ x \in Nat /\ n - 1 + 1 = n
      <4>1. EndsAt(W(out, c), x)
        BY <2>5, <2>7
      <4>2. x \in Nat
        BY <4>1, ReadyTypes
      <4>3. Accounted(c, rf, x, e, n - 1, extra)
        BY <4>1 DEF Ready
      <4>4. QED  BY <1>1, <4>2, <4>3
    <3>2. x <= e /\ (Skipped(x, n, rf) => c.pending + extra > 0)
      BY <3>1 DEF Accounted
    <3>3. x <= n /\ x < n
      BY <1>1, <3>1, <3>2
    <3>4. Skipped(x, n, rf) => d.fuNalu.missing > 0
      BY <1>1, <2>3, <3>2
    <3>5. QED  BY <2>3, <2>4, <3>3, <3>4 DEF Accounted
  <2>8. Ready(st, rf, out, d, n, n, 0)
    BY <1>1, <2>3, <2>5, <2>6, <2>7 DEF Ready
  <2>9. Frag(st, d, n, st[n].ts)
    <3>1. 1 \in 1 .. n /\ n + 1 .. n = {} /\ \A j \in n .. n : j = n
      BY <1>1
    <3>2. QED  BY <2>3, <2>4, <3>1 DEF Frag
  <2>10. QED  BY <1>2, <1>3, <2>3, <2>5, <2>8, <2>9 DEF Stage
<1>5. CASE ~HasNalu(c)
  <2>1. b = [c EXCEPT !.pending = @ + 1]
    BY <1>2, <1>5 DEF BeginFuA
  <2>2. /\ Ready(st, rf, out, b, n, n, 0) /\ W(out, b) = W(out, c)
        /\ ~b.fuPending /\ b.auItem = c.auItem
    BY <1>1, <2>1, NoItemReady
  <2>3. d = b
    BY <1>3, <2>2
  <2>4. QED  BY <1>2, <1>3, <2>2, <2>3 DEF Stage
<1>6. QED  BY <1>4, <1>5

(* The incomplete NALU of d is that of c with packet n; the NALU made when *)
(* n is the last one has all of them.                                      *)
Extended(c, d, n) ==
    /\ d.fuCount = c.fuCount + 1
    /\ d.fuNalu.packets = Append(c.fuNalu.packets, n)

Completed(c, nalu, n) == nalu.packets = Tail(Append(c.fuNalu.packets, n))

(* The last fragment arrives: the NALU is made of all its packets.         *)
LEMMA FinishedNalu ==
    ASSUME NEW st \in Seq(Packets), NEW c \in Ctx, NEW n \in DOMAIN st,
           NEW e \in Nat, e = n - 1, Frag(st, c, e, st[n].ts), st[n].kind = "end",
           NEW nalu \in NaluSet, Completed(c, nalu, n)
    PROVE  /\ Good(st, nalu)
           /\ First(nalu) = Start(c, e) /\ Final(nalu) = n
           /\ Ts(st, nalu) = st[n].ts
<1>1. PICK h : h = Start(c, e)
  OBVIOUS
<1>3. /\ n \in Nat /\ c.fuCount \in 1 .. e /\ e \in DOMAIN st
      /\ c.fuNalu.packets = Shape(h, e)
      /\ st[h].kind = "start"
      /\ \A j \in h + 1 .. e : st[j].kind = "mid"
      /\ \A j \in h .. e : st[j].ts = st[n].ts
  BY <1>1 DEF Frag
<1>4. h \in Nat /\ h >= 1 /\ h <= e /\ e + 1 = n /\ h < n /\ h <= n
  <2>1. c.fuCount \in Nat /\ c.fuCount >= 1 /\ c.fuCount <= e
    BY <1>3
  <2>2. h = e - c.fuCount + 1
    BY <1>1 DEF Start
  <2>3. QED  BY <1>3, <2>1, <2>2
<1>5. nalu.packets = Run(h, n)
  <2>1. Append(Shape(h, e), e + 1) = Shape(h, e + 1)
    BY <1>4, ShapeLemma
  <2>2. Tail(Shape(h, n)) = Run(h, n)
    BY <1>3, <1>4, ShapeLemma
  <2>3. nalu.packets = Tail(Append(Shape(h, e), n))
    BY <1>3 DEF Completed
  <2>4. QED  BY <1>4, <2>1, <2>2, <2>3
<1>8. MadeOf(st, nalu, h, n)
  <2>1. h \in DOMAIN st
    BY <1>3, <1>4
  <2>2. \A j \in h .. n : j = n \/ j \in h .. e
    BY <1>3, <1>4
  <2>3. st[h].ts = st[n].ts /\ n - 1 = e
    BY <1>3, <1>4
  <2>4. \A j \in h .. n : st[j].ts = st[h].ts
    BY <1>3, <2>2, <2>3
  <2>5. QED  BY <1>3, <1>4, <1>5, <2>1, <2>3, <2>4 DEF MadeOf
<1>9. First(nalu) = h /\ Final(nalu) = n
  BY <1>3, <1>4, <1>8, GoodEnds
<1>10. Good(st, nalu)
  BY <1>3, <1>4, <1>5, <1>8 DEF Good
<1>11. Ts(st, nalu) = st[n].ts
  BY <1>3, <1>4, <1>9 DEF Ts
<1>12. QED  BY <1>1, <1>5, <1>9, <1>10, <1>11

(* What an incomplete NALU is after one more fragment.                     *)
LEMMA MoreFrag ==
    ASSUME NEW st \in Seq(Packets), NEW c \in Ctx, NEW n \in DOMAIN st, NEW e \in Nat, e = n - 1,
           NEW t, Frag(st, c, e, t), st[n].ts = t, NEW d, Extended(c, d, n)
    PROVE  /\ Start(d, n) = Start(c, e) /\ d.fuNalu.packets # <<>>
           /\ Start(c, e) \in Nat /\ Start(c, e) <= e
           /\ st[n].kind = "mid" => Frag(st, d, n, t)
<1>1. PICK h : h = Start(c, e)
  OBVIOUS
<1>2. /\ d.fuCount = c.fuCount + 1
      /\ d.fuNalu.packets = Append(c.fuNalu.packets, n)
  BY DEF Extended
<1>3. /\ n \in Nat /\ c.fuCount \in 1 .. e /\ e \in DOMAIN st
      /\ c.fuNalu.packets = Shape(h, e)
      /\ st[h].kind = "start"
      /\ \A j \in h + 1 .. e : st[j].kind = "mid"
      /\ \A j \in h .. e : st[j].ts = t
  BY <1>1 DEF Frag
<1>4. h \in Nat /\ h >= 1 /\ h <= e /\ e + 1 = n /\ h <= n
  BY <1>1, <1>3 DEF Start
<1>5. d.fuNalu.packets = Shape(h, n) /\ Shape(h, n) # <<>>
  <2>1. Append(Shape(h, e), e + 1) = Shape(h, e + 1)
    BY <1>4, ShapeLemma
  <2>2. Shape(h, n) # <<>>
    BY <1>3, <1>4, ShapeLemma
  <2>3. QED  BY <1>2, <1>3, <1>4, <2>1, <2>2
<1>6. Start(d, n) = h
  BY <1>1, <1>2, <1>3, <1>4 DEF Start
<1>7. ASSUME st[n].kind = "mid" PROVE Frag(st, d, n, t)
  <2>1. \A j \in h + 1 .. n : j = n \/ j \in h + 1 .. e
    BY <1>3, <1>4
  <2>2. \A j \in h .. n : j = n \/ j \in h .. e
    BY <1>3, <1>4
  <2>3. d.fuCount \in 1 .. n
    BY <1>2, <1>3, <1>4
  <2>4. QED  BY <1>3, <1>5, <1>6, <1>7, <2>1, <2>2, <2>3 DEF Frag
<1>8. QED  BY <1>1, <1>4, <1>5, <1>6, <1>7

(* It is the turn of packet n.                                             *)
Turn(st, rf, out, c, e, extra, n, kind, t) ==
    /\ n \in DOMAIN st /\ kind = st[n].kind /\ t = st[n].ts
    /\ Stage(st, rf, out, c, e, n - 1, extra, t)
    /\ kind \in {"mid", "end"} => st[n - 1].kind \in {"start", "mid"}

(* The next fragment of the NALU, or one that is of no use.                *)
LEMMA MoreStage ==
    ASSUME NEW st \in Seq(Packets), NEW rf, NEW out, NEW c, NEW e, NEW extra,
           NEW n, NEW kind, NEW t, Turn(st, rf, out, c, e, extra, n, kind, t),
           kind \in {"mid", "end"}
    PROVE  LET d == FuA(c, n, kind, extra)
           IN  /\ Stage(st, rf, out, d, n, n, 0, t) /\ d.auItem = c.auItem
               /\ kind = "end" => ~d.fuPending
<1> n \in DOMAIN st
  BY DEF Turn
<1>0. /\ Stage(st, rf, out, c, e, n - 1, extra, st[n].ts)
      /\ kind = st[n].kind /\ t = st[n].ts
      /\ st[n].kind \in {"mid", "end"} /\ st[n - 1].kind \in {"start", "mid"}
  BY DEF Turn
<1>1. Ready(st, rf, out, c, e, n - 1, extra) /\ AtTime(st, W(out, c), st[n].ts)
  BY <1>0 DEF Stage
<1>2. /\ c \in Ctx /\ out \in Seq(Unit) /\ c.pending \in Nat /\ extra \in Nat
      /\ c.fuCount \in Nat /\ n \in Nat /\ n - 1 \in Nat /\ n - 1 <= n /\ n <= n
      /\ e \in Nat /\ e <= n - 1 /\ 0 \in Nat /\ 1 \in Nat /\ Len(c.nalus) \in Nat
      /\ n - 1 + 1 = n
  BY <1>1, ReadyTypes
<1>3. PICK d : d = FuA(c, n, st[n].kind, extra)
  OBVIOUS
<1>4. CASE extra + c.pending > 0
  <2>1. PICK one \in Nat : one = 1
    BY <1>2
  <2>2. PICK b : b = AbandonFuA(c, one)
    OBVIOUS
  <2>3. c.fuPending => c.fuCount > 0
    BY <1>0, <1>2 DEF Stage, Frag
  <2>4. /\ Ready(st, rf, out, b, e, n - 1, extra) /\ W(out, b) = W(out, c)
        /\ ~b.fuPending /\ b.auItem = c.auItem /\ b.pending > 0
    BY <1>1, <2>1, <2>2, <2>3, AbandonReady
  <2>5. Ready(st, rf, out, b, n, n, 0)
    BY <1>2, <2>4, UselessReady
  <2>6. d = b
    BY <1>0, <1>3, <1>4, <2>1, <2>2, <2>4 DEF FuA
  <2>7. QED  BY <1>0, <1>1, <1>3, <2>4, <2>5, <2>6 DEF Stage
<1>5. CASE ~(extra + c.pending > 0) /\ ~c.fuPending
  <2>1. d = c
    BY <1>0, <1>3, <1>5 DEF FuA
  <2>2. ASSUME NEW x, EndsAt(W(out, c), x), Skipped(x, n + 1, rf)
        PROVE  c.pending > 0
    <3>1. Accounted(c, rf, x, e, n - 1, extra)
      BY <1>1, <2>2 DEF Ready
    <3>2. x \in Nat /\ st[x].kind \in {"single", "stap", "end"}
      BY <1>1, <2>2, ReadyTypes
    <3>3. x <= n - 1 /\ ~Skipped(x, n, rf)
      BY <1>2, <1>5, <3>1, <3>2 DEF Accounted
    <3>4. x # n - 1
      BY <1>0, <3>2
    <3>5. x + 1 < n
      BY <1>2, <3>2, <3>3, <3>4
    <3>6. PICK y \in x + 1 .. n - 1 : y \in rf
      BY <3>3, <3>5 DEF Skipped
    <3>7. y \in x + 1 .. n + 1 - 1
      BY <1>2, <3>2, <3>6
    <3>8. QED  BY <2>2, <3>6, <3>7 DEF Skipped
  <2>3. Ready(st, rf, out, c, n, n, 0)
    BY <1>1, <1>2, <1>5, <2>2, UselessReady
  <2>4. QED  BY <1>0, <1>1, <1>3, <1>5, <2>1, <2>3 DEF Stage
<1>6. CASE ~(extra + c.pending > 0) /\ c.fuPending
  <2>1. e = n - 1
    BY <1>1, <1>2, <1>6 DEF Ready
  <2>2. Frag(st, c, n - 1, st[n].ts)
    BY <1>0, <1>6, <2>1 DEF Stage
  <2>3. PICK b : b = AppendFuA(c, n)
    OBVIOUS
  <2>4. /\ b \in Ctx /\ b.fuCount = c.fuCount + 1
        /\ b.fuNalu.packets = Append(c.fuNalu.packets, n)
        /\ b.fuNalu.missing = c.fuNalu.missing
        /\ b.auItem = c.auItem /\ b.nalus = c.nalus
        /\ b.fuPending = c.fuPending /\ b.pending = c.pending
    BY <1>2, <2>3, AppendFields
  <2>5. PICK h : h = Start(c, n - 1)
    OBVIOUS
  <2>6. /\ Start(b, n) = h /\ b.fuNalu.packets # <<>> /\ h \in Nat /\ h <= n - 1
        /\ st[n].kind = "mid" => Frag(st, b, n, st[n].ts)
    <3>1. PICK time : time = st[n].ts
      OBVIOUS
    <3>2. c \in Ctx /\ e \in Nat /\ e = n - 1 /\ Frag(st, c, e, time)
      BY <1>2, <2>1, <2>2, <3>1
    <3>3. Extended(c, b, n)
      BY <2>4 DEF Extended
    <3>4. /\ Start(b, n) = Start(c, e) /\ b.fuNalu.packets # <<>>
          /\ Start(c, e) \in Nat /\ Start(c, e) <= e
          /\ st[n].kind = "mid" => Frag(st, b, n, time)
      BY <3>1, <3>2, <3>3, MoreFrag
    <3>5. QED  BY <2>1, <2>5, <3>1, <3>4
  <2>7. ASSUME NEW x, EndsAt(W(out, c), x)
        PROVE  /\ x \in Nat /\ x < h
               /\ Skipped(x, h, rf) => c.fuNalu.missing > 0
    <3>1. Accounted(c, rf, x, e, n - 1, extra)
      BY <1>1, <2>7 DEF Ready
    <3>2. x \in Nat
      BY <1>1, <2>7, ReadyTypes
    <3>3. QED  BY <1>6, <2>1, <2>5, <3>1, <3>2 DEF Accounted
  <2>8. CASE st[n].kind = "mid"
    <3>1. d = b
      BY <1>3, <1>6, <2>3, <2>8 DEF FuA
    <3>2. W(out, b) = W(out, c)
      BY <1>2, <2>4, WFacts
    <3>3. FuOK(b)
      <4>1. NoNalu.packets = <<>>
        BY DEF NoNalu, Nalu
      <4>2. b.fuNalu # NoNalu
        BY <2>6, <4>1
      <4>3. Len(b.nalus) + (IF b.fuPending THEN 1 ELSE 0) <= NaluCapacity
        BY <1>1, <2>4 DEF Ready, FuOK
      <4>4. QED  BY <1>6, <2>4, <4>2, <4>3 DEF FuOK
    <3>4. ASSUME NEW x, EndsAt(W(out, b), x)
          PROVE  Accounted(b, rf, x, n, n, 0)
      <4>1. /\ x \in Nat /\ x < h /\ x <= n
            /\ Skipped(x, h, rf) => c.fuNalu.missing > 0
        <5>1. EndsAt(W(out, c), x)
          BY <3>2, <3>4
        <5>2. /\ x \in Nat /\ x < h
              /\ Skipped(x, h, rf) => c.fuNalu.missing > 0
          BY <2>7, <5>1
        <5>3. QED  BY <1>2, <2>6, <5>2
      <4>2. QED  BY <1>6, <2>4, <2>6, <4>1 DEF Accounted
    <3>5. Ready(st, rf, out, b, n, n, 0)
      BY <1>1, <1>2, <2>4, <3>2, <3>3, <3>4 DEF Ready
    <3>6. QED  BY <1>0, <1>1, <1>3, <2>4, <2>6, <2>8, <3>1, <3>2, <3>5 DEF Stage
  <2>9. CASE st[n].kind = "end"
    <3>1. PICK nalu : nalu = [b.fuNalu EXCEPT !.packets = Tail(@)]
      OBVIOUS
    <3>3. /\ nalu \in NaluSet /\ nalu.missing = c.fuNalu.missing
          /\ nalu.packets = Tail(Append(c.fuNalu.packets, n))
      <4>1. PICK g \in NaluSet : g = b.fuNalu
        BY <2>4 DEF Ctx
      <4>2. g.packets \in Seq(Nat) /\ g.packets # <<>>
        BY <2>6, <4>1 DEF NaluSet
      <4>3. PICK q \in Seq(Nat) : q = Tail(g.packets)
        <5>1. PICK s \in Seq(Nat) : s = g.packets /\ s # <<>>
          BY <4>2
        <5>2. Tail(s) \in Seq(Nat)
          BY <5>1, HeadTailProperties
        <5>3. QED  BY <5>1, <5>2
      <4>4. nalu = [g EXCEPT !.packets = q]
        BY <3>1, <4>1, <4>3
      <4>5. nalu \in NaluSet /\ nalu.packets = q /\ nalu.missing = g.missing
        BY <4>4 DEF NaluSet
      <4>6. QED  BY <2>4, <4>1, <4>3, <4>5
    <3>2. /\ Good(st, nalu) /\ First(nalu) = h /\ Final(nalu) = n
          /\ Ts(st, nalu) = st[n].ts
      <4>1. c \in Ctx /\ e \in Nat /\ e = n - 1 /\ Frag(st, c, e, st[n].ts)
        BY <1>2, <2>1, <2>2
      <4>2. /\ Good(st, nalu)
            /\ First(nalu) = Start(c, e) /\ Final(nalu) = n
            /\ Ts(st, nalu) = st[n].ts
        <5>1. nalu \in NaluSet /\ Completed(c, nalu, n)
          BY <3>3 DEF Completed
        <5>2. QED  BY <2>9, <4>1, <5>1, FinishedNalu
      <4>3. QED  BY <2>1, <2>5, <4>2
    <3>4. PICK a : a = EnqueueNalu(b, nalu)
      OBVIOUS
    <3>5. a \in Ctx /\ a.nalus = Append(c.nalus, nalu) /\ a.auItem = c.auItem
      <4>1. a \in Ctx /\ a.nalus = Append(b.nalus, nalu) /\ a.auItem = b.auItem
        BY <2>4, <3>3, <3>4, EnqueueFields
      <4>2. QED  BY <2>4, <4>1
    <3>6. PICK f : f = DropFuA(a)
      OBVIOUS
    <3>7. /\ f \in Ctx /\ f.nalus = Append(c.nalus, nalu) /\ f.auItem = c.auItem
          /\ f.fuPending = FALSE /\ f.fuNalu = NoNalu
      BY <3>5, <3>6, DropFields
    <3>8. d = f
      <4>1. FinishFuA(b) = f
        BY <3>1, <3>4, <3>6 DEF FinishFuA
      <4>2. QED  BY <1>3, <1>6, <2>3, <2>9, <4>1 DEF FuA
    <3>9. FuOK(f)
      <4>1. Len(f.nalus) = Len(c.nalus) + 1
        <5>1. c.nalus \in Seq(NaluSet)
          BY <1>2 DEF Ctx
        <5>2. QED  BY <5>1, <3>3, <3>7, AppendSeq
      <4>2. Len(c.nalus) + 1 <= NaluCapacity /\ NaluCapacity \in Nat
        BY <1>1, <1>6, DepayAssumption DEF Ready, FuOK
      <4>3. Len(f.nalus) + 0 <= NaluCapacity
        BY <1>2, <4>1, <4>2
      <4>4. (IF f.fuPending THEN 1 ELSE 0) = 0
        BY <3>7
      <4>5. QED  BY <3>7, <4>3, <4>4 DEF FuOK
    <3>10. st[n].ts \in Nat
      <4>1. st[n] \in Packets
        OBVIOUS
      <4>2. QED  BY <4>1 DEF Packets
    <3>11. \A x : EndsAt(W(out, c), x) /\ Skipped(x, First(nalu), rf) => nalu.missing > 0
      BY <2>7, <3>2, <3>3
    <3>14. ASSUME NEW x, EndsAt(W(out, c), x) PROVE After(st, x, First(nalu))
      <4>1. x < h /\ First(nalu) = h
        BY <2>7, <3>2, <3>14
      <4>2. QED  BY <4>1 DEF After
    <3>12. Ready(st, rf, out, f, n, n, 0) /\ AtTime(st, W(out, f), st[n].ts)
      <4>1. PICK time \in Nat : time = st[n].ts
        BY <3>10
      <4>2. AtTime(st, W(out, c), time) /\ Good(st, nalu) /\ Ts(st, nalu) = time
        BY <1>1, <3>2, <4>1
      <4>3. n \in Nat /\ n = Final(nalu)
        BY <1>2, <3>2
      <4>4. f \in Ctx /\ f.nalus = Append(c.nalus, nalu) /\ ~f.fuPending /\ FuOK(f)
        BY <3>7, <3>9
      <4>5. Ready(st, rf, out, f, n, n, 0) /\ AtTime(st, W(out, f), time)
        BY <1>1, <3>11, <3>14, <4>2, <4>3, <4>4, EnqueueReady
      <4>6. QED  BY <4>1, <4>5
    <3>13. QED  BY <1>0, <1>3, <3>7, <3>8, <3>12 DEF Stage
  <2>10. QED  BY <1>0, <2>8, <2>9
<1>7. QED  BY <1>4, <1>5, <1>6

(* What the depayloader does with the payload of a packet.                 *)
LEMMA PayloadStage ==
    ASSUME NEW st \in Seq(Packets), NEW rf, NEW out, NEW c, NEW e, NEW extra,
           NEW n, NEW kind, NEW t, Turn(st, rf, out, c, e, extra, n, kind, t)
    PROVE  LET d == Payload(c, n, kind, extra)
           IN  /\ Stage(st, rf, out, d, n, n, 0, t) /\ d.auItem = c.auItem
               /\ kind \notin {"start", "mid"} => ~d.fuPending
<1> n \in DOMAIN st
  BY DEF Turn
<1>0. Stage(st, rf, out, c, e, n - 1, extra, st[n].ts) /\ kind = st[n].kind /\ t = st[n].ts
  BY DEF Turn
<1>1. Ready(st, rf, out, c, e, n - 1, extra) /\ AtTime(st, W(out, c), st[n].ts)
  BY <1>0 DEF Stage
<1>2. c.pending \in Nat /\ c.fuCount \in Nat /\ 0 \in Nat
  BY <1>1, ReadyTypes
<1>3. PICK d : d = Payload(c, n, st[n].kind, extra)
  OBVIOUS
<1>4. PICK b : b = DropPrevious(c)
  OBVIOUS
<1>5. /\ Ready(st, rf, out, b, e, n - 1, extra) /\ AtTime(st, W(out, b), st[n].ts)
      /\ ~b.fuPending /\ b.auItem = c.auItem
  <2>1. CASE c.fuPending
    <3>1. PICK k \in Nat : k = 0
      BY <1>2
    <3>2. PICK a : a = AbandonFuA(c, k)
      OBVIOUS
    <3>3. c.fuCount > 0
      BY <1>0, <1>2, <2>1 DEF Stage, Frag
    <3>4. /\ Ready(st, rf, out, a, e, n - 1, extra) /\ W(out, a) = W(out, c)
          /\ ~a.fuPending /\ a.auItem = c.auItem
      BY <1>1, <3>2, <3>3, AbandonReady
    <3>5. b = a
      BY <1>4, <2>1, <3>1, <3>2 DEF DropPrevious
    <3>6. QED  BY <1>1, <3>4, <3>5
  <2>2. CASE ~c.fuPending
    BY <1>1, <1>4, <2>2 DEF DropPrevious
  <2>3. QED  BY <2>1, <2>2
<1>6. CASE st[n].kind = "single"
  <2>1. d = Single(b, n, extra)
    BY <1>3, <1>4, <1>6 DEF Payload
  <2>2. /\ Stage(st, rf, out, d, n, n, 0, st[n].ts)
        /\ ~d.fuPending /\ d.auItem = b.auItem
    BY <1>5, <1>6, <2>1, SingleStage
  <2>3. QED  BY <1>0, <1>3, <1>5, <2>2
<1>7. CASE st[n].kind = "stap"
  <2>1. d = StapA(b, n, extra)
    BY <1>3, <1>4, <1>7 DEF Payload
  <2>2. /\ Stage(st, rf, out, d, n, n, 0, st[n].ts)
        /\ ~d.fuPending /\ d.auItem = b.auItem
    BY <1>5, <1>7, <2>1, StapStage
  <2>3. QED  BY <1>0, <1>3, <1>5, <2>2
<1>8. CASE st[n].kind = "start"
  <2>1. PICK a : a = BeginFuA(b, extra)
    OBVIOUS
  <2>2. d = IF ~a.fuPending THEN a ELSE AppendFuA(a, n)
    <3>1. d = FuA(c, n, "start", extra)
      BY <1>3, <1>8 DEF Payload
    <3>2. QED  BY <1>4, <2>1, <3>1 DEF FuA
  <2>3. Stage(st, rf, out, d, n, n, 0, st[n].ts) /\ d.auItem = b.auItem
    BY <1>5, <1>8, <2>1, <2>2, StartStage
  <2>4. QED  BY <1>0, <1>3, <1>5, <1>8, <2>3
<1>9. CASE st[n].kind \in {"mid", "end"}
  <2>1. d = FuA(c, n, kind, extra)
    BY <1>0, <1>3, <1>9 DEF Payload
  <2>2. /\ Stage(st, rf, out, d, n, n, 0, t) /\ d.auItem = c.auItem
        /\ kind = "end" => ~d.fuPending
    BY <1>0, <1>9, <2>1, MoreStage
  <2>3. QED  BY <1>0, <1>3, <1>9, <2>2
<1>10. st[n].kind \in {"single", "stap", "start", "mid", "end"}
  <2>1. st[n] \in Packets
    OBVIOUS
  <2>2. QED  BY <2>1 DEF Packets, Kinds
<1>11. QED  BY <1>6, <1>7, <1>8, <1>9, <1>10

-----------------------------------------------------------------------------
(* Between the packets.                                                    *)

(* The other fields do not matter.                                         *)
LEMMA SameReady ==
    ASSUME NEW st \in Seq(Packets), NEW rf, NEW out, NEW c, NEW e, NEW upTo, NEW extra,
           Ready(st, rf, out, c, e, upTo, extra),
           NEW d \in Ctx, d.nalus = c.nalus, d.fuPending = c.fuPending,
           d.fuCount = c.fuCount, d.fuNalu = c.fuNalu, d.pending = c.pending
    PROVE  /\ Ready(st, rf, out, d, e, upTo, extra) /\ W(out, d) = W(out, c)
           /\ \A t : Frag(st, c, e, t) => Frag(st, d, e, t)
<1>1. W(out, d) = W(out, c)
  BY ReadyTypes, WFacts
<1>2. FuOK(d) /\ Start(d, e) = Start(c, e)
  BY DEF Ready, FuOK, Start
<1>3. \A x : Accounted(c, rf, x, e, upTo, extra) => Accounted(d, rf, x, e, upTo, extra)
  BY <1>2 DEF Accounted
<1>4. Ready(st, rf, out, d, e, upTo, extra)
  BY <1>1, <1>2, <1>3 DEF Ready
<1>5. QED  BY <1>1, <1>2, <1>4 DEF Frag

(* A packet is sent, and perhaps refused.                                  *)
LEMMA ReadyLonger ==
    ASSUME NEW st \in Seq(Packets), NEW rf, NEW out, NEW c, NEW e, NEW upTo, NEW extra,
           Ready(st, rf, out, c, e, upTo, extra), NEW p \in Packets,
           NEW r, rf \subseteq r
    PROVE  /\ Ready(Append(st, p), r, out, c, e, upTo, extra)
           /\ \A t : Below(st, W(out, c), t) => Below(Append(st, p), W(out, c), t)
           /\ \A t : AtTime(st, W(out, c), t) => AtTime(Append(st, p), W(out, c), t)
           /\ \A t : Frag(st, c, e, t) => Frag(Append(st, p), c, e, t)
<1>1. PICK w : w = W(out, c)
  OBVIOUS
<1>2. PICK a : a = Append(st, p)
  OBVIOUS
<1>3. ListsOK(st, rf, w)
  BY <1>1 DEF Ready
<1>4. /\ ListsOK(a, r, w)
      /\ \A t : Below(st, w, t) => Below(a, w, t)
      /\ \A t : AtTime(st, w, t) => AtTime(a, w, t)
  BY <1>2, <1>3, ListsLonger
<1>5. \A x, y : Skipped(x, y, r) => Skipped(x, y, rf)
  BY DEF Skipped
<1>6. \A x : Accounted(c, rf, x, e, upTo, extra) => Accounted(c, r, x, e, upTo, extra)
  BY <1>5 DEF Accounted
<1>7. Ready(a, r, out, c, e, upTo, extra)
  BY <1>1, <1>4, <1>6 DEF Ready
<1>8. ASSUME NEW t, Frag(st, c, e, t) PROVE Frag(a, c, e, t)
  <2>1. DOMAIN st = 1 .. Len(st) /\ Len(st) \in Nat
    OBVIOUS
  <2>2. /\ DOMAIN a = 1 .. Len(st) + 1 /\ \A j \in 1 .. Len(st) : a[j] = st[j]
    BY <1>2, AppendSeq
  <2>3. c.fuCount \in 1 .. e /\ e \in 1 .. Len(st)
    BY <1>8, <2>1 DEF Frag
  <2>4. /\ Start(c, e) \in 1 .. Len(st) /\ e \in DOMAIN a
        /\ \A j \in Start(c, e) .. e : j \in 1 .. Len(st)
        /\ \A j \in Start(c, e) + 1 .. e : j \in 1 .. Len(st)
    BY <2>1, <2>2, <2>3 DEF Start
  <2>5. QED  BY <1>8, <2>2, <2>4 DEF Frag
<1>9. QED  BY <1>1, <1>2, <1>4, <1>7, <1>8

(* The access unit is handed on and another one begins.                    *)
LEMMA NextUnit ==
    ASSUME NEW st \in Seq(Packets), NEW rf, NEW out, NEW c, NEW e, NEW upTo, NEW extra,
           Ready(st, rf, out, c, e, upTo, extra), ~c.fuPending,
           NEW u \in Unit, u.nalus = c.nalus,
           NEW d \in Ctx, d.nalus = <<>>, ~d.fuPending, d.fuNalu = NoNalu,
           d.pending = c.pending
    PROVE  /\ Ready(st, rf, Append(out, u), d, e, upTo, extra)
           /\ W(Append(out, u), d) = Open(W(out, c))
           /\ Append(out, u) \in Seq(Unit)
           /\ \A t : Below(st, W(out, c), t) =>
                  /\ AtTime(st, W(Append(out, u), d), t)
                  /\ Below(st, W(Append(out, u), d), t)
<1>1. /\ out \in Seq(Unit) /\ c \in Ctx /\ ListsOK(st, rf, W(out, c))
  BY DEF Ready
<1>2. PICK o : o = Append(out, u)
  OBVIOUS
<1>3. /\ o \in Seq(Unit) /\ Len(out) \in Nat /\ Len(o) = Len(out) + 1
      /\ o[Len(out) + 1] = u /\ \A k \in 1 .. Len(out) : o[k] = out[k]
  BY <1>1, <1>2, AppendSeq
<1>4. PICK w : w = W(out, c)
  OBVIOUS
<1>5. W(o, d) = Open(w)
  <2>1. w \in Lists /\ Len(w) = Len(out) + 1 /\ w[Len(out) + 1] = c.nalus
        /\ \A i \in 1 .. Len(out) : w[i] = out[i].nalus
    BY <1>1, <1>4, WFacts
  <2>2. /\ W(o, d) \in Lists /\ Len(W(o, d)) = Len(o) + 1 /\ W(o, d)[Len(o) + 1] = <<>>
        /\ \A i \in 1 .. Len(o) : W(o, d)[i] = o[i].nalus
    BY <1>3, WFacts
  <2>3. PICK S : S = Seq(NaluSet)
    OBVIOUS
  <2>4. PICK x \in S : x = <<>>
    <3>1. <<>> \in Seq(NaluSet)
      OBVIOUS
    <3>2. QED  BY <2>3, <3>1
  <2>5. w \in Seq(S) /\ Open(w) = Append(w, x)
    BY <2>1, <2>3, <2>4 DEF Open, Lists
  <2>6. /\ Open(w) \in Seq(S) /\ Len(Open(w)) = Len(w) + 1
        /\ Open(w)[Len(w) + 1] = x /\ \A k \in 1 .. Len(w) : Open(w)[k] = w[k]
    BY <2>5, AppendSeq
  <2>7. PICK v \in Seq(S) : v = W(o, d)
    BY <2>2, <2>3 DEF Lists
  <2>8. PICK z \in Seq(S) : z = Open(w)
    BY <2>6
  <2>9. Len(v) = Len(z)
    BY <1>3, <2>1, <2>2, <2>6, <2>7, <2>8
  <2>10. ASSUME NEW i \in 1 .. Len(v) PROVE v[i] = z[i]
    <3>1. CASE i = Len(out) + 2
      BY <3>1, <1>3, <2>1, <2>2, <2>4, <2>6, <2>7, <2>8
    <3>2. CASE i = Len(out) + 1
      <4>1. v[i] = u.nalus
        BY <3>2, <1>3, <2>2, <2>7
      <4>2. z[i] = c.nalus
        BY <3>2, <1>3, <2>1, <2>6, <2>8
      <4>3. QED  BY <4>1, <4>2
    <3>3. CASE i \in 1 .. Len(out)
      <4>1. i \in 1 .. Len(o) /\ i \in 1 .. Len(w) /\ o[i] = out[i]
        BY <3>3, <1>3, <2>1
      <4>2. v[i] = out[i].nalus
        BY <2>2, <2>7, <4>1
      <4>3. z[i] = w[i] /\ w[i] = out[i].nalus
        BY <3>3, <2>1, <2>6, <2>8, <4>1
      <4>4. QED  BY <4>2, <4>3
    <3>4. QED  BY <3>1, <3>2, <3>3, <1>3, <2>2, <2>7
  <2>11. v = z
    BY <2>9, <2>10
  <2>12. QED  BY <2>7, <2>8, <2>11
<1>6. /\ ListsOK(st, rf, Open(w))
      /\ \A t : Below(st, w, t) => AtTime(st, Open(w), t) /\ Below(st, Open(w), t)
      /\ \A x : EndsAt(Open(w), x) => EndsAt(w, x)
  BY <1>1, <1>4, OpenLemma
<1>7. ASSUME NEW x, EndsAt(W(o, d), x)
      PROVE  Accounted(d, rf, x, e, upTo, extra)
  <2>1. Accounted(c, rf, x, e, upTo, extra)
    BY <1>4, <1>5, <1>6, <1>7 DEF Ready
  <2>2. QED  BY <2>1 DEF Accounted
<1>8. FuOK(d)
  <2>1. Len(d.nalus) = 0 /\ (IF d.fuPending THEN 1 ELSE 0) = 0
    OBVIOUS
  <2>2. 0 + 0 <= NaluCapacity
    BY DepayAssumption
  <2>3. Len(d.nalus) + (IF d.fuPending THEN 1 ELSE 0) <= NaluCapacity
    BY <2>1, <2>2
  <2>4. QED  BY <2>3 DEF FuOK
<1>9. Ready(st, rf, o, d, e, upTo, extra)
  BY <1>3, <1>4, <1>5, <1>6, <1>7, <1>8 DEF Ready
<1>10. QED  BY <1>2, <1>3, <1>4, <1>5, <1>6, <1>9

-----------------------------------------------------------------------------
(* The inductive invariant.                                                *)

(* Packets up to upTo have been sent, and one is about to be processed.    *)
Arrived(st, rf, out, c, e, upTo, extra, prevTs, sent) ==
    /\ Ready(st, rf, out, c, e, upTo, extra)
    /\ c.fuPending => Frag(st, c, e, prevTs)
    /\ IF c.auItem = "none"
       THEN c.nalus = <<>> /\ ~c.fuPending /\ Below(st, W(out, c), sent)
       ELSE prevTs > 0 /\ AtTime(st, W(out, c), prevTs)

(* Between two packets: the next one is of time sent.                      *)
Resting(st, rf, out, c, sent) ==
    /\ st \in Seq(Packets) /\ rf \subseteq 1 .. Len(st)
    /\ sent \in Nat /\ sent > 0
    /\ c.prevSeq <= Len(st) /\ c.prevTs <= sent
    /\ Arrived(st, rf, out, c, c.prevSeq, c.prevSeq, 0, c.prevTs, sent)

Inv == Resting(stream, refused, output, ctx, SentTs)

(* What is missing before packet n, and the context that is given to it.   *)
MissingBefore(c, n) == IF c.prevSeq = 0 THEN 0 ELSE n - c.prevSeq - 1 + c.pending

Taken(c) == IF c.prevSeq = 0 THEN c ELSE [c EXCEPT !.pending = 0]

LEMMA ArrivedLonger ==
    ASSUME NEW st \in Seq(Packets), NEW rf, NEW out, NEW c, NEW e, NEW upTo, NEW extra,
           NEW prevTs, NEW sent, Arrived(st, rf, out, c, e, upTo, extra, prevTs, sent),
           NEW p \in Packets, NEW r, rf \subseteq r
    PROVE  Arrived(Append(st, p), r, out, c, e, upTo, extra, prevTs, sent)
<1>1. Ready(st, rf, out, c, e, upTo, extra)
  BY DEF Arrived
<1>2. PICK a : a = Append(st, p)
  OBVIOUS
<1>3. PICK w : w = W(out, c)
  OBVIOUS
<1>4. /\ Ready(a, r, out, c, e, upTo, extra)
      /\ \A t : Below(st, w, t) => Below(a, w, t)
      /\ \A t : AtTime(st, w, t) => AtTime(a, w, t)
      /\ \A t : Frag(st, c, e, t) => Frag(a, c, e, t)
  BY <1>1, <1>2, <1>3, ReadyLonger
<1>5. Arrived(a, r, out, c, e, upTo, extra, prevTs, sent)
  BY <1>3, <1>4 DEF Arrived
<1>6. QED  BY <1>2, <1>5

LEMMA TakenArrived ==
    ASSUME NEW st, NEW rf, NEW out, NEW c, NEW sent, Resting(st, rf, out, c, sent),
           NEW u \in Nat, u = Len(st), NEW n, n = u + 1
    PROVE  /\ Arrived(st, rf, out, Taken(c), c.prevSeq, u, MissingBefore(c, n),
                      c.prevTs, sent)
           /\ Taken(c).auItem = c.auItem /\ MissingBefore(c, n) \in Nat
<1>1. PICK e : e = c.prevSeq
  OBVIOUS
<1>2. PICK prevTs : prevTs = c.prevTs
  OBVIOUS
<1>3. /\ st \in Seq(Packets) /\ e <= u
      /\ Arrived(st, rf, out, c, e, e, 0, prevTs, sent)
  BY <1>1, <1>2 DEF Resting
<1>4. Ready(st, rf, out, c, e, e, 0)
  BY <1>3 DEF Arrived
<1>5. /\ out \in Seq(Unit) /\ c \in Ctx /\ e \in Nat /\ c.pending \in Nat
      /\ c.fuPending \in BOOLEAN /\ c.fuCount \in Nat
      /\ \A x : EndsAt(W(out, c), x) => x \in Nat /\ x \in DOMAIN st
  BY <1>3, <1>4, ReadyTypes
<1>6. ASSUME NEW x, EndsAt(W(out, c), x)
      PROVE  /\ Accounted(c, rf, x, e, e, 0) /\ x \in Nat /\ x >= 1 /\ x <= e
  <2>1. Accounted(c, rf, x, e, e, 0) /\ x \in Nat /\ x >= 1
    BY <1>3, <1>4, <1>5, <1>6 DEF Ready
  <2>2. QED  BY <2>1 DEF Accounted
<1>7. CASE e = 0
  <2>1. Taken(c) = c /\ MissingBefore(c, n) = 0
    BY <1>1, <1>7 DEF Taken, MissingBefore
  <2>2. ~c.fuPending
    BY <1>3, <1>7 DEF Arrived, Frag
  <2>3. ASSUME NEW x PROVE ~EndsAt(W(out, c), x)
    BY <1>6, <1>7
  <2>4. Ready(st, rf, out, c, e, u, 0)
    BY <1>3, <1>4, <1>5, <2>2, <2>3 DEF Ready
  <2>5. Arrived(st, rf, out, c, e, u, 0, prevTs, sent)
    BY <1>3, <2>4 DEF Arrived
  <2>6. QED  BY <1>1, <1>2, <2>1, <2>5
<1>8. CASE e # 0
  <2>1. PICK extra \in Nat : extra = n - e - 1 + c.pending
    BY <1>3, <1>5
  <2>2. PICK zero \in Nat : zero = 0
    OBVIOUS
  <2>3. PICK b : b = [c EXCEPT !.pending = zero]
    OBVIOUS
  <2>4. Taken(c) = b /\ MissingBefore(c, n) = extra
    BY <1>1, <1>8, <2>1, <2>2, <2>3 DEF Taken, MissingBefore
  <2>5. /\ b \in Ctx /\ b.pending = 0 /\ b.auItem = c.auItem
        /\ b.nalus = c.nalus /\ b.fuPending = c.fuPending
        /\ b.fuCount = c.fuCount /\ b.fuNalu = c.fuNalu
    BY <1>5, <2>2, <2>3, PendingFields
  <2>6. W(out, b) = W(out, c) /\ FuOK(b) /\ Start(b, e) = Start(c, e)
    BY <1>4, <1>5, <2>5, WFacts DEF Ready, FuOK, Start
  <2>7. e < u => extra > 0
    BY <1>5, <2>1
  <2>8. extra >= c.pending
    BY <1>3, <1>5, <2>1
  <2>9. ASSUME NEW x, EndsAt(W(out, b), x)
        PROVE  Accounted(b, rf, x, e, u, extra)
    <3>1. Accounted(c, rf, x, e, e, 0) /\ x <= e /\ x \in Nat
      BY <1>6, <2>6, <2>9
    <3>2. ASSUME ~c.fuPending, Skipped(x, u + 1, rf) PROVE b.pending + extra > 0
      <4>1. CASE e < u
        BY <4>1, <2>5, <2>7
      <4>2. CASE e = u
        <5>1. c.pending + 0 > 0
          BY <4>2, <3>1, <3>2 DEF Accounted
        <5>2. QED  BY <5>1, <1>5, <2>5, <2>8
      <4>3. QED  BY <4>1, <4>2, <1>3, <1>5
    <3>3. QED  BY <2>5, <2>6, <3>1, <3>2 DEF Accounted
  <2>10. Ready(st, rf, out, b, e, u, extra)
    BY <1>3, <1>4, <1>5, <2>5, <2>6, <2>7, <2>9 DEF Ready
  <2>11. \A t : Frag(st, c, e, t) => Frag(st, b, e, t)
    BY <2>5, <2>6 DEF Frag
  <2>12. Arrived(st, rf, out, b, e, u, extra, prevTs, sent)
    BY <1>3, <2>5, <2>6, <2>10, <2>11 DEF Arrived
  <2>13. QED  BY <1>1, <1>2, <2>4, <2>5, <2>12
<1>9. QED  BY <1>7, <1>8

LEMMA AllocateFields ==
    ASSUME NEW c \in Ctx, NEW outcome
    PROVE  LET d == Allocate(AuReset(c), outcome)
           IN  /\ d \in Ctx /\ d.nalus = <<>>
               /\ d.auItem = CASE outcome = "both"   -> "own"
                               [] outcome = "noItem" -> "none"
                               [] OTHER              -> "free"
               /\ d.fuPending = c.fuPending /\ d.fuCount = c.fuCount
               /\ d.fuNalu = c.fuNalu /\ d.pending = c.pending
<1>1. PICK q \in Seq(NaluSet) : q = <<>>
  <2>1. <<>> \in Seq(NaluSet)
    OBVIOUS
  <2>2. QED  BY <2>1
<1>2. PICK a : a = [c EXCEPT !.nalus = q]
  OBVIOUS
<1>3. /\ a \in Ctx /\ a.nalus = q /\ a.fuPending = c.fuPending
      /\ a.fuCount = c.fuCount /\ a.fuNalu = c.fuNalu /\ a.pending = c.pending
  BY <1>2 DEF Ctx
<1>4. PICK item \in {"none", "own", "free"} :
          item = CASE outcome = "both"   -> "own"
                   [] outcome = "noItem" -> "none"
                   [] OTHER              -> "free"
  OBVIOUS
<1>5. PICK d : d = [a EXCEPT !.auItem = item]
  OBVIOUS
<1>6. /\ d \in Ctx /\ d.auItem = item /\ d.nalus = q /\ d.fuPending = c.fuPending
      /\ d.fuCount = c.fuCount /\ d.fuNalu = c.fuNalu /\ d.pending = c.pending
  BY <1>3, <1>5 DEF Ctx
<1>7. AuReset(c) = a
  BY <1>1, <1>2 DEF AuReset
<1>8. Allocate(a, outcome) = d
  BY <1>4, <1>5 DEF Allocate
<1>9. QED  BY <1>1, <1>4, <1>6, <1>7, <1>8

LEMMA UnitType ==
    ASSUME NEW c \in Ctx
    PROVE  AccessUnit(c) \in Unit /\ AccessUnit(c).nalus = c.nalus
<1>1. c.nalus \in Seq(NaluSet)
  BY DEF Ctx
<1>2. QED  BY <1>1 DEF AccessUnit, Unit

LEMMA BelowMore ==
    ASSUME NEW st \in Seq(Packets), NEW rf, NEW w, ListsOK(st, rf, w),
           NEW s \in Nat, NEW t \in Nat
    PROVE  /\ AtTime(st, w, s) /\ s < t => Below(st, w, t)
           /\ Below(st, w, s) /\ s <= t => Below(st, w, t)
           /\ AtTime(st, w, s) /\ w[Len(w)] = <<>> => Below(st, w, s)
           /\ Below(st, w, s) /\ w[Len(w)] = <<>> => AtTime(st, w, s)
<1>1. ASSUME NEW i \in DOMAIN w, NEW k \in DOMAIN w[i]
      PROVE  Ts(st, w[i][k]) \in Nat
  <2>1. Good(st, w[i][k])
    BY DEF ListsOK, AllGood
  <2>2. PICK nalu : nalu = w[i][k]
    OBVIOUS
  <2>3. QED  BY <2>1, <2>2, NaluTypes
<1>2. AtTime(st, w, s) /\ s < t => Below(st, w, t)
  <2>1. SUFFICES ASSUME AtTime(st, w, s), s < t, NEW i \in DOMAIN w, NEW k \in DOMAIN w[i]
                 PROVE  Ts(st, w[i][k]) < t
    BY DEF Below
  <2>2. PICK x \in Nat : x = Ts(st, w[i][k])
    BY <1>1
  <2>3. x = s \/ x < s
    BY <2>1, <2>2 DEF AtTime
  <2>4. QED  BY <2>1, <2>2, <2>3
<1>3. Below(st, w, s) /\ s <= t => Below(st, w, t)
  <2>1. SUFFICES ASSUME Below(st, w, s), s <= t, NEW i \in DOMAIN w, NEW k \in DOMAIN w[i]
                 PROVE  Ts(st, w[i][k]) < t
    BY DEF Below
  <2>2. PICK x \in Nat : x = Ts(st, w[i][k])
    BY <1>1
  <2>3. x < s
    BY <2>1, <2>2 DEF Below
  <2>4. QED  BY <2>1, <2>2, <2>3
<1>4. ASSUME w[Len(w)] = <<>>, NEW i \in DOMAIN w, NEW k \in DOMAIN w[i]
      PROVE  i # Len(w)
  BY <1>4
<1>5. QED  BY <1>2, <1>3, <1>4 DEF AtTime, Below

(* The timestamp changes: the access unit is handed on.                    *)
LEMMA NewUnitStage ==
    ASSUME NEW st \in Seq(Packets), NEW rf, NEW out, NEW c, NEW e, NEW upTo, NEW extra,
           NEW prevTs \in Nat, NEW sent \in Nat,
           Arrived(st, rf, out, c, e, upTo, extra, prevTs, sent),
           c.auItem # "none", prevTs < sent, NEW outcome
    PROVE  LET b == AbandonFuA(c, 0)
               d == Allocate(AuReset(b), outcome)
           IN  /\ Stage(st, rf, Append(out, AccessUnit(b)), d, e, upTo, extra, sent)
               /\ ~d.fuPending /\ d.nalus = <<>>
<1>1. Ready(st, rf, out, c, e, upTo, extra)
  BY DEF Arrived
<1>2. c.fuPending => c.fuCount > 0
  BY <1>1, ReadyTypes DEF Arrived, Frag
<1>3. PICK k \in Nat : k = 0
  OBVIOUS
<1>4. PICK b : b = AbandonFuA(c, k)
  OBVIOUS
<1>5. /\ Ready(st, rf, out, b, e, upTo, extra) /\ W(out, b) = W(out, c)
      /\ ~b.fuPending
  BY <1>1, <1>2, <1>4, AbandonReady
<1>6. b \in Ctx /\ ListsOK(st, rf, W(out, b)) /\ b.fuNalu = NoNalu
  BY <1>5 DEF Ready, FuOK
<1>7. Below(st, W(out, b), sent)
  <2>1. PICK w : w = W(out, b)
    OBVIOUS
  <2>2. AtTime(st, w, prevTs) /\ ListsOK(st, rf, w)
    BY <1>5, <1>6, <2>1 DEF Arrived
  <2>3. Below(st, w, sent)
    BY <2>2, BelowMore
  <2>4. QED  BY <2>1, <2>3
<1>8. PICK u \in Unit : u = AccessUnit(b) /\ u.nalus = b.nalus
  BY <1>6, UnitType
<1>9. PICK d : d = Allocate(AuReset(b), outcome)
  OBVIOUS
<1>10. /\ d \in Ctx /\ d.nalus = <<>> /\ ~d.fuPending /\ d.fuNalu = NoNalu
       /\ d.pending = b.pending
  BY <1>5, <1>6, <1>9, AllocateFields
<1>11. /\ Ready(st, rf, Append(out, u), d, e, upTo, extra)
       /\ AtTime(st, W(Append(out, u), d), sent)
  BY <1>5, <1>7, <1>8, <1>10, NextUnit
<1>12. QED  BY <1>3, <1>4, <1>8, <1>9, <1>10, <1>11 DEF Stage

(* There is no current access unit: one begins.                            *)
LEMMA FirstUnitStage ==
    ASSUME NEW st \in Seq(Packets), NEW rf, NEW out, NEW c, NEW e, NEW upTo, NEW extra,
           NEW prevTs, NEW sent \in Nat,
           Arrived(st, rf, out, c, e, upTo, extra, prevTs, sent),
           c.auItem = "none", NEW outcome
    PROVE  LET d == Allocate(AuReset(c), outcome)
           IN  /\ Stage(st, rf, out, d, e, upTo, extra, sent)
               /\ ~d.fuPending /\ d.nalus = <<>>
<1>1. /\ Ready(st, rf, out, c, e, upTo, extra)
      /\ c.nalus = <<>> /\ ~c.fuPending /\ Below(st, W(out, c), sent)
  BY DEF Arrived
<1>2. /\ out \in Seq(Unit) /\ c \in Ctx /\ ListsOK(st, rf, W(out, c))
  BY <1>1 DEF Ready
<1>3. PICK d : d = Allocate(AuReset(c), outcome)
  OBVIOUS
<1>4. /\ d \in Ctx /\ d.nalus = c.nalus /\ d.fuPending = c.fuPending
      /\ d.fuCount = c.fuCount /\ d.fuNalu = c.fuNalu /\ d.pending = c.pending
  BY <1>1, <1>2, <1>3, AllocateFields
<1>5. Ready(st, rf, out, d, e, upTo, extra) /\ W(out, d) = W(out, c)
  BY <1>1, <1>4, SameReady
<1>6. AtTime(st, W(out, d), sent)
  <2>1. PICK w : w = W(out, c)
    OBVIOUS
  <2>2. w[Len(w)] = <<>>
    BY <1>1, <1>2, <2>1, WFacts
  <2>3. AtTime(st, w, sent)
    BY <1>1, <1>2, <2>1, <2>2, BelowMore
  <2>4. QED  BY <1>5, <2>1, <2>3
<1>7. QED  BY <1>1, <1>3, <1>4, <1>5, <1>6 DEF Stage

(* The packet processed is the previous one; the access unit is over.      *)
SetPrevious(c, n, t) == [c EXCEPT !.prevSeq = n, !.prevTs = t]
EndUnit(c) == [c EXCEPT !.auItem = "none", !.nalus = <<>>]

LEMMA SetFields ==
    ASSUME NEW c \in Ctx, NEW n, NEW t, n \in Nat, t \in Nat
    PROVE  LET d == SetPrevious(c, n, t)
           IN  /\ d \in Ctx /\ d.prevSeq = n /\ d.prevTs = t
               /\ d.auItem = c.auItem /\ d.nalus = c.nalus /\ d.fuPending = c.fuPending
               /\ d.fuCount = c.fuCount /\ d.fuNalu = c.fuNalu /\ d.pending = c.pending
<1>1. PICK a : a = [c EXCEPT !.prevSeq = n]
  OBVIOUS
<1>2. PICK d : d = [a EXCEPT !.prevTs = t]
  OBVIOUS
<1>3. /\ a \in Ctx /\ a.prevSeq = n
      /\ a.auItem = c.auItem /\ a.nalus = c.nalus /\ a.fuPending = c.fuPending
      /\ a.fuCount = c.fuCount /\ a.fuNalu = c.fuNalu /\ a.pending = c.pending
  BY <1>1 DEF Ctx
<1>4. /\ d \in Ctx /\ d.prevSeq = n /\ d.prevTs = t
      /\ d.auItem = c.auItem /\ d.nalus = c.nalus /\ d.fuPending = c.fuPending
      /\ d.fuCount = c.fuCount /\ d.fuNalu = c.fuNalu /\ d.pending = c.pending
  BY <1>2, <1>3 DEF Ctx
<1>5. d = [c EXCEPT !.prevSeq = n, !.prevTs = t]
  BY <1>1, <1>2 DEF Ctx
<1>6. QED  BY <1>4, <1>5 DEF SetPrevious

(* The packet was put in the current access unit.                          *)
LEMMA AcceptedResting ==
    ASSUME NEW st \in Seq(Packets), NEW rf, NEW out, NEW c, NEW n, NEW sent \in Nat,
           Stage(st, rf, out, c, n, n, 0, sent), c.auItem # "none",
           n = Len(st), rf \subseteq 1 .. Len(st), sent > 0
    PROVE  Resting(st, rf, out, SetPrevious(c, n, sent), sent)
<1>1. Ready(st, rf, out, c, n, n, 0)
  BY DEF Stage
<1>2. c \in Ctx /\ n \in Nat
  BY <1>1 DEF Ready
<1>3. PICK d : d = SetPrevious(c, n, sent)
  OBVIOUS
<1>4. /\ d \in Ctx /\ d.prevSeq = n /\ d.prevTs = sent
      /\ d.auItem = c.auItem /\ d.nalus = c.nalus /\ d.fuPending = c.fuPending
      /\ d.fuCount = c.fuCount /\ d.fuNalu = c.fuNalu /\ d.pending = c.pending
  BY <1>2, <1>3, SetFields
<1>5. /\ Ready(st, rf, out, d, n, n, 0) /\ W(out, d) = W(out, c)
      /\ \A t : Frag(st, c, n, t) => Frag(st, d, n, t)
  BY <1>1, <1>4, SameReady
<1>6. Arrived(st, rf, out, d, n, n, 0, sent, sent)
  BY <1>4, <1>5 DEF Arrived, Stage
<1>7. n <= Len(st) /\ sent <= sent
  BY <1>2
<1>8. Resting(st, rf, out, d, sent)
  BY <1>4, <1>6, <1>7 DEF Resting
<1>9. QED  BY <1>3, <1>8

(* It was the last of the access unit.                                     *)
LEMMA MarkedResting ==
    ASSUME NEW st \in Seq(Packets), NEW rf, NEW out, NEW c, NEW n, NEW sent \in Nat,
           Stage(st, rf, out, c, n, n, 0, sent), ~c.fuPending,
           n = Len(st), rf \subseteq 1 .. Len(st), sent > 0
    PROVE  Resting(st, rf, Append(out, AccessUnit(c)),
                   SetPrevious(EndUnit(c), n, sent), sent + 1)
<1>1. Ready(st, rf, out, c, n, n, 0) /\ AtTime(st, W(out, c), sent)
  BY DEF Stage
<1>2. /\ c \in Ctx /\ n \in Nat /\ ListsOK(st, rf, W(out, c)) /\ c.fuNalu = NoNalu
  BY <1>1 DEF Ready, FuOK
<1>3. PICK b : b = EndUnit(c)
  OBVIOUS
<1>4. /\ b \in Ctx /\ b.auItem = "none" /\ b.nalus = <<>> /\ ~b.fuPending
      /\ b.fuNalu = NoNalu /\ b.pending = c.pending
  <2>1. PICK q \in Seq(NaluSet) : q = <<>>
    <3>1. <<>> \in Seq(NaluSet)
      OBVIOUS
    <3>2. QED  BY <3>1
  <2>2. PICK a : a = [c EXCEPT !.auItem = "none"]
    OBVIOUS
  <2>3. /\ a \in Ctx /\ a.auItem = "none" /\ a.fuPending = c.fuPending
        /\ a.fuNalu = c.fuNalu /\ a.pending = c.pending
    BY <1>2, <2>2 DEF Ctx
  <2>4. PICK f : f = [a EXCEPT !.nalus = q]
    OBVIOUS
  <2>5. /\ f \in Ctx /\ f.auItem = "none" /\ f.nalus = q /\ f.fuPending = c.fuPending
        /\ f.fuNalu = c.fuNalu /\ f.pending = c.pending
    BY <2>3, <2>4 DEF Ctx
  <2>6. b = f
    BY <1>2, <1>3, <2>1, <2>2, <2>4 DEF Ctx, EndUnit
  <2>7. QED  BY <1>2, <2>1, <2>5, <2>6
<1>5. PICK d : d = SetPrevious(b, n, sent)
  OBVIOUS
<1>6. /\ d \in Ctx /\ d.prevSeq = n /\ d.prevTs = sent
      /\ d.auItem = "none" /\ d.nalus = <<>> /\ ~d.fuPending
      /\ d.fuNalu = NoNalu /\ d.pending = c.pending
  BY <1>2, <1>4, <1>5, SetFields
<1>7. PICK u \in Unit : u = AccessUnit(c) /\ u.nalus = c.nalus
  BY <1>2, UnitType
<1>8. PICK next \in Nat : next = sent + 1
  OBVIOUS
<1>9. Below(st, W(out, c), next)
  <2>1. PICK w : w = W(out, c)
    OBVIOUS
  <2>2. sent < next
    BY <1>8
  <2>3. Below(st, w, next)
    BY <1>1, <1>2, <2>1, <2>2, BelowMore
  <2>4. QED  BY <2>1, <2>3
<1>10. /\ Ready(st, rf, Append(out, u), d, n, n, 0)
       /\ Below(st, W(Append(out, u), d), next)
  BY <1>1, <1>6, <1>7, <1>9, NextUnit
<1>11. Arrived(st, rf, Append(out, u), d, n, n, 0, sent, next)
  BY <1>6, <1>10 DEF Arrived
<1>12. n <= Len(st) /\ sent <= next /\ next > 0
  BY <1>2, <1>8
<1>13. Resting(st, rf, Append(out, u), d, next)
  BY <1>6, <1>11, <1>12 DEF Resting
<1>14. QED  BY <1>3, <1>5, <1>7, <1>8, <1>13

(* It was refused, for want of an access unit.                             *)
LEMMA RefusedResting ==
    ASSUME NEW st \in Seq(Packets), NEW rf, NEW out, NEW c, NEW e, NEW upTo, NEW extra,
           NEW n, NEW sent \in Nat,
           Stage(st, rf, out, c, e, upTo, extra, sent), ~c.fuPending, c.nalus = <<>>,
           n = Len(st), n = upTo + 1, n \in rf, rf \subseteq 1 .. Len(st), sent > 0,
           NEW next \in {sent, sent + 1}
    PROVE  Resting(st, rf, out, SetPrevious(c, n, sent), next)
<1>1. Ready(st, rf, out, c, e, upTo, extra) /\ AtTime(st, W(out, c), sent)
  BY DEF Stage
<1>2. /\ out \in Seq(Unit) /\ c \in Ctx /\ ListsOK(st, rf, W(out, c))
      /\ e \in Nat /\ upTo \in Nat /\ n \in Nat /\ upTo <= n /\ e <= upTo
  BY <1>1 DEF Ready
<1>3. ASSUME NEW x, EndsAt(W(out, c), x), Skipped(x, n + 1, rf)
      PROVE  c.pending > 0
  <2>1. Accounted(c, rf, x, e, upTo, extra)
    BY <1>1, <1>3 DEF Ready
  <2>2. x \in Nat
    BY <1>1, <1>3, ReadyTypes
  <2>3. x <= upTo
    BY <1>2, <2>1, <2>2 DEF Accounted
  <2>4. n \in x + 1 .. n + 1 - 1
    BY <1>2, <2>2, <2>3
  <2>5. QED  BY <1>3, <2>4 DEF Skipped
<1>4. Ready(st, rf, out, c, n, n, 0)
  BY <1>1, <1>2, <1>3, UselessReady
<1>5. PICK d : d = SetPrevious(c, n, sent)
  OBVIOUS
<1>6. /\ d \in Ctx /\ d.prevSeq = n /\ d.prevTs = sent
      /\ d.auItem = c.auItem /\ d.nalus = c.nalus /\ d.fuPending = c.fuPending
      /\ d.fuCount = c.fuCount /\ d.fuNalu = c.fuNalu /\ d.pending = c.pending
  BY <1>2, <1>5, SetFields
<1>7. Ready(st, rf, out, d, n, n, 0) /\ W(out, d) = W(out, c)
  BY <1>4, <1>6, SameReady
<1>8. next \in Nat /\ sent <= next /\ next > 0 /\ n <= Len(st)
  BY <1>2
<1>9. Below(st, W(out, d), next)
  <2>1. PICK w : w = W(out, c)
    OBVIOUS
  <2>2. w[Len(w)] = <<>>
    BY <1>2, <2>1, WFacts
  <2>3. Below(st, w, sent)
    BY <1>1, <1>2, <2>1, <2>2, BelowMore
  <2>4. Below(st, w, next)
    BY <1>2, <1>8, <2>1, <2>3, BelowMore
  <2>5. QED  BY <1>7, <2>1, <2>4
<1>10. Arrived(st, rf, out, d, n, n, 0, sent, next)
  BY <1>1, <1>6, <1>7, <1>9 DEF Arrived
<1>11. Resting(st, rf, out, d, next)
  BY <1>6, <1>8, <1>10 DEF Resting
<1>12. QED  BY <1>5, <1>11

-----------------------------------------------------------------------------
(* The steps.                                                              *)

LEMMA ConcatLemma ==
    ASSUME NEW S, NEW q \in Seq(S), NEW x \in S
    PROVE  q \o <<>> = q /\ q \o <<x>> = Append(q, x)
  OBVIOUS

(* A packet is sent: the time of the next one, and the packet before.      *)
LEMMA SentLemma ==
    ASSUME stream \in Seq(Packets), NEW p \in Packets, Sendable(p),
           stream' = Append(stream, p)
    PROVE  /\ p.ts = SentTs /\ SentTs' = IF p.marker THEN p.ts + 1 ELSE p.ts
           /\ p.marker => p.kind \notin {"start", "mid"}
           /\ p.kind \in {"mid", "end"} =>
                  Len(stream) > 0 /\ stream[Len(stream)].kind \in {"start", "mid"}
<1>1. p.ts = SentTs /\ (p.marker => p.kind \notin {"start", "mid"})
  BY DEF Sendable
<1>2. stream' # <<>> /\ Len(stream') = Len(stream) + 1 /\ stream'[Len(stream) + 1] = p
  BY AppendSeq
<1>3. LastSent' = p
  BY <1>2 DEF LastSent
<1>4. SentTs' = IF p.marker THEN p.ts + 1 ELSE p.ts
  BY <1>2, <1>3 DEF SentTs
<1>5. ASSUME p.kind \in {"mid", "end"}
      PROVE  Len(stream) > 0 /\ stream[Len(stream)].kind \in {"start", "mid"}
  <2>1. InFuA
    BY <1>5 DEF Sendable
  <2>2. QED  BY <2>1 DEF InFuA, LastSent
<1>6. QED  BY <1>1, <1>4, <1>5

LEMMA LoseStep ==
    ASSUME Inv, NEW p \in Packets, Sendable(p), Lose(p)
    PROVE  Inv'
<1>1. /\ stream' = Append(stream, p) /\ ctx' = ctx /\ output' = output
      /\ refused' = refused
  BY DEF Lose
<1>2. PICK st \in Seq(Packets) : st = stream
  BY DEF Inv, Resting
<1>3. PICK s \in Nat : s = SentTs /\ s > 0
  BY DEF Inv, Resting
<1>4. PICK next \in Nat : next = SentTs' /\ s <= next
  BY <1>1, <1>2, <1>3, SentLemma
<1>5. PICK a : a = Append(st, p)
  OBVIOUS
<1>6. PICK e : e = ctx.prevSeq
  OBVIOUS
<1>7. PICK t : t = ctx.prevTs
  OBVIOUS
<1>8. /\ Arrived(st, refused, output, ctx, e, e, 0, t, s)
      /\ refused \subseteq 1 .. Len(st) /\ e <= Len(st) /\ t <= s
  BY <1>2, <1>3, <1>6, <1>7 DEF Inv, Resting
<1>9. Arrived(a, refused, output, ctx, e, e, 0, t, s)
  BY <1>5, <1>8, ArrivedLonger
<1>10. a \in Seq(Packets) /\ Len(a) = Len(st) + 1 /\ Len(st) \in Nat
  BY <1>5, AppendSeq
<1>11. Ready(a, refused, output, ctx, e, e, 0)
  BY <1>9 DEF Arrived
<1>12. ctx \in Ctx /\ e \in Nat /\ t \in Nat
  BY <1>7, <1>11 DEF Ready, Ctx
<1>13. Arrived(a, refused, output, ctx, e, e, 0, t, next)
  <2>1. PICK w : w = W(output, ctx)
    OBVIOUS
  <2>2. ListsOK(a, refused, w)
    BY <1>11, <2>1 DEF Ready
  <2>3. Below(a, w, s) => Below(a, w, next)
    BY <1>3, <1>4, <1>10, <2>2, BelowMore
  <2>4. QED  BY <1>9, <2>1, <2>3 DEF Arrived
<1>14. refused \subseteq 1 .. Len(a) /\ e <= Len(a) /\ t <= next /\ next > 0
  BY <1>3, <1>4, <1>8, <1>10, <1>12
<1>15. Resting(a, refused, output, ctx, next)
  BY <1>6, <1>7, <1>10, <1>13, <1>14 DEF Resting
<1>16. QED  BY <1>1, <1>2, <1>4, <1>5, <1>15 DEF Inv

LEMMA ReceiveStep ==
    ASSUME Inv, NEW p \in Packets, Sendable(p), NEW outcome, Receive(p, outcome)
    PROVE  Inv'
<1> DEFINE n      == Len(stream) + 1
           b0     == Taken(ctx)
           change == NewTimestamp(p)
           b1     == IF change THEN AbandonFuA(b0, 0) ELSE b0
           fresh  == change \/ ctx.auItem = "none"
           b2     == IF fresh THEN Allocate(AuReset(b1), outcome) ELSE b1
           ok     == fresh => outcome = "both"
           b3     == IF ok THEN Payload(b2, n, p.kind, MissingBefore(ctx, n)) ELSE b2
           marked == ok /\ p.marker
           b4     == IF marked THEN EndUnit(b3) ELSE b3
           o2     == output \o (IF change THEN <<AccessUnit(b1)>> ELSE <<>>)
<1>1. /\ stream' = Append(stream, p)
      /\ ctx' = SetPrevious(b4, n, p.ts)
      /\ output' = o2 \o (IF marked THEN <<AccessUnit(b3)>> ELSE <<>>)
      /\ refused' = IF ok THEN refused ELSE refused \cup {n}
  BY DEF Receive, SetPrevious, EndUnit, Taken, MissingBefore
<1>2. change <=> (ctx.auItem # "none" /\ ctx.prevTs # 0 /\ p.ts # ctx.prevTs)
  BY DEF NewTimestamp
<1> HIDE DEF change
(* What there was, in names of constants.                                  *)
<1>3. PICK st \in Seq(Packets) : st = stream
  BY DEF Inv, Resting
<1>4. PICK u \in Nat : u = Len(stream)
  BY <1>3
<1>5. PICK c : c = ctx
  OBVIOUS
<1>6. PICK s \in Nat : s = SentTs /\ s > 0
  BY DEF Inv, Resting
<1>7. PICK a \in Seq(Packets) : a = Append(st, p)
  BY <1>3, AppendSeq
<1>8. /\ Len(a) = u + 1 /\ a[u + 1] = p /\ DOMAIN a = 1 .. u + 1
      /\ \A k \in 1 .. u : a[k] = st[k]
  BY <1>3, <1>4, <1>7, AppendSeq
<1>9. PICK k \in Nat : k = n /\ k = u + 1 /\ k - 1 = u /\ k \in DOMAIN a
  BY <1>4, <1>8
<1>10. PICK r : r = refused'
  OBVIOUS
<1>11. Resting(st, refused, output, c, s)
  BY <1>3, <1>5, <1>6 DEF Inv
<1>12. /\ refused \subseteq r /\ r \subseteq 1 .. Len(a)
       /\ ~ok => k \in r
  <2>1. refused \subseteq 1 .. u
    BY <1>3, <1>4, <1>11 DEF Resting
  <2>2. \A x \in refused : x \in 1 .. Len(a)
    BY <1>8, <2>1
  <2>3. k \in 1 .. Len(a)
    BY <1>8, <1>9
  <2>4. r = refused \/ (r = refused \cup {k} /\ k \in r)
    BY <1>1, <1>9, <1>10
  <2>5. ~ok => k \in r
    BY <1>1, <1>9, <1>10
  <2>6. QED  BY <2>2, <2>3, <2>4, <2>5
<1>13. /\ p.ts = s /\ SentTs' = IF p.marker THEN s + 1 ELSE s
       /\ p.marker => p.kind \notin {"start", "mid"}
       /\ p.kind \in {"mid", "end"} => u > 0 /\ st[u].kind \in {"start", "mid"}
  BY <1>1, <1>3, <1>4, <1>6, SentLemma
(* The packet is taken, and the current access unit is settled.            *)
<1>14. PICK e : e = c.prevSeq
  OBVIOUS
<1>15. PICK t \in Nat : t = c.prevTs /\ t <= s
  <2>1. Ready(st, refused, output, c, e, e, 0)
    BY <1>11, <1>14 DEF Resting, Arrived
  <2>2. c \in Ctx
    BY <2>1 DEF Ready
  <2>3. QED  BY <1>11, <2>2 DEF Resting, Ctx
<1>16. PICK x : x = MissingBefore(c, k)
  OBVIOUS
<1>17. PICK d0 : d0 = Taken(c)
  OBVIOUS
<1>18. Arrived(st, refused, output, d0, e, u, x, t, s) /\ d0.auItem = c.auItem
  BY <1>3, <1>4, <1>9, <1>11, <1>14, <1>15, <1>16, <1>17, TakenArrived
<1>19. Arrived(a, r, output, d0, e, u, x, t, s)
  BY <1>7, <1>12, <1>18, ArrivedLonger
<1>20. b0 = d0
  BY <1>5, <1>17
<1>21. PICK d2 : d2 = b2
  OBVIOUS
<1>22. PICK o \in Seq(Unit) :
          /\ o = o2 /\ Stage(a, r, o, d2, e, u, x, s)
          /\ fresh => ~d2.fuPending /\ d2.nalus = <<>>
          /\ ok => d2.auItem # "none"
  <2>1. output \in Seq(Unit) /\ d0 \in Ctx /\ Ready(a, r, output, d0, e, u, x)
    BY <1>19 DEF Arrived, Ready
  <2>2. CASE change
    <3>1. d0.auItem # "none" /\ t < s
      BY <1>2, <1>5, <1>13, <1>15, <1>18, <2>2
    <3>2. PICK d1 : d1 = AbandonFuA(d0, 0)
      OBVIOUS
    <3>3. d1 \in Ctx
      <4>1. PICK z \in Nat : z = 0
        OBVIOUS
      <4>2. QED  BY <2>1, <3>2, <4>1, AbandonFields
    <3>4. d2 = Allocate(AuReset(d1), outcome) /\ o2 = output \o <<AccessUnit(d1)>>
      BY <1>20, <1>21, <2>2, <3>2
    <3>5. /\ Stage(a, r, Append(output, AccessUnit(d1)), d2, e, u, x, s)
          /\ ~d2.fuPending /\ d2.nalus = <<>>
      <4>1. LET b == AbandonFuA(d0, 0)
                d == Allocate(AuReset(b), outcome)
            IN  /\ Stage(a, r, Append(output, AccessUnit(b)), d, e, u, x, s)
                /\ ~d.fuPending /\ d.nalus = <<>>
        BY <1>19, <3>1, NewUnitStage
      <4>2. QED  BY <3>2, <3>4, <4>1
    <3>6. o2 = Append(output, AccessUnit(d1)) /\ o2 \in Seq(Unit)
      <4>1. PICK unit \in Unit : unit = AccessUnit(d1)
        BY <3>3, UnitType
      <4>2. QED  BY <2>1, <3>4, <4>1, ConcatLemma, AppendSeq
    <3>7. outcome = "both" => d2.auItem # "none"
      BY <3>3, <3>4, AllocateFields
    <3>8. QED
      <4> HIDE DEF b2, o2
      <4>1. QED  BY <2>2, <3>5, <3>6, <3>7
  <2>3. CASE ~change
    <3>1. o2 = output /\ b1 = d0
      <4>1. o2 = output \o <<>> /\ b1 = d0
        BY <1>20, <2>3
      <4>2. QED  BY <2>1, <4>1, ConcatLemma
    <3>2. CASE c.auItem = "none"
      <4>1. d2 = Allocate(AuReset(d0), outcome)
        BY <1>5, <1>21, <3>1, <3>2
      <4>2. /\ Stage(a, r, output, d2, e, u, x, s)
            /\ ~d2.fuPending /\ d2.nalus = <<>>
        BY <1>18, <1>19, <3>2, <4>1, FirstUnitStage
      <4>3. outcome = "both" => d2.auItem # "none"
        BY <2>1, <4>1, AllocateFields
      <4> HIDE DEF b2, o2
      <4>4. QED  BY <1>5, <2>1, <3>1, <3>2, <4>2, <4>3
    <3>3. CASE c.auItem # "none"
      <4>1. d2 = d0 /\ ~fresh
        BY <1>5, <1>21, <2>3, <3>1, <3>3
      <4>2. t > 0 /\ AtTime(a, W(output, d0), t)
        BY <1>18, <1>19, <3>3 DEF Arrived
      <4>3. s = t
        BY <1>2, <1>5, <1>13, <1>15, <2>3, <3>3, <4>2
      <4>4. Stage(a, r, output, d0, e, u, x, s)
        BY <1>19, <2>1, <4>2, <4>3 DEF Arrived, Stage
      <4> HIDE DEF b2, o2, fresh
      <4>5. QED  BY <1>18, <2>1, <3>1, <3>3, <4>1, <4>4
    <3>4. QED  BY <3>2, <3>3
  <2>4. QED  BY <2>2, <2>3
<1> HIDE DEF b2, o2, fresh
<1>23. CASE ~ok
  <2>1. b3 = d2 /\ b4 = d2 /\ output' = o
    <3>1. b3 = d2 /\ ~marked
      BY <1>21, <1>23
    <3>2. b4 = d2 /\ output' = o2 \o <<>>
      BY <1>1, <3>1
    <3>3. QED  BY <1>22, <3>1, <3>2, ConcatLemma
  <2>2. fresh
    BY <1>23
  <2>3. PICK next : next = SentTs' /\ next \in {s, s + 1}
    BY <1>13
  <2>4. Resting(a, r, o, SetPrevious(d2, k, s), next)
    BY <1>6, <1>8, <1>9, <1>12, <1>22, <1>23, <2>2, <2>3, RefusedResting
  <2>5. ctx' = SetPrevious(d2, k, s)
    BY <1>1, <1>9, <1>13, <2>1
  <2>6. QED  BY <1>1, <1>3, <1>7, <1>10, <2>1, <2>3, <2>4, <2>5 DEF Inv
<1>24. CASE ok
  <2>1. PICK d3 : d3 = Payload(d2, k, p.kind, x)
    OBVIOUS
  <2>2. b3 = d3
    BY <1>5, <1>9, <1>16, <1>21, <1>24, <2>1
  <2>3. Turn(a, r, o, d2, e, x, k, p.kind, s)
    <3>1. k \in DOMAIN a /\ p.kind = a[k].kind /\ s = a[k].ts
      BY <1>8, <1>9, <1>13
    <3>2. Stage(a, r, o, d2, e, k - 1, x, s)
      BY <1>9, <1>22
    <3>3. ASSUME p.kind \in {"mid", "end"} PROVE a[k - 1].kind \in {"start", "mid"}
      <4>1. u > 0 /\ st[u].kind \in {"start", "mid"}
        BY <1>13, <3>3
      <4>2. u \in 1 .. u
        BY <4>1
      <4>3. a[u] = st[u]
        BY <1>8, <4>2
      <4>4. QED  BY <1>9, <4>1, <4>3
    <3>4. QED  BY <3>1, <3>2, <3>3 DEF Turn
  <2>4. /\ Stage(a, r, o, d3, k, k, 0, s) /\ d3.auItem = d2.auItem
        /\ p.kind \notin {"start", "mid"} => ~d3.fuPending
    BY <2>1, <2>3, PayloadStage
  <2>5. d3.auItem # "none" /\ k = Len(a)
    BY <1>8, <1>9, <1>22, <1>24, <2>4
  <2>6. CASE p.marker
    <3>1. PICK next : next = s + 1
      OBVIOUS
    <3>2. Resting(a, r, Append(o, AccessUnit(d3)), SetPrevious(EndUnit(d3), k, s), s + 1)
      BY <1>6, <1>12, <1>13, <2>4, <2>5, <2>6, MarkedResting
    <3>3. output' = Append(o, AccessUnit(d3))
      <4>1. output' = o \o <<AccessUnit(d3)>>
        BY <1>1, <1>22, <1>24, <2>2, <2>6
      <4>2. d3 \in Ctx
        BY <2>4 DEF Stage, Ready
      <4>3. QED  BY <4>1, <4>2, UnitType, ConcatLemma
    <3>4. ctx' = SetPrevious(EndUnit(d3), k, s)
      BY <1>1, <1>9, <1>13, <1>24, <2>2, <2>6
    <3>5. SentTs' = s + 1
      BY <1>13, <2>6
    <3>6. QED  BY <1>1, <1>3, <1>7, <1>10, <3>2, <3>3, <3>4, <3>5 DEF Inv
  <2>7. CASE ~p.marker
    <3>1. Resting(a, r, o, SetPrevious(d3, k, s), s)
      BY <1>6, <1>12, <2>4, <2>5, AcceptedResting
    <3>2. output' = o
      <4>1. output' = o \o <<>>
        BY <1>1, <1>22, <2>7
      <4>2. QED  BY <4>1, ConcatLemma
    <3>3. ctx' = SetPrevious(d3, k, s)
      BY <1>1, <1>9, <1>13, <2>2, <2>7
    <3>4. SentTs' = s
      BY <1>13, <2>7
    <3>5. QED  BY <1>1, <1>3, <1>7, <1>10, <3>1, <3>2, <3>3, <3>4 DEF Inv
  <2>8. QED  BY <2>6, <2>7
<1>25. QED  BY <1>23, <1>24

-----------------------------------------------------------------------------
(* The invariant holds.                                                    *)

LEMMA InitInv == Init => Inv
<1> SUFFICES ASSUME Init PROVE Inv
  OBVIOUS
<1>1. /\ stream = <<>> /\ output = <<>> /\ refused = {}
      /\ ctx = [prevSeq |-> 0, prevTs |-> 0, auItem |-> "none", nalus |-> <<>>,
                fuPending |-> FALSE, fuCount |-> 0, fuNalu |-> NoNalu, pending |-> 0]
  BY DEF Init
<1>2. SentTs = 1
  BY <1>1 DEF SentTs
<1>3. PICK none \in NaluSet : none = NoNalu
  BY NoNaluType
<1>4. PICK q \in Seq(NaluSet) : q = <<>>
  <2>1. <<>> \in Seq(NaluSet)
    OBVIOUS
  <2>2. QED  BY <2>1
<1>5. /\ ctx \in Ctx /\ ctx.prevSeq = 0 /\ ctx.prevTs = 0 /\ ctx.auItem = "none"
      /\ ctx.nalus = q /\ ctx.fuPending = FALSE /\ ctx.fuNalu = none
  BY <1>1, <1>3, <1>4 DEF Ctx
<1>6. PICK out \in Seq(Unit) : out = output
  <2>1. <<>> \in Seq(Unit)
    OBVIOUS
  <2>2. QED  BY <1>1, <2>1
<1>7. PICK w \in Lists : w = W(output, ctx) /\ Len(w) = 1 /\ w[1] = <<>>
  <2>1. Len(out) = 0
    BY <1>1, <1>6
  <2>2. /\ W(out, ctx) \in Lists /\ Len(W(out, ctx)) = Len(out) + 1
        /\ W(out, ctx)[Len(out) + 1] = ctx.nalus
    BY <1>5, <1>6, WFacts
  <2>3. QED  BY <1>4, <1>5, <1>6, <2>1, <2>2
<1>8. DOMAIN w = {1} /\ DOMAIN w[1] = {}
  BY <1>7 DEF Lists
<1>9. ListsOK(stream, refused, w) /\ Below(stream, w, 1) /\ \A x : ~EndsAt(w, x)
  BY <1>7, <1>8 DEF ListsOK, AllGood, Separate, Reported, Ordered, Below, EndsAt
<1>10. FuOK(ctx)
  <2>1. Len(ctx.nalus) = 0 /\ (IF ctx.fuPending THEN 1 ELSE 0) = 0 /\ 0 + 0 <= NaluCapacity
    BY <1>4, <1>5, DepayAssumption
  <2>2. Len(ctx.nalus) + (IF ctx.fuPending THEN 1 ELSE 0) <= NaluCapacity
    BY <2>1
  <2>3. QED  BY <1>3, <1>5, <2>2 DEF FuOK
<1>11. Ready(stream, refused, output, ctx, 0, 0, 0)
  BY <1>5, <1>6, <1>7, <1>9, <1>10 DEF Ready
<1>12. Arrived(stream, refused, output, ctx, 0, 0, 0, 0, 1)
  BY <1>4, <1>5, <1>7, <1>9, <1>11 DEF Arrived
<1>13. PICK st \in Seq(Packets) : st = stream /\ Len(st) = 0
  <2>1. <<>> \in Seq(Packets) /\ Len(<<>>) = 0
    OBVIOUS
  <2>2. QED  BY <1>1, <2>1
<1>14. QED  BY <1>1, <1>2, <1>5, <1>12, <1>13 DEF Inv, Resting

LEMMA StutterInv == Inv /\ UNCHANGED vars => Inv'
<1> SUFFICES ASSUME Inv, UNCHANGED vars PROVE Inv'
  OBVIOUS
<1>1. stream' = stream /\ ctx' = ctx /\ output' = output /\ refused' = refused
  BY DEF vars
<1>2. SentTs' = SentTs
  BY <1>1 DEF SentTs, LastSent
<1>3. QED  BY <1>1, <1>2 DEF Inv

LEMMA NextInv == Inv /\ [Next]_vars => Inv'
<1>1. ASSUME Inv, Next PROVE Inv'
  <2>1. PICK kind \in Kinds, marker \in BOOLEAN :
            LET p == [kind |-> kind, ts |-> SentTs, marker |-> marker]
            IN  /\ Sendable(p)
                /\ (\E outcome \in Allocations : Receive(p, outcome)) \/ Lose(p)
    BY <1>1 DEF Next
  <2>2. PICK p : p = [kind |-> kind, ts |-> SentTs, marker |-> marker]
    OBVIOUS
  <2>3. p \in Packets
    BY <1>1, <2>2 DEF Inv, Resting, Packets
  <2>4. Sendable(p) /\ ((\E outcome \in Allocations : Receive(p, outcome)) \/ Lose(p))
    BY <2>1, <2>2
  <2>5. CASE Lose(p)
    BY <1>1, <2>3, <2>4, <2>5, LoseStep
  <2>6. ASSUME NEW outcome \in Allocations, Receive(p, outcome) PROVE Inv'
    BY <1>1, <2>3, <2>4, <2>6, ReceiveStep
  <2>7. QED  BY <2>4, <2>5, <2>6
<1>2. QED  BY <1>1, StutterInv

THEOREM Invariant == Spec => []Inv
<1>1. Init => Inv
  BY InitInv
<1>2. Inv /\ [Next]_vars => Inv'
  BY NextInv
<1>3. QED  BY <1>1, <1>2, PTL DEF Spec

-----------------------------------------------------------------------------
(* What it says of the access units.                                       *)

LEMMA GoodWhole ==
    ASSUME stream \in Seq(Packets), NEW nalu, Good(stream, nalu)
    PROVE  /\ IsWhole(nalu.packets)
           /\ Head(nalu.packets) = First(nalu) /\ Last(nalu.packets) = Final(nalu)
<1>1. PICK h \in Nat, e \in Nat : MadeOf(stream, nalu, h, e)
  BY DEF Good
<1>2. h <= e /\ nalu.packets = Run(h, e)
  BY <1>1 DEF MadeOf
<1>3. PICK n \in Nat : n = e - h + 1 /\ n >= 1
  BY <1>2
<1>4. PICK q \in Seq(Nat) : q = nalu.packets /\ Len(q) = n /\ DOMAIN q = 1 .. n
                            /\ \A k \in 1 .. n : q[k] = h + k - 1
  <2>1. Run(h, e) \in Seq(Nat) /\ Len(Run(h, e)) = e - h + 1
    BY <1>2, RunLemma
  <2>2. \A k \in 1 .. n : Run(h, e)[k] = h + k - 1
    BY <1>3 DEF Run
  <2>3. QED  BY <1>2, <1>3, <2>1, <2>2
<1>5. Head(q) = First(nalu) /\ Last(q) = Final(nalu)
  BY <1>3, <1>4 DEF First, Final, Last
<1>6. PICK kinds : kinds = [k \in DOMAIN q |-> stream[q[k]].kind]
  OBVIOUS
<1>7. \A k \in 1 .. n : kinds[k] = stream[h + k - 1].kind
  BY <1>4, <1>6
<1>8. kinds[1] = stream[h].kind /\ kinds[n] = stream[e].kind
  <2>1. 1 \in 1 .. n /\ n \in 1 .. n /\ h + 1 - 1 = h /\ h + n - 1 = e
    BY <1>3
  <2>2. kinds[1] = stream[h + 1 - 1].kind /\ kinds[n] = stream[h + n - 1].kind
    BY <1>7, <2>1
  <2>3. QED  BY <2>1, <2>2
<1>9. CASE n = 1
  <2>1. h = e
    BY <1>3, <1>9
  <2>2. kinds[1] \in {"single", "stap"}
    BY <1>1, <1>8, <2>1 DEF MadeOf
  <2>3. IsWhole(q)
    BY <1>4, <1>6, <1>9, <2>2 DEF IsWhole
  <2>4. QED  BY <1>4, <1>5, <2>3
<1>10. CASE n # 1
  <2>1. /\ h < e /\ stream[h].kind = "start" /\ stream[e].kind = "end"
        /\ \A j \in h + 1 .. e - 1 : stream[j].kind = "mid"
    BY <1>1, <1>3, <1>10 DEF MadeOf
  <2>2. ASSUME NEW k \in 2 .. n
        PROVE  q[k] = q[k - 1] + 1 /\ (k < n => kinds[k] = "mid")
    <3>1. k \in 1 .. n /\ k - 1 \in 1 .. n
      BY <1>3
    <3>2. q[k] = h + k - 1 /\ q[k - 1] = h + (k - 1) - 1
      BY <1>4, <3>1
    <3>3. ASSUME k < n PROVE kinds[k] = "mid"
      <4>1. PICK j \in Nat : j = h + k - 1
        BY <3>1
      <4>2. j \in h + 1 .. e - 1
        BY <1>3, <3>1, <3>3, <4>1
      <4>3. kinds[k] = stream[j].kind
        BY <1>7, <3>1, <4>1
      <4>4. QED  BY <2>1, <4>2, <4>3
    <3>4. QED  BY <3>2, <3>3
  <2>3. IsWhole(q)
    BY <1>4, <1>6, <1>8, <1>10, <2>1, <2>2 DEF IsWhole
  <2>4. QED  BY <1>4, <1>5, <2>3
<1>11. QED  BY <1>9, <1>10

(* The lists are the NALUs of the access units.                            *)
LEMMA UnitsLemma ==
    ASSUME Inv
    PROVE  /\ stream \in Seq(Packets)
           /\ ListsOK(stream, refused, W(output, ctx))
           /\ DOMAIN AccessUnits = DOMAIN W(output, ctx)
           /\ \A i \in DOMAIN AccessUnits : AccessUnits[i].nalus = W(output, ctx)[i]
<1>1. Ready(stream, refused, output, ctx, ctx.prevSeq, ctx.prevSeq, 0)
  BY DEF Inv, Resting, Arrived
<1>2. PICK out \in Seq(Unit) : out = output
  BY <1>1 DEF Ready
<1>3. PICK c \in Ctx : c = ctx
  BY <1>1 DEF Ready
<1>4. PICK u \in Unit : u = AccessUnit(c) /\ u.nalus = c.nalus
  BY UnitType
<1>5. PICK n \in Nat : n = Len(out)
  OBVIOUS
<1>6. PICK w : w = W(out, c)
  OBVIOUS
<1>7. /\ w \in Lists /\ Len(w) = n + 1 /\ w[n + 1] = c.nalus
      /\ \A i \in 1 .. n : w[i] = out[i].nalus
  BY <1>5, <1>6, WFacts
<1>8. PICK a \in Seq(Unit) :
          /\ a = Append(out, u) /\ DOMAIN a = 1 .. n + 1 /\ a[n + 1] = u
          /\ \A i \in 1 .. n : a[i] = out[i]
  <2>1. PICK a : a = Append(out, u)
    OBVIOUS
  <2>2. /\ a \in Seq(Unit) /\ DOMAIN a = 1 .. Len(out) + 1 /\ a[Len(out) + 1] = u
        /\ \A i \in 1 .. Len(out) : a[i] = out[i]
    BY <2>1, AppendSeq
  <2>3. QED  BY <1>5, <2>1, <2>2
<1>9. DOMAIN w = 1 .. n + 1
  BY <1>7 DEF Lists
<1>10. ASSUME NEW i \in DOMAIN a PROVE a[i].nalus = w[i]
  <2>1. CASE i = n + 1
    BY <2>1, <1>4, <1>7, <1>8
  <2>2. CASE i # n + 1
    <3>1. i \in 1 .. n
      BY <2>2, <1>8
    <3>2. QED  BY <3>1, <1>7, <1>8
  <2>3. QED  BY <2>1, <2>2
<1>11. AccessUnits = a
  BY <1>2, <1>3, <1>4, <1>8 DEF AccessUnits
<1>12. stream \in Seq(Packets) /\ ListsOK(stream, refused, W(output, ctx))
  BY <1>1 DEF Inv, Resting, Ready
<1>13. QED  BY <1>2, <1>3, <1>6, <1>8, <1>9, <1>10, <1>11, <1>12

LEMMA InvWhole == Inv => WholeNalus
<1> SUFFICES ASSUME Inv PROVE WholeNalus
  OBVIOUS
<1>1. PICK w : w = W(output, ctx)
  OBVIOUS
<1>2. PICK units : units = AccessUnits
  OBVIOUS
<1>3. /\ stream \in Seq(Packets) /\ ListsOK(stream, refused, w)
      /\ DOMAIN units = DOMAIN w /\ \A i \in DOMAIN units : units[i].nalus = w[i]
  BY <1>1, <1>2, UnitsLemma
<1>4. ASSUME NEW i \in DOMAIN units, NEW k \in DOMAIN units[i].nalus
      PROVE  IsWhole(units[i].nalus[k].packets)
  <2>1. i \in DOMAIN w /\ units[i].nalus = w[i] /\ k \in DOMAIN w[i]
    BY <1>3
  <2>2. Good(stream, w[i][k])
    BY <1>3, <2>1 DEF ListsOK, AllGood
  <2>3. IsWhole(w[i][k].packets)
    BY <1>3, <2>2, GoodWhole
  <2>4. QED  BY <2>1, <2>3
<1>5. QED  BY <1>2, <1>4 DEF WholeNalus

LEMMA InvSeparate == Inv => AccessUnitsSeparate
<1> SUFFICES ASSUME Inv PROVE AccessUnitsSeparate
  OBVIOUS
<1>1. PICK w : w = W(output, ctx)
  OBVIOUS
<1>2. PICK units : units = AccessUnits
  OBVIOUS
<1>3. /\ stream \in Seq(Packets) /\ ListsOK(stream, refused, w)
      /\ DOMAIN units = DOMAIN w /\ \A i \in DOMAIN units : units[i].nalus = w[i]
  BY <1>1, <1>2, UnitsLemma
<1>4. ASSUME NEW i \in DOMAIN w, NEW k \in DOMAIN w[i]
      PROVE  stream[Head(w[i][k].packets)].ts = Ts(stream, w[i][k])
  <2>1. Good(stream, w[i][k])
    BY <1>3 DEF ListsOK, AllGood
  <2>2. Head(w[i][k].packets) = First(w[i][k])
    BY <1>3, <2>1, GoodWhole
  <2>3. QED  BY <2>2 DEF Ts
<1>5. ASSUME NEW i \in DOMAIN units, NEW j \in DOMAIN units, i <= j,
             NEW k \in DOMAIN units[i].nalus, NEW l \in DOMAIN units[j].nalus
      PROVE  LET s == stream[Head(units[i].nalus[k].packets)].ts
                 t == stream[Head(units[j].nalus[l].packets)].ts
             IN  IF i = j THEN s = t ELSE s < t
  <2>1. /\ i \in DOMAIN w /\ units[i].nalus = w[i] /\ k \in DOMAIN w[i]
        /\ j \in DOMAIN w /\ units[j].nalus = w[j] /\ l \in DOMAIN w[j]
    BY <1>3
  <2>2. IF i = j THEN Ts(stream, w[i][k]) = Ts(stream, w[j][l])
                 ELSE Ts(stream, w[i][k]) < Ts(stream, w[j][l])
    BY <1>3, <1>5, <2>1 DEF ListsOK, Separate
  <2>3. /\ stream[Head(w[i][k].packets)].ts = Ts(stream, w[i][k])
        /\ stream[Head(w[j][l].packets)].ts = Ts(stream, w[j][l])
    BY <1>4, <2>1
  <2>4. QED  BY <2>1, <2>2, <2>3
<1>6. QED  BY <1>2, <1>5 DEF AccessUnitsSeparate

LEMMA InvReported == Inv => MissingReported
<1> SUFFICES ASSUME Inv PROVE MissingReported
  OBVIOUS
<1>1. PICK w : w = W(output, ctx)
  OBVIOUS
<1>2. PICK units : units = AccessUnits
  OBVIOUS
<1>3. /\ stream \in Seq(Packets) /\ ListsOK(stream, refused, w)
      /\ DOMAIN units = DOMAIN w /\ \A i \in DOMAIN units : units[i].nalus = w[i]
  BY <1>1, <1>2, UnitsLemma
<1>4. DOMAIN w \subseteq Nat /\ w \in Lists
  BY <1>3 DEF ListsOK, Lists
<1>5. ASSUME NEW i \in DOMAIN w, NEW k \in DOMAIN w[i]
      PROVE  /\ Head(w[i][k].packets) = First(w[i][k])
             /\ Last(w[i][k].packets) = Final(w[i][k])
             /\ First(w[i][k]) \in Nat /\ Final(w[i][k]) \in Nat
  <2>1. PICK nalu : nalu = w[i][k]
    OBVIOUS
  <2>2. Good(stream, nalu)
    BY <1>3, <2>1 DEF ListsOK, AllGood
  <2>3. Head(nalu.packets) = First(nalu) /\ Last(nalu.packets) = Final(nalu)
    BY <1>3, <2>2, GoodWhole
  <2>4. First(nalu) \in Nat /\ Final(nalu) \in Nat
    BY <1>3, <2>2, NaluTypes
  <2>5. QED  BY <2>1, <2>3, <2>4
<1>6. ASSUME NEW i \in DOMAIN units, NEW j \in DOMAIN units,
             NEW k \in DOMAIN units[i].nalus, NEW l \in DOMAIN units[j].nalus,
             Adjacent(units, i, k, j, l),
             NEW skipped, skipped = Last(units[i].nalus[k].packets) + 1
                                        .. Head(units[j].nalus[l].packets) - 1,
             skipped # {}, skipped \cap refused = {}
      PROVE  units[j].nalus[l].missing > 0
  <2>1. /\ i \in DOMAIN w /\ units[i].nalus = w[i] /\ k \in DOMAIN w[i]
        /\ j \in DOMAIN w /\ units[j].nalus = w[j] /\ l \in DOMAIN w[j]
        /\ i \in Nat /\ j \in Nat
    BY <1>3, <1>4
  <2>2. ASSUME NEW m \in i + 1 .. j - 1 PROVE units[m].nalus = w[m] /\ m \in DOMAIN w
    <3>1. DOMAIN w = 1 .. Len(w) /\ Len(w) \in Nat
      BY <1>4 DEF Lists
    <3>2. m \in DOMAIN w
      BY <2>1, <3>1
    <3>3. QED  BY <1>3, <3>2
  <2>3. Beside(w, i, k, j, l)
    BY <1>6, <2>1, <2>2 DEF Adjacent, Beside
  <2>4. Skipped(Final(w[i][k]), First(w[j][l]), refused)
    <3>1. PICK x \in Nat, y \in Nat : x = Final(w[i][k]) /\ y = First(w[j][l])
      BY <1>5, <2>1
    <3>2. skipped = x + 1 .. y - 1
      BY <1>5, <1>6, <2>1, <3>1
    <3>3. PICK z : z \in x + 1 .. y - 1
      BY <1>6, <3>2
    <3>4. x + 1 < y
      BY <3>1, <3>3
    <3>5. QED  BY <1>6, <3>1, <3>2, <3>4 DEF Skipped
  <2>5. w[j][l].missing > 0
    BY <1>3, <2>1, <2>3, <2>4 DEF ListsOK, Reported
  <2>6. QED  BY <2>1, <2>5
<1>7. ASSUME NEW i \in DOMAIN units, NEW j \in DOMAIN units,
             NEW k \in DOMAIN units[i].nalus, NEW l \in DOMAIN units[j].nalus
      PROVE  LET nalu    == units[j].nalus[l]
                 skipped == Last(units[i].nalus[k].packets) + 1 .. Head(nalu.packets) - 1
             IN  /\ Adjacent(units, i, k, j, l)
                 /\ skipped # {} /\ skipped \cap refused = {}
                 => nalu.missing > 0
  <2>1. PICK skipped : skipped = Last(units[i].nalus[k].packets) + 1
                                    .. Head(units[j].nalus[l].packets) - 1
    OBVIOUS
  <2>2. Adjacent(units, i, k, j, l) /\ skipped # {} /\ skipped \cap refused = {}
            => units[j].nalus[l].missing > 0
    BY <1>6, <2>1
  <2>3. QED  BY <2>1, <2>2
<1>8. QED  BY <1>2, <1>7 DEF MissingReported

LEMMA InvType == Inv => TypeOK
<1> SUFFICES ASSUME Inv PROVE TypeOK
  OBVIOUS
<1>1. /\ Ready(stream, refused, output, ctx, ctx.prevSeq, ctx.prevSeq, 0)
      /\ stream \in Seq(Packets) /\ refused \subseteq 1 .. Len(stream)
      /\ ctx.prevSeq <= Len(stream)
  BY DEF Inv, Resting, Arrived
<1>2. ctx \in Ctx /\ FuOK(ctx)
  BY <1>1 DEF Ready
<1>3. /\ ctx.prevSeq \in Nat /\ ctx.prevTs \in Nat
      /\ ctx.auItem \in {"none", "own", "free"} /\ ctx.nalus \in Seq(NaluSet)
      /\ ctx.pending \in Nat /\ ctx.fuCount \in Nat /\ ctx.fuNalu \in NaluSet
  BY <1>2 DEF Ctx
<1>4. ASSUME NEW nalu \in NaluSet PROVE NaluOK(nalu)
  BY DEF NaluSet, NaluOK
<1>5. \A i \in DOMAIN ctx.nalus : NaluOK(ctx.nalus[i])
  BY <1>3, <1>4
<1>6. NaluOK(ctx.fuNalu)
  BY <1>3, <1>4
<1>7. ctx.prevSeq \in Numbers \cup {0} /\ refused \subseteq Numbers
  <2>1. Len(stream) \in Nat
    BY <1>1
  <2>2. ctx.prevSeq = 0 \/ ctx.prevSeq \in 1 .. Len(stream)
    BY <1>1, <1>3, <2>1
  <2>3. QED  BY <1>1, <2>2 DEF Numbers
<1>8. QED  BY <1>1, <1>2, <1>3, <1>5, <1>6, <1>7 DEF TypeOK, FuOK

-----------------------------------------------------------------------------
(* The fields of the context have their types, the packets of the          *)
(* incomplete NALU are counted while there is one, and the pool of NALU    *)
(* items, the one of the incomplete NALU included, is never exceeded.      *)
THEOREM TypeCorrect == Spec => []TypeOK
  BY Invariant, InvType, PTL

(* A NALU is made of one packet, or of all the fragments from its first to *)
(* its last, whatever packets are lost (arstream2_rtp_h264.c 1165-1247).   *)
THEOREM OnlyWhole == Spec => []WholeNalus
  BY Invariant, InvWhole, PTL

(* The NALUs of an access unit are of one timestamp and those of the next  *)
(* of a later one, though the marker bit may be lost (1097-1138,           *)
(* 1316-1347).                                                             *)
THEOREM NeverMixed == Spec => []AccessUnitsSeparate
  BY Invariant, InvSeparate, PTL

(* A NALU that does not follow the previous one says that packets are      *)
(* missing before it, unless one of them was refused for want of an access *)
(* unit (1083-1089, 1178-1221, 1349-1352).                                 *)
THEOREM GapsTold == Spec => []MissingReported
  BY Invariant, InvReported, PTL

-----------------------------------------------------------------------------
(* The same of the depayloader that calls the filter: a step of the        *)
(* composition is one of the depayloader's, with a packet of the script.   *)

Follows ==
    script.packets # <<>> =>
        \A j \in 1 .. Len(stream) : stream[j].kind = script.packets[j].kind

FilterInv == Inv /\ chosen \in DOMAIN Scripts /\ Follows

LEMMA InitFilter == FilterInit => FilterInv
<1> SUFFICES ASSUME FilterInit PROVE FilterInv
  OBVIOUS
<1>1. Inv /\ chosen \in DOMAIN Scripts /\ stream = <<>>
  BY InitInv DEF FilterInit, Init
<1>2. Len(stream) = 0
  BY <1>1
<1>3. Follows
  BY <1>2 DEF Follows
<1>4. QED  BY <1>1, <1>3 DEF FilterInv

LEMMA NextFilter == FilterInv /\ [FilterNext]_<<vars, filterVars>> => FilterInv'
<1> SUFFICES ASSUME FilterInv, [FilterNext]_<<vars, filterVars>> PROVE FilterInv'
  OBVIOUS
<1>1. /\ Inv /\ chosen \in DOMAIN Scripts /\ Follows
      /\ stream \in Seq(Packets) /\ SentTs \in Nat
  BY DEF FilterInv, Inv, Resting
<1>2. CASE Scripted
  <2>1. PICK n \in Nat : n = Len(stream)
    BY <1>1
  <2>2. PICK packets : packets = script.packets
    OBVIOUS
  <2>3. n < Len(packets) /\ chosen' = chosen
    BY <1>2, <2>1, <2>2 DEF Scripted
  <2>4. /\ Len(packets) \in Nat
        /\ \A i \in 1 .. Len(packets) :
              /\ packets[i].kind \in IF i > 1 /\ packets[i - 1].kind \in {"start", "mid"}
                                     THEN {"mid", "end"} ELSE {"single", "stap", "start"}
              /\ packets[i].marker \in BOOLEAN
              /\ packets[i].marker => packets[i].kind \notin {"start", "mid"}
    <3>1. script \in Range(Scripts)
      BY <1>1 DEF script, Range
    <3>2. QED  BY <2>2, <3>1, ScriptAssumption
  <2>5. PICK next : next = packets[n + 1]
    OBVIOUS
  <2>6. PICK p : p = [kind |-> next.kind, ts |-> SentTs, marker |-> next.marker]
    OBVIOUS
  <2>7. Receive(p, "both") \/ Lose(p)
    BY <1>2, <2>1, <2>2, <2>5, <2>6 DEF Scripted
  <2>8. /\ next.kind \in IF n > 0 /\ packets[n].kind \in {"start", "mid"}
                         THEN {"mid", "end"} ELSE {"single", "stap", "start"}
        /\ next.marker \in BOOLEAN
        /\ next.marker => next.kind \notin {"start", "mid"}
    <3>1. n + 1 \in 1 .. Len(packets) /\ n + 1 - 1 = n /\ (n + 1 > 1 <=> n > 0)
      BY <2>3, <2>4
    <3>2. QED  BY <2>4, <2>5, <3>1
  <2>9. p \in Packets
    <3>1. next.kind \in Kinds
      BY <2>8 DEF Kinds
    <3>2. QED  BY <1>1, <2>6, <2>8, <3>1 DEF Packets
  <2>10. packets # <<>>
    <3>1. Len(<<>>) = 0
      OBVIOUS
    <3>2. QED  BY <2>1, <2>3, <3>1
  <2>11. InFuA <=> n > 0 /\ packets[n].kind \in {"start", "mid"}
    <3>1. stream # <<>> <=> n > 0
      BY <1>1, <2>1
    <3>2. ASSUME n > 0 PROVE LastSent.kind = packets[n].kind
      <4>1. n \in 1 .. Len(stream)
        BY <2>1, <3>2
      <4>2. QED  BY <1>1, <2>1, <2>2, <2>10, <4>1 DEF Follows, LastSent
    <3>3. QED  BY <3>1, <3>2 DEF InFuA
  <2>12. Sendable(p)
    BY <2>6, <2>8, <2>11 DEF Sendable
  <2>13. Inv'
    BY <1>1, <2>7, <2>9, <2>12, LoseStep, ReceiveStep
  <2>14. script' = script
    BY <2>3 DEF script
  <2>15. stream' = Append(stream, p)
    BY <2>7 DEF Receive, Lose
  <2>16. Follows'
    <3>1. /\ Len(stream') = n + 1 /\ stream'[n + 1] = p
          /\ \A j \in 1 .. n : stream'[j] = stream[j]
      BY <1>1, <2>1, <2>9, <2>15, AppendSeq
    <3>2. p.kind = packets[n + 1].kind
      BY <2>5, <2>6
    <3>3. ASSUME NEW j \in 1 .. Len(stream') PROVE stream'[j].kind = packets[j].kind
      <4>1. CASE j = n + 1
        BY <3>1, <3>2, <4>1
      <4>2. CASE j # n + 1
        <5>1. j \in 1 .. n
          BY <2>1, <3>1, <4>2
        <5>2. stream[j].kind = packets[j].kind
          BY <1>1, <2>1, <2>2, <2>10, <5>1 DEF Follows
        <5>3. QED  BY <3>1, <5>1, <5>2
      <4>3. QED  BY <4>1, <4>2
    <3>4. QED  BY <2>2, <2>14, <3>3 DEF Follows
  <2>17. QED  BY <1>1, <2>3, <2>13, <2>16 DEF FilterInv
<1>3. CASE AnyStream
  <2>1. script.packets = <<>> /\ chosen' = chosen /\ Inv'
    BY <1>1, <1>3, NextInv DEF AnyStream, filterVars
  <2>2. script' = script
    BY <2>1 DEF script
  <2>3. QED  BY <1>1, <2>1, <2>2 DEF FilterInv, Follows
<1>4. CASE UNCHANGED <<vars, filterVars>>
  <2>1. chosen' = chosen /\ stream' = stream /\ Inv'
    BY <1>1, <1>4, StutterInv DEF filterVars, vars
  <2>2. script' = script
    BY <2>1 DEF script
  <2>3. QED  BY <1>1, <2>1, <2>2 DEF FilterInv, Follows
<1>5. QED  BY <1>2, <1>3, <1>4 DEF FilterNext

LEMMA FilterInvariant == FilterSpec => []FilterInv
<1>1. FilterInv /\ [FilterNext]_<<vars, filterVars>> => FilterInv'
  BY NextFilter
<1>2. QED  BY <1>1, InitFilter, PTL DEF FilterSpec

(* The fields of the context keep their types, and the pool of NALU items  *)
(* is not exceeded, with the packets of any script.                        *)
THEOREM FilterTypeCorrect == FilterSpec => []TypeOK
<1>1. FilterInv => TypeOK
  BY InvType DEF FilterInv
<1>2. QED  BY <1>1, FilterInvariant, PTL

(* Whatever packets of a script are lost, the filter is given whole NALUs  *)
(* only: it parses what the encoder made.                                  *)
THEOREM FilterOnlyWhole == FilterSpec => []WholeNalus
<1>1. FilterInv => WholeNalus
  BY InvWhole DEF FilterInv
<1>2. QED  BY <1>1, FilterInvariant, PTL

(* It is given the NALUs of one timestamp at a time, and later ones in     *)
(* later access units: no frame is mixed with another.                     *)
THEOREM FilterNeverMixed == FilterSpec => []AccessUnitsSeparate
<1>1. FilterInv => AccessUnitsSeparate
  BY InvSeparate DEF FilterInv
<1>2. QED  BY <1>1, FilterInvariant, PTL

(* And it is told of every hole between two NALUs, which is what its error *)
(* concealment relies on.                                                  *)
THEOREM FilterGapsTold == FilterSpec => []MissingReported
<1>1. FilterInv => MissingReported
  BY InvReported DEF FilterInv
<1>2. QED  BY <1>1, FilterInvariant, PTL
=============================================================================
