------------------------------ MODULE SeqLemmas ------------------------------
(***************************************************************************)
(* Facts about sequences without repetition, the form every list of the    *)
(* FIFOs has: what a pop, a push, an append, an insertion and a removal do *)
(* to the set of its elements; about the least and the greatest element of *)
(* a set of numbers; and about numbers that wrap around.                   *)
(***************************************************************************)
EXTENDS SequencesExt, SequenceTheorems, WellFoundedInduction, TLAPS

(* The elements of a sequence over S are in S.                             *)
LEMMA ToSetType ==
    ASSUME NEW S, NEW s \in Seq(S)
    PROVE  ToSet(s) \subseteq S
  BY DEF ToSet

(* Popping the head.                                                       *)
LEMMA TailLemma ==
    ASSUME NEW S, NEW s \in Seq(S), s # <<>>, IsInjective(s)
    PROVE  /\ Head(s) \in ToSet(s) /\ Head(s) \in S
           /\ Tail(s) \in Seq(S)
           /\ IsInjective(Tail(s))
           /\ ToSet(Tail(s)) = ToSet(s) \ {Head(s)}
           /\ Len(Tail(s)) = Len(s) - 1
           /\ \A i \in 1 .. Len(s) - 1 : Tail(s)[i] = s[i + 1]
<1>1. /\ Tail(s) \in Seq(S) /\ Head(s) = s[1] /\ Len(s) \in Nat \ {0}
      /\ DOMAIN s = 1 .. Len(s)
  BY HeadTailProperties
<1>2. /\ Len(Tail(s)) = Len(s) - 1 /\ DOMAIN Tail(s) = 1 .. Len(s) - 1
      /\ \A i \in 1 .. Len(s) - 1 : Tail(s)[i] = s[i + 1]
  BY <1>1
<1>3. IsInjective(Tail(s))
  BY <1>1, <1>2 DEF IsInjective
<1>4. Head(s) \in ToSet(s) /\ Head(s) \in S
  BY <1>1 DEF ToSet
<1>5. ToSet(Tail(s)) \subseteq ToSet(s) \ {Head(s)}
  BY <1>1, <1>2 DEF IsInjective, ToSet
<1>6. ASSUME NEW x \in ToSet(s) \ {Head(s)}
      PROVE  x \in ToSet(Tail(s))
  <2>1. PICK i \in DOMAIN s : s[i] = x
    BY DEF ToSet
  <2>2. i # 1 /\ i - 1 \in 1 .. Len(s) - 1
    BY <2>1, <1>1
  <2>3. Tail(s)[i - 1] = x
    BY <2>1, <2>2, <1>1, <1>2
  <2>4. QED  BY <2>2, <2>3, <1>2 DEF ToSet
<1>7. QED  BY <1>1, <1>2, <1>3, <1>4, <1>5, <1>6

(* Pushing a new element at the head.                                      *)
LEMMA ConsLemma ==
    ASSUME NEW S, NEW s \in Seq(S), NEW x \in S, x \notin ToSet(s),
           IsInjective(s)
    PROVE  /\ Cons(x, s) \in Seq(S)
           /\ IsInjective(Cons(x, s))
           /\ ToSet(Cons(x, s)) = ToSet(s) \cup {x}
           /\ Len(Cons(x, s)) = Len(s) + 1
<1> DEFINE t == Cons(x, s)
<1>1. /\ t \in Seq(S) /\ Len(t) = Len(s) + 1 /\ DOMAIN t = 1 .. Len(s) + 1
      /\ Len(s) \in Nat /\ DOMAIN s = 1 .. Len(s)
      /\ t[1] = x
      /\ \A i \in 1 .. Len(s) : t[i + 1] = s[i]
  BY DEF Cons
<1> HIDE DEF t
<1>2. ASSUME NEW i \in DOMAIN t
      PROVE  i = 1 \/ (i - 1 \in DOMAIN s /\ t[i] = s[i - 1])
  BY <1>1
<1>3. IsInjective(t)
  <2>1. ASSUME NEW i \in DOMAIN t, NEW j \in DOMAIN t, t[i] = t[j]
        PROVE  i = j
    <3>1. s[i - 1] = s[j - 1] => i - 1 = j - 1
        \/ i = 1 \/ j = 1
      BY <1>2 DEF IsInjective
    <3>2. QED  BY <2>1, <3>1, <1>1, <1>2 DEF IsInjective, ToSet
  <2>2. QED  BY <2>1 DEF IsInjective
<1>4. ToSet(t) \subseteq ToSet(s) \cup {x}
  BY <1>1, <1>2 DEF ToSet
<1>5. ToSet(s) \cup {x} \subseteq ToSet(t)
  <2>1. x \in ToSet(t)
    BY <1>1 DEF ToSet
  <2>2. ASSUME NEW y \in ToSet(s) PROVE y \in ToSet(t)
    <3>1. PICK i \in 1 .. Len(s) : s[i] = y
      BY <1>1 DEF ToSet
    <3>2. t[i + 1] = y /\ i + 1 \in DOMAIN t
      BY <3>1, <1>1
    <3>3. QED  BY <3>2 DEF ToSet
  <2>3. QED  BY <2>1, <2>2
<1>6. QED  BY <1>1, <1>3, <1>4, <1>5 DEF t

(* Appending a new element.                                                *)
LEMMA AppendLemma ==
    ASSUME NEW S, NEW s \in Seq(S), NEW x \in S, x \notin ToSet(s),
           IsInjective(s)
    PROVE  /\ Append(s, x) \in Seq(S)
           /\ IsInjective(Append(s, x))
           /\ ToSet(Append(s, x)) = ToSet(s) \cup {x}
<1> DEFINE t == Append(s, x)
<1>1. /\ t \in Seq(S) /\ Len(t) = Len(s) + 1 /\ DOMAIN t = 1 .. Len(s) + 1
      /\ Len(s) \in Nat /\ DOMAIN s = 1 .. Len(s)
      /\ t[Len(s) + 1] = x
      /\ \A i \in 1 .. Len(s) : t[i] = s[i]
  OBVIOUS
<1> HIDE DEF t
<1>2. IsInjective(t)
  <2>1. ASSUME NEW i \in DOMAIN t, NEW j \in DOMAIN t, t[i] = t[j]
        PROVE  i = j
    <3>1. CASE i \in DOMAIN s /\ j \in DOMAIN s
      BY <2>1, <3>1, <1>1 DEF IsInjective
    <3>2. CASE i \notin DOMAIN s \/ j \notin DOMAIN s
      BY <2>1, <3>2, <1>1 DEF ToSet
    <3>3. QED  BY <3>1, <3>2
  <2>2. QED  BY <2>1 DEF IsInjective
<1>3. ToSet(t) \subseteq ToSet(s) \cup {x}
  BY <1>1 DEF ToSet
<1>4. ToSet(s) \cup {x} \subseteq ToSet(t)
  BY <1>1 DEF ToSet
<1>5. QED  BY <1>1, <1>2, <1>3, <1>4 DEF t

(* Removing the element at position k: the elements after it move up.      *)
LEMMA RemoveAtLemma ==
    ASSUME NEW S, NEW s \in Seq(S), NEW k \in 1 .. Len(s), IsInjective(s)
    PROVE  /\ RemoveAt(s, k) \in Seq(S)
           /\ IsInjective(RemoveAt(s, k))
           /\ ToSet(RemoveAt(s, k)) = ToSet(s) \ {s[k]}
           /\ Len(RemoveAt(s, k)) = Len(s) - 1
           /\ \A i \in 1 .. Len(s) - 1 :
                 RemoveAt(s, k)[i] = IF i < k THEN s[i] ELSE s[i + 1]
<1> DEFINE a == SubSeq(s, 1, k - 1)
           b == SubSeq(s, k + 1, Len(s))
           t == RemoveAt(s, k)
<1>1. Len(s) \in Nat /\ DOMAIN s = 1 .. Len(s) /\ k \in DOMAIN s
  OBVIOUS
<1>2. /\ a \in Seq(S) /\ Len(a) = k - 1
      /\ \A i \in 1 .. k - 1 : a[i] = s[i]
  BY <1>1, SubSeqProperties
<1>3. /\ b \in Seq(S) /\ Len(b) = Len(s) - k
      /\ \A i \in 1 .. Len(s) - k : b[i] = s[k + i]
  BY SMTT(30), <1>1, SubSeqProperties
<1>4. /\ t \in Seq(S) /\ Len(t) = Len(s) - 1 /\ DOMAIN t = 1 .. Len(s) - 1
      /\ \A i \in 1 .. Len(s) - 1 : t[i] = IF i < k THEN s[i] ELSE s[i + 1]
  <2> HIDE DEF a, b
  <2>1. t = a \o b
    BY DEF RemoveAt, a, b
  <2>2. /\ a \o b \in Seq(S) /\ Len(a \o b) = Len(a) + Len(b)
        /\ \A i \in 1 .. Len(a) + Len(b) :
              (a \o b)[i] = IF i <= Len(a) THEN a[i] ELSE b[i - Len(a)]
    BY <1>2, <1>3, ConcatProperties
  <2> HIDE DEF t
  <2>3. t \in Seq(S) /\ Len(t) = Len(s) - 1 /\ DOMAIN t = 1 .. Len(s) - 1
    <3>1. t \in Seq(S)
      BY <2>1, <2>2
    <3>2. Len(t) = Len(s) - 1
      BY <2>1, <2>2, <1>1, <1>2, <1>3
    <3>3. QED  BY <3>1, <3>2
  <2>4. ASSUME NEW i \in 1 .. Len(s) - 1
        PROVE  t[i] = IF i < k THEN s[i] ELSE s[i + 1]
    <3>1. CASE i < k
      BY <3>1, <2>1, <2>2, <1>1, <1>2, <1>3
    <3>2. CASE i >= k
      <4>1. t[i] = b[i - (k - 1)] /\ i - (k - 1) \in 1 .. Len(s) - k
        <5>1. /\ i \in 1 .. Len(a) + Len(b) /\ ~ (i <= Len(a))
              /\ i - (k - 1) \in 1 .. Len(s) - k /\ Len(a) = k - 1
          BY <3>2, <1>1, <1>2, <1>3
        <5>2. (a \o b)[i] = b[i - Len(a)]
          BY <5>1, <2>2
        <5>3. QED  BY <5>1, <5>2, <2>1
      <4>2. b[i - (k - 1)] = s[k + (i - (k - 1))] /\ k + (i - (k - 1)) = i + 1
        BY <4>1, <1>1, <1>3
      <4>3. QED  BY <3>2, <4>1, <4>2
    <3>3. QED  BY <3>1, <3>2, <1>1
  <2>5. QED  BY <2>3, <2>4
<1> HIDE DEF t
<1>5. IsInjective(t)
  <2> DEFINE o(i) == IF i < k THEN i ELSE i + 1
  <2>1. ASSUME NEW i \in DOMAIN t
        PROVE  t[i] = s[o(i)] /\ o(i) \in DOMAIN s
    BY <1>1, <1>4
  <2>2. ASSUME NEW i \in DOMAIN t, NEW j \in DOMAIN t, t[i] = t[j]
        PROVE  i = j
    <3>1. o(i) = o(j)
      <4> HIDE DEF o
      <4>1. QED  BY <2>1, <2>2 DEF IsInjective
    <3>2. QED  BY <3>1, <1>1, <1>4
  <2>3. QED  BY <2>2 DEF IsInjective
<1>6. ToSet(t) \subseteq ToSet(s) \ {s[k]}
  BY SMTT(30), <1>1, <1>4 DEF ToSet, IsInjective
<1>7. ASSUME NEW x \in ToSet(s) \ {s[k]} PROVE x \in ToSet(t)
  <2>1. PICK i \in DOMAIN s : s[i] = x
    BY DEF ToSet
  <2>2. CASE i < k
    BY <2>1, <2>2, <1>1, <1>4 DEF ToSet
  <2>3. CASE i > k
    <3>1. i - 1 \in 1 .. Len(s) - 1 /\ t[i - 1] = x
      BY <2>1, <2>3, <1>1, <1>4
    <3>2. QED  BY <3>1, <1>4 DEF ToSet
  <2>4. QED  BY <2>1, <2>2, <2>3, <1>1
<1>8. QED  BY <1>4, <1>5, <1>6, <1>7 DEF t

(* Inserting a new element at position k: the elements from k on move down.*)
LEMMA InsertAtLemma ==
    ASSUME NEW S, NEW s \in Seq(S), NEW k \in 1 .. Len(s) + 1, NEW x \in S,
           x \notin ToSet(s), IsInjective(s)
    PROVE  /\ InsertAt(s, k, x) \in Seq(S)
           /\ IsInjective(InsertAt(s, k, x))
           /\ ToSet(InsertAt(s, k, x)) = ToSet(s) \cup {x}
           /\ Len(InsertAt(s, k, x)) = Len(s) + 1
           /\ \A i \in 1 .. Len(s) + 1 : InsertAt(s, k, x)[i] =
                 IF i < k THEN s[i] ELSE IF i = k THEN x ELSE s[i - 1]
<1> DEFINE a == SubSeq(s, 1, k - 1)
           b == SubSeq(s, k, Len(s))
           t == InsertAt(s, k, x)
<1>1. Len(s) \in Nat /\ DOMAIN s = 1 .. Len(s)
  OBVIOUS
<1>2. /\ a \in Seq(S) /\ Len(a) = k - 1
      /\ \A i \in 1 .. k - 1 : a[i] = s[i]
  BY <1>1, SubSeqProperties
<1>3. /\ b \in Seq(S) /\ Len(b) = Len(s) - k + 1
      /\ \A i \in 1 .. Len(s) - k + 1 : b[i] = s[k + i - 1]
  BY <1>1, SubSeqProperties
<1>4. /\ t \in Seq(S) /\ Len(t) = Len(s) + 1 /\ DOMAIN t = 1 .. Len(s) + 1
      /\ \A i \in 1 .. Len(s) + 1 : t[i] =
            IF i < k THEN s[i] ELSE IF i = k THEN x ELSE s[i - 1]
  <2> HIDE DEF a, b
  <2> DEFINE c == a \o <<x>>
  <2>1. t = c \o b
    BY DEF InsertAt, a, b
  <2>2. /\ c \in Seq(S) /\ Len(c) = k
        /\ \A i \in 1 .. k : c[i] = IF i < k THEN a[i] ELSE x
    BY <1>2, ConcatProperties
  <2> HIDE DEF c
  <2>3. /\ c \o b \in Seq(S) /\ Len(c \o b) = Len(c) + Len(b)
        /\ \A i \in 1 .. Len(c) + Len(b) :
              (c \o b)[i] = IF i <= Len(c) THEN c[i] ELSE b[i - Len(c)]
    BY <2>2, <1>3, ConcatProperties
  <2> HIDE DEF t
  <2>4. t \in Seq(S) /\ Len(t) = Len(s) + 1 /\ DOMAIN t = 1 .. Len(s) + 1
    BY <2>1, <2>2, <2>3, <1>1, <1>2, <1>3
  <2>5. ASSUME NEW i \in 1 .. Len(s) + 1
        PROVE  t[i] = IF i < k THEN s[i] ELSE IF i = k THEN x ELSE s[i - 1]
    <3>1. CASE i <= k
      <4>1. t[i] = c[i] /\ i \in 1 .. k
        BY <3>1, <2>1, <2>2, <2>3, <1>1, <1>3
      <4>2. QED  BY <3>1, <4>1, <2>2, <1>1, <1>2
    <3>2. CASE i > k
      <4>1. t[i] = b[i - k] /\ i - k \in 1 .. Len(s) - k + 1
        BY <3>2, <2>1, <2>2, <2>3, <1>1, <1>3
      <4>2. b[i - k] = s[k + (i - k) - 1] /\ k + (i - k) - 1 = i - 1
        BY <4>1, <1>1, <1>3
      <4>3. QED  BY <3>2, <4>1, <4>2
    <3>3. QED  BY <3>1, <3>2, <1>1
  <2>6. QED  BY <2>4, <2>5
<1> HIDE DEF t
<1>5. IsInjective(t)
  <2> DEFINE o(i) == IF i < k THEN i ELSE i - 1
  <2>1. ASSUME NEW i \in DOMAIN t, i # k
        PROVE  t[i] = s[o(i)] /\ o(i) \in DOMAIN s /\ t[i] # x
    <3>1. t[i] = s[o(i)] /\ o(i) \in DOMAIN s
      BY <2>1, <1>1, <1>4
    <3> HIDE DEF o
    <3>2. QED  BY <3>1 DEF ToSet
  <2>2. ASSUME NEW i \in DOMAIN t, NEW j \in DOMAIN t, t[i] = t[j]
        PROVE  i = j
    <3>1. t[k] = x
      BY <1>1, <1>4
    <3>2. CASE i = k \/ j = k
      BY <2>1, <2>2, <3>1, <3>2
    <3>3. CASE i # k /\ j # k
      <4>1. o(i) = o(j)
        <5> HIDE DEF o
        <5>1. QED  BY <2>1, <2>2, <3>3 DEF IsInjective
      <4>2. QED  BY <4>1, <3>3, <1>1, <1>4
    <3>4. QED  BY <3>2, <3>3
  <2>3. QED  BY <2>2 DEF IsInjective
<1>6. ToSet(t) \subseteq ToSet(s) \cup {x}
  BY SMTT(30), <1>1, <1>4 DEF ToSet
<1>7. ASSUME NEW y \in ToSet(s) \cup {x} PROVE y \in ToSet(t)
  <2>1. CASE y = x
    BY <2>1, <1>1, <1>4 DEF ToSet
  <2>2. ASSUME NEW i \in DOMAIN s, s[i] = y PROVE y \in ToSet(t)
    <3>1. CASE i < k
      BY <3>1, <2>2, <1>1, <1>4 DEF ToSet
    <3>2. CASE i >= k
      <4>1. i + 1 \in 1 .. Len(s) + 1 /\ t[i + 1] = y
        BY <3>2, <2>2, <1>1, <1>4
      <4>2. QED  BY <4>1, <1>4 DEF ToSet
    <3>3. QED  BY <3>1, <3>2, <1>1
  <2>3. QED  BY <2>1, <2>2 DEF ToSet
<1>8. QED  BY <1>4, <1>5, <1>6, <1>7 DEF t
(* A non-empty set of naturals has a smallest element.                     *)
LEMMA MinExists ==
    ASSUME NEW T, T \subseteq Nat, T # {}
    PROVE  \E x \in T : \A y \in T : x <= y
<1>1. IsWellFoundedOn(OpToRel(<, Nat), Nat)
  BY NatLessThanWellFounded
<1>2. PICK x \in T : \A y \in T : ~ (<<y, x>> \in OpToRel(<, Nat))
  BY <1>1, WFMin
<1>3. \A y \in T : ~(y < x)
  BY <1>2 DEF OpToRel
<1>4. QED  BY <1>3

(* A non-empty set of numbers up to N has a largest one, and Max is it.    *)
LEMMA MaxLemma ==
    ASSUME NEW N \in Nat, NEW T, T \subseteq 0 .. N, T # {}
    PROVE  Max(T) \in T /\ \A y \in T : Max(T) >= y
<1> DEFINE D == {n \in 0 .. N : N - n \in T}
<1>1. D \subseteq Nat /\ D # {}
  <2>1. PICK x \in T : x \in 0 .. N
    OBVIOUS
  <2>2. N - x \in 0 .. N /\ N - (N - x) = x
    BY <2>1
  <2>3. N - x \in D
    BY <2>1, <2>2
  <2>4. D \subseteq Nat
    OBVIOUS
  <2> HIDE DEF D
  <2>5. QED  BY <2>3, <2>4
<1>2. PICK m \in D : \A d \in D : m <= d
  <2> HIDE DEF D
  <2>1. QED  BY <1>1, MinExists
<1>3. ASSUME NEW y \in T
      PROVE  N - m >= y
  <2>1. y \in 0 .. N
    OBVIOUS
  <2>2. N - y \in 0 .. N /\ N - (N - y) = y
    BY <2>1
  <2>3. m <= N - y /\ m \in 0 .. N
    BY <2>2, <1>2
  <2>4. QED  BY <2>1, <2>3
<1>4. N - m \in T
  OBVIOUS
<1>5. QED  BY <1>3, <1>4 DEF Max

(* Min of a non-empty set of naturals is the smallest one.                 *)
LEMMA MinLemma ==
    ASSUME NEW T, T \subseteq Nat, T # {}
    PROVE  Min(T) \in T /\ Min(T) \in Nat
<1>1. \E x \in T : \A y \in T : x <= y
  BY MinExists
<1>2. QED  BY <1>1 DEF Min

(* Induction: a set with 0 and the successor of each of its naturals.      *)
LEMMA SetInduction ==
    ASSUME NEW S, 0 \in S, \A n \in Nat : n \in S => n + 1 \in S
    PROVE  Nat \subseteq S
<1>1. SUFFICES ASSUME Nat \ S # {} PROVE FALSE
  OBVIOUS
<1>2. PICK m \in Nat \ S : \A y \in Nat \ S : m <= y
  BY <1>1, MinExists
<1>3. m - 1 \in Nat /\ m - 1 < m
  BY <1>2
<1>4. m - 1 \in S
  BY <1>2, <1>3
<1>5. QED  BY <1>2, <1>3, <1>4

-----------------------------------------------------------------------------
(* Rings of integers.                                                      *)

(* A modulo is in its ring.                                                *)
LEMMA ModRange ==
    ASSUME NEW a \in Int, NEW n \in Nat, n > 0
    PROVE  a % n \in 0 .. n - 1
  OBVIOUS

(* Replacing the low part of a number of the ring of size ext by a number  *)
(* of the ring of size ring stays in the larger one, when that is a whole  *)
(* number of the smaller: a bitwise or of the two parts never carries.     *)
LEMMA LowPart ==
    ASSUME NEW ring \in Nat, ring > 1, NEW ext \in Nat, ext > ring, ext % ring = 0,
           NEW low \in 0 .. ring - 1, NEW high \in 0 .. ext - 1
    PROVE  high - (high % ring) + low \in 0 .. ext - 1
<1> DEFINE q == high \div ring
           n == ext \div ring
<1>1. high \in Nat /\ high < ext /\ low \in Nat /\ low < ring
  OBVIOUS
<1>2. q \in Nat /\ high = ring * q + (high % ring) /\ high % ring \in 0 .. ring - 1
  BY <1>1
<1>3. n \in Nat /\ ext = ring * n
  OBVIOUS
<1> HIDE DEF q, n
<1>4. ring * q < ring * n
  BY <1>1, <1>2, <1>3
<1>5. q < n
  BY <1>1, <1>2, <1>3, <1>4
<1>6. ring * (q + 1) <= ring * n
  BY <1>1, <1>2, <1>3, <1>5
<1>7. ring * (q + 1) = ring * q + ring
  BY <1>1, <1>2
<1>8. high - (high % ring) = ring * q /\ ring * q \in Nat
  BY <1>1, <1>2
<1>9. ring * q + low < ext /\ ring * q + low \in Nat
  BY <1>1, <1>3, <1>6, <1>7, <1>8
<1>10. QED  BY <1>8, <1>9, <1>1

=============================================================================
