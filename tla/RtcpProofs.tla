----------------------------- MODULE RtcpProofs ------------------------------
(***************************************************************************)
(* Theorems about SeqNumExt and Rtcp: the numbers the receiver gives to    *)
(* the packets are the sender's, what its loss reports say of them is      *)
(* true, a clock is measured to half the round trip, and the metadata a    *)
(* side reads of its peer's is what the peer has set.                      *)
(***************************************************************************)
EXTENDS Rtcp, SeqLemmas, FiniteSetTheorems

-----------------------------------------------------------------------------
(* The extension of the sequence numbers, for rings of any size.           *)

(* The extended number is a 32-bit number.                                 *)
LEMMA ExtendType ==
    ASSUME NEW seq \in SeqNums, NEW highestExt \in ExtNums, NEW previousExt \in Int
    PROVE  Extend(seq, highestExt, previousExt) \in ExtNums
<1> DEFINE guess == highestExt - (highestExt % SeqRing) + seq
<1>1. guess \in ExtNums
  BY LowPart, SeqNumAssumption DEF SeqNums, ExtNums
<1>2. /\ ExtRing \in Nat /\ ExtRing > 0 /\ SeqRing \in Nat
      /\ guess \in Int
  BY <1>1, SeqNumAssumption DEF ExtNums
<1> HIDE DEF guess
<1>3. (guess + SeqRing) % ExtRing \in ExtNums /\ (guess - SeqRing) % ExtRing \in ExtNums
  BY <1>2, ModRange DEF ExtNums
<1>4. QED  BY <1>1, <1>3 DEF Extend, guess

(* The int32_t copy of an extended number is an integer.                   *)
LEMMA ToInt32Type ==
    ASSUME NEW e \in ExtNums
    PROVE  ToInt32(e) \in Int
  BY SeqNumAssumption DEF ExtNums, ToInt32

LEMMA SeqNumsExtend == SeqNums \subseteq ExtNums /\ 0 \in SeqNums /\ 0 \in ExtNums
  BY SeqNumAssumption DEF SeqNums, ExtNums

-----------------------------------------------------------------------------
(* No packet of the cycle before the receiver's first one can still        *)
(* arrive: its number would be negative in int32_t, and -1 there stands    *)
(* for no packet yet (arstream2_rtp.c 1373).  Packets of the sender's      *)
(* first cycle have none before them.                                      *)
NoEarlierCycle == \A j \in Joins : j < SeqRing \/ j % SeqRing >= Window

(* A session of fewer than 2^31 packets: beyond, int32_t wraps.            *)
ShortSession == 2 * MaxIndex < ExtRing

(* Before and after the first packet.                                      *)
NoneYet == top = -1 /\ firsts = 0 /\ highest = 0 /\ previous = NoPrevious

Following ==
    /\ top \in 0 .. MaxIndex /\ latest \in 0 .. MaxIndex /\ origin \in Nat
    /\ origin % SeqRing = 0 /\ origin <= latest
    /\ latest <= top /\ top <= latest + Window
    /\ origin = 0 \/ origin + Window <= top
    /\ previous = latest - origin /\ highest = top - origin
    /\ firsts = 1

Numbered == NoneYet \/ Following

-----------------------------------------------------------------------------
(* Arithmetic.                                                             *)

(* The cycles of two numbers that are less than a cycle apart are the same *)
(* or neighbours.                                                          *)
LEMMA Cycles ==
    ASSUME NEW h \in Nat, NEW x \in Nat, NEW W \in Nat, W < SeqRing,
           x <= h + W, h <= x + W
    PROVE  h - (h % SeqRing) + (x % SeqRing) \in {x, x - SeqRing, x + SeqRing}
<1> DEFINE qh == h \div SeqRing
           qx == x \div SeqRing
           rh == h % SeqRing
           rx == x % SeqRing
<1>1. SeqRing \in Nat /\ SeqRing > 1
  BY SeqNumAssumption
<1>2. /\ qh \in Nat /\ h = SeqRing * qh + rh /\ rh \in 0 .. SeqRing - 1
      /\ qx \in Nat /\ x = SeqRing * qx + rx /\ rx \in 0 .. SeqRing - 1
  BY <1>1
<1> HIDE DEF qh, qx, rh, rx
<1>3. SeqRing * qh < SeqRing * qx + 2 * SeqRing /\ SeqRing * qx < SeqRing * qh + 2 * SeqRing
  BY <1>1, <1>2
<1>4. SeqRing * qh < SeqRing * (qx + 2) /\ SeqRing * qx < SeqRing * (qh + 2)
  BY <1>1, <1>2, <1>3
<1>5. qh < qx + 2 /\ qx < qh + 2
  BY <1>1, <1>2, <1>4
<1>6. qh = qx \/ qh = qx + 1 \/ qx = qh + 1
  BY <1>2, <1>5
<1>7. h - rh + rx = x + SeqRing * qh - SeqRing * qx
  BY <1>1, <1>2
<1>8. CASE qh = qx
  BY <1>1, <1>2, <1>7, <1>8 DEF rh, rx
<1>9. CASE qh = qx + 1
  <2>1. SeqRing * qh = SeqRing * qx + SeqRing
    BY <1>1, <1>2, <1>9
  <2>2. QED  BY <1>1, <1>2, <1>7, <2>1 DEF rh, rx
<1>10. CASE qx = qh + 1
  <2>1. SeqRing * qx = SeqRing * qh + SeqRing
    BY <1>1, <1>2, <1>10
  <2>2. QED  BY <1>1, <1>2, <1>7, <2>1 DEF rh, rx
<1>11. QED  BY <1>6, <1>8, <1>9, <1>10

(* The extension recovers a number from its low part, given a highest and  *)
(* a previous one that are near it, across the wrap of the low part        *)
(* (arstream2_rtp.c 1325-1341).                                            *)
LEMMA ExtendRecovers ==
    ASSUME NEW x \in Nat, NEW h \in Nat, NEW p \in Nat, NEW W \in Nat,
           2 * W < Half, x < ExtRing,
           x <= h + W, h <= x + W, p <= h, h <= p + W
    PROVE  Extend(x % SeqRing, h, p) = x
<1> DEFINE guess == h - (h % SeqRing) + (x % SeqRing)
<1>1. /\ SeqRing \in Nat /\ SeqRing > 1 /\ ExtRing \in Nat
      /\ Half \in Nat /\ 2 * Half <= SeqRing
  BY SeqNumAssumption DEF Half
<1>2. guess \in {x, x - SeqRing, x + SeqRing}
  <2>1. W < SeqRing
    BY <1>1
  <2>2. QED  BY <2>1, Cycles
<1>3. x % ExtRing = x
  BY <1>1
<1> HIDE DEF guess
<1>4. Extend(x % SeqRing, h, p) =
        IF guess - p < -Half THEN (guess + SeqRing) % ExtRing
        ELSE IF guess - p > Half THEN (guess - SeqRing) % ExtRing ELSE guess
  BY DEF Extend, guess
<1>5. CASE guess = x
  <2>1. ~(guess - p < -Half) /\ ~(guess - p > Half)
    BY <1>1, <1>5
  <2>2. QED  BY <1>4, <1>5, <2>1
<1>6. CASE guess = x - SeqRing
  <2>1. guess - p < -Half /\ guess + SeqRing = x
    BY <1>1, <1>6
  <2>2. QED  BY <1>3, <1>4, <2>1
<1>7. CASE guess = x + SeqRing
  <2>1. ~(guess - p < -Half) /\ guess - p > Half /\ guess - SeqRing = x
    BY <1>1, <1>7
  <2>2. QED  BY <1>3, <1>4, <2>1
<1>8. QED  BY <1>2, <1>5, <1>6, <1>7

(* Counting from the start of a cycle keeps the low part.                  *)
LEMMA SameLowPart ==
    ASSUME NEW n \in Nat, NEW o \in Nat, o % SeqRing = 0, o <= n
    PROVE  n % SeqRing = (n - o) % SeqRing
<1> DEFINE q == o \div SeqRing
           m == (n - o) \div SeqRing
           r == (n - o) % SeqRing
<1>1. SeqRing \in Nat /\ SeqRing > 1
  BY SeqNumAssumption
<1>2. q \in Nat /\ o = SeqRing * q
  BY <1>1
<1>3. m \in Nat /\ n - o = SeqRing * m + r /\ r \in 0 .. SeqRing - 1
  BY <1>1
<1> HIDE DEF q, m, r
<1>4. n = SeqRing * (q + m) + r /\ q + m \in Nat
  BY <1>1, <1>2, <1>3
<1>5. PICK j \in Nat : j = q + m
  BY <1>4
<1>6. PICK k \in Nat, t \in 0 .. SeqRing - 1 : n = SeqRing * k + t /\ t = n % SeqRing
  <2>1. /\ n \div SeqRing \in Nat /\ n % SeqRing \in 0 .. SeqRing - 1
        /\ n = SeqRing * (n \div SeqRing) + (n % SeqRing)
    BY <1>1
  <2>2. QED  BY <2>1
<1>7. SeqRing * k < SeqRing * (j + 1) /\ SeqRing * j < SeqRing * (k + 1)
  BY <1>1, <1>3, <1>4, <1>5, <1>6
<1>8. k < j + 1 /\ j < k + 1
  BY <1>1, <1>7
<1>9. k = j
  BY <1>8
<1>10. t = r
  BY <1>1, <1>3, <1>4, <1>5, <1>6, <1>9
<1>11. QED  BY <1>6, <1>10 DEF r

(* The start of a cycle is one.                                            *)
LEMMA CycleStart ==
    ASSUME NEW n \in Nat
    PROVE  /\ n % SeqRing \in Nat /\ n % SeqRing <= n /\ n % SeqRing < SeqRing
           /\ n - (n % SeqRing) \in Nat
           /\ (n - (n % SeqRing)) % SeqRing = 0
           /\ n < SeqRing => n - (n % SeqRing) = 0
<1> DEFINE q == n \div SeqRing
           r == n % SeqRing
<1>1. SeqRing \in Nat /\ SeqRing > 1
  BY SeqNumAssumption
<1>2. q \in Nat /\ n = SeqRing * q + r /\ r \in 0 .. SeqRing - 1
  BY <1>1
<1>3. n < SeqRing => r = n
  BY <1>1
<1> HIDE DEF q, r
<1>4. SeqRing * q \in Nat /\ n - r = SeqRing * q /\ (SeqRing * q) % SeqRing = 0
  BY <1>1, <1>2
<1>5. QED  BY <1>1, <1>2, <1>3, <1>4 DEF r

-----------------------------------------------------------------------------
(* A packet that arrives keeps the numbering.                              *)
LEMMA ReceiveNumbered ==
    ASSUME NoEarlierCycle, ShortSession, Numbered,
           NEW n \in Arrivals, Receive(n)
    PROVE  Following'
<1> DEFINE e == NextExt(n % SeqRing, highest, previous)
<1>1. /\ SeqRing \in Nat /\ SeqRing > 1 /\ ExtRing \in Nat
      /\ Window \in Nat /\ 2 * Window < Half /\ Half \in Nat /\ 2 * Half <= SeqRing
      /\ MaxIndex \in Nat /\ 2 * MaxIndex < ExtRing
  BY SeqNumAssumption, WindowAssumption DEF Half, ShortSession
<1>2. n \in 0 .. MaxIndex
  BY WindowAssumption DEF Arrivals
<1>3. /\ top' = (IF n > top THEN n ELSE top) /\ latest' = n
      /\ origin' = (IF top = -1 THEN n - (n % SeqRing) ELSE origin)
      /\ firsts' = (IF previous = -1 THEN firsts + 1 ELSE firsts)
      /\ highest' = (IF previous = -1 \/ e > highest THEN e ELSE highest)
      /\ previous' = ToInt32(e)
  BY DEF Receive, NextHighest, NoPrevious
<1>4. e = IF previous # -1 THEN Extend(n % SeqRing, highest, previous)
          ELSE n % SeqRing
  BY DEF NextExt, NoPrevious
<1> HIDE DEF e
<1>5. CASE NoneYet
  <2>1. top = -1 /\ firsts = 0 /\ previous = -1
    BY <1>5 DEF NoneYet, NoPrevious
  <2>2. n < SeqRing \/ n % SeqRing >= Window
    BY <2>1 DEF Arrivals, NoEarlierCycle
  <2>3. PICK r \in Nat : r = n % SeqRing
    BY <1>2, CycleStart
  <2>4. /\ r <= n /\ n - r \in Nat /\ (n - r) % SeqRing = 0
        /\ n < SeqRing => n - r = 0
    BY <1>2, <2>3, CycleStart
  <2>5. e = r /\ ToInt32(r) = r
    BY <1>1, <1>2, <1>4, <2>1, <2>3, <2>4 DEF ToInt32
  <2>6. /\ top' = n /\ latest' = n /\ origin' = n - r /\ firsts' = 1
        /\ highest' = r /\ previous' = r
    BY <1>2, <1>3, <2>1, <2>3, <2>5
  <2>7. n - r = 0 \/ (n - r) + Window <= n
    BY <1>1, <1>2, <2>2, <2>3, <2>4
  <2>8. QED  BY <1>1, <1>2, <2>4, <2>6, <2>7 DEF Following
<1>6. CASE Following
  <2>1. PICK t \in 0 .. MaxIndex, l \in 0 .. MaxIndex, o \in Nat :
            t = top /\ l = latest /\ o = origin
    BY <1>6 DEF Following
  <2>2. /\ o % SeqRing = 0 /\ o <= l /\ l <= t /\ t <= l + Window
        /\ o = 0 \/ o + Window <= t
        /\ previous = l - o /\ highest = t - o /\ firsts = 1
    BY <1>6, <2>1 DEF Following
  <2>3. n <= t + Window /\ t <= n + Window
    BY <1>1, <1>2, <2>1 DEF Arrivals
  <2>4. o <= n
    BY <1>1, <1>2, <2>2, <2>3
  <2>5. PICK x \in Nat, h \in Nat, p \in Nat : x = n - o /\ h = t - o /\ p = l - o
    BY <1>2, <2>1, <2>2, <2>4
  <2>6. n % SeqRing = x % SeqRing
    BY <1>2, <2>2, <2>4, <2>5, SameLowPart
  <2>7. /\ x < ExtRing /\ 2 * x < ExtRing /\ x <= h + Window /\ h <= x + Window
        /\ p <= h /\ h <= p + Window
    BY <1>1, <1>2, <2>1, <2>2, <2>3, <2>4, <2>5
  <2>8. Extend(x % SeqRing, h, p) = x
    BY <1>1, <2>7, ExtendRecovers
  <2>9. previous = p /\ highest = h /\ p # -1
    BY <2>2, <2>5
  <2>10. e = x /\ ToInt32(x) = x
    BY <1>1, <1>4, <2>6, <2>7, <2>8, <2>9 DEF ToInt32
  <2>11. /\ latest' = n /\ origin' = o /\ firsts' = 1 /\ previous' = n - o
    BY <1>2, <1>3, <2>1, <2>2, <2>5, <2>9, <2>10
  <2>12. CASE n > t
    <3>1. top' = n /\ highest' = n - o
      BY <1>2, <1>3, <2>1, <2>5, <2>9, <2>10, <2>12
    <3>2. QED
      BY <1>1, <1>2, <2>1, <2>2, <2>3, <2>4, <2>11, <2>12, <3>1 DEF Following
  <2>13. CASE ~(n > t)
    <3>1. top' = t /\ highest' = t - o
      BY <1>2, <1>3, <2>1, <2>5, <2>9, <2>10, <2>13
    <3>2. QED
      BY <1>1, <1>2, <2>1, <2>2, <2>3, <2>4, <2>11, <2>13, <3>1 DEF Following
  <2>14. QED  BY <2>12, <2>13
<1>7. QED  BY <1>5, <1>6 DEF Numbered

LEMMA NumberedInit ==
    ASSUME Init
    PROVE  Numbered
  BY DEF Init, Numbered, NoneYet

LEMMA NumberedSame ==
    ASSUME Numbered, UNCHANGED numberVars
    PROVE  Numbered'
<1>1. NoneYet => NoneYet'
  BY DEF NoneYet, numberVars
<1>2. Following => Following'
  BY DEF Following, numberVars
<1>3. QED  BY <1>1, <1>2 DEF Numbered

(* What the invariant says of the properties.                              *)
LEMMA NumberedImplies ==
    ASSUME ShortSession, Numbered
    PROVE  NumbersRecovered /\ OneFirstPacket
<1>1. CASE NoneYet
  BY <1>1 DEF NoneYet, NumbersRecovered, OneFirstPacket
<1>2. CASE Following
  <2>1. 2 * (latest - origin) < ExtRing
    BY <1>2, WindowAssumption, SeqNumAssumption DEF Following, ShortSession
  <2>2. ToInt32(latest - origin) = latest - origin
    BY <1>2, <2>1, SeqNumAssumption DEF Following, ToInt32
  <2>3. QED  BY <1>2, <2>2 DEF Following, NumbersRecovered, OneFirstPacket
<1>3. QED  BY <1>1, <1>2 DEF Numbered

LEMMA SeqNumNext ==
    ASSUME NoEarlierCycle, ShortSession, Numbered, [Next]_vars
    PROVE  Numbered'
<1>1. CASE Next
  BY <1>1, ReceiveNumbered DEF Next, Numbered
<1>2. CASE UNCHANGED vars
  BY <1>2, NumberedSame DEF vars, numberVars
<1>3. QED  BY <1>1, <1>2

LEMMA RtcpNumbered ==
    ASSUME NoEarlierCycle, ShortSession, Numbered, [RtcpNext]_allVars
    PROVE  Numbered'
<1>1. CASE \E n \in Arrivals : Arrive(n)
  BY <1>1, ReceiveNumbered DEF Arrive, Numbered
<1>2. CASE \E e \in waiting : \E garbage \in Garbage(e) : Depayload(e, garbage)
  BY <1>2, NumberedSame DEF Depayload
<1>3. CASE SenderReport
  BY <1>3, NumberedSame DEF SenderReport
<1>4. CASE \E withLoss \in BOOLEAN : \E beyond \in Beyond(withLoss) :
              ReceiverReport(withLoss, beyond)
  BY <1>4, NumberedSame DEF ReceiverReport
<1>5. CASE \E s \in Sides : SetStep(s)
  BY <1>5, NumberedSame
     DEF SetStep, SetUntimedMetadata, AddField, BeginValue, EndValue
<1>6. CASE \E s \in Sides : MakeStep(s)
  BY <1>6, NumberedSame DEF MakeStep, CopyItem, MarkItem, SendCompound
<1>7. CASE \E s \in Sides : \E k \in DOMAIN net[s] :
              \/ \E again \in BOOLEAN, old \in BOOLEAN : Deliver(s, k, again, old)
              \/ Lose(s, k)
  BY <1>7, NumberedSame DEF Deliver, Lose
<1>8. CASE Tick
  BY <1>8, NumberedSame DEF Tick
<1>9. CASE UNCHANGED allVars
  BY <1>9, NumberedSame DEF allVars
<1>10. QED
  BY <1>1, <1>2, <1>3, <1>4, <1>5, <1>6, <1>7, <1>8, <1>9 DEF RtcpNext

-----------------------------------------------------------------------------
(* The receiver's numbers are the sender's, across every wrap of the       *)
(* 16-bit number, whatever is late, repeated or lost within the window     *)
(* (arstream2_rtp.c 1325-1373), and so is the highest one.                 *)
THEOREM Recovered ==
    ASSUME NoEarlierCycle, ShortSession
    PROVE  Spec => []NumbersRecovered
<1>1. Init => Numbered
  BY NumberedInit
<1>2. Numbered /\ [Next]_vars => Numbered'
  BY SeqNumNext
<1>3. Numbered => NumbersRecovered
  BY NumberedImplies
<1>4. QED  BY <1>1, <1>2, <1>3, PTL DEF Spec

(* One packet only is taken for the first one, and resets the statistics   *)
(* (arstream2_rtp.c 1358).                                                 *)
THEOREM FirstOnce ==
    ASSUME NoEarlierCycle, ShortSession
    PROVE  Spec => []OneFirstPacket
<1>1. Init => Numbered
  BY NumberedInit
<1>2. Numbered /\ [Next]_vars => Numbered'
  BY SeqNumNext
<1>3. Numbered => OneFirstPacket
  BY NumberedImplies
<1>4. QED  BY <1>1, <1>2, <1>3, PTL DEF Spec

(* The same in the composition with RTCP, whose reports are about these    *)
(* numbers.                                                                *)
THEOREM ReportedNumbers ==
    ASSUME NoEarlierCycle, ShortSession
    PROVE  RtcpSpec => [](NumbersRecovered /\ OneFirstPacket)
<1>1. RtcpInit => Numbered
  BY NumberedInit DEF RtcpInit
<1>2. Numbered /\ [RtcpNext]_allVars => Numbered'
  BY RtcpNumbered
<1>3. Numbered => NumbersRecovered /\ OneFirstPacket
  BY NumberedImplies
<1>4. QED  BY <1>1, <1>2, <1>3, PTL DEF RtcpSpec

-----------------------------------------------------------------------------
(* The offset of the clocks.                                               *)

(* What a side's clock is ahead of the sender's.                           *)
Lead(s) == IF s = "sender" THEN 0 ELSE Offset

Sample == [delta : Int, rt : Nat, request : Int]
ClockCtx == [expected : Int, nextOriginate : Int, nextReceive : Int,
             window : Seq(Sample), avg : Int, minRtAvg : Int]

(* Twice a value is within err of twice the offset.                        *)
Within(v, offset, err) ==
    2 * v - 2 * offset <= err /\ 2 * offset - 2 * v <= err

(* The samples of a window: requests of the past, each sampled once, and   *)
(* none of them outstanding.                                               *)
WindowOK(w, expected, offset, t) ==
    /\ \A i, j \in 1 .. Len(w) : w[i].request = w[j].request => i = j
    /\ \A i \in 1 .. Len(w) : /\ Within(w[i].delta, offset, w[i].rt + 2)
                              /\ w[i].request < t
                              /\ expected # 0 => w[i].request < expected

(* What was heard last was sent before it was heard, by the true time.     *)
HeardOK(c, lead, peerLead, n) ==
    \/ c.nextOriginate = 0
    \/ /\ c.nextOriginate - peerLead <= c.nextReceive - lead
       /\ c.nextReceive - lead <= n

(* A clock context at time n, of a side and its peer with these leads.     *)
ClockOK(c, lead, peerLead, n) ==
    /\ c \in ClockCtx
    /\ HeardOK(c, lead, peerLead, n)
    /\ WindowOK(c.window, c.expected, peerLead - lead, n + lead)
    /\ c.avg # 0 => Within(c.avg, peerLead - lead, MaxRtDelay + 1)

(* A clock offset packet from the peer: the three times are in order.      *)
AppOK(a, lead, peerLead, n) ==
    /\ a.originate \in Int /\ a.receive \in Int /\ a.transmit \in Int
    /\ a.transmit - peerLead <= n
    /\ \/ a.originate = 0
       \/ /\ a.originate - lead <= a.receive - peerLead
          /\ a.receive <= a.transmit

(* A division that truncates lies between 0 and what is divided, also when *)
(* it is rounded.                                                          *)
LEMMA DivBetween ==
    ASSUME NEW x \in Int, NEW A \in Nat, A > 0
    PROVE  /\ Div(x + (A \div 2), A) \in Int
           /\ x >= 0 => 0 <= Div(x + (A \div 2), A) /\ Div(x + (A \div 2), A) <= x
           /\ x < 0 => x <= Div(x + (A \div 2), A) /\ Div(x + (A \div 2), A) <= 0
<1> DEFINE y == x + (A \div 2)
<1>1. y \in Int /\ A \div 2 \in Nat /\ 2 * (A \div 2) <= A /\ A < 2 * (A \div 2) + 2
  OBVIOUS
<1>2. CASE y >= 0
  <2> DEFINE q == y \div A
  <2>1. q \in Nat /\ A * q <= y /\ y < A * q + A
    BY <1>1, <1>2
  <2>2. Div(y, A) = q
    BY <1>2 DEF Div
  <2> HIDE DEF q, y
  <2>3. CASE x >= 0
    <3>1. SUFFICES ASSUME q >= x + 1 PROVE FALSE
      BY <2>1, <2>2, <2>3 DEF y
    <3>2. A * q >= A * (x + 1)
      BY <2>1, <2>3, <3>1
    <3>3. A * (x + 1) = A * x + A /\ A * x >= x
      BY <2>3
    <3>4. QED  BY <1>1, <2>1, <2>3, <3>2, <3>3 DEF y
  <2>4. CASE x < 0
    <3>1. y < A
      BY <1>1, <2>4 DEF y
    <3>2. q = 0
      <4>1. SUFFICES ASSUME q >= 1 PROVE FALSE
        BY <2>1
      <4>2. A * q >= A
        BY <2>1, <4>1
      <4>3. QED  BY <2>1, <3>1, <1>1, <4>2
    <3>3. QED  BY <2>2, <2>4, <3>2 DEF y
  <2>5. QED  BY <2>3, <2>4
<1>3. CASE y < 0
  <2> DEFINE q == (-y) \div A
  <2>1. q \in Nat /\ A * q <= -y
    BY <1>1, <1>3
  <2>2. Div(y, A) = -q
    BY <1>1, <1>3 DEF Div
  <2> HIDE DEF q, y
  <2>3. q <= A * q
    BY <2>1
  <2>4. x < 0 /\ -y <= -x
    BY <1>1, <1>3 DEF y
  <2>5. x <= -q /\ -q <= 0
    BY <1>1, <2>1, <2>3, <2>4
  <2>6. QED  BY <2>1, <2>2, <2>4, <2>5 DEF y
<1>4. QED  BY <1>1, <1>2, <1>3

(* A sliding average lies between the average and the new value.           *)
LEMMA SlideBetween ==
    ASSUME NEW avg \in Int, NEW v \in Int
    PROVE  /\ Slide(avg, v) \in Int
           /\ avg = 0 => Slide(avg, v) = v
           /\ v >= avg /\ avg # 0 => avg <= Slide(avg, v) /\ Slide(avg, v) <= v
           /\ v < avg /\ avg # 0 => v <= Slide(avg, v) /\ Slide(avg, v) <= avg
<1>1. Alpha \in Nat /\ Alpha > 0
  BY RtcpAssumption
<1>2. PICK x \in Int : x = v - avg
  OBVIOUS
<1>3. PICK d \in Int : /\ d = Div(x + (Alpha \div 2), Alpha)
                       /\ x >= 0 => 0 <= d /\ d <= x
                       /\ x < 0 => x <= d /\ d <= 0
  BY <1>1, DivBetween
<1>4. Slide(avg, v) = IF avg = 0 THEN v ELSE avg + d
  BY <1>2, <1>3 DEF Slide
<1>5. QED  BY <1>2, <1>3, <1>4

LEMMA SlideWithin ==
    ASSUME NEW avg \in Int, NEW v \in Int, NEW offset \in Int, NEW err \in Int,
           avg # 0 => Within(avg, offset, err), Within(v, offset, err)
    PROVE  Within(Slide(avg, v), offset, err)
<1>1. PICK r \in Int : r = Slide(avg, v)
  BY SlideBetween
<1>2. /\ avg = 0 => r = v
      /\ v >= avg /\ avg # 0 => avg <= r /\ r <= v
      /\ v < avg /\ avg # 0 => v <= r /\ r <= avg
  BY <1>1, SlideBetween
<1>3. Within(r, offset, err)
  BY <1>2 DEF Within
<1>4. QED  BY <1>1, <1>3

(* The offset computed from the four times of an exchange, rounded.        *)
LEMMA HalfLemma ==
    ASSUME NEW z \in Int
    PROVE  /\ Div(z + 1, 2) \in Int
           /\ z <= 2 * Div(z + 1, 2) /\ 2 * Div(z + 1, 2) <= z + 2
<1>1. CASE z + 1 >= 0
  BY <1>1 DEF Div
<1>2. CASE z + 1 < 0
  BY <1>2 DEF Div
<1>3. QED  BY <1>1, <1>2

LEMMA ExchangeAccurate ==
    ASSUME NEW o \in Int, NEW r \in Int, NEW t \in Int, NEW u \in Int,
           NEW lead \in Int, NEW peerLead \in Int,
           o - lead <= r - peerLead, r <= t, t - peerLead <= u - lead
    PROVE  /\ Div(r + t - o - u + 1, 2) \in Int
           /\ Within(Div(r + t - o - u + 1, 2), peerLead - lead,
                     (u - o) - (t - r) + 2)
<1>1. PICK z \in Int : z = r + t - o - u
  OBVIOUS
<1>2. PICK d \in Int : d = Div(z + 1, 2) /\ z <= 2 * d /\ 2 * d <= z + 2
  BY HalfLemma
<1>3. r + t - o - u + 1 = z + 1
  BY <1>1
<1>4. Within(d, peerLead - lead, (u - o) - (t - r) + 2)
  BY <1>1, <1>2 DEF Within
<1>5. QED  BY <1>2, <1>3, <1>4

(* Changing one field of a clock context.                                  *)
LEMMA ClockFields ==
    ASSUME NEW c \in ClockCtx
    PROVE  /\ \A v \in Int : /\ [c EXCEPT !.expected = v] \in ClockCtx
                             /\ [c EXCEPT !.nextOriginate = v] \in ClockCtx
                             /\ [c EXCEPT !.nextReceive = v] \in ClockCtx
                             /\ [c EXCEPT !.avg = v] \in ClockCtx
                             /\ [c EXCEPT !.minRtAvg = v] \in ClockCtx
           /\ \A w \in Seq(Sample) : [c EXCEPT !.window = w] \in ClockCtx
  BY DEF ClockCtx

(* There is a sample with the smallest round trip, so that the end of a    *)
(* window chooses one.                                                     *)
LEMMA BestExists ==
    ASSUME NEW w \in Seq(Sample), w # <<>>
    PROVE  \E i \in DOMAIN w :
              \A j \in DOMAIN w : \/ w[i].rt < w[j].rt
                                  \/ w[i].rt = w[j].rt /\ i <= j
<1> DEFINE T == {w[i].rt : i \in 1 .. Len(w)}
<1>1. /\ Len(w) \in Nat /\ Len(w) > 0 /\ DOMAIN w = 1 .. Len(w)
      /\ \A i \in 1 .. Len(w) : w[i].rt \in Nat
  <2>1. /\ Len(w) \in Nat /\ Len(w) > 0 /\ DOMAIN w = 1 .. Len(w)
        /\ \A i \in 1 .. Len(w) : w[i] \in Sample
    OBVIOUS
  <2>2. \A s \in Sample : s.rt \in Nat
    BY DEF Sample
  <2>3. QED  BY <2>1, <2>2
<1>2. T \subseteq Nat /\ T # {}
  BY <1>1
<1>3. PICK r \in T : \A y \in T : r <= y
  <2> HIDE DEF T
  <2>1. QED  BY <1>2, MinExists
<1>4. \A j \in 1 .. Len(w) : r <= w[j].rt
  BY <1>3
<1> DEFINE I == {i \in 1 .. Len(w) : w[i].rt = r}
<1>5. I \subseteq Nat /\ I # {}
  BY <1>1, <1>3
<1>6. PICK i \in I : \A j \in I : i <= j
  <2> HIDE DEF I
  <2>1. QED  BY <1>5, MinExists
<1>7. i \in 1 .. Len(w) /\ w[i].rt = r /\ \A j \in 1 .. Len(w) : w[j].rt = r => i <= j
  BY <1>6
<1>8. ASSUME NEW j \in 1 .. Len(w)
      PROVE  w[i].rt < w[j].rt \/ (w[i].rt = w[j].rt /\ i <= j)
  <2>1. r \in Nat /\ w[j].rt \in Nat /\ r <= w[j].rt
    BY <1>1, <1>2, <1>3, <1>4, <1>8
  <2>2. QED  BY <1>7, <1>8, <2>1
<1>9. QED  BY <1>1, <1>7, <1>8

(* The end of a window keeps the average within the largest round trip     *)
(* that counts.                                                            *)
LEMMA CloseKeeps ==
    ASSUME NEW c \in ClockCtx, NEW offset \in Int, c.window # <<>>,
           \A i \in 1 .. Len(c.window) :
              Within(c.window[i].delta, offset, c.window[i].rt + 2),
           c.avg # 0 => Within(c.avg, offset, MaxRtDelay + 1)
    PROVE  /\ CloseWindow(c) \in ClockCtx
           /\ CloseWindow(c).window = <<>>
           /\ CloseWindow(c).expected = c.expected
           /\ CloseWindow(c).nextOriginate = c.nextOriginate
           /\ CloseWindow(c).nextReceive = c.nextReceive
           /\ CloseWindow(c).avg # 0 =>
                 Within(CloseWindow(c).avg, offset, MaxRtDelay + 1)
<1> DEFINE best == CHOOSE i \in DOMAIN c.window :
                      \A j \in DOMAIN c.window :
                         \/ c.window[i].rt < c.window[j].rt
                         \/ c.window[i].rt = c.window[j].rt /\ i <= j
           rt == c.window[best].rt
           delta == c.window[best].delta
           minAvg == Slide(c.minRtAvg, rt)
           newAvg == Slide(c.avg, delta)
           base == [c EXCEPT !.window = <<>>]
<1>1. c.window \in Seq(Sample) /\ c.avg \in Int /\ c.minRtAvg \in Int
      /\ MaxRtDelay \in Nat
  BY RtcpAssumption DEF ClockCtx
<1>2. best \in 1 .. Len(c.window)
  <2>1. best \in DOMAIN c.window
    BY <1>1, BestExists
  <2>2. QED  BY <1>1, <2>1
<1>3. CloseWindow(c) =
         IF rt >= MaxRtDelay THEN base
         ELSE IF rt > 2 * minAvg THEN [base EXCEPT !.minRtAvg = minAvg]
         ELSE [base EXCEPT !.minRtAvg = minAvg, !.avg = newAvg]
  BY DEF CloseWindow
<1> HIDE DEF best
<1>4. rt \in Nat /\ delta \in Int /\ Within(delta, offset, rt + 2)
  <2>1. c.window[best] \in Sample
    BY <1>1, <1>2
  <2>2. \A s \in Sample : s.rt \in Nat /\ s.delta \in Int
    BY DEF Sample
  <2>3. QED  BY <1>2, <2>1, <2>2
<1>5. minAvg \in Int /\ newAvg \in Int
  <2> HIDE DEF rt, delta
  <2>1. rt \in Int
    BY <1>4
  <2>2. QED  BY <1>1, <1>4, <2>1, SlideBetween
<1>6. /\ base \in ClockCtx /\ base.window = <<>> /\ base.expected = c.expected
      /\ base.nextOriginate = c.nextOriginate /\ base.nextReceive = c.nextReceive
      /\ base.avg = c.avg
  <2>1. <<>> \in Seq(Sample)
    OBVIOUS
  <2>2. base \in ClockCtx
    BY <2>1, ClockFields
  <2>3. QED  BY <2>2 DEF ClockCtx
<1> HIDE DEF rt, delta, minAvg, newAvg, base
<1>7. CASE rt >= MaxRtDelay
  BY <1>3, <1>6, <1>7
<1>8. CASE rt < MaxRtDelay
  <2> DEFINE m == [base EXCEPT !.minRtAvg = minAvg]
             r == [m EXCEPT !.avg = newAvg]
  <2>1. m \in ClockCtx
    BY <1>5, <1>6, ClockFields
  <2>2. r \in ClockCtx
    <3> HIDE DEF m
    <3>1. QED  BY <1>5, <2>1, ClockFields
  <2>3. /\ m.window = <<>> /\ m.expected = c.expected
        /\ m.nextOriginate = c.nextOriginate /\ m.nextReceive = c.nextReceive
        /\ m.avg = c.avg
    BY <1>6 DEF ClockCtx
  <2>4. /\ r.window = <<>> /\ r.expected = c.expected
        /\ r.nextOriginate = c.nextOriginate /\ r.nextReceive = c.nextReceive
        /\ r.avg = newAvg
    <3> HIDE DEF m
    <3>1. QED  BY <2>1, <2>3 DEF ClockCtx
  <2>5. Within(delta, offset, MaxRtDelay + 1)
    BY <1>1, <1>4, <1>8 DEF Within
  <2>6. Within(newAvg, offset, MaxRtDelay + 1)
    BY <1>1, <1>4, <2>5, SlideWithin DEF newAvg
  <2>7. CloseWindow(c) = m \/ CloseWindow(c) = r
    BY <1>1, <1>3, <1>4, <1>5, <1>8
  <2>8. QED
    <3> HIDE DEF m, r
    <3>1. QED  BY <2>1, <2>2, <2>3, <2>4, <2>6, <2>7
<1>9. QED  BY <1>1, <1>4, <1>7, <1>8

(* A request that is not outstanding any more bounds no sample.            *)
LEMMA WindowForget ==
    ASSUME NEW w, NEW expected, NEW offset, NEW t, WindowOK(w, expected, offset, t)
    PROVE  WindowOK(w, 0, offset, t)
  BY DEF WindowOK

(* A sample of the outstanding request is new.                             *)
LEMMA WindowAppend ==
    ASSUME NEW w \in Seq(Sample), NEW expected \in Int, expected # 0,
           NEW offset \in Int, NEW t \in Int, WindowOK(w, expected, offset, t),
           NEW s \in Sample, s.request = expected, expected < t,
           Within(s.delta, offset, s.rt + 2)
    PROVE  /\ Append(w, s) \in Seq(Sample) /\ Append(w, s) # <<>>
           /\ WindowOK(Append(w, s), 0, offset, t)
<1> DEFINE v == Append(w, s)
<1>1. /\ v \in Seq(Sample) /\ v # <<>> /\ Len(w) \in Nat /\ Len(v) = Len(w) + 1
      /\ \A i \in 1 .. Len(w) : v[i] = w[i]
      /\ v[Len(w) + 1] = s
  <2>1. /\ v \in Seq(Sample) /\ Len(v) = Len(w) + 1
        /\ \A i \in 1 .. Len(w) : v[i] = w[i]
        /\ v[Len(w) + 1] = s
    BY AppendProperties
  <2>2. Len(w) \in Nat
    OBVIOUS
  <2> HIDE DEF v
  <2>3. v # <<>>
    BY <2>1, <2>2
  <2>4. QED  BY <2>1, <2>2, <2>3
<1> HIDE DEF v
<1>2. \A i \in 1 .. Len(w) : w[i] \in Sample
  OBVIOUS
<1>3. \A i \in 1 .. Len(w) : /\ w[i].request \in Int
                             /\ w[i].request < expected /\ w[i].request < t
                             /\ Within(w[i].delta, offset, w[i].rt + 2)
  BY <1>2 DEF WindowOK, Sample
<1>4. ASSUME NEW i \in 1 .. Len(v)
      PROVE  v[i].request < t /\ Within(v[i].delta, offset, v[i].rt + 2)
  <2>1. CASE i \in 1 .. Len(w)
    BY <1>1, <1>3, <2>1
  <2>2. CASE i = Len(w) + 1
    BY <1>1, <2>2
  <2>3. QED  BY <1>1, <2>1, <2>2
<1>5. ASSUME NEW i \in 1 .. Len(v), NEW j \in 1 .. Len(v),
             v[i].request = v[j].request
      PROVE  i = j
  <2>1. CASE i \in 1 .. Len(w) /\ j \in 1 .. Len(w)
    BY <1>1, <1>5, <2>1 DEF WindowOK
  <2>2. CASE i = Len(w) + 1 /\ j \in 1 .. Len(w)
    <3>1. v[i].request = expected /\ v[j].request < expected
      BY <1>1, <1>3, <2>2
    <3>2. QED  BY <1>5, <3>1
  <2>3. CASE j = Len(w) + 1 /\ i \in 1 .. Len(w)
    <3>1. v[j].request = expected /\ v[i].request < expected
      BY <1>1, <1>3, <2>3
    <3>2. QED  BY <1>5, <3>1
  <2>4. QED  BY <1>1, <2>1, <2>2, <2>3
<1>6. WindowOK(v, 0, offset, t)
  BY <1>4, <1>5 DEF WindowOK
<1>7. QED  BY <1>1, <1>6 DEF v

(* An answer to the outstanding request, taken or not.                     *)
LEMMA TakeKeeps ==
    ASSUME NEW lead \in Int, NEW peerLead \in Int, NEW n \in Int, NEW t \in Int,
           t = n + lead, NEW c, ClockOK(c, lead, peerLead, n),
           NEW a, AppOK(a, lead, peerLead, n), IsSample(c, a, t), NEW old
    PROVE  /\ TakeSample(c, a, t, old) \in ClockCtx
           /\ WindowOK(TakeSample(c, a, t, old).window, 0, peerLead - lead, t)
           /\ TakeSample(c, a, t, old).avg # 0 =>
                 Within(TakeSample(c, a, t, old).avg, peerLead - lead, MaxRtDelay + 1)
<1> DEFINE rt == (t - a.originate) - (a.transmit - a.receive)
           delta == Div(a.receive + a.transmit - a.originate - t + 1, 2)
           s == [delta |-> delta, rt |-> rt, request |-> a.originate]
           kept == [c EXCEPT !.window = Append(c.window, s)]
           offset == peerLead - lead
<1>1. /\ c \in ClockCtx /\ WindowOK(c.window, c.expected, offset, t)
      /\ c.avg # 0 => Within(c.avg, offset, MaxRtDelay + 1)
  BY DEF ClockOK
<1>2. c.window \in Seq(Sample) /\ c.expected \in Int
  BY <1>1 DEF ClockCtx
<1>3. /\ a.originate \in Int /\ a.receive \in Int /\ a.transmit \in Int
      /\ a.transmit - peerLead <= n
      /\ a.originate = 0 \/ (/\ a.originate - lead <= a.receive - peerLead
                             /\ a.receive <= a.transmit)
  BY DEF AppOK
<1>4. a.originate # 0 /\ t >= a.originate + MinDelta /\ a.originate = c.expected
  BY DEF IsSample
<1>5. MinDelta \in Nat /\ MinDelta > 0
  BY RtcpAssumption
<1>6. delta \in Int /\ Within(delta, offset, rt + 2) /\ rt \in Int
  <2>1. PICK o \in Int, r \in Int, u \in Int :
            o = a.originate /\ r = a.receive /\ u = a.transmit
    BY <1>3
  <2>2. o - lead <= r - peerLead /\ r <= u /\ u - peerLead <= t - lead
    BY <1>3, <1>4, <2>1
  <2>3. /\ Div(r + u - o - t + 1, 2) \in Int
        /\ Within(Div(r + u - o - t + 1, 2), peerLead - lead, (t - o) - (u - r) + 2)
    BY <2>2, ExchangeAccurate
  <2>4. QED  BY <2>1, <2>3
<1>7. TakeSample(c, a, t, old) =
         IF ~(rt > 0 /\ Similar(c, a, t)) THEN c
         ELSE IF WindowDone(kept.window, old) THEN CloseWindow(kept) ELSE kept
  BY DEF TakeSample
<1> HIDE DEF rt, delta
<1>8. CASE ~(rt > 0 /\ Similar(c, a, t))
  BY <1>1, <1>7, <1>8, WindowForget
<1>9. CASE rt > 0 /\ Similar(c, a, t)
  <2>1. s \in Sample /\ s.request = c.expected /\ s.delta = delta /\ s.rt = rt
    <3>1. rt \in Nat
      BY <1>6, <1>9
    <3>2. QED  BY <1>2, <1>4, <1>6, <3>1 DEF Sample
  <2> HIDE DEF s
  <2>2. offset \in Int /\ c.expected # 0 /\ c.expected < t
    BY <1>2, <1>4, <1>5
  <2> HIDE DEF offset
  <2>3. /\ Append(c.window, s) \in Seq(Sample) /\ Append(c.window, s) # <<>>
        /\ WindowOK(Append(c.window, s), 0, offset, t)
    BY <1>1, <1>2, <1>6, <2>1, <2>2, WindowAppend
  <2>4. PICK w \in Seq(Sample) : w = Append(c.window, s)
    BY <2>3
  <2>5. w # <<>> /\ WindowOK(w, 0, offset, t)
    BY <2>3, <2>4
  <2>6. kept \in ClockCtx /\ kept.window = w /\ kept.avg = c.avg
    <3>1. [c EXCEPT !.window = w] \in ClockCtx
      BY <1>1, ClockFields
    <3>2. kept = [c EXCEPT !.window = w]
      BY <2>4
    <3>3. QED  BY <1>1, <3>1, <3>2 DEF ClockCtx
  <2> HIDE DEF kept
  <2>7. CASE WindowDone(kept.window, old)
    <3>1. TakeSample(c, a, t, old) = CloseWindow(kept)
      BY <1>7, <1>9, <2>7
    <3>2. \A i \in 1 .. Len(kept.window) :
             Within(kept.window[i].delta, offset, kept.window[i].rt + 2)
      BY <2>5, <2>6 DEF WindowOK
    <3>3. /\ CloseWindow(kept) \in ClockCtx /\ CloseWindow(kept).window = <<>>
          /\ CloseWindow(kept).avg # 0 =>
                Within(CloseWindow(kept).avg, offset, MaxRtDelay + 1)
      BY <1>1, <2>2, <2>5, <2>6, <3>2, CloseKeeps
    <3>4. WindowOK(<<>>, 0, offset, t)
      BY DEF WindowOK
    <3>5. QED  BY <3>1, <3>3, <3>4 DEF offset
  <2>8. CASE ~WindowDone(kept.window, old)
    <3>1. TakeSample(c, a, t, old) = kept
      BY <1>7, <1>9, <2>8
    <3>2. QED  BY <1>1, <2>5, <2>6, <3>1 DEF offset
  <2>9. QED  BY <2>7, <2>8
<1>10. QED  BY <1>8, <1>9

(* A clock offset packet that is read.                                     *)
LEMMA ReadKeeps ==
    ASSUME NEW lead \in Int, NEW peerLead \in Int, NEW n \in Int, NEW t \in Int,
           t = n + lead, NEW c, ClockOK(c, lead, peerLead, n),
           NEW a, AppOK(a, lead, peerLead, n), NEW old
    PROVE  ClockOK(ReadClock(c, a, t, old), lead, peerLead, n)
<1> DEFINE c1 == TakeSample(c, a, t, old)
           c2 == IF IsSample(c, a, t) THEN [c1 EXCEPT !.expected = 0] ELSE c
           c3 == [c2 EXCEPT !.nextOriginate = a.transmit]
           c4 == [c3 EXCEPT !.nextReceive = t]
           offset == peerLead - lead
<1>1. /\ c2 \in ClockCtx /\ WindowOK(c2.window, c2.expected, offset, t)
      /\ c2.avg # 0 => Within(c2.avg, offset, MaxRtDelay + 1)
  <2>1. CASE IsSample(c, a, t)
    <3>1. /\ c1 \in ClockCtx /\ WindowOK(c1.window, 0, offset, t)
          /\ c1.avg # 0 => Within(c1.avg, offset, MaxRtDelay + 1)
      BY <2>1, TakeKeeps
    <3> HIDE DEF c1
    <3>2. PICK z \in Int : z = 0
      OBVIOUS
    <3>3. c2 = [c1 EXCEPT !.expected = z]
      BY <2>1, <3>2
    <3>4. c2 \in ClockCtx
      BY <3>1, <3>3, ClockFields
    <3>5. c2.expected = 0 /\ c2.window = c1.window /\ c2.avg = c1.avg
      BY <3>1, <3>2, <3>3 DEF ClockCtx
    <3> HIDE DEF c2
    <3>6. QED  BY <3>1, <3>4, <3>5
  <2>2. CASE ~IsSample(c, a, t)
    BY <2>2 DEF ClockOK
  <2>3. QED  BY <2>1, <2>2
<1> HIDE DEF c2
<1>2. a.transmit \in Int /\ a.transmit - peerLead <= n
  BY DEF AppOK
<1>3. c3 \in ClockCtx
  BY <1>1, <1>2, ClockFields
<1>4. /\ c3.window = c2.window /\ c3.expected = c2.expected /\ c3.avg = c2.avg
      /\ c3.nextOriginate = a.transmit
  BY <1>1 DEF ClockCtx
<1> HIDE DEF c3
<1>5. c4 \in ClockCtx
  BY <1>3, ClockFields
<1>6. /\ c4.window = c2.window /\ c4.expected = c2.expected /\ c4.avg = c2.avg
      /\ c4.nextOriginate = a.transmit /\ c4.nextReceive = t
  BY <1>3, <1>4 DEF ClockCtx
<1>7. ReadClock(c, a, t, old) = c4
  BY DEF ReadClock, c2, c3
<1> HIDE DEF c4
<1>8. HeardOK(c4, lead, peerLead, n)
  BY <1>2, <1>6 DEF HeardOK
<1>9. ClockOK(c4, lead, peerLead, n)
  BY <1>1, <1>5, <1>6, <1>8 DEF ClockOK
<1>10. QED  BY <1>7, <1>9

(* A request that is made.                                                 *)
LEMMA AskKeeps ==
    ASSUME NEW lead \in Int, NEW peerLead \in Int, NEW n \in Int, NEW t \in Int,
           t = n + lead, NEW c, ClockOK(c, lead, peerLead, n)
    PROVE  /\ ClockOK([c EXCEPT !.expected = t], lead, peerLead, n)
           /\ AppOK(ClockRequest(c, t), peerLead, lead, n)
<1> DEFINE r == [c EXCEPT !.expected = t]
<1>1. c \in ClockCtx /\ r \in ClockCtx
  BY ClockFields DEF ClockOK
<1>2. /\ r.expected = t /\ r.window = c.window /\ r.avg = c.avg
      /\ r.nextOriginate = c.nextOriginate /\ r.nextReceive = c.nextReceive
  BY <1>1 DEF ClockCtx
<1> HIDE DEF r
<1>3. WindowOK(r.window, r.expected, peerLead - lead, n + lead)
  BY <1>2 DEF ClockOK, WindowOK
<1>4. HeardOK(r, lead, peerLead, n)
  BY <1>2 DEF ClockOK, HeardOK
<1>5. ClockOK(r, lead, peerLead, n)
  BY <1>1, <1>2, <1>3, <1>4 DEF ClockOK
<1>6. AppOK(ClockRequest(c, t), peerLead, lead, n)
  <2>1. /\ ClockRequest(c, t).originate = c.nextOriginate
        /\ ClockRequest(c, t).receive = c.nextReceive
        /\ ClockRequest(c, t).transmit = t
    BY DEF ClockRequest
  <2>2. c.nextOriginate \in Int /\ c.nextReceive \in Int
    BY <1>1 DEF ClockCtx
  <2>3. HeardOK(c, lead, peerLead, n)
    BY DEF ClockOK
  <2>4. QED  BY <2>1, <2>2, <2>3 DEF AppOK, HeardOK
<1>7. QED  BY <1>5, <1>6 DEF r

-----------------------------------------------------------------------------
(* The clocks in the composition.                                          *)

(* What is on its way to a side, in terms of any set the packets are from. *)
NetOK(q, lead, peerLead, n) ==
    \E P : q \in Seq(P) /\ \A m \in P : \A a \in m.app : AppOK(a, lead, peerLead, n)

IsPacket(p) ==
    p = [reports |-> p.reports, room |-> p.room, time |-> p.time,
         next |-> p.next, count |-> p.count, size |-> p.size,
         copied |-> p.copied, items |-> p.items]

(* The packet a side is making is no later than now, and all that its      *)
(* clock context is about had been heard by the time of the packet.        *)
MadeOK(made, c, lead, peerLead, n) ==
    \A p \in made : /\ IsPacket(p)
                    /\ p.time \in Int /\ p.time - lead <= n
                    /\ ClockOK(c, lead, peerLead, p.time - lead)

ClocksOK ==
    /\ now \in Int
    /\ DOMAIN clock = Sides /\ DOMAIN net = Sides /\ DOMAIN making = Sides
    /\ \A s \in Sides :
          /\ ClockOK(clock[s], Lead(s), Lead(Peer(s)), now)
          /\ NetOK(net[s], Lead(s), Lead(Peer(s)), now)
          /\ MadeOK(making[s], clock[s], Lead(s), Lead(Peer(s)), now)

LEMMA Peers ==
    /\ Peer("sender") = "receiver" /\ Peer("receiver") = "sender"
    /\ \A s \in Sides : Peer(s) \in Sides /\ Peer(s) # s /\ Peer(Peer(s)) = s
    /\ \A s, r \in Sides : r = s \/ r = Peer(s)
    /\ \A s \in Sides : Lead(s) \in Int /\ Lead(Peer(s)) \in Int
    /\ now \in Int => \A s \in Sides : ClockOf(s) = now + Lead(s)
<1>1. Peer("sender") = "receiver" /\ Peer("receiver") = "sender"
  BY DEF Peer, Sides
<1>2. /\ \A s \in Sides : Peer(s) \in Sides /\ Peer(s) # s /\ Peer(Peer(s)) = s
      /\ \A s, r \in Sides : r = s \/ r = Peer(s)
  BY <1>1 DEF Sides
<1>3. \A s \in Sides : Lead(s) \in Int
  BY RtcpAssumption DEF Lead
<1>4. ASSUME now \in Int, NEW s \in Sides
      PROVE  ClockOf(s) = now + Lead(s)
  BY <1>4 DEF ClockOf, Lead
<1>5. QED  BY <1>1, <1>2, <1>3, <1>4

(* What was true at a time is true later.                                  *)
LEMMA ClockLater ==
    ASSUME NEW c, NEW lead \in Int, NEW peerLead \in Int, NEW n \in Int,
           NEW n2 \in Int, n <= n2, ClockOK(c, lead, peerLead, n)
    PROVE  ClockOK(c, lead, peerLead, n2)
<1>1. c \in ClockCtx
  BY DEF ClockOK
<1>2. HeardOK(c, lead, peerLead, n2)
  <2>1. HeardOK(c, lead, peerLead, n)
    BY DEF ClockOK
  <2>2. c.nextReceive \in Int
    BY <1>1 DEF ClockCtx
  <2>3. QED  BY <2>1, <2>2 DEF HeardOK
<1>3. WindowOK(c.window, c.expected, peerLead - lead, n2 + lead)
  <2>1. WindowOK(c.window, c.expected, peerLead - lead, n + lead)
    BY DEF ClockOK
  <2>2. c.window \in Seq(Sample)
    BY <1>1 DEF ClockCtx
  <2>3. \A i \in 1 .. Len(c.window) : c.window[i].request \in Int
    <3>1. \A i \in 1 .. Len(c.window) : c.window[i] \in Sample
      BY <2>2
    <3>2. QED  BY <3>1 DEF Sample
  <2>4. \A i \in 1 .. Len(c.window) : c.window[i].request < n2 + lead
    <3>1. \A i \in 1 .. Len(c.window) : c.window[i].request < n + lead
      BY <2>1 DEF WindowOK
    <3>2. QED  BY <2>3, <3>1
  <2>5. QED  BY <2>1, <2>4 DEF WindowOK
<1>4. QED  BY <1>2, <1>3 DEF ClockOK

LEMMA AppLater ==
    ASSUME NEW a, NEW lead \in Int, NEW peerLead \in Int, NEW n \in Int,
           NEW n2 \in Int, n <= n2, AppOK(a, lead, peerLead, n)
    PROVE  AppOK(a, lead, peerLead, n2)
  BY DEF AppOK

(* Time passes.                                                            *)
LEMMA TickKeeps ==
    ASSUME ClocksOK, now' = now + 1, UNCHANGED <<clock, net, making>>
    PROVE  ClocksOK'
<1>1. now \in Int /\ now + 1 \in Int /\ now <= now + 1
  BY DEF ClocksOK
<1>2. ASSUME NEW s \in Sides
      PROVE  /\ ClockOK(clock[s], Lead(s), Lead(Peer(s)), now + 1)
             /\ NetOK(net[s], Lead(s), Lead(Peer(s)), now + 1)
             /\ MadeOK(making[s], clock[s], Lead(s), Lead(Peer(s)), now + 1)
  <2>1. PICK lead \in Int, peerLead \in Int : lead = Lead(s) /\ peerLead = Lead(Peer(s))
    BY <1>2, Peers
  <2>2. /\ ClockOK(clock[s], lead, peerLead, now) /\ NetOK(net[s], lead, peerLead, now)
        /\ MadeOK(making[s], clock[s], lead, peerLead, now)
    BY <1>2, <2>1 DEF ClocksOK
  <2>3. ClockOK(clock[s], lead, peerLead, now + 1)
    BY <1>1, <2>2, ClockLater
  <2>4. NetOK(net[s], lead, peerLead, now + 1)
    <3>1. PICK P : /\ net[s] \in Seq(P)
                   /\ \A m \in P : \A a \in m.app : AppOK(a, lead, peerLead, now)
      BY <2>2 DEF NetOK
    <3>2. \A m \in P : \A a \in m.app : AppOK(a, lead, peerLead, now + 1)
      BY <1>1, <3>1, AppLater
    <3>3. QED  BY <3>1, <3>2 DEF NetOK
  <2>5. MadeOK(making[s], clock[s], lead, peerLead, now + 1)
    BY <1>1, <2>2 DEF MadeOK
  <2>6. QED  BY <2>1, <2>3, <2>4, <2>5
<1>3. QED  BY <1>1, <1>2 DEF ClocksOK

LEMMA NetAppend ==
    ASSUME NEW q, NEW lead, NEW peerLead, NEW n, NetOK(q, lead, peerLead, n),
           NEW m, \A a \in m.app : AppOK(a, lead, peerLead, n)
    PROVE  NetOK(Append(q, m), lead, peerLead, n)
<1>1. PICK P : /\ q \in Seq(P)
               /\ \A x \in P : \A a \in x.app : AppOK(a, lead, peerLead, n)
  BY DEF NetOK
<1>2. q \in Seq(P \cup {m}) /\ m \in P \cup {m}
  BY <1>1
<1>3. Append(q, m) \in Seq(P \cup {m})
  BY <1>2
<1>4. QED  BY <1>1, <1>3 DEF NetOK

(* Taking an element out.                                                  *)
LEMMA RemoveAtType ==
    ASSUME NEW P, NEW q \in Seq(P), NEW k \in DOMAIN q
    PROVE  RemoveAt(q, k) \in Seq(P)
<1>1. Len(q) \in Nat /\ k \in 1 .. Len(q)
  OBVIOUS
<1>2. SubSeq(q, 1, k - 1) \in Seq(P) /\ SubSeq(q, k + 1, Len(q)) \in Seq(P)
  BY <1>1
<1>3. QED  BY <1>2 DEF RemoveAt

LEMMA NetRemove ==
    ASSUME NEW q, NEW lead, NEW peerLead, NEW n, NetOK(q, lead, peerLead, n),
           NEW k \in DOMAIN q
    PROVE  /\ NetOK(RemoveAt(q, k), lead, peerLead, n)
           /\ \A a \in q[k].app : AppOK(a, lead, peerLead, n)
<1>1. PICK P : /\ q \in Seq(P)
               /\ \A x \in P : \A a \in x.app : AppOK(a, lead, peerLead, n)
  BY DEF NetOK
<1>2. q[k] \in P /\ RemoveAt(q, k) \in Seq(P)
  BY <1>1, RemoveAtType
<1>3. QED  BY <1>1, <1>2 DEF NetOK

(* A compound packet is sent: its request is from the time it was begun.   *)
LEMMA SendKeeps ==
    ASSUME ClocksOK, NEW s \in Sides, SendCompound(s)
    PROVE  ClocksOK'
<1> DEFINE p == Peer(s)
<1>1. PICK q, fits, asks, m :
         /\ q \in making[s] /\ fits \in BOOLEAN /\ asks \in BOOLEAN
         /\ making' = [making EXCEPT ![s] = {}]
         /\ clock' = IF asks
                     THEN [clock EXCEPT ![s] = [clock[s] EXCEPT !.expected = q.time]]
                     ELSE clock
         /\ m.app = IF asks THEN {ClockRequest(clock[s], q.time)} ELSE {}
         /\ net' = IF fits THEN [net EXCEPT ![p] = Append(net[p], m)] ELSE net
  <2>1. PICK q \in making[s] :
           LET size == q.size + Padding(q.size)
               fits == size <= q.room
               asks == fits /\ size + Sizes.app <= q.room /\ AsksClock(clock[s], q.time)
               app == IF asks THEN {ClockRequest(clock[s], q.time)} ELSE {}
           IN  /\ making' = [making EXCEPT ![s] = {}]
               /\ clock' = IF asks
                           THEN [clock EXCEPT ![s] = [clock[s] EXCEPT !.expected = q.time]]
                           ELSE clock
               /\ net' = IF fits
                         THEN [net EXCEPT ![p] =
                                 Append(net[p], [reports |-> q.reports, sdes |-> q.items,
                                                 app |-> app])]
                         ELSE net
    BY DEF SendCompound
  <2> DEFINE size == q.size + Padding(q.size)
             fits == size <= q.room
             asks == fits /\ size + Sizes.app <= q.room /\ AsksClock(clock[s], q.time)
             app == IF asks THEN {ClockRequest(clock[s], q.time)} ELSE {}
             m == [reports |-> q.reports, sdes |-> q.items, app |-> app]
  <2>2. /\ making' = [making EXCEPT ![s] = {}]
        /\ clock' = IF asks
                    THEN [clock EXCEPT ![s] = [clock[s] EXCEPT !.expected = q.time]]
                    ELSE clock
        /\ net' = IF fits THEN [net EXCEPT ![p] = Append(net[p], m)] ELSE net
    BY <2>1
  <2>3. m.app = IF asks THEN {ClockRequest(clock[s], q.time)} ELSE {}
    OBVIOUS
  <2>4. fits \in BOOLEAN
    OBVIOUS
  <2>5. asks \in BOOLEAN
    OBVIOUS
  <2> HIDE DEF m, asks, fits
  <2>6. QED  BY <2>2, <2>3, <2>4, <2>5
<1>2. /\ now \in Int /\ now' = now
      /\ DOMAIN clock = Sides /\ DOMAIN net = Sides /\ DOMAIN making = Sides
      /\ p \in Sides /\ p # s /\ Peer(p) = s
  BY Peers DEF ClocksOK, SendCompound
<1>3. PICK lead \in Int, peerLead \in Int : lead = Lead(s) /\ peerLead = Lead(p)
  BY Peers
<1>4. /\ ClockOK(clock[s], lead, peerLead, now) /\ ClockOK(clock[p], peerLead, lead, now)
      /\ NetOK(net[s], lead, peerLead, now) /\ NetOK(net[p], peerLead, lead, now)
      /\ MadeOK(making[s], clock[s], lead, peerLead, now)
      /\ MadeOK(making[p], clock[p], peerLead, lead, now)
  BY <1>2, <1>3 DEF ClocksOK
<1>5. /\ ClockOK([clock[s] EXCEPT !.expected = q.time], lead, peerLead, now)
      /\ AppOK(ClockRequest(clock[s], q.time), peerLead, lead, now)
  <2> DEFINE c == clock[s]
             u == q.time
             n == u - lead
  <2>1. u \in Int /\ n \in Int /\ n <= now /\ ClockOK(c, lead, peerLead, n)
    BY <1>1, <1>4 DEF MadeOK
  <2>2. u = n + lead
    BY <2>1
  <2> HIDE DEF c, u, n
  <2>3. /\ ClockOK([c EXCEPT !.expected = u], lead, peerLead, n)
        /\ AppOK(ClockRequest(c, u), peerLead, lead, n)
    BY <2>1, <2>2, AskKeeps
  <2>4. /\ ClockOK([c EXCEPT !.expected = u], lead, peerLead, now)
        /\ AppOK(ClockRequest(c, u), peerLead, lead, now)
    BY <1>2, <2>1, <2>3, ClockLater, AppLater
  <2>5. QED  BY <2>4 DEF c, u
<1>6. ClockOK(clock'[s], lead, peerLead, now)
  BY <1>1, <1>2, <1>4, <1>5
<1>7. clock'[p] = clock[p] /\ net'[s] = net[s]
  BY <1>1, <1>2
<1>8. NetOK(net'[p], peerLead, lead, now)
  <2>1. \A a \in m.app : AppOK(a, peerLead, lead, now)
    BY <1>1, <1>5
  <2>2. NetOK(Append(net[p], m), peerLead, lead, now)
    BY <1>4, <2>1, NetAppend
  <2>3. QED  BY <1>1, <1>2, <1>4, <2>2
<1>9. /\ DOMAIN clock' = Sides /\ DOMAIN net' = Sides /\ DOMAIN making' = Sides
      /\ making'[s] = {} /\ making'[p] = making[p]
  BY <1>1, <1>2
<1>10. ASSUME NEW r \in Sides
       PROVE  /\ ClockOK(clock'[r], Lead(r), Lead(Peer(r)), now)
              /\ NetOK(net'[r], Lead(r), Lead(Peer(r)), now)
              /\ MadeOK(making'[r], clock'[r], Lead(r), Lead(Peer(r)), now)
  <2>1. CASE r = s
    BY <1>3, <1>4, <1>6, <1>7, <1>9, <2>1 DEF MadeOK
  <2>2. CASE r = p
    BY <1>2, <1>3, <1>4, <1>7, <1>8, <1>9, <2>2
  <2>3. QED  BY <2>1, <2>2, Peers
<1>11. QED  BY <1>2, <1>9, <1>10 DEF ClocksOK

LEMMA ClocksSame ==
    ASSUME ClocksOK, UNCHANGED <<clock, net, making, now>>
    PROVE  ClocksOK'
  BY DEF ClocksOK

(* A packet is begun, or goes on.                                          *)
LEMMA MadeKeeps ==
    ASSUME ClocksOK, UNCHANGED <<clock, net, now>>, NEW s \in Sides, NEW made,
           making' = [making EXCEPT ![s] = made],
           \A p \in made : /\ IsPacket(p)
                           /\ \/ p.time = ClockOf(s)
                              \/ \E q \in making[s] : p.time = q.time
    PROVE  ClocksOK'
<1>1. now \in Int /\ DOMAIN making = Sides /\ ClockOf(s) = now + Lead(s)
  BY Peers DEF ClocksOK
<1>2. PICK lead \in Int, peerLead \in Int : lead = Lead(s) /\ peerLead = Lead(Peer(s))
  BY Peers
<1>3. ClockOK(clock[s], lead, peerLead, now) /\ MadeOK(making[s], clock[s], lead, peerLead, now)
  BY <1>2 DEF ClocksOK
<1>4. ASSUME NEW p \in made
      PROVE  /\ IsPacket(p)
             /\ p.time \in Int /\ p.time - lead <= now
             /\ ClockOK(clock[s], lead, peerLead, p.time - lead)
  <2>1. CASE p.time = ClockOf(s)
    <3>1. p.time - lead = now /\ p.time \in Int
      BY <1>1, <1>2, <2>1
    <3>2. QED  BY <1>1, <1>3, <3>1
  <2>2. CASE \E q \in making[s] : p.time = q.time
    BY <1>3, <2>2 DEF MadeOK
  <2>3. QED  BY <1>4, <2>1, <2>2
<1>5. MadeOK(made, clock[s], lead, peerLead, now)
  BY <1>4 DEF MadeOK
<1>6. ASSUME NEW r \in Sides
      PROVE  MadeOK(making'[r], clock[r], Lead(r), Lead(Peer(r)), now)
  <2>1. CASE r = s
    BY <1>1, <1>2, <1>5, <2>1
  <2>2. CASE r # s
    BY <1>1, <2>2 DEF ClocksOK
  <2>3. QED  BY <2>1, <2>2
<1>7. DOMAIN making' = Sides
  BY <1>1
<1>8. QED  BY <1>6, <1>7 DEF ClocksOK

LEMMA BeginKeeps ==
    ASSUME ClocksOK, UNCHANGED <<clock, net, now>>, NEW s \in Sides,
           NEW msg, NEW size, BeginCompound(s, msg, size)
    PROVE  ClocksOK'
<1> DEFINE new == [reports |-> msg, room |-> MaxPacketSize - size,
                   time |-> ClockOf(s), next |-> 1, count |-> Len(own[s]),
                   size |-> SdesHeader, copied |-> FALSE, items |-> <<>>]
<1>1. PICK made : /\ making' = [making EXCEPT ![s] = made]
                  /\ made = {} \/ made = {new}
  BY DEF BeginCompound
<1>2. new.time = ClockOf(s) /\ IsPacket(new)
  BY DEF IsPacket
<1> HIDE DEF new
<1>3. \A p \in made : IsPacket(p) /\ p.time = ClockOf(s)
  BY <1>1, <1>2
<1>4. QED  BY <1>1, <1>3, MadeKeeps

(* What a packet that is being made begins with.                           *)
SameReport(p, q) == q.reports = p.reports /\ q.room = p.room /\ q.time = p.time

LEMMA PacketFields ==
    ASSUME NEW p, IsPacket(p), NEW x
    PROVE  /\ IsPacket([p EXCEPT !.next = x]) /\ SameReport(p, [p EXCEPT !.next = x])
           /\ IsPacket([p EXCEPT !.size = x]) /\ SameReport(p, [p EXCEPT !.size = x])
           /\ IsPacket([p EXCEPT !.copied = x]) /\ SameReport(p, [p EXCEPT !.copied = x])
           /\ IsPacket([p EXCEPT !.items = x]) /\ SameReport(p, [p EXCEPT !.items = x])
  BY DEF IsPacket, SameReport

LEMMA PacketSteps ==
    ASSUME NEW s \in Sides, \A p \in making[s] : IsPacket(p),
           (\E elapsed \in BOOLEAN : CopyItem(s, elapsed)) \/ MarkItem(s)
    PROVE  \E p, q : /\ p \in making[s] /\ making' = [making EXCEPT ![s] = {q}]
                     /\ IsPacket(q) /\ SameReport(p, q)
<1>1. CASE \E elapsed \in BOOLEAN : CopyItem(s, elapsed)
  <2>1. PICK p, value, key :
           /\ p \in making[s]
           /\ \/ making' = [making EXCEPT ![s] = {[p EXCEPT !.next = p.count + 1]}]
              \/ making' = [making EXCEPT ![s] =
                              {[p EXCEPT !.size = @ + SizeOf[value], !.copied = TRUE,
                                 !.items = Append(@, [key |-> key, value |-> value])]}]
              \/ making' = [making EXCEPT ![s] = {[p EXCEPT !.next = @ + 1]}]
    BY <1>1 DEF CopyItem
  <2>2. IsPacket(p)
    BY <2>1
  <2>3. CASE making' = [making EXCEPT ![s] = {[p EXCEPT !.next = p.count + 1]}]
    BY <2>1, <2>2, <2>3, PacketFields
  <2>4. CASE making' = [making EXCEPT ![s] =
               {[p EXCEPT !.size = @ + SizeOf[value], !.copied = TRUE,
                  !.items = Append(@, [key |-> key, value |-> value])]}]
    <3> DEFINE q == [p EXCEPT !.size = p.size + SizeOf[value]]
               r == [q EXCEPT !.copied = TRUE]
               t == [r EXCEPT !.items = Append(p.items, [key |-> key, value |-> value])]
    <3>1. IsPacket(q) /\ SameReport(p, q)
      BY <2>2, PacketFields
    <3>2. IsPacket(r) /\ SameReport(p, r)
      <4> HIDE DEF q
      <4>1. QED  BY <3>1, PacketFields DEF SameReport
    <3>3. IsPacket(t) /\ SameReport(p, t)
      <4> HIDE DEF r
      <4>1. QED  BY <3>2, PacketFields DEF SameReport
    <3>4. making' = [making EXCEPT ![s] = {t}]
      BY <2>2, <2>4 DEF IsPacket
    <3>5. QED  BY <2>1, <3>3, <3>4
  <2>5. CASE making' = [making EXCEPT ![s] = {[p EXCEPT !.next = @ + 1]}]
    BY <2>1, <2>2, <2>5, PacketFields
  <2>6. QED  BY <2>1, <2>3, <2>4, <2>5
<1>2. CASE MarkItem(s)
  <2>1. PICK p \in making[s] :
           making' = [making EXCEPT ![s] = {[p EXCEPT !.next = @ + 1, !.copied = FALSE]}]
    BY <1>2 DEF MarkItem
  <2>2. IsPacket(p)
    OBVIOUS
  <2> DEFINE q == [p EXCEPT !.next = p.next + 1]
             r == [q EXCEPT !.copied = FALSE]
  <2>3. IsPacket(q) /\ SameReport(p, q)
    BY <2>2, PacketFields
  <2>4. IsPacket(r) /\ SameReport(p, r)
    <3> HIDE DEF q
    <3>1. QED  BY <2>3, PacketFields DEF SameReport
  <2>5. making' = [making EXCEPT ![s] = {r}]
    BY <2>1, <2>2 DEF IsPacket
  <2>6. QED  BY <2>1, <2>4, <2>5
<1>3. QED  BY <1>1, <1>2

LEMMA StepKeeps ==
    ASSUME ClocksOK, NEW s \in Sides,
           (\E elapsed \in BOOLEAN : CopyItem(s, elapsed)) \/ MarkItem(s)
    PROVE  ClocksOK'
<1>1. \A p \in making[s] : IsPacket(p)
  BY DEF ClocksOK, MadeOK
<1>2. PICK p, q :
         /\ p \in making[s] /\ making' = [making EXCEPT ![s] = {q}]
         /\ IsPacket(q) /\ q.time = p.time
  BY <1>1, PacketSteps DEF SameReport
<1>3. UNCHANGED <<clock, net, now>>
  BY DEF CopyItem, MarkItem, linkVars
<1> DEFINE made == {q}
<1>4. /\ making' = [making EXCEPT ![s] = made]
      /\ \A r \in made : /\ IsPacket(r)
                         /\ \/ r.time = ClockOf(s)
                            \/ \E x \in making[s] : r.time = x.time
  BY <1>2
<1> HIDE DEF made
<1>5. QED  BY <1>3, <1>4, MadeKeeps

(* A compound packet arrives.                                              *)
LEMMA DeliverKeeps ==
    ASSUME ClocksOK, NEW s \in Sides, NEW k \in DOMAIN net[s],
           NEW again \in BOOLEAN, NEW old \in BOOLEAN, Deliver(s, k, again, old)
    PROVE  ClocksOK'
<1> DEFINE m == net[s][k]
           a == CHOOSE x \in m.app : TRUE
           c == ReadClock(clock[s], a, ClockOf(s), old)
<1>1. /\ net' = IF again THEN net ELSE [net EXCEPT ![s] = RemoveAt(net[s], k)]
      /\ \/ clock' = clock
         \/ m.app # {} /\ clock' = [clock EXCEPT ![s] = c]
      /\ now' = now /\ making' = making /\ making[s] = {}
  BY DEF Deliver, ReadRest, Free, itemVars
<1>2. /\ now \in Int /\ DOMAIN clock = Sides /\ DOMAIN net = Sides
      /\ DOMAIN making = Sides /\ ClockOf(s) = now + Lead(s)
  BY Peers DEF ClocksOK
<1>3. PICK lead \in Int, peerLead \in Int : lead = Lead(s) /\ peerLead = Lead(Peer(s))
  BY Peers
<1>4. ClockOK(clock[s], lead, peerLead, now) /\ NetOK(net[s], lead, peerLead, now)
  BY <1>3 DEF ClocksOK
<1>5. /\ NetOK(RemoveAt(net[s], k), lead, peerLead, now)
      /\ \A x \in m.app : AppOK(x, lead, peerLead, now)
  BY <1>4, NetRemove
<1> HIDE DEF m
<1>6. ASSUME m.app # {}
      PROVE  ClockOK(c, lead, peerLead, now)
  <2>1. AppOK(a, lead, peerLead, now)
    BY <1>5, <1>6
  <2> DEFINE d == clock[s]
  <2>2. PICK n \in Int, u \in Int : n = now /\ u = now + lead
    BY <1>2
  <2>3. /\ u = ClockOf(s) /\ u = n + lead
        /\ ClockOK(d, lead, peerLead, n) /\ AppOK(a, lead, peerLead, n)
    BY <1>2, <1>3, <1>4, <2>1, <2>2
  <2> HIDE DEF a, d
  <2>4. ClockOK(ReadClock(d, a, u, old), lead, peerLead, n)
    BY <2>3, ReadKeeps
  <2>5. QED  BY <2>2, <2>3, <2>4 DEF d
<1> HIDE DEF c
<1>7. ClockOK(clock'[s], lead, peerLead, now) /\ NetOK(net'[s], lead, peerLead, now)
  BY <1>1, <1>2, <1>4, <1>5, <1>6
<1>8. DOMAIN clock' = Sides /\ DOMAIN net' = Sides
  BY <1>1, <1>2
<1>9. ASSUME NEW r \in Sides
      PROVE  /\ ClockOK(clock'[r], Lead(r), Lead(Peer(r)), now)
             /\ NetOK(net'[r], Lead(r), Lead(Peer(r)), now)
             /\ MadeOK(making[r], clock'[r], Lead(r), Lead(Peer(r)), now)
  <2>1. CASE r = s
    BY <1>1, <1>3, <1>7, <2>1 DEF MadeOK
  <2>2. CASE r # s
    <3>1. clock'[r] = clock[r] /\ net'[r] = net[r]
      BY <1>1, <1>2, <2>2
    <3>2. QED  BY <3>1 DEF ClocksOK
  <2>3. QED  BY <2>1, <2>2
<1>10. QED  BY <1>1, <1>2, <1>8, <1>9 DEF ClocksOK

LEMMA LoseKeeps ==
    ASSUME ClocksOK, NEW s \in Sides, NEW k \in DOMAIN net[s], Lose(s, k)
    PROVE  ClocksOK'
<1>1. /\ net' = [net EXCEPT ![s] = RemoveAt(net[s], k)]
      /\ UNCHANGED <<clock, making, now>>
  BY DEF Lose, itemVars
<1>2. ASSUME NEW r \in Sides
      PROVE  NetOK(net'[r], Lead(r), Lead(Peer(r)), now)
  <2>1. NetOK(net[r], Lead(r), Lead(Peer(r)), now) /\ DOMAIN net = Sides
    BY DEF ClocksOK
  <2>2. CASE r = s
    BY <1>1, <2>1, <2>2, NetRemove
  <2>3. CASE r # s
    BY <1>1, <2>1, <2>3
  <2>4. QED  BY <2>2, <2>3
<1>3. QED  BY <1>1, <1>2 DEF ClocksOK

LEMMA ClocksInit ==
    ASSUME RtcpInit
    PROVE  ClocksOK
<1>1. /\ now = 1 /\ DOMAIN clock = Sides /\ DOMAIN net = Sides
      /\ DOMAIN making = Sides
  BY DEF RtcpInit
<1>2. ASSUME NEW s \in Sides
      PROVE  /\ ClockOK(clock[s], Lead(s), Lead(Peer(s)), now)
             /\ NetOK(net[s], Lead(s), Lead(Peer(s)), now)
             /\ MadeOK(making[s], clock[s], Lead(s), Lead(Peer(s)), now)
  <2>1. clock[s] = NoClock /\ net[s] = <<>> /\ making[s] = {}
    BY DEF RtcpInit
  <2>2. NoClock \in ClockCtx
    BY DEF NoClock, ClockCtx
  <2>3. /\ NoClock.nextOriginate = 0 /\ NoClock.avg = 0 /\ NoClock.window = <<>>
    BY DEF NoClock
  <2>4. ClockOK(clock[s], Lead(s), Lead(Peer(s)), now)
    BY <2>1, <2>2, <2>3 DEF ClockOK, HeardOK, WindowOK
  <2>5. NetOK(net[s], Lead(s), Lead(Peer(s)), now)
    <3>1. PICK P : P = {}
      OBVIOUS
    <3>2. <<>> \in Seq(P) /\ \A m \in P : \A a \in m.app :
                                AppOK(a, Lead(s), Lead(Peer(s)), now)
      BY <3>1
    <3>3. QED  BY <2>1, <3>2 DEF NetOK
  <2>6. QED  BY <2>1, <2>4, <2>5 DEF MadeOK
<1>3. QED  BY <1>1, <1>2 DEF ClocksOK

LEMMA ClocksNext ==
    ASSUME ClocksOK, [RtcpNext]_allVars
    PROVE  ClocksOK'
<1> USE DEF linkVars, itemVars
<1>1. CASE \E n \in Arrivals : Arrive(n)
  BY <1>1, ClocksSame DEF Arrive
<1>2. CASE \E e \in waiting : \E garbage \in Garbage(e) : Depayload(e, garbage)
  BY <1>2, ClocksSame DEF Depayload
<1>3. CASE SenderReport
  <2>1. /\ UNCHANGED <<clock, net, now>> /\ "sender" \in Sides
        /\ BeginCompound("sender", GenerateSenderReport(now), Sizes.sr)
    BY <1>3 DEF SenderReport, Sides
  <2>2. QED  BY <2>1, BeginKeeps
<1>4. CASE \E withLoss \in BOOLEAN : \E beyond \in Beyond(withLoss) :
              ReceiverReport(withLoss, beyond)
  <2>1. /\ UNCHANGED <<clock, net, now>> /\ "receiver" \in Sides
        /\ \E msg, size : BeginCompound("receiver", msg, size)
    BY <1>4 DEF ReceiverReport, Sides
  <2>2. QED  BY <2>1, BeginKeeps
<1>5. CASE \E s \in Sides : SetStep(s)
  BY <1>5, ClocksSame
     DEF SetStep, SetUntimedMetadata, AddField, BeginValue, EndValue
<1>6. CASE \E s \in Sides : MakeStep(s)
  BY <1>6, StepKeeps, SendKeeps DEF MakeStep
<1>7. CASE \E s \in Sides : \E k \in DOMAIN net[s] :
              \/ \E again \in BOOLEAN, old \in BOOLEAN : Deliver(s, k, again, old)
              \/ Lose(s, k)
  BY <1>7, DeliverKeeps, LoseKeeps
<1>8. CASE Tick
  BY <1>8, TickKeeps DEF Tick
<1>9. CASE UNCHANGED allVars
  BY <1>9, ClocksSame DEF allVars
<1>10. QED
  BY <1>1, <1>2, <1>3, <1>4, <1>5, <1>6, <1>7, <1>8, <1>9 DEF RtcpNext

(* What the invariant says of the property.                                *)
LEMMA ClocksImply ==
    ASSUME ClocksOK
    PROVE  ClockDeltaAccurate
<1>1. ASSUME NEW s \in Sides
      PROVE  LET offset == IF s = "sender" THEN Offset ELSE -Offset
                 w == clock[s].window
             IN  /\ \A i, j \in DOMAIN w : w[i].request = w[j].request => i = j
                 /\ \A i \in DOMAIN w :
                       AbsInt(2 * (w[i].delta - offset)) <= w[i].rt + 2
                 /\ clock[s].avg # 0 =>
                       AbsInt(2 * (clock[s].avg - offset)) <= MaxRtDelay + 1
  <2>1. PICK offset \in Int : /\ offset = IF s = "sender" THEN Offset ELSE -Offset
                              /\ offset = Lead(Peer(s)) - Lead(s)
    BY Peers, RtcpAssumption DEF Sides, Lead
  <2>2. PICK w \in Seq(Sample) : w = clock[s].window
    BY DEF ClocksOK, ClockOK, ClockCtx
  <2>3. /\ WindowOK(w, clock[s].expected, offset, now + Lead(s))
        /\ clock[s].avg # 0 => Within(clock[s].avg, offset, MaxRtDelay + 1)
        /\ clock[s].avg \in Int
    BY <2>1, <2>2 DEF ClocksOK, ClockOK, ClockCtx
  <2>4. DOMAIN w = 1 .. Len(w)
    OBVIOUS
  <2>5. ASSUME NEW v \in Int, NEW err \in Int, Within(v, offset, err)
        PROVE  AbsInt(2 * (v - offset)) <= err
    BY <2>5 DEF Within, AbsInt
  <2>6. ASSUME NEW i \in DOMAIN w
        PROVE  AbsInt(2 * (w[i].delta - offset)) <= w[i].rt + 2
    <3>1. w[i] \in Sample
      BY <2>4, <2>6
    <3>2. w[i].delta \in Int /\ w[i].rt + 2 \in Int
      BY <3>1 DEF Sample
    <3>3. Within(w[i].delta, offset, w[i].rt + 2)
      BY <2>3, <2>4, <2>6 DEF WindowOK
    <3>4. QED  BY <2>5, <3>2, <3>3
  <2>7. clock[s].avg # 0 => AbsInt(2 * (clock[s].avg - offset)) <= MaxRtDelay + 1
    <3>1. MaxRtDelay + 1 \in Int
      BY RtcpAssumption
    <3>2. QED  BY <2>3, <2>5, <3>1
  <2>8. \A i, j \in DOMAIN w : w[i].request = w[j].request => i = j
    BY <2>3, <2>4 DEF WindowOK
  <2>9. QED  BY <2>1, <2>2, <2>6, <2>7, <2>8
<1>2. QED  BY <1>1 DEF ClockDeltaAccurate

(* Every sample of the peer's clock answers a request of its own, and is   *)
(* within half its round trip of the truth, as is the average, whatever is *)
(* lost, repeated, reordered or asked again (arstream2_rtcp.c 1437-1545).  *)
THEOREM ClocksAccurate == RtcpSpec => []ClockDeltaAccurate
<1>1. RtcpInit => ClocksOK
  BY ClocksInit
<1>2. ClocksOK /\ [RtcpNext]_allVars => ClocksOK'
  BY ClocksNext
<1>3. ClocksOK => ClockDeltaAccurate
  BY ClocksImply
<1>4. QED  BY <1>1, <1>2, <1>3, PTL DEF RtcpSpec

-----------------------------------------------------------------------------
(* Source descriptions read.                                               *)

(* The function of a set of positions that the reading folds with.         *)
IsFold(f, base, seq, n) ==
    f = [z \in SUBSET (1 .. n) |->
           IF z = {} THEN base ELSE StoreItem(f[z \ {Max(z)}], seq[Max(z)])]

(* Its values on the prefixes of the sequence.                             *)
Folded(st, base, seq) ==
    /\ st[0] = base
    /\ \A k \in 1 .. Len(seq) : st[k] = StoreItem(st[k - 1], seq[k])

LEMMA FoldExists ==
    ASSUME NEW base, NEW seq, NEW n \in Nat
    PROVE  \E f : IsFold(f, base, seq, n)
<1> DEFINE E == {m \in Nat : \E f : IsFold(f, base, seq, m)}
<1>1. 0 \in E
  <2>1. SUBSET (1 .. 0) = {{}}
    OBVIOUS
  <2>2. PICK f : f = [z \in SUBSET (1 .. 0) |-> base]
    OBVIOUS
  <2>3. f = [z \in SUBSET (1 .. 0) |->
               IF z = {} THEN base ELSE StoreItem(f[z \ {Max(z)}], seq[Max(z)])]
    BY <2>1, <2>2
  <2>4. QED  BY <2>3 DEF IsFold
<1>2. ASSUME NEW m \in Nat, m \in E
      PROVE  m + 1 \in E
  <2>1. PICK g : IsFold(g, base, seq, m)
    BY <1>2
  <2> DEFINE D == SUBSET (1 .. m)
             h == [z \in SUBSET (1 .. m + 1) |->
                     IF m + 1 \in z THEN StoreItem(g[z \ {m + 1}], seq[m + 1]) ELSE g[z]]
             Value(f, z) == IF z = {} THEN base ELSE StoreItem(f[z \ {Max(z)}], seq[Max(z)])
  <2>2. \A z \in D : g[z] = Value(g, z)
    BY <2>1 DEF IsFold
  <2>3. \A z \in D : z \in SUBSET (1 .. m + 1) /\ m + 1 \notin z /\ h[z] = g[z]
    OBVIOUS
  <2>4. ASSUME NEW z \in SUBSET (1 .. m + 1)
        PROVE  h[z] = Value(h, z)
    <3>1. CASE m + 1 \in z
      <4>1. Max(z) = m + 1
        <5>1. \A y \in z : y \in Nat /\ y <= m + 1
          OBVIOUS
        <5>2. \A x \in z : (\A y \in z : x >= y) => x = m + 1
          BY <3>1, <5>1
        <5>3. \A y \in z : m + 1 >= y
          BY <5>1
        <5>4. QED  BY <3>1, <5>2, <5>3 DEF Max
      <4>2. z \ {m + 1} \in D
        OBVIOUS
      <4>3. h[z \ {m + 1}] = g[z \ {m + 1}]
        BY <2>3, <4>2
      <4>4. h[z] = StoreItem(g[z \ {m + 1}], seq[m + 1])
        BY <3>1
      <4> HIDE DEF h
      <4>5. QED  BY <3>1, <4>1, <4>3, <4>4
    <3>2. CASE m + 1 \notin z
      <4>1. z \in D
        BY <3>2
      <4>5. z \ {Max(z)} \in D
        BY <4>1
      <4>2. h[z] = g[z] /\ h[z \ {Max(z)}] = g[z \ {Max(z)}]
        BY <2>3, <4>1, <4>5
      <4> HIDE DEF h
      <4>3. QED  BY <2>2, <4>1, <4>2, <3>2
    <3>3. QED  BY <3>1, <3>2
  <2>5. h = [z \in SUBSET (1 .. m + 1) |-> h[z]]
    OBVIOUS
  <2> HIDE DEF h
  <2>6. h = [z \in SUBSET (1 .. m + 1) |-> Value(h, z)]
    BY <2>4, <2>5
  <2>7. IsFold(h, base, seq, m + 1)
    BY <2>6 DEF IsFold
  <2>8. QED  BY <2>7
<1> HIDE DEF E
<1>3. Nat \subseteq E
  BY <1>1, <1>2, SetInduction
<1>4. QED  BY <1>3 DEF E

LEMMA FoldStates ==
    ASSUME NEW base, NEW seq, Len(seq) \in Nat,
           NEW f, IsFold(f, base, seq, Len(seq))
    PROVE  \E st : Folded(st, base, seq) /\ f[1 .. Len(seq)] = st[Len(seq)]
<1>1. PICK n \in Nat : n = Len(seq)
  OBVIOUS
<1>2. \A z \in SUBSET (1 .. n) :
         f[z] = IF z = {} THEN base ELSE StoreItem(f[z \ {Max(z)}], seq[Max(z)])
  BY <1>1 DEF IsFold
<1>3. PICK st : st = [k \in 0 .. n |-> f[1 .. k]]
  OBVIOUS
<1>4. st[0] = base
  <2>1. 1 .. 0 = {} /\ {} \in SUBSET (1 .. n)
    OBVIOUS
  <2>2. f[{}] = base
    BY <1>2, <2>1
  <2>3. QED  BY <1>3, <2>1, <2>2
<1>5. ASSUME NEW k \in 1 .. n
      PROVE  st[k] = StoreItem(st[k - 1], seq[k])
  <2>1. 1 .. k \in SUBSET (1 .. n) /\ 1 .. k # {}
    <3>1. \A j \in 1 .. k : j \in 1 .. n
      OBVIOUS
    <3>2. k \in 1 .. k
      OBVIOUS
    <3>3. QED  BY <3>1, <3>2
  <2>2. Max(1 .. k) = k
    BY DEF Max
  <2>3. (1 .. k) \ {k} = 1 .. k - 1
    OBVIOUS
  <2>4. f[1 .. k] = StoreItem(f[1 .. k - 1], seq[k])
    BY <1>2, <2>1, <2>2, <2>3
  <2>5. QED  BY <1>3, <2>4
<1>6. Folded(st, base, seq)
  BY <1>1, <1>4, <1>5 DEF Folded
<1>7. f[1 .. Len(seq)] = st[Len(seq)]
  BY <1>1, <1>3
<1>8. QED  BY <1>6, <1>7

LEMMA StoreFold ==
    ASSUME NEW table, NEW S, NEW seq \in Seq(S)
    PROVE  \E st : /\ Folded(st, table, seq)
                   /\ FoldLeft(StoreItem, table, seq) = st[Len(seq)]
<1> DEFINE f == CHOOSE g : g = [z \in SUBSET DOMAIN seq |->
                                  IF z = {} THEN table
                                  ELSE StoreItem(g[z \ {Max(z)}], seq[Max(z)])]
<1>1. FoldLeft(StoreItem, table, seq) = f[DOMAIN seq]
  BY DEF FoldLeft, MapThenFoldSet
<1>2. DOMAIN seq = 1 .. Len(seq) /\ Len(seq) \in Nat
  OBVIOUS
<1>3. \E g : g = [z \in SUBSET DOMAIN seq |->
                    IF z = {} THEN table ELSE StoreItem(g[z \ {Max(z)}], seq[Max(z)])]
  <2>1. PICK g : IsFold(g, table, seq, Len(seq))
    BY <1>2, FoldExists
  <2>2. g = [z \in SUBSET DOMAIN seq |->
               IF z = {} THEN table ELSE StoreItem(g[z \ {Max(z)}], seq[Max(z)])]
    BY <1>2, <2>1 DEF IsFold
  <2>3. QED  BY <2>2
<1>4. f = [z \in SUBSET DOMAIN seq |->
             IF z = {} THEN table ELSE StoreItem(f[z \ {Max(z)}], seq[Max(z)])]
  BY <1>3
<1> HIDE DEF f
<1>5. IsFold(f, table, seq, Len(seq))
  BY <1>2, <1>4 DEF IsFold
<1>6. PICK st : Folded(st, table, seq) /\ f[1 .. Len(seq)] = st[Len(seq)]
  BY <1>2, <1>5, FoldStates
<1>7. QED  BY <1>1, <1>2, <1>6

-----------------------------------------------------------------------------
(* Tables of items, one for each key.                                      *)

Word == [key : Keys, value : DOMAIN SizeOf]
Item == [key : Keys, value : DOMAIN SizeOf, sent : BOOLEAN]

KeysOf(table) == {table[k].key : k \in DOMAIN table}

OneEach(table) ==
    \A j, k \in DOMAIN table : table[j].key = table[k].key => j = k

LEMMA StoreLemma ==
    ASSUME NEW S, NEW table \in Seq(S), NEW item \in S, OneEach(table),
           Len(table) <= MaxItems
    PROVE  LET r == StoreItem(table, item) IN
           /\ r \in Seq(S) /\ OneEach(r) /\ Len(r) <= MaxItems
           /\ KeysOf(table) \subseteq KeysOf(r)
           /\ \A k \in DOMAIN table : k \in DOMAIN r /\ r[k].key = table[k].key
           /\ KeysOf(r) \subseteq KeysOf(table) \cup {item.key}
           /\ ToSet(r) \subseteq ToSet(table) \cup {item}
           /\ \A x \in ToSet(table) : x.key # item.key => x \in ToSet(r)
           /\ item.key \in KeysOf(table) \/ Len(table) < MaxItems => item \in ToSet(r)
<1> DEFINE r == StoreItem(table, item)
           found == {k \in DOMAIN table : table[k].key = item.key}
<1>1. /\ Len(table) \in Nat /\ DOMAIN table = 1 .. Len(table) /\ MaxItems \in Nat
      /\ \A k \in DOMAIN table : table[k] \in S
  BY RtcpAssumption
<1>2. CASE found # {}
  <2>1. PICK c \in found : r = [table EXCEPT ![c] = item]
    BY <1>2 DEF StoreItem
  <2>2. c \in DOMAIN table /\ table[c].key = item.key
    BY <2>1
  <2>3. /\ r \in Seq(S) /\ DOMAIN r = DOMAIN table /\ Len(r) = Len(table)
        /\ r[c] = item /\ \A k \in DOMAIN table \ {c} : r[k] = table[k]
    BY <1>1, <2>1, <2>2
  <2> HIDE DEF r, found
  <2>4. \A k \in DOMAIN table : r[k].key = table[k].key
    BY <2>2, <2>3
  <2>5. OneEach(r) /\ KeysOf(r) = KeysOf(table)
    BY <2>3, <2>4 DEF OneEach, KeysOf
  <2>6. ToSet(r) \subseteq ToSet(table) \cup {item} /\ item \in ToSet(r)
    BY <2>2, <2>3 DEF ToSet
  <2>7. ASSUME NEW x \in ToSet(table), x.key # item.key
        PROVE  x \in ToSet(r)
    <3>1. PICK k \in DOMAIN table : table[k] = x
      BY DEF ToSet
    <3>2. k # c
      BY <2>2, <2>7, <3>1
    <3>3. QED  BY <2>3, <3>1, <3>2 DEF ToSet
  <2>8. QED  BY <2>3, <2>4, <2>5, <2>6, <2>7 DEF r
<1>3. CASE found = {} /\ Len(table) < MaxItems
  <2>1. r = Append(table, item)
    BY <1>3 DEF StoreItem
  <2>2. \A k \in DOMAIN table : table[k].key # item.key
    BY <1>3
  <2>3. /\ r \in Seq(S) /\ DOMAIN r = 1 .. Len(table) + 1 /\ Len(r) = Len(table) + 1
        /\ r[Len(table) + 1] = item /\ \A k \in DOMAIN table : r[k] = table[k]
    BY <1>1, <2>1
  <2> HIDE DEF r, found
  <2>4. \A k \in DOMAIN r : k = Len(table) + 1 \/ k \in DOMAIN table
    BY <1>1, <2>3
  <2>5. DOMAIN table \subseteq DOMAIN r /\ Len(table) + 1 \in DOMAIN r
    BY <1>1, <2>3
  <2>6. OneEach(r)
    BY <2>2, <2>3, <2>4 DEF OneEach
  <2>7. KeysOf(r) = KeysOf(table) \cup {item.key}
    BY <2>3, <2>4, <2>5 DEF KeysOf
  <2>8. ToSet(r) = ToSet(table) \cup {item}
    BY <2>3, <2>4, <2>5 DEF ToSet
  <2>9. Len(r) <= MaxItems
    BY <1>1, <1>3, <2>3
  <2>10. \A k \in DOMAIN table : k \in DOMAIN r /\ r[k].key = table[k].key
    BY <2>3, <2>5
  <2>11. QED  BY <2>3, <2>6, <2>7, <2>8, <2>9, <2>10 DEF r
<1>4. CASE found = {} /\ ~(Len(table) < MaxItems)
  <2>1. r = table
    BY <1>4 DEF StoreItem
  <2>2. item.key \notin KeysOf(table)
    BY <1>4 DEF KeysOf
  <2>3. QED  BY <1>4, <2>1, <2>2
<1>5. QED  BY <1>2, <1>3, <1>4

(* What the reading of a key finds.                                        *)
LEMMA GetLemma ==
    ASSUME NEW table, OneEach(table), NEW x \in ToSet(table)
    PROVE  GetSdesItem(table, x.key) = {x.value}
<1>1. PICK k \in DOMAIN table : table[k] = x
  BY DEF ToSet
<1>2. {j \in DOMAIN table : table[j].key = x.key} = {k}
  BY <1>1 DEF OneEach
<1>3. QED  BY <1>1, <1>2 DEF GetSdesItem

(* A table whose keys are among another's is not longer, and shorter if    *)
(* one of them is missing.                                                 *)
LEMMA RoomLemma ==
    ASSUME NEW S, NEW s \in Seq(S), NEW T, NEW t \in Seq(T), OneEach(s),
           KeysOf(s) \subseteq KeysOf(t)
    PROVE  /\ Len(s) <= Len(t)
           /\ KeysOf(s) # KeysOf(t) => Len(s) < Len(t)
<1>1. PICK m \in Nat, n \in Nat : m = Len(s) /\ n = Len(t)
  OBVIOUS
<1>2. DOMAIN s = 1 .. m /\ DOMAIN t = 1 .. n
  BY <1>1
<1> DEFINE At(k) == CHOOSE j \in 1 .. n : t[j].key = s[k].key
           f == [k \in 1 .. m |-> At(k)]
<1>3. ASSUME NEW k \in 1 .. m
      PROVE  At(k) \in 1 .. n /\ t[At(k)].key = s[k].key
  <2>1. s[k].key \in KeysOf(t)
    BY <1>2 DEF KeysOf
  <2>2. \E j \in 1 .. n : t[j].key = s[k].key
    BY <1>2, <2>1 DEF KeysOf
  <2>3. QED  BY <2>2
<1> HIDE DEF At
<1>4. f \in Injection(1 .. m, 1 .. n)
  <2>1. f \in [1 .. m -> 1 .. n]
    BY <1>3
  <2>2. ASSUME NEW j \in 1 .. m, NEW k \in 1 .. m, f[j] = f[k]
        PROVE  j = k
    <3>1. At(j) = At(k)
      BY <2>2
    <3>2. s[j].key = s[k].key
      BY <1>3, <3>1
    <3>3. QED  BY <1>2, <3>2 DEF OneEach
  <2>3. QED  BY <2>1, <2>2 DEF Injection, IsInjective
<1>5. /\ IsFiniteSet(1 .. m) /\ Cardinality(1 .. m) = m
      /\ IsFiniteSet(1 .. n) /\ Cardinality(1 .. n) = n
  BY FS_Interval
<1>6. m <= n /\ (m = n => f \in Surjection(1 .. m, 1 .. n))
  BY <1>4, <1>5, FS_Injection
<1>7. ASSUME m = n
      PROVE  KeysOf(t) \subseteq KeysOf(s)
  <2>1. \A j \in 1 .. n : \E k \in 1 .. m : f[k] = j
    BY <1>6, <1>7 DEF Surjection
  <2>2. ASSUME NEW j \in 1 .. n
        PROVE  \E k \in 1 .. m : t[j].key = s[k].key
    <3>1. PICK k \in 1 .. m : f[k] = j
      BY <2>1
    <3>2. At(k) = j
      BY <3>1
    <3>3. QED  BY <1>3, <3>2
  <2>3. QED  BY <1>2, <2>2 DEF KeysOf
<1>8. KeysOf(s) # KeysOf(t) => m # n
  BY <1>7
<1>9. QED  BY <1>1, <1>6, <1>8

(* What the reader sees of the items of a packet.                          *)
Heard(items) == SubSeq(items, 1, Len(items) - Cardinality(Unseen(items)))

LEMMA HeardLemma ==
    ASSUME NEW S, NEW items \in Seq(S), OneEach(items)
    PROVE  LET h == Heard(items) IN
           /\ h \in Seq(S) /\ OneEach(h) /\ ToSet(h) \subseteq ToSet(items)
           /\ KeysOf(h) \subseteq KeysOf(items)
           /\ Cardinality(Unseen(items)) \in 0 .. Len(items)
           /\ \A k \in DOMAIN items :
                 k > Len(items) - Cardinality(Unseen(items)) \/ items[k] \in ToSet(h)
<1>1. PICK n \in Nat : n = Len(items)
  OBVIOUS
<1>2. DOMAIN items = 1 .. n
  BY <1>1
<1>3. PICK u \in 0 .. 1 : /\ u = Cardinality(Unseen(items)) /\ u <= n
                          /\ u = 1 => Unseen(items) = {n}
  <2>1. Unseen(items) = {} \/ (items # <<>> /\ Unseen(items) = {Len(items)})
    BY DEF Unseen
  <2>2. Cardinality({}) = 0 /\ Cardinality({n}) = 1
    BY FS_EmptySet, FS_Singleton
  <2>3. items # <<>> => n >= 1
    BY <1>1
  <2>4. CASE Unseen(items) = {}
    <3>1. 0 \in 0 .. 1 /\ 0 = Cardinality(Unseen(items)) /\ 0 <= n
      BY <2>2, <2>4
    <3>2. QED  BY <3>1
  <2>5. CASE items # <<>> /\ Unseen(items) = {n}
    <3>1. 1 \in 0 .. 1 /\ 1 = Cardinality(Unseen(items)) /\ 1 <= n
      BY <2>2, <2>3, <2>5
    <3>2. QED  BY <2>5, <3>1
  <2>6. QED  BY <1>1, <2>1, <2>4, <2>5
<1>4. PICK h : h = Heard(items)
  OBVIOUS
<1>5. h \in Seq(S) /\ DOMAIN h = 1 .. n - u /\ \A k \in 1 .. n - u : h[k] = items[k]
  <2>1. n - u \in Nat /\ n - u <= n /\ h = SubSeq(items, 1, n - u)
    BY <1>1, <1>3, <1>4 DEF Heard
  <2>2. QED  BY <1>1, <1>2, <2>1
<1>6. 1 .. n - u \subseteq 1 .. n /\ \A k \in 1 .. n : k \in 1 .. n - u \/ (k = n /\ u = 1)
  BY <1>3
<1>7. OneEach(h)
  BY <1>2, <1>5, <1>6 DEF OneEach
<1>8. ToSet(h) \subseteq ToSet(items) /\ KeysOf(h) \subseteq KeysOf(items)
  BY <1>2, <1>5, <1>6 DEF ToSet, KeysOf
<1>9. ASSUME NEW k \in 1 .. n
      PROVE  k > n - u \/ items[k] \in ToSet(h)
  <2>1. k > n - u \/ k \in 1 .. n - u
    BY <1>3
  <2>2. QED  BY <1>5, <2>1 DEF ToSet
<1>10. u \in 0 .. n
  BY <1>3
<1>11. QED  BY <1>1, <1>2, <1>3, <1>4, <1>5, <1>7, <1>8, <1>9, <1>10

(* The items of a peer's table are among those of the table it describes:  *)
(* there is always room for what is read, and nothing else is lost.        *)
LEMMA ReadLemma ==
    ASSUME NEW table \in Seq(Word), OneEach(table),
           NEW items \in Seq(Word), OneEach(items),
           NEW all \in Seq(Item), OneEach(all), Len(all) <= MaxItems,
           KeysOf(table) \subseteq KeysOf(all), KeysOf(items) \subseteq KeysOf(all)
    PROVE  LET r == ReadSdes(table, items) IN
           /\ r \in Seq(Word) /\ OneEach(r) /\ KeysOf(r) \subseteq KeysOf(all)
           /\ ToSet(Heard(items)) \subseteq ToSet(r)
           /\ \A x \in ToSet(table) : x.key \notin KeysOf(Heard(items)) => x \in ToSet(r)
<1>1. PICK h \in Seq(Word) : h = Heard(items)
  BY HeardLemma
<1>2. OneEach(h) /\ KeysOf(h) \subseteq KeysOf(all)
  BY <1>1, HeardLemma
<1>3. PICK n \in Nat : n = Len(h)
  OBVIOUS
<1>4. DOMAIN h = 1 .. n /\ \A k \in 1 .. n : h[k] \in Word /\ h[k].key \in KeysOf(all)
  <2>1. DOMAIN h = 1 .. n /\ \A k \in 1 .. n : h[k] \in Word
    BY <1>3
  <2>2. QED  BY <1>2, <2>1 DEF KeysOf
<1>5. PICK st : /\ Folded(st, table, h)
                /\ FoldLeft(StoreItem, table, h) = st[Len(h)]
  BY StoreFold
<1>6. ReadSdes(table, items) = st[n]
  <2>1. ReadSdes(table, items) = FoldLeft(StoreItem, table, Heard(items))
    BY DEF ReadSdes, Heard, FoldLeft, MapThenFoldSet
  <2>2. FoldLeft(StoreItem, table, Heard(items)) = FoldLeft(StoreItem, table, h)
    BY <1>1
  <2>3. QED  BY <1>3, <1>5, <2>1, <2>2
<1>7. st[0] = table /\ \A k \in 1 .. n : st[k] = StoreItem(st[k - 1], h[k])
  BY <1>3, <1>5 DEF Folded
<1> DEFINE Good(k) ==
             /\ st[k] \in Seq(Word) /\ OneEach(st[k]) /\ KeysOf(st[k]) \subseteq KeysOf(all)
             /\ \A j \in 1 .. k : h[j] \in ToSet(st[k])
             /\ \A x \in ToSet(table) : x.key \notin KeysOf(h) => x \in ToSet(st[k])
           G == {k \in Nat : k <= n => Good(k)}
<1>8. 0 \in G
  BY <1>7
<1>9. ASSUME NEW k \in Nat, k \in G
      PROVE  k + 1 \in G
  <2> HIDE DEF Good
  <2>1. SUFFICES ASSUME k + 1 <= n PROVE Good(k + 1)
    OBVIOUS
  <2>2. Good(k)
    BY <1>9, <2>1
  <2> USE DEF Good
  <2>3. PICK t, u, w : t = st[k] /\ u = st[k + 1] /\ w = h[k + 1]
    OBVIOUS
  <2>4. u = StoreItem(t, w) /\ w \in Word /\ w.key \in KeysOf(all) /\ k + 1 \in DOMAIN h
    BY <1>4, <1>7, <2>1, <2>3
  <2>5. t \in Seq(Word) /\ OneEach(t) /\ KeysOf(t) \subseteq KeysOf(all)
    BY <2>2, <2>3
  <2>6. /\ Len(t) <= MaxItems
        /\ w.key \in KeysOf(t) \/ Len(t) < MaxItems
    <3>1. /\ Len(t) <= Len(all)
          /\ KeysOf(t) # KeysOf(all) => Len(t) < Len(all)
      BY <2>5, RoomLemma
    <3>2. Len(t) \in Nat /\ Len(all) \in Nat /\ MaxItems \in Nat
      BY <2>5, RtcpAssumption
    <3>3. QED  BY <2>4, <3>1, <3>2
  <2>7. /\ u \in Seq(Word) /\ OneEach(u) /\ KeysOf(u) \subseteq KeysOf(t) \cup {w.key}
        /\ \A x \in ToSet(t) : x.key # w.key => x \in ToSet(u)
        /\ w \in ToSet(u)
    BY <2>4, <2>5, <2>6, StoreLemma
  <2>8. ASSUME NEW j \in 1 .. k + 1
        PROVE  h[j] \in ToSet(u)
    <3>1. CASE j = k + 1
      BY <2>3, <2>7, <3>1
    <3>2. CASE j # k + 1
      <4>1. j \in 1 .. k /\ j \in DOMAIN h
        BY <1>4, <2>1, <3>2
      <4>2. h[j] \in ToSet(t)
        BY <2>2, <2>3, <4>1
      <4>3. h[j].key # w.key
        BY <1>2, <2>3, <2>4, <3>2, <4>1 DEF OneEach
      <4>4. QED  BY <2>7, <4>2, <4>3
    <3>3. QED  BY <3>1, <3>2
  <2>9. ASSUME NEW x \in ToSet(table), x.key \notin KeysOf(h)
        PROVE  x \in ToSet(u)
    <3>1. x \in ToSet(t)
      BY <2>2, <2>3, <2>9
    <3>2. x.key # w.key
      BY <2>3, <2>4, <2>9 DEF KeysOf
    <3>3. QED  BY <2>7, <3>1, <3>2
  <2>10. QED  BY <2>3, <2>4, <2>5, <2>7, <2>8, <2>9
<1>10. Good(n)
  <2> HIDE DEF Good
  <2>1. Nat \subseteq G
    <3> HIDE DEF G
    <3>1. QED  BY <1>8, <1>9, SetInduction
  <2>2. QED  BY <2>1
<1>11. ToSet(h) \subseteq ToSet(st[n])
  BY <1>4, <1>10 DEF ToSet
<1>12. QED  BY <1>1, <1>6, <1>10, <1>11

-----------------------------------------------------------------------------
(* What a side has told its peer.                                          *)

WordOf(i) == [key |-> i.key, value |-> i.value]

(* The peer's table has the item, or a packet on its way does that is      *)
(* heard of, and no later one says anything else.                          *)
Conveyed(q, table, i) ==
    \E k \in 0 .. Len(q) :
        /\ WordOf(i) \in IF k = 0 THEN ToSet(table) ELSE ToSet(Heard(q[k].sdes))
        /\ \A l \in k + 1 .. Len(q) : i.key \notin KeysOf(Heard(q[l].sdes))

OwnOK(table) == table \in Seq(Item) /\ OneEach(table) /\ Len(table) <= MaxItems

Describes(words, all) ==
    words \in Seq(Word) /\ OneEach(words) /\ KeysOf(words) \subseteq KeysOf(all)

OnTheWay(q, all) == \E P : q \in Seq(P) /\ \A m \in P : Describes(m.sdes, all)

(* The positions of the table a packet being made has items of.            *)
Copied(p) == IF p.copied THEN p.next ELSE p.next - 1

PacketOK(p, all) ==
    /\ IsPacket(p)
    /\ p.next \in Nat /\ p.count \in Nat /\ p.copied \in BOOLEAN
    /\ 1 <= p.next /\ p.next <= p.count + 1 /\ p.count <= Len(all)
    /\ p.copied => p.next <= p.count
    /\ p.size \in Nat /\ p.size >= SdesHeader
    /\ p.items \in Seq(Word) /\ OneEach(p.items)
    /\ \A k \in DOMAIN p.items :
          \E j \in 1 .. Copied(p) : p.items[k].key = all[j].key

(* What side s tells of itself, to the tables of its peer.                 *)
Telling(s) ==
    [all |-> own[s], fields |-> setting[s], busy |-> s \in writing,
     made |-> making[s], late |-> overtaken[s], missed |-> unread[s],
     q |-> net[Peer(s)], table |-> peer[Peer(s)], inOrder |-> ordered[Peer(s)]]

(* The keys whose value is being changed, or has been changed too late.    *)
Doubtful(t) == t.late \cup (IF t.busy THEN {Head(t.fields).key} ELSE {})

(* Item i is in the packet being made, or in none but has been told.       *)
HasTold(t, i) ==
    IF \E p \in t.made : i.key \in KeysOf(p.items)
    THEN \E p \in t.made : WordOf(i) \in ToSet(p.items)
    ELSE i.key \in t.missed \/ Conveyed(t.q, t.table, i)

AllTold(t) ==
    \A i \in ToSet(t.all) : i.sent /\ i.key \notin Doubtful(t) => HasTold(t, i)

FieldsOK(t) ==
    /\ t.fields \in Seq(Word)
    /\ t.busy => t.fields # <<>> /\ Head(t.fields).key \in KeysOf(t.all)

MadeTold(t) ==
    /\ \A p \in t.made : PacketOK(p, t.all)
    /\ \A p, r \in t.made : p = r
    /\ \A p \in t.made : p.copied /\ t.all[p.next].key \notin Doubtful(t) =>
                            WordOf(t.all[p.next]) \in ToSet(p.items)

TellingOK(t) ==
    /\ OwnOK(t.all) /\ FieldsOK(t) /\ MadeTold(t)
    /\ OnTheWay(t.q, t.all) /\ Describes(t.table, t.all)
    /\ t.inOrder => AllTold(t)

(* A packet is sent: it tells of the items it has, and of no other.        *)
LEMMA ConveyedSent ==
    ASSUME NEW P, NEW q \in Seq(P), NEW table, NEW i, NEW m,
           \/ WordOf(i) \in ToSet(Heard(m.sdes))
           \/ Conveyed(q, table, i) /\ i.key \notin KeysOf(Heard(m.sdes))
    PROVE  Conveyed(Append(q, m), table, i)
<1>1. PICK n \in Nat : n = Len(q)
  OBVIOUS
<1>2. PICK r : r = Append(q, m) /\ Len(r) = n + 1 /\ r[n + 1] = m
               /\ \A l \in 1 .. n : r[l] = q[l]
  <2>1. PICK Q : q \in Seq(Q) /\ m \in Q
    <3>1. q \in Seq(P \cup {m}) /\ m \in P \cup {m}
      OBVIOUS
    <3>2. QED  BY <3>1
  <2>2. /\ Len(Append(q, m)) = n + 1 /\ Append(q, m)[n + 1] = m
        /\ \A l \in 1 .. n : Append(q, m)[l] = q[l]
    BY <1>1, <2>1, AppendProperties
  <2>3. QED  BY <2>2
<1>3. CASE WordOf(i) \in ToSet(Heard(m.sdes))
  <2>1. n + 1 \in 0 .. n + 1 /\ n + 1 # 0 /\ n + 2 .. n + 1 = {}
    OBVIOUS
  <2>2. \A l \in (n + 1) + 1 .. n + 1 : FALSE
    OBVIOUS
  <2>3. QED  BY <1>1, <1>2, <1>3, <2>1, <2>2 DEF Conveyed
<1>4. CASE Conveyed(q, table, i) /\ i.key \notin KeysOf(Heard(m.sdes))
  <2>1. PICK k \in 0 .. n :
           /\ WordOf(i) \in IF k = 0 THEN ToSet(table) ELSE ToSet(Heard(q[k].sdes))
           /\ \A l \in k + 1 .. n : i.key \notin KeysOf(Heard(q[l].sdes))
    BY <1>1, <1>4 DEF Conveyed
  <2>2. k \in 0 .. n + 1 /\ (k # 0 => r[k] = q[k])
    BY <1>2
  <2>3. ASSUME NEW l \in k + 1 .. n + 1
        PROVE  i.key \notin KeysOf(Heard(r[l].sdes))
    <3>1. CASE l = n + 1
      BY <1>2, <1>4, <3>1
    <3>2. CASE l # n + 1
      <4>1. l \in k + 1 .. n /\ l \in 1 .. n
        BY <3>2
      <4>2. QED  BY <1>2, <2>1, <4>1
    <3>3. QED  BY <3>1, <3>2
  <2>4. WordOf(i) \in IF k = 0 THEN ToSet(table) ELSE ToSet(Heard(r[k].sdes))
    BY <2>1, <2>2
  <2>5. QED  BY <1>1, <1>2, <2>2, <2>3, <2>4 DEF Conveyed
<1>5. QED  BY <1>3, <1>4

(* The first packet is read.                                               *)
LEMMA FirstRemoved ==
    ASSUME NEW P, NEW q \in Seq(P), 1 \in DOMAIN q
    PROVE  LET r == RemoveAt(q, 1) IN
           /\ Len(r) = Len(q) - 1
           /\ \A l \in 1 .. Len(q) - 1 : r[l] = q[l + 1]
<1>1. PICK n \in Nat : n = Len(q) /\ n >= 1
  OBVIOUS
<1>2. PICK a, b : a = SubSeq(q, 1, 0) /\ b = SubSeq(q, 2, n)
  OBVIOUS
<1>3. a \in Seq(P) /\ Len(a) = 0
  BY <1>2
<1>4. b \in Seq(P) /\ Len(b) = n - 1 /\ \A l \in 1 .. n - 1 : b[l] = q[l + 1]
  BY <1>1, <1>2
<1>5. RemoveAt(q, 1) = a \o b
  BY <1>1, <1>2 DEF RemoveAt
<1>6. PICK r : r = a \o b
  OBVIOUS
<1>7. Len(r) = n - 1 /\ \A l \in 1 .. n - 1 : r[l] = b[l]
  BY <1>1, <1>3, <1>4, <1>6
<1>8. QED  BY <1>1, <1>4, <1>5, <1>6, <1>7

LEMMA ConveyedRead ==
    ASSUME NEW P, NEW q \in Seq(P), 1 \in DOMAIN q, NEW table, NEW i, NEW r,
           Conveyed(q, table, i),
           ToSet(Heard(q[1].sdes)) \subseteq ToSet(r),
           \A x \in ToSet(table) : x.key \notin KeysOf(Heard(q[1].sdes)) => x \in ToSet(r)
    PROVE  Conveyed(RemoveAt(q, 1), r, i)
<1>1. PICK n \in Nat : n = Len(q) /\ n >= 1
  OBVIOUS
<1>2. PICK p : p = RemoveAt(q, 1) /\ Len(p) = n - 1 /\ \A l \in 1 .. n - 1 : p[l] = q[l + 1]
  BY <1>1, FirstRemoved
<1>3. PICK k \in 0 .. n :
         /\ WordOf(i) \in IF k = 0 THEN ToSet(table) ELSE ToSet(Heard(q[k].sdes))
         /\ \A l \in k + 1 .. n : i.key \notin KeysOf(Heard(q[l].sdes))
  BY <1>1 DEF Conveyed
<1>4. WordOf(i).key = i.key
  BY DEF WordOf
<1>5. CASE k <= 1
  <2>1. WordOf(i) \in ToSet(r)
    <3>1. CASE k = 1
      BY <1>3, <3>1
    <3>2. CASE k = 0
      <4>1. 1 \in k + 1 .. n
        BY <1>1, <3>2
      <4>2. QED  BY <1>3, <1>4, <3>2, <4>1
    <3>3. QED  BY <1>5, <3>1, <3>2
  <2>2. ASSUME NEW l \in 0 + 1 .. n - 1
        PROVE  i.key \notin KeysOf(Heard(p[l].sdes))
    <3>1. l \in 1 .. n - 1 /\ l + 1 \in k + 1 .. n
      BY <1>1, <1>5
    <3>2. QED  BY <1>2, <1>3, <3>1
  <2>3. 0 \in 0 .. n - 1
    BY <1>1
  <2>4. QED  BY <1>1, <1>2, <2>1, <2>2, <2>3 DEF Conveyed
<1>6. CASE k > 1
  <2>1. PICK j \in 1 .. n - 1 : k = j + 1
    BY <1>6
  <2>2. p[j] = q[k] /\ j \in 0 .. n - 1 /\ j # 0 /\ k # 0
    BY <1>2, <2>1
  <2>3. WordOf(i) \in ToSet(Heard(p[j].sdes))
    BY <1>3, <2>2
  <2>4. ASSUME NEW l \in j + 1 .. n - 1
        PROVE  i.key \notin KeysOf(Heard(p[l].sdes))
    <3>1. l \in 1 .. n - 1 /\ l + 1 \in k + 1 .. n
      BY <1>1, <2>1
    <3>2. QED  BY <1>2, <1>3, <3>1
  <2>5. QED  BY <1>1, <1>2, <2>2, <2>3, <2>4 DEF Conveyed
<1>7. QED  BY <1>5, <1>6

LEMMA WordKey ==
    ASSUME NEW items, NEW i, WordOf(i) \in ToSet(items)
    PROVE  i.key \in KeysOf(items)
<1>1. PICK k \in DOMAIN items : items[k] = WordOf(i)
  BY DEF ToSet
<1>2. QED  BY <1>1 DEF KeysOf, WordOf

(* More keys in the table that is described.                               *)
LEMMA MoreKeys ==
    ASSUME NEW all, NEW more, KeysOf(all) \subseteq KeysOf(more)
    PROVE  /\ \A words : Describes(words, all) => Describes(words, more)
           /\ \A q : OnTheWay(q, all) => OnTheWay(q, more)
<1>1. ASSUME NEW words, Describes(words, all)
      PROVE  Describes(words, more)
  BY <1>1 DEF Describes
<1>2. ASSUME NEW q, OnTheWay(q, all)
      PROVE  OnTheWay(q, more)
  <2>1. PICK P : q \in Seq(P) /\ \A m \in P : Describes(m.sdes, all)
    BY <1>2 DEF OnTheWay
  <2>2. \A m \in P : Describes(m.sdes, more)
    BY <1>1, <2>1
  <2>3. QED  BY <2>1, <2>2 DEF OnTheWay
<1>3. QED  BY <1>1, <1>2

(* A table that has the items of another, in their places.                 *)
MoreItems(all, more) ==
    /\ OwnOK(more)
    /\ \A k \in DOMAIN all : k \in DOMAIN more /\ more[k].key = all[k].key

LEMMA MoreLemma ==
    ASSUME NEW all, OwnOK(all), NEW more, MoreItems(all, more)
    PROVE  /\ KeysOf(all) \subseteq KeysOf(more)
           /\ \A p : PacketOK(p, all) => PacketOK(p, more)
<1>1. /\ DOMAIN all = 1 .. Len(all) /\ Len(all) \in Nat
      /\ DOMAIN more = 1 .. Len(more) /\ Len(more) \in Nat
  BY DEF OwnOK, MoreItems
<1>2. KeysOf(all) \subseteq KeysOf(more)
  BY DEF MoreItems, KeysOf
<1>3. Len(all) <= Len(more)
  <2>1. CASE Len(all) = 0
    BY <1>1, <2>1
  <2>2. CASE Len(all) # 0
    <3>1. Len(all) \in DOMAIN all
      BY <1>1, <2>2
    <3>2. Len(all) \in 1 .. Len(more)
      BY <1>1, <3>1 DEF MoreItems
    <3>3. QED  BY <1>1, <3>2
  <2>3. QED  BY <2>1, <2>2
<1>4. ASSUME NEW p, PacketOK(p, all)
      PROVE  PacketOK(p, more)
  <2>1. ASSUME NEW k \in DOMAIN p.items
        PROVE  \E j \in 1 .. Copied(p) : p.items[k].key = more[j].key
    <3>1. PICK j \in 1 .. Copied(p) : p.items[k].key = all[j].key
      BY <1>4 DEF PacketOK
    <3>2. Copied(p) <= Len(all) /\ Copied(p) \in Int
      BY <1>1, <1>4 DEF PacketOK, Copied
    <3>3. j \in DOMAIN all
      BY <1>1, <3>2
    <3>4. QED  BY <3>1, <3>3 DEF MoreItems
  <2>2. p.count <= Len(more)
    BY <1>1, <1>3, <1>4 DEF PacketOK
  <2>3. QED  BY <1>4, <2>1, <2>2 DEF PacketOK
<1>5. QED  BY <1>2, <1>4

-----------------------------------------------------------------------------
(* The steps of the application.                                           *)

LEMMA TableStep ==
    ASSUME NEW t, TellingOK(t), NEW u,
           u.made = t.made, u.missed = t.missed, u.q = t.q, u.table = t.table,
           u.inOrder = t.inOrder,
           MoreItems(t.all, u.all), FieldsOK(u),
           \A i \in ToSet(u.all) :
              i.sent => /\ i \in ToSet(t.all)
                        /\ i.key \notin Doubtful(u) => i.key \notin Doubtful(t),
           \A p \in t.made : p.copied /\ u.all[p.next].key \notin Doubtful(u) =>
              /\ t.all[p.next].key \notin Doubtful(t)
              /\ WordOf(u.all[p.next]) = WordOf(t.all[p.next])
    PROVE  TellingOK(u)
<1>1. OwnOK(t.all) /\ OwnOK(u.all)
  BY DEF TellingOK, MoreItems
<1>2. MadeTold(u)
  <2>1. \A p \in u.made : PacketOK(p, u.all)
    BY <1>1, MoreLemma DEF TellingOK, MadeTold
  <2>2. QED  BY <2>1 DEF TellingOK, MadeTold
<1>3. OnTheWay(u.q, u.all) /\ Describes(u.table, u.all)
  <2>1. KeysOf(t.all) \subseteq KeysOf(u.all)
    BY <1>1, MoreLemma
  <2>2. QED  BY <2>1, MoreKeys DEF TellingOK
<1>4. u.inOrder => AllTold(u)
  <2>1. SUFFICES ASSUME t.inOrder, NEW i \in ToSet(u.all), i.sent, i.key \notin Doubtful(u)
                 PROVE  HasTold(u, i)
    BY DEF AllTold
  <2>2. HasTold(t, i)
    BY <2>1 DEF TellingOK, AllTold
  <2>3. QED  BY <2>2 DEF HasTold
<1>5. QED  BY <1>1, <1>2, <1>3, <1>4 DEF TellingOK

(* An item in the place of the one with its key, or at the end.            *)
LEMMA StoreMore ==
    ASSUME NEW all, OwnOK(all), NEW i \in Item, ~i.sent
    PROVE  LET r == StoreItem(all, i) IN
           /\ MoreItems(all, r)
           /\ \A x \in ToSet(r) : x.sent => x \in ToSet(all)
           /\ i.key \in KeysOf(all) =>
                 \A x \in ToSet(r) : x.sent => x.key # i.key
           /\ \A k \in DOMAIN all : all[k].key # i.key => r[k] = all[k]
<1>1. all \in Seq(Item) /\ OneEach(all) /\ Len(all) <= MaxItems
  BY DEF OwnOK
<1>2. PICK r : r = StoreItem(all, i)
  OBVIOUS
<1>3. /\ r \in Seq(Item) /\ OneEach(r) /\ Len(r) <= MaxItems
      /\ \A k \in DOMAIN all : k \in DOMAIN r /\ r[k].key = all[k].key
      /\ ToSet(r) \subseteq ToSet(all) \cup {i}
      /\ \A x \in ToSet(all) : x.key # i.key => x \in ToSet(r)
      /\ i.key \in KeysOf(all) => i \in ToSet(r)
  <2>1. PICK S : S = Item
    OBVIOUS
  <2>2. all \in Seq(S) /\ i \in S /\ OneEach(all) /\ Len(all) <= MaxItems
    BY <1>1, <2>1
  <2>3. LET o == StoreItem(all, i) IN
        /\ o \in Seq(S) /\ OneEach(o) /\ Len(o) <= MaxItems
        /\ KeysOf(all) \subseteq KeysOf(o)
        /\ \A k \in DOMAIN all : k \in DOMAIN o /\ o[k].key = all[k].key
        /\ KeysOf(o) \subseteq KeysOf(all) \cup {i.key}
        /\ ToSet(o) \subseteq ToSet(all) \cup {i}
        /\ \A x \in ToSet(all) : x.key # i.key => x \in ToSet(o)
        /\ i.key \in KeysOf(all) \/ Len(all) < MaxItems => i \in ToSet(o)
    BY <2>2, StoreLemma
  <2>4. QED  BY <1>2, <2>1, <2>3
<1>4. MoreItems(all, r)
  BY <1>3 DEF MoreItems, OwnOK
<1>5. \A x \in ToSet(r) : x.sent => x \in ToSet(all)
  BY <1>3
<1>6. ASSUME i.key \in KeysOf(all), NEW x \in ToSet(r), x.key = i.key
      PROVE  ~x.sent
  <2>1. PICK j \in DOMAIN r, k \in DOMAIN r : r[j] = x /\ r[k] = i
    BY <1>3, <1>6 DEF ToSet
  <2>2. QED  BY <1>3, <1>6, <2>1 DEF OneEach
<1>7. ASSUME NEW k \in DOMAIN all, all[k].key # i.key
      PROVE  r[k] = all[k]
  <2>1. all[k] \in ToSet(all)
    BY DEF ToSet
  <2>2. PICK j \in DOMAIN r : r[j] = all[k]
    BY <1>3, <1>7, <2>1 DEF ToSet
  <2>3. j = k
    BY <1>3, <2>2 DEF OneEach
  <2>4. QED  BY <2>2, <2>3
<1>8. QED  BY <1>2, <1>4, <1>5, <1>6, <1>7

LEMMA SameItems ==
    ASSUME NEW all, OwnOK(all)
    PROVE  MoreItems(all, all)
  BY DEF MoreItems

(* A field is done: nothing to do, or a new item, or a value written.      *)
LEMMA FieldStep ==
    ASSUME NEW t, TellingOK(t), t.fields # <<>>, NEW f, f = Head(t.fields), NEW u,
           u.made = t.made, u.missed = t.missed, u.q = t.q, u.table = t.table,
           u.inOrder = t.inOrder, u.fields = Tail(t.fields), ~u.busy,
           \/ /\ ~t.busy /\ u.late = t.late
              /\ \/ u.all = t.all
                 \/ /\ u.all = SetSdesItem(t.all, f.key, f.value)
                    /\ f.key \notin KeysOf(t.all)
           \/ /\ t.busy /\ u.all = SetSdesItem(t.all, f.key, f.value)
              /\ u.late = IF \E p \in t.made : p.copied /\ t.all[p.next].key = f.key
                          THEN t.late \cup {f.key} ELSE t.late
    PROVE  TellingOK(u)
<1>1. OwnOK(t.all) /\ t.fields \in Seq(Word)
  BY DEF TellingOK, FieldsOK
<1>2. f \in Word /\ u.fields \in Seq(Word)
  BY <1>1
<1>3. FieldsOK(u)
  BY <1>2 DEF FieldsOK
<1>4. PICK i : i = [key |-> f.key, value |-> f.value, sent |-> FALSE]
  OBVIOUS
<1>5. i \in Item /\ ~i.sent /\ i.key = f.key
  BY <1>2, <1>4 DEF Word, Item
<1>6. PICK r : r = StoreItem(t.all, i)
  OBVIOUS
<1>7. SetSdesItem(t.all, f.key, f.value) = r
  BY <1>4, <1>6 DEF SetSdesItem
<1>8. /\ MoreItems(t.all, r)
      /\ \A x \in ToSet(r) : x.sent => x \in ToSet(t.all)
      /\ f.key \in KeysOf(t.all) => \A x \in ToSet(r) : x.sent => x.key # f.key
      /\ \A k \in DOMAIN t.all : t.all[k].key # f.key => r[k] = t.all[k]
  BY <1>1, <1>5, <1>6, StoreMore
<1>9. \A p \in t.made : p.copied => p.next \in DOMAIN t.all
  <2>1. SUFFICES ASSUME NEW p \in t.made, p.copied PROVE p.next \in DOMAIN t.all
    OBVIOUS
  <2>2. PacketOK(p, t.all)
    BY DEF TellingOK, MadeTold
  <2>3. DOMAIN t.all = 1 .. Len(t.all) /\ Len(t.all) \in Nat
    BY <1>1 DEF OwnOK
  <2>4. QED  BY <2>1, <2>2, <2>3 DEF PacketOK
<1>10. CASE ~t.busy /\ u.late = t.late
  <2>1. Doubtful(u) = Doubtful(t)
    BY <1>10 DEF Doubtful
  <2>2. CASE u.all = t.all
    <3>1. MoreItems(t.all, u.all)
      BY <1>1, <2>2, SameItems
    <3>2. QED  BY <1>3, <2>1, <2>2, <3>1, TableStep
  <2>3. CASE u.all = r /\ f.key \notin KeysOf(t.all)
    <3>1. \A k \in DOMAIN t.all : u.all[k] = t.all[k]
      BY <1>8, <2>3 DEF KeysOf
    <3>2. \A p \in t.made : p.copied => u.all[p.next] = t.all[p.next]
      BY <1>9, <3>1
    <3>3. QED  BY <1>3, <1>8, <2>1, <2>3, <3>2, TableStep
  <2>4. QED  BY <1>7, <1>10, <2>2, <2>3
<1>11. CASE t.busy
  <2>1. u.all = r
    BY <1>7, <1>11
  <2>2. f.key \in KeysOf(t.all)
    BY <1>11 DEF TellingOK, FieldsOK
  <2>3. Doubtful(t) = t.late \cup {f.key} /\ Doubtful(u) = u.late /\ t.late \subseteq u.late
    BY <1>11 DEF Doubtful
  <2>4. ASSUME NEW x \in ToSet(u.all), x.sent
        PROVE  /\ x \in ToSet(t.all)
               /\ x.key \notin Doubtful(u) => x.key \notin Doubtful(t)
    BY <1>8, <2>1, <2>2, <2>3, <2>4
  <2>5. ASSUME NEW p \in t.made, p.copied, u.all[p.next].key \notin Doubtful(u)
        PROVE  /\ t.all[p.next].key \notin Doubtful(t)
               /\ WordOf(u.all[p.next]) = WordOf(t.all[p.next])
    <3>1. p.next \in DOMAIN t.all
      BY <1>9, <2>5
    <3>2. u.all[p.next].key = t.all[p.next].key
      BY <1>8, <2>1, <3>1 DEF MoreItems
    <3>3. t.all[p.next].key # f.key
      <4>1. ASSUME t.all[p.next].key = f.key PROVE FALSE
        <5>1. u.late = t.late \cup {f.key}
          BY <1>11, <2>5, <4>1
        <5>2. QED  BY <2>3, <2>5, <3>2, <4>1, <5>1
      <4>2. QED  BY <4>1
    <3>4. u.all[p.next] = t.all[p.next]
      BY <1>8, <2>1, <3>1, <3>3
    <3>5. QED  BY <2>3, <2>5, <3>2, <3>3, <3>4
  <2>6. MoreItems(t.all, u.all)
    BY <1>8, <2>1
  <2>7. QED  BY <1>3, <2>4, <2>5, <2>6, TableStep
<1>12. QED  BY <1>10, <1>11

(* The application sets metadata, or begins to change a value.             *)
LEMMA FieldsStep ==
    ASSUME NEW t, TellingOK(t), NEW u, FieldsOK(u), ~t.busy,
           u.all = t.all, u.late = t.late, u.made = t.made, u.missed = t.missed,
           u.q = t.q, u.table = t.table, u.inOrder = t.inOrder
    PROVE  TellingOK(u)
<1>1. Doubtful(t) \subseteq Doubtful(u)
  BY DEF Doubtful
<1>2. MoreItems(t.all, u.all)
  BY SameItems DEF TellingOK
<1>3. QED  BY <1>1, <1>2, TableStep

-----------------------------------------------------------------------------
(* The steps of the network thread.                                        *)

(* The items of the packet being made, and one more if it is copied now.   *)
LEMMA MadeStep ==
    ASSUME NEW t, TellingOK(t), NEW p \in t.made, NEW r, PacketOK(r, t.all),
           r.items = p.items, NEW u, u.made = {r},
           u.all = t.all, u.fields = t.fields, u.busy = t.busy, u.late = t.late,
           u.missed = t.missed, u.q = t.q, u.table = t.table, u.inOrder = t.inOrder,
           ~r.copied
    PROVE  TellingOK(u)
<1>1. t.made = {p}
  BY DEF TellingOK, MadeTold
<1>2. MadeTold(u)
  BY DEF MadeTold
<1>3. FieldsOK(u) /\ Doubtful(u) = Doubtful(t)
  BY DEF TellingOK, FieldsOK, Doubtful
<1>4. \A i : HasTold(t, i) => HasTold(u, i)
  BY <1>1 DEF HasTold
<1>5. AllTold(t) => AllTold(u)
  BY <1>3, <1>4 DEF AllTold
<1>6. QED  BY <1>2, <1>3, <1>5 DEF TellingOK

LEMMA SkipStep ==
    ASSUME NEW t, TellingOK(t), NEW p \in t.made, ~p.copied, p.next <= p.count,
           NEW r, IsPacket(r), r.next \in {p.next + 1, p.count + 1},
           r.count = p.count, r.size = p.size, r.copied = p.copied, r.items = p.items,
           NEW u, u.made = {r},
           u.all = t.all, u.fields = t.fields, u.busy = t.busy, u.late = t.late,
           u.missed = t.missed, u.q = t.q, u.table = t.table, u.inOrder = t.inOrder
    PROVE  TellingOK(u)
<1>1. PacketOK(p, t.all)
  BY DEF TellingOK, MadeTold
<1>2. r.next \in Nat /\ p.next \in Nat /\ p.count \in Nat
      /\ r.next <= r.count + 1 /\ p.next - 1 <= r.next - 1 /\ 1 <= r.next
  BY <1>1 DEF PacketOK
<1>3. Copied(p) = p.next - 1 /\ Copied(r) = r.next - 1
  BY DEF Copied
<1>4. ASSUME NEW k \in DOMAIN r.items
      PROVE  \E j \in 1 .. Copied(r) : r.items[k].key = t.all[j].key
  <2>1. PICK j \in 1 .. p.next - 1 : p.items[k].key = t.all[j].key
    BY <1>1, <1>3 DEF PacketOK
  <2>2. j \in 1 .. r.next - 1
    BY <1>2
  <2>3. QED  BY <1>3, <2>1, <2>2
<1>5. PacketOK(r, t.all)
  BY <1>1, <1>2, <1>4 DEF PacketOK
<1>6. QED  BY <1>5, MadeStep

(* The item is copied: its value is the table's, unless that is changing.  *)
CopiesItem(t, u, p, r, item, value) ==
    /\ p \in t.made /\ ~p.copied /\ p.next <= p.count
    /\ item = t.all[p.next] /\ value \in DOMAIN SizeOf
    /\ value = item.value \/ (t.busy /\ item.key = Head(t.fields).key)
    /\ IsPacket(r) /\ r.next = p.next /\ r.count = p.count /\ r.copied = TRUE
    /\ r.size = p.size + SizeOf[value]
    /\ r.items = Append(p.items, [key |-> item.key, value |-> value])
    /\ u.made = {r} /\ u.late = t.late \ {item.key}
    /\ u.all = t.all /\ u.fields = t.fields /\ u.busy = t.busy
    /\ u.missed = t.missed /\ u.q = t.q /\ u.table = t.table
    /\ u.inOrder = t.inOrder

LEMMA CopyStep ==
    ASSUME NEW t, TellingOK(t), NEW u, NEW p, NEW r, NEW item, NEW value,
           CopiesItem(t, u, p, r, item, value)
    PROVE  TellingOK(u)
<1>0. /\ p \in t.made /\ ~p.copied /\ p.next <= p.count
      /\ item = t.all[p.next] /\ value \in DOMAIN SizeOf
      /\ value = item.value \/ (t.busy /\ item.key = Head(t.fields).key)
      /\ IsPacket(r) /\ r.next = p.next /\ r.count = p.count /\ r.copied = TRUE
      /\ r.size = p.size + SizeOf[value]
      /\ r.items = Append(p.items, [key |-> item.key, value |-> value])
      /\ u.made = {r} /\ u.late = t.late \ {item.key}
      /\ u.all = t.all /\ u.fields = t.fields /\ u.busy = t.busy
      /\ u.missed = t.missed /\ u.q = t.q /\ u.table = t.table
      /\ u.inOrder = t.inOrder
  BY DEF CopiesItem
<1> USE <1>0
<1>1. PacketOK(p, t.all) /\ t.made = {p} /\ OwnOK(t.all)
  BY DEF TellingOK, MadeTold
<1>2. /\ p.next \in Nat /\ p.count \in Nat /\ 1 <= p.next /\ p.count <= Len(t.all)
      /\ p.size \in Nat /\ p.size >= SdesHeader /\ p.items \in Seq(Word)
      /\ OneEach(p.items) /\ Copied(p) = p.next - 1 /\ Copied(r) = p.next
  BY <1>1 DEF PacketOK, Copied
<1>3. /\ DOMAIN t.all = 1 .. Len(t.all) /\ Len(t.all) \in Nat /\ p.next \in DOMAIN t.all
      /\ t.all \in Seq(Item) /\ OneEach(t.all)
  BY <1>1, <1>2 DEF OwnOK
<1>4. item \in Item /\ SizeOf[value] \in Nat
  BY <1>3, RtcpAssumption
<1>5. PICK w : w = [key |-> item.key, value |-> value]
  OBVIOUS
<1>6. w \in Word /\ w.key = item.key
  BY <1>4, <1>5 DEF Item, Word
<1>7. PICK n \in Nat : n = Len(p.items)
  BY <1>2
<1>8. /\ r.items \in Seq(Word) /\ DOMAIN r.items = 1 .. n + 1 /\ DOMAIN p.items = 1 .. n
      /\ r.items[n + 1] = w /\ \A k \in 1 .. n : r.items[k] = p.items[k]
  BY <1>2, <1>5, <1>6, <1>7, AppendProperties
<1>9. ASSUME NEW k \in 1 .. n
      PROVE  /\ \E j \in 1 .. p.next : p.items[k].key = t.all[j].key
             /\ p.items[k].key # item.key
  <2>1. PICK j \in 1 .. p.next - 1 : p.items[k].key = t.all[j].key
    BY <1>1, <1>2, <1>8 DEF PacketOK
  <2>2. j \in 1 .. p.next /\ j \in DOMAIN t.all /\ j # p.next
    BY <1>2, <1>3
  <2>3. QED  BY <1>3, <2>1, <2>2 DEF OneEach
<1>10. OneEach(r.items)
  <2>1. ASSUME NEW j \in 1 .. n + 1, NEW k \in 1 .. n + 1, r.items[j].key = r.items[k].key
        PROVE  j = k
    <3>1. CASE j \in 1 .. n /\ k \in 1 .. n
      <4>1. p.items[j].key = p.items[k].key /\ j \in DOMAIN p.items /\ k \in DOMAIN p.items
        BY <1>8, <2>1, <3>1
      <4>2. QED  BY <1>2, <4>1 DEF OneEach
    <3>2. CASE j = n + 1 /\ k \in 1 .. n
      BY <1>6, <1>8, <1>9, <2>1, <3>2
    <3>3. CASE j \in 1 .. n /\ k = n + 1
      BY <1>6, <1>8, <1>9, <2>1, <3>3
    <3>4. QED  BY <3>1, <3>2, <3>3
  <2>2. QED  BY <1>8, <2>1 DEF OneEach
<1>11. ASSUME NEW k \in DOMAIN r.items
       PROVE  \E j \in 1 .. Copied(r) : r.items[k].key = t.all[j].key
  <2>1. CASE k \in 1 .. n
    <3>1. r.items[k] = p.items[k]
      BY <1>8, <2>1
    <3>2. PICK j \in 1 .. p.next : p.items[k].key = t.all[j].key
      BY <1>9, <2>1
    <3>3. j \in 1 .. Copied(r)
      BY <1>2
    <3>4. QED  BY <3>1, <3>2, <3>3
  <2>2. CASE k = n + 1
    <3>1. p.next \in 1 .. Copied(r)
      BY <1>2
    <3>2. QED  BY <1>6, <1>8, <2>2, <3>1
  <2>3. QED  BY <1>8, <2>1, <2>2
<1>12. PacketOK(r, t.all)
  <2>1. r.size \in Nat /\ r.size >= SdesHeader /\ p.next <= p.count + 1
    BY <1>2, <1>4 DEF SdesHeader
  <2>2. QED  BY <1>2, <1>8, <1>10, <1>11, <2>1 DEF PacketOK
<1>13. /\ w \in ToSet(r.items) /\ ToSet(p.items) \subseteq ToSet(r.items)
       /\ KeysOf(r.items) = KeysOf(p.items) \cup {item.key}
  <2>1. /\ n + 1 \in DOMAIN r.items /\ \A k \in DOMAIN p.items : k \in DOMAIN r.items
        /\ \A k \in DOMAIN r.items : k = n + 1 \/ k \in DOMAIN p.items
    BY <1>8
  <2>2. w \in ToSet(r.items) /\ ToSet(p.items) \subseteq ToSet(r.items)
    BY <1>8, <2>1 DEF ToSet
  <2>3. KeysOf(r.items) = KeysOf(p.items) \cup {item.key}
    BY <1>6, <1>8, <2>1 DEF KeysOf
  <2>4. QED  BY <2>2, <2>3
<1>14. item.key \notin Doubtful(u) => WordOf(item) \in ToSet(r.items)
  <2>1. item.key \notin Doubtful(u) => value = item.value
    BY DEF Doubtful
  <2>2. QED  BY <1>5, <1>13, <2>1 DEF WordOf
<1>15. MadeTold(u)
  BY <1>12, <1>14 DEF MadeTold
<1>16. FieldsOK(u) /\ Doubtful(t) \subseteq Doubtful(u) \cup {item.key}
  BY DEF TellingOK, FieldsOK, Doubtful
<1>17. AllTold(t) => AllTold(u)
  <2>1. SUFFICES ASSUME AllTold(t), NEW i \in ToSet(t.all), i.sent, i.key \notin Doubtful(u)
                 PROVE  HasTold(u, i)
    BY DEF AllTold
  <2>2. CASE i.key = item.key
    <3>1. i = item
      <4>1. PICK j \in DOMAIN t.all : t.all[j] = i
        BY <2>1 DEF ToSet
      <4>2. QED  BY <1>3, <2>2, <4>1 DEF OneEach
    <3>2. QED  BY <1>13, <1>14, <2>1, <3>1 DEF HasTold
  <2>3. CASE i.key # item.key
    <3>1. HasTold(t, i)
      BY <1>16, <2>1, <2>3 DEF AllTold
    <3>2. (\E x \in t.made : i.key \in KeysOf(x.items)) <=> i.key \in KeysOf(p.items)
      BY <1>1
    <3>3. (\E x \in u.made : i.key \in KeysOf(x.items)) <=> i.key \in KeysOf(p.items)
      BY <1>13, <2>3
    <3>4. (\E x \in t.made : WordOf(i) \in ToSet(x.items)) =>
             \E x \in u.made : WordOf(i) \in ToSet(x.items)
      BY <1>1, <1>13
    <3>5. QED  BY <3>1, <3>2, <3>3, <3>4 DEF HasTold
  <2>4. QED  BY <2>2, <2>3
<1>18. QED  BY <1>15, <1>16, <1>17 DEF TellingOK

(* Its lastSendTime is written.                                            *)
LEMMA MarkStep ==
    ASSUME NEW t, TellingOK(t), NEW p \in t.made, p.copied,
           NEW r, IsPacket(r), r.next = p.next + 1, r.count = p.count,
           r.size = p.size, r.copied = FALSE, r.items = p.items,
           NEW u, u.made = {r}, u.late = t.late,
           u.all = [t.all EXCEPT ![p.next].sent = TRUE],
           u.fields = t.fields, u.busy = t.busy,
           u.missed = t.missed, u.q = t.q, u.table = t.table, u.inOrder = t.inOrder
    PROVE  TellingOK(u)
<1>1. PacketOK(p, t.all) /\ t.made = {p} /\ OwnOK(t.all)
  BY DEF TellingOK, MadeTold
<1>2. /\ p.next \in Nat /\ p.count \in Nat /\ 1 <= p.next /\ p.count <= Len(t.all)
      /\ p.next <= p.count /\ Copied(p) = p.next /\ Copied(r) = p.next
  BY <1>1 DEF PacketOK, Copied
<1>3. /\ DOMAIN t.all = 1 .. Len(t.all) /\ Len(t.all) \in Nat /\ p.next \in DOMAIN t.all
      /\ t.all \in Seq(Item) /\ OneEach(t.all) /\ Len(t.all) <= MaxItems
  BY <1>1, <1>2 DEF OwnOK
<1>4. PICK item : item = t.all[p.next]
  OBVIOUS
<1>5. item \in Item
  BY <1>3, <1>4
<1>6. PICK new \in Item : /\ new = [item EXCEPT !.sent = TRUE]
                          /\ new.key = item.key /\ new.value = item.value
  <2>1. /\ [item EXCEPT !.sent = TRUE] \in Item
        /\ [item EXCEPT !.sent = TRUE].key = item.key
        /\ [item EXCEPT !.sent = TRUE].value = item.value
    BY <1>5 DEF Item
  <2>2. QED  BY <2>1
<1>7. /\ u.all \in Seq(Item) /\ Len(u.all) = Len(t.all) /\ DOMAIN u.all = DOMAIN t.all
      /\ u.all[p.next] = new /\ \A k \in DOMAIN t.all : k # p.next => u.all[k] = t.all[k]
  <2>1. PICK all, n : all = t.all /\ n = p.next
    OBVIOUS
  <2>2. all \in Seq(Item) /\ n \in DOMAIN all /\ u.all = [all EXCEPT ![n] = new]
    BY <1>3, <1>4, <1>6, <2>1
  <2>3. /\ u.all \in Seq(Item) /\ Len(u.all) = Len(all) /\ DOMAIN u.all = DOMAIN all
        /\ u.all[n] = new /\ \A k \in DOMAIN all : k # n => u.all[k] = all[k]
    <3>1. /\ Len(all) \in Nat /\ DOMAIN all = 1 .. Len(all)
          /\ \A k \in DOMAIN all : all[k] \in Item
      BY <2>2
    <3>2. /\ DOMAIN u.all = DOMAIN all /\ u.all[n] = new
          /\ \A k \in DOMAIN all : k # n => u.all[k] = all[k]
      BY <2>2
    <3>3. u.all \in [1 .. Len(all) -> Item]
      <4>1. \A k \in 1 .. Len(all) : u.all[k] \in Item
        BY <3>1, <3>2
      <4>2. u.all = [k \in DOMAIN all |-> u.all[k]]
        BY <2>2
      <4>3. QED  BY <3>1, <4>1, <4>2
    <3>4. u.all \in Seq(Item) /\ Len(u.all) = Len(all)
      <4>1. PICK m \in Nat : m = Len(all)
        BY <3>1
      <4>2. PICK S, w : S = Item /\ w = u.all
        OBVIOUS
      <4>3. w \in [1 .. m -> S]
        BY <3>3, <4>1, <4>2
      <4>4. w \in Seq(S) /\ Len(w) = m
        BY <4>3
      <4>5. QED  BY <4>1, <4>2, <4>4
    <3>5. QED  BY <3>2, <3>4
  <2>4. QED  BY <2>1, <2>3
<1>8. \A k \in DOMAIN t.all : u.all[k].key = t.all[k].key
  BY <1>4, <1>6, <1>7
<1>9. OwnOK(u.all) /\ MoreItems(t.all, u.all)
  <2>1. OneEach(u.all)
    <3>1. ASSUME NEW j \in DOMAIN t.all, NEW k \in DOMAIN t.all, u.all[j].key = u.all[k].key
          PROVE  j = k
      <4>1. t.all[j].key = t.all[k].key
        BY <1>8, <3>1
      <4>2. QED  BY <1>3, <4>1 DEF OneEach
    <3>2. QED  BY <1>7, <3>1 DEF OneEach
  <2>2. OwnOK(u.all)
    BY <1>3, <1>7, <2>1 DEF OwnOK
  <2>3. QED  BY <1>7, <1>8, <2>2 DEF MoreItems
<1>10. PacketOK(r, t.all)
  <2>1. r.next \in Nat /\ 1 <= r.next /\ r.next <= r.count + 1
    BY <1>2
  <2>2. \A k \in DOMAIN r.items : \E j \in 1 .. Copied(r) : r.items[k].key = t.all[j].key
    BY <1>1, <1>2 DEF PacketOK
  <2>3. /\ r.count \in Nat /\ r.count <= Len(t.all) /\ ~r.copied /\ r.copied \in BOOLEAN
        /\ r.size \in Nat /\ r.size >= SdesHeader
        /\ r.items \in Seq(Word) /\ OneEach(r.items)
    BY <1>1 DEF PacketOK
  <2>4. QED  BY <2>1, <2>2, <2>3 DEF PacketOK
<1>11. PacketOK(r, u.all) /\ KeysOf(t.all) \subseteq KeysOf(u.all)
  BY <1>1, <1>9, <1>10, MoreLemma
<1>12. MadeTold(u)
  BY <1>11 DEF MadeTold
<1>13. FieldsOK(u) /\ Doubtful(u) = Doubtful(t)
  BY <1>11 DEF TellingOK, FieldsOK, Doubtful
<1>14. AllTold(t) => AllTold(u)
  <2>1. SUFFICES ASSUME AllTold(t), NEW i \in ToSet(u.all), i.sent, i.key \notin Doubtful(t)
                 PROVE  HasTold(u, i)
    BY <1>13 DEF AllTold
  <2>2. PICK j \in DOMAIN t.all : u.all[j] = i
    BY <1>7 DEF ToSet
  <2>3. CASE j = p.next
    <3>1. WordOf(i) = WordOf(item) /\ i.key = item.key
      BY <1>6, <1>7, <2>2, <2>3 DEF WordOf
    <3>2. WordOf(item) \in ToSet(p.items)
      BY <1>4, <2>1, <3>1 DEF TellingOK, MadeTold
    <3>3. WordOf(i) \in ToSet(r.items) /\ i.key \in KeysOf(r.items)
      BY <3>1, <3>2, WordKey
    <3>4. QED  BY <3>3 DEF HasTold
  <2>4. CASE j # p.next
    <3>1. i \in ToSet(t.all)
      BY <1>7, <2>2, <2>4 DEF ToSet
    <3>2. HasTold(t, i)
      BY <2>1, <3>1 DEF AllTold
    <3>3. QED  BY <1>1, <3>2 DEF HasTold
  <2>5. QED  BY <2>3, <2>4
<1>15. OnTheWay(u.q, u.all) /\ Describes(u.table, u.all)
  BY <1>11, MoreKeys DEF TellingOK
<1>16. QED  BY <1>9, <1>12, <1>13, <1>14, <1>15 DEF TellingOK

(* A packet is begun: it has no item yet.                                  *)
LEMMA StartStep ==
    ASSUME NEW t, TellingOK(t), t.made = {}, NEW u,
           \/ u.made = {}
           \/ \E r : /\ u.made = {r} /\ IsPacket(r) /\ r.next = 1
                     /\ r.count = Len(t.all) /\ r.size = SdesHeader
                     /\ r.copied = FALSE /\ r.items = <<>>,
           u.all = t.all, u.fields = t.fields, u.busy = t.busy, u.late = t.late,
           u.missed = t.missed, u.q = t.q, u.table = t.table, u.inOrder = t.inOrder
    PROVE  TellingOK(u)
<1>1. Len(t.all) \in Nat
  BY DEF TellingOK, OwnOK
<1>2. \A r \in u.made : PacketOK(r, t.all) /\ ~r.copied /\ r.items = <<>>
  <2>1. SUFFICES ASSUME NEW r \in u.made PROVE PacketOK(r, t.all) /\ ~r.copied /\ r.items = <<>>
    OBVIOUS
  <2>2. /\ IsPacket(r) /\ r.next = 1 /\ r.count = Len(t.all) /\ r.size = 8
        /\ r.copied = FALSE /\ r.items = <<>>
    BY DEF SdesHeader
  <2>3. <<>> \in Seq(Word) /\ OneEach(<<>>) /\ \A k \in DOMAIN <<>> : FALSE
    BY DEF OneEach
  <2>4. /\ r.next \in Nat /\ r.count \in Nat /\ r.copied \in BOOLEAN
        /\ 1 <= r.next /\ r.next <= r.count + 1 /\ r.count <= Len(t.all)
        /\ r.size \in Nat /\ r.size >= SdesHeader
    <3>1. PICK n \in Nat : n = Len(t.all)
      BY <1>1
    <3>2. r.count = n /\ r.next = 1 /\ 8 \in Nat /\ FALSE \in BOOLEAN
      BY <2>2, <3>1
    <3>3. 1 <= n + 1
      OBVIOUS
    <3>4. r.copied \in BOOLEAN
      BY <2>2
    <3>5. QED  BY <2>2, <3>1, <3>2, <3>3, <3>4 DEF SdesHeader
  <2>5. /\ r.items \in Seq(Word) /\ OneEach(r.items)
        /\ \A k \in DOMAIN r.items : FALSE
    BY <2>2, <2>3
  <2>6. QED  BY <2>2, <2>4, <2>5 DEF PacketOK
<1>3. MadeTold(u)
  BY <1>2 DEF MadeTold
<1>4. FieldsOK(u) /\ Doubtful(u) = Doubtful(t)
  BY DEF TellingOK, FieldsOK, Doubtful
<1>5. \A i : HasTold(t, i) => HasTold(u, i)
  BY <1>2 DEF HasTold, KeysOf
<1>6. AllTold(t) => AllTold(u)
  BY <1>4, <1>5 DEF AllTold
<1>7. QED  BY <1>3, <1>4, <1>6 DEF TellingOK

(* The packet is sent, or is not.                                          *)
LEMMA SendStep ==
    ASSUME NEW t, TellingOK(t), NEW p \in t.made, NEW lastSeen,
           lastSeen = Len(p.items) - Cardinality(Unseen(p.items)),
           NEW u, u.made = {},
           u.missed = (t.missed \ {p.items[k].key : k \in 1 .. Len(p.items)})
                      \cup {p.items[k].key : k \in lastSeen + 1 .. Len(p.items)},
           \/ \E m : m.sdes = p.items /\ u.q = Append(t.q, m) /\ (u.inOrder => t.inOrder)
           \/ u.q = t.q /\ ~u.inOrder,
           u.all = t.all, u.fields = t.fields, u.busy = t.busy, u.late = t.late,
           u.table = t.table
    PROVE  TellingOK(u)
<1>1. /\ PacketOK(p, t.all) /\ t.made = {p} /\ OwnOK(t.all)
      /\ OnTheWay(t.q, t.all) /\ Describes(t.table, t.all)
  BY DEF TellingOK, MadeTold
<1>2. MadeTold(u) /\ FieldsOK(u) /\ Doubtful(u) = Doubtful(t)
  BY DEF TellingOK, MadeTold, FieldsOK, Doubtful
<1>3. p.items \in Seq(Word) /\ OneEach(p.items)
  BY <1>1 DEF PacketOK
<1>4. PICK n \in Nat : n = Len(p.items) /\ DOMAIN p.items = 1 .. n
  BY <1>3
<1>5. /\ KeysOf(Heard(p.items)) \subseteq KeysOf(p.items)
      /\ lastSeen \in 0 .. n
      /\ \A k \in 1 .. n : k > lastSeen \/ p.items[k] \in ToSet(Heard(p.items))
  <2>1. PICK S : S = Word
    OBVIOUS
  <2>2. p.items \in Seq(S)
    BY <1>3, <2>1
  <2>3. /\ KeysOf(Heard(p.items)) \subseteq KeysOf(p.items)
        /\ Cardinality(Unseen(p.items)) \in 0 .. Len(p.items)
        /\ \A k \in DOMAIN p.items :
              \/ k > Len(p.items) - Cardinality(Unseen(p.items))
              \/ p.items[k] \in ToSet(Heard(p.items))
    BY <1>3, <2>2, HeardLemma
  <2>4. QED  BY <1>4, <2>3
<1>6. KeysOf(p.items) \subseteq KeysOf(t.all)
  <2>1. ASSUME NEW k \in DOMAIN p.items
        PROVE  p.items[k].key \in KeysOf(t.all)
    <3>1. PICK j \in 1 .. Copied(p) : p.items[k].key = t.all[j].key
      BY <1>1 DEF PacketOK
    <3>2. Copied(p) \in Int /\ Copied(p) <= Len(t.all) /\ Len(t.all) \in Nat
      BY <1>1 DEF PacketOK, Copied, OwnOK
    <3>3. DOMAIN t.all = 1 .. Len(t.all)
      BY <1>1 DEF OwnOK
    <3>4. j \in DOMAIN t.all
      BY <3>2, <3>3
    <3>5. QED  BY <3>1, <3>4 DEF KeysOf
  <2>2. QED  BY <2>1 DEF KeysOf
<1>7. CASE u.q = t.q /\ ~u.inOrder
  BY <1>1, <1>2, <1>7 DEF TellingOK
<1>8. CASE \E m : m.sdes = p.items /\ u.q = Append(t.q, m) /\ (u.inOrder => t.inOrder)
  <2>1. PICK m : m.sdes = p.items /\ u.q = Append(t.q, m) /\ (u.inOrder => t.inOrder)
    BY <1>8
  <2>2. PICK P : t.q \in Seq(P) /\ \A x \in P : Describes(x.sdes, t.all)
    BY <1>1 DEF OnTheWay
  <2>3. Describes(m.sdes, t.all)
    BY <1>3, <1>6, <2>1 DEF Describes
  <2>4. OnTheWay(u.q, u.all)
    <3>1. PICK Q : Q = P \cup {m}
      OBVIOUS
    <3>2. t.q \in Seq(Q) /\ m \in Q /\ \A x \in Q : Describes(x.sdes, t.all)
      BY <2>2, <2>3, <3>1
    <3>3. Append(t.q, m) \in Seq(Q)
      BY <3>2
    <3>4. QED  BY <2>1, <3>2, <3>3 DEF OnTheWay
  <2>5. ASSUME AllTold(t), NEW i \in ToSet(t.all), i.sent, i.key \notin Doubtful(t)
        PROVE  HasTold(u, i)
    <3>1. HasTold(t, i)
      BY <2>5 DEF AllTold
    <3>2. SUFFICES ASSUME i.key \notin u.missed PROVE Conveyed(u.q, t.table, i)
      BY DEF HasTold
    <3>3. CASE i.key \in KeysOf(p.items)
      <4>1. WordOf(i) \in ToSet(p.items)
        BY <1>1, <3>1, <3>3 DEF HasTold
      <4>2. PICK k \in 1 .. n : p.items[k] = WordOf(i)
        BY <1>4, <4>1 DEF ToSet
      <4>3. p.items[k].key = i.key
        BY <4>2 DEF WordOf
      <4>4. ~(k > lastSeen)
        <5>1. ASSUME k > lastSeen PROVE FALSE
          <6>1. k \in lastSeen + 1 .. Len(p.items)
            BY <1>4, <1>5, <5>1
          <6>2. QED  BY <3>2, <4>3, <6>1
        <5>2. QED  BY <5>1
      <4>5. WordOf(i) \in ToSet(Heard(m.sdes))
        BY <1>5, <2>1, <4>2, <4>4
      <4>6. QED  BY <2>1, <2>2, <4>5, ConveyedSent
    <3>4. CASE i.key \notin KeysOf(p.items)
      <4>1. i.key \notin {p.items[k].key : k \in 1 .. Len(p.items)}
        BY <1>4, <3>4 DEF KeysOf
      <4>2. i.key \notin t.missed
        BY <3>2, <4>1
      <4>3. Conveyed(t.q, t.table, i)
        BY <1>1, <3>1, <3>4, <4>2 DEF HasTold
      <4>4. i.key \notin KeysOf(Heard(m.sdes))
        BY <1>5, <2>1, <3>4
      <4>5. QED  BY <2>1, <2>2, <4>3, <4>4, ConveyedSent
    <3>5. QED  BY <3>3, <3>4
  <2>6. u.inOrder => AllTold(u)
    <3>1. t.inOrder => AllTold(t)
      BY DEF TellingOK
    <3>2. QED  BY <1>2, <2>1, <2>5, <3>1 DEF AllTold
  <2>7. QED  BY <1>1, <1>2, <2>4, <2>6 DEF TellingOK
<1>9. QED  BY <1>7, <1>8

-----------------------------------------------------------------------------
(* The steps of the network and of the peer.                               *)

(* Packet k is read; again: it stays on its way.                           *)
LEMMA ReadStep ==
    ASSUME NEW t, TellingOK(t), NEW k \in DOMAIN t.q, NEW again \in BOOLEAN, NEW u,
           u.q = (IF again THEN t.q ELSE RemoveAt(t.q, k)),
           u.table = ReadSdes(t.table, t.q[k].sdes),
           u.inOrder => t.inOrder /\ k = 1 /\ ~again,
           u.made = t.made, u.all = t.all, u.fields = t.fields, u.busy = t.busy,
           u.late = t.late, u.missed = t.missed
    PROVE  TellingOK(u)
<1>1. OwnOK(t.all) /\ OnTheWay(t.q, t.all) /\ Describes(t.table, t.all)
  BY DEF TellingOK
<1>2. MadeTold(u) /\ FieldsOK(u) /\ Doubtful(u) = Doubtful(t)
  BY DEF TellingOK, MadeTold, FieldsOK, Doubtful
<1>3. PICK m, r : m = t.q[k] /\ r = u.table
  OBVIOUS
<1>4. PICK P : t.q \in Seq(P) /\ \A x \in P : Describes(x.sdes, t.all)
  BY <1>1 DEF OnTheWay
<1>5. Describes(m.sdes, t.all)
  <2>1. m \in P
    BY <1>3, <1>4
  <2>2. QED  BY <1>4, <2>1
<1>6. /\ Describes(r, t.all) /\ ToSet(Heard(m.sdes)) \subseteq ToSet(r)
      /\ \A x \in ToSet(t.table) : x.key \notin KeysOf(Heard(m.sdes)) => x \in ToSet(r)
  BY <1>1, <1>3, <1>5, ReadLemma DEF OwnOK, Describes
<1>7. OnTheWay(u.q, u.all)
  <2>1. RemoveAt(t.q, k) \in Seq(P)
    BY <1>4, RemoveAtType
  <2>2. u.q \in Seq(P)
    BY <1>4, <2>1
  <2>3. QED  BY <1>4, <2>2 DEF OnTheWay
<1>8. u.inOrder => AllTold(u)
  <2>1. SUFFICES ASSUME t.inOrder, k = 1, ~again, NEW i \in ToSet(t.all), i.sent,
                        i.key \notin Doubtful(t)
                 PROVE  HasTold(u, i)
    BY <1>2 DEF AllTold
  <2>2. HasTold(t, i)
    BY <2>1 DEF TellingOK, AllTold
  <2>3. Conveyed(t.q, t.table, i) => Conveyed(u.q, u.table, i)
    <3>1. u.q = RemoveAt(t.q, 1) /\ m = t.q[1] /\ 1 \in DOMAIN t.q
      BY <1>3, <2>1
    <3>2. QED  BY <1>3, <1>4, <1>6, <3>1, ConveyedRead
  <2>4. QED  BY <2>2, <2>3 DEF HasTold
<1>9. QED  BY <1>1, <1>2, <1>3, <1>6, <1>7, <1>8 DEF TellingOK

LEMMA LoseStep ==
    ASSUME NEW t, TellingOK(t), NEW k \in DOMAIN t.q, NEW u,
           u.q = RemoveAt(t.q, k), ~u.inOrder,
           u.made = t.made, u.all = t.all, u.fields = t.fields, u.busy = t.busy,
           u.late = t.late, u.missed = t.missed, u.table = t.table
    PROVE  TellingOK(u)
<1>1. MadeTold(u) /\ FieldsOK(u)
  BY DEF TellingOK, MadeTold, FieldsOK, Doubtful
<1>2. PICK P : t.q \in Seq(P) /\ \A x \in P : Describes(x.sdes, t.all)
  BY DEF TellingOK, OnTheWay
<1>3. RemoveAt(t.q, k) \in Seq(P)
  BY <1>2, RemoveAtType
<1>4. OnTheWay(u.q, u.all)
  BY <1>2, <1>3 DEF OnTheWay
<1>5. QED  BY <1>1, <1>4 DEF TellingOK

-----------------------------------------------------------------------------
(* Source descriptions in the composition.                                 *)

TablesOK ==
    /\ DOMAIN own = Sides /\ DOMAIN setting = Sides /\ DOMAIN making = Sides
    /\ DOMAIN overtaken = Sides /\ DOMAIN unread = Sides /\ DOMAIN net = Sides
    /\ DOMAIN peer = Sides /\ DOMAIN ordered = Sides

TellingsOK == TablesOK /\ \A s \in Sides : TellingOK(Telling(s))

LEMMA TellingsSame ==
    ASSUME TellingsOK,
           UNCHANGED <<own, setting, writing, making, overtaken, unread, net, peer, ordered>>
    PROVE  TellingsOK'
  BY DEF TellingsOK, TablesOK, Telling

LEMMA TellingFields ==
    ASSUME NEW s, NEW t, t = Telling(s)
    PROVE  /\ t.all = own[s] /\ t.fields = setting[s] /\ t.busy = (s \in writing)
           /\ t.made = making[s] /\ t.late = overtaken[s] /\ t.missed = unread[s]
           /\ t.q = net[Peer(s)] /\ t.table = peer[Peer(s)]
           /\ t.inOrder = ordered[Peer(s)]
  BY DEF Telling

(* A step that changes what one side tells.                                *)
LEMMA OneTeller ==
    ASSUME TellingsOK, TablesOK', NEW s \in Sides, TellingOK(Telling(s))',
           \A r \in Sides : r # s =>
              /\ own'[r] = own[r] /\ setting'[r] = setting[r] /\ making'[r] = making[r]
              /\ overtaken'[r] = overtaken[r] /\ unread'[r] = unread[r]
              /\ net'[Peer(r)] = net[Peer(r)] /\ peer'[Peer(r)] = peer[Peer(r)]
              /\ ordered'[Peer(r)] = ordered[Peer(r)]
              /\ r \in writing' <=> r \in writing
    PROVE  TellingsOK'
<1>1. ASSUME NEW r \in Sides
      PROVE  TellingOK(Telling(r))'
  <2>1. CASE r = s
    BY <2>1
  <2>2. CASE r # s
    <3>1. Telling(r)' = Telling(r)
      <4>1. CASE r \in writing
        BY <2>2, <4>1 DEF Telling
      <4>2. CASE r \notin writing
        BY <2>2, <4>2 DEF Telling
      <4>3. QED  BY <4>1, <4>2
    <3>2. TellingOK(Telling(r))
      BY DEF TellingsOK
    <3>3. QED  BY <3>1, <3>2
  <2>3. QED  BY <2>1, <2>2
<1>2. QED  BY <1>1 DEF TellingsOK

LEMMA TellingsInit ==
    ASSUME RtcpInit
    PROVE  TellingsOK
<1>1. [key |-> Cname, value |-> FirstValue, sent |-> FALSE] \in Item
  BY RtcpAssumption DEF Item
<1>2. PICK i \in Item : /\ i = [key |-> Cname, value |-> FirstValue, sent |-> FALSE]
                        /\ ~i.sent
  BY <1>1
<1>3. /\ own = [s \in Sides |-> <<i>>] /\ peer = [s \in Sides |-> <<>>]
      /\ setting = [s \in Sides |-> <<>>] /\ writing = {}
      /\ making = [s \in Sides |-> {}] /\ overtaken = [s \in Sides |-> {}]
      /\ net = [s \in Sides |-> <<>>] /\ ordered = [s \in Sides |-> TRUE]
      /\ unread = [s \in Sides |-> {}]
  BY <1>2 DEF RtcpInit
<1>4. OwnOK(<<i>>)
  <2>1. 1 <= MaxItems
    BY RtcpAssumption
  <2>2. QED  BY <2>1 DEF OwnOK, OneEach
<1>5. Describes(<<>>, <<i>>)
  BY DEF Describes, OneEach, KeysOf
<1>6. OnTheWay(<<>>, <<i>>)
  <2>1. PICK P : P = {}
    OBVIOUS
  <2>2. <<>> \in Seq(P) /\ \A m \in P : Describes(m.sdes, <<i>>)
    BY <2>1
  <2>3. QED  BY <2>2 DEF OnTheWay
<1>7. ASSUME NEW s \in Sides
      PROVE  TellingOK(Telling(s))
  <2>1. PICK t : t = Telling(s)
    OBVIOUS
  <2>2. /\ t.all = <<i>> /\ t.fields = <<>> /\ ~t.busy /\ t.made = {}
        /\ t.q = <<>> /\ t.table = <<>>
    <3>1. /\ t.all = own[s] /\ t.fields = setting[s] /\ t.busy = (s \in writing)
          /\ t.made = making[s] /\ t.q = net[Peer(s)] /\ t.table = peer[Peer(s)]
      BY <2>1, TellingFields
    <3>2. Peer(s) \in Sides
      BY Peers
    <3>3. QED  BY <1>3, <3>1, <3>2
  <2>3. ToSet(t.all) = {i}
    BY <2>2 DEF ToSet
  <2>4. TellingOK(t)
    <3>1. FieldsOK(t)
      BY <2>2 DEF FieldsOK
    <3>2. MadeTold(t)
      BY <2>2 DEF MadeTold
    <3>3. AllTold(t)
      BY <1>2, <2>3 DEF AllTold
    <3>4. QED  BY <1>4, <1>5, <1>6, <2>2, <3>1, <3>2, <3>3 DEF TellingOK
  <2>5. QED  BY <2>1, <2>4
<1>8. QED  BY <1>3, <1>7 DEF TellingsOK, TablesOK

LEMMA SetTellings ==
    ASSUME TellingsOK, NEW s \in Sides, SetStep(s)
    PROVE  TellingsOK'
<1>1. PICK t, u : t = Telling(s) /\ u = Telling(s)'
  OBVIOUS
<1>2. TellingOK(t) /\ TablesOK
  BY <1>1 DEF TellingsOK
<1>3. /\ t.all = own[s] /\ t.fields = setting[s] /\ t.busy = (s \in writing)
      /\ t.made = making[s] /\ t.late = overtaken[s] /\ t.missed = unread[s]
      /\ t.q = net[Peer(s)] /\ t.table = peer[Peer(s)] /\ t.inOrder = ordered[Peer(s)]
  BY <1>1, TellingFields
<1>4. /\ u.all = own'[s] /\ u.fields = setting'[s] /\ u.busy = (s \in writing')
      /\ u.made = making'[s] /\ u.late = overtaken'[s] /\ u.missed = unread'[s]
      /\ u.q = net'[Peer(s)] /\ u.table = peer'[Peer(s)] /\ u.inOrder = ordered'[Peer(s)]
  BY <1>1 DEF Telling
<1>5. \A key : GetSdesItem(t.all, key) = {} <=> key \notin KeysOf(t.all)
  BY DEF GetSdesItem, KeysOf
<1>6. t.fields \in Seq(Word) /\ (t.busy => t.fields # <<>>)
  BY <1>2 DEF TellingOK, FieldsOK
<1> DEFINE Elsewhere ==
             /\ UNCHANGED <<unread, net, peer, ordered, making>> /\ TablesOK'
             /\ \A r \in Sides : r # s =>
                   /\ own'[r] = own[r] /\ setting'[r] = setting[r]
                   /\ overtaken'[r] = overtaken[r]
                   /\ r \in writing' <=> r \in writing
<1>7. CASE \E metadata \in Metadata : SetUntimedMetadata(s, metadata)
  <2>1. PICK metadata \in Metadata : SetUntimedMetadata(s, metadata)
    BY <1>7
  <2>2. Elsewhere
    BY <1>2, <2>1 DEF SetUntimedMetadata, linkVars, TablesOK
  <2>3. metadata \in Seq(Word)
    BY RtcpAssumption DEF Word
  <2>4. s \notin writing /\ u.fields = metadata /\ ~u.busy
    BY <1>2, <1>3, <1>4, <1>6, <2>1 DEF SetUntimedMetadata, TablesOK
  <2>5. FieldsOK(u)
    BY <2>3, <2>4 DEF FieldsOK
  <2>6. TellingOK(u)
    BY <1>2, <1>3, <1>4, <2>1, <2>2, <2>4, <2>5, FieldsStep DEF SetUntimedMetadata
  <2>7. QED  BY <1>1, <2>2, <2>6, OneTeller
<1>8. CASE BeginValue(s)
  <2>1. Elsewhere
    BY <1>2, <1>8 DEF BeginValue, linkVars, TablesOK
  <2>2. /\ setting[s] # <<>> /\ s \notin writing /\ u.busy /\ u.fields = t.fields
        /\ u.all = t.all /\ u.late = t.late
        /\ GetSdesItem(own[s], Head(setting[s]).key) # {}
    BY <1>3, <1>4, <1>8 DEF BeginValue
  <2>3. FieldsOK(u)
    BY <1>3, <1>5, <1>6, <2>2 DEF FieldsOK
  <2>4. TellingOK(u)
    BY <1>2, <1>3, <1>4, <2>1, <2>2, <2>3, FieldsStep
  <2>5. QED  BY <1>1, <2>1, <2>4, OneTeller
<1>9. CASE AddField(s) \/ EndValue(s)
  <2>1. Elsewhere
    BY <1>2, <1>9 DEF AddField, EndValue, linkVars, TablesOK
  <2>2. PICK f : f = Head(t.fields)
    OBVIOUS
  <2>3. /\ t.fields # <<>> /\ u.fields = Tail(t.fields) /\ ~u.busy
        /\ \/ /\ ~t.busy /\ u.late = t.late
              /\ \/ u.all = t.all
                 \/ /\ u.all = SetSdesItem(t.all, f.key, f.value)
                    /\ f.key \notin KeysOf(t.all)
           \/ /\ t.busy /\ u.all = SetSdesItem(t.all, f.key, f.value)
              /\ u.late = IF \E p \in t.made : p.copied /\ t.all[p.next].key = f.key
                          THEN t.late \cup {f.key} ELSE t.late
    <3>1. CASE AddField(s)
      BY <1>2, <1>3, <1>4, <1>5, <2>2, <3>1 DEF AddField, TablesOK
    <3>2. CASE EndValue(s)
      <4>1. /\ s \in writing /\ DOMAIN own = Sides /\ DOMAIN setting = Sides
            /\ DOMAIN overtaken = Sides
            /\ own' = [own EXCEPT ![s] = SetSdesItem(own[s], f.key, f.value)]
            /\ writing' = writing \ {s}
            /\ setting' = [setting EXCEPT ![s] = Tail(setting[s])]
            /\ overtaken' = IF \E p \in making[s] : p.copied /\ own[s][p.next].key = f.key
                            THEN [overtaken EXCEPT ![s] = overtaken[s] \cup {f.key}]
                            ELSE overtaken
        BY <1>2, <1>3, <2>2, <3>2 DEF EndValue, TablesOK
      <4>2. t.busy /\ t.fields # <<>> /\ ~u.busy /\ u.fields = Tail(t.fields)
        BY <1>3, <1>4, <1>6, <4>1
      <4>3. u.all = SetSdesItem(t.all, f.key, f.value)
        BY <1>3, <1>4, <4>1
      <4>4. u.late = IF \E p \in t.made : p.copied /\ t.all[p.next].key = f.key
                     THEN t.late \cup {f.key} ELSE t.late
        BY <1>3, <1>4, <4>1
      <4>5. QED  BY <4>2, <4>3, <4>4
    <3>3. QED  BY <1>9, <3>1, <3>2
  <2>4. /\ u.made = t.made /\ u.missed = t.missed /\ u.q = t.q /\ u.table = t.table
        /\ u.inOrder = t.inOrder
    BY <1>3, <1>4, <2>1
  <2>5. TellingOK(u)
    BY <1>2, <2>2, <2>3, <2>4, FieldStep
  <2>6. QED  BY <1>1, <2>1, <2>5, OneTeller
<1>10. QED  BY <1>7, <1>8, <1>9 DEF SetStep

(* A packet is begun; what it begins with does not matter here.            *)
LEMMA BeginTellings ==
    ASSUME TellingsOK, NEW s \in Sides, making[s] = {}, NEW msg, NEW size,
           BeginCompound(s, msg, size),
           UNCHANGED <<own, setting, writing, overtaken, unread, net, peer, ordered>>
    PROVE  TellingsOK'
<1>1. PICK t, u : t = Telling(s) /\ u = Telling(s)'
  OBVIOUS
<1>2. TellingOK(t) /\ TablesOK
  BY <1>1 DEF TellingsOK
<1>3. /\ t.all = own[s] /\ t.made = {}
      /\ u.all = t.all /\ u.fields = t.fields /\ u.busy = t.busy /\ u.late = t.late
      /\ u.missed = t.missed /\ u.q = t.q /\ u.table = t.table /\ u.inOrder = t.inOrder
      /\ u.made = making'[s]
  BY <1>1 DEF Telling
<1> DEFINE new == [reports |-> msg, room |-> MaxPacketSize - size,
                   time |-> ClockOf(s), next |-> 1, count |-> Len(own[s]),
                   size |-> SdesHeader, copied |-> FALSE, items |-> <<>>]
<1>4. PICK made : /\ making' = [making EXCEPT ![s] = made]
                  /\ made = {} \/ made = {new}
  BY DEF BeginCompound
<1>5. /\ IsPacket(new) /\ new.next = 1 /\ new.count = Len(own[s])
      /\ new.size = SdesHeader /\ new.copied = FALSE /\ new.items = <<>>
  BY DEF IsPacket
<1> HIDE DEF new
<1>6. u.made = made /\ TablesOK' /\ \A r \in Sides : r # s => making'[r] = making[r]
  BY <1>2, <1>3, <1>4 DEF TablesOK
<1>7. TellingOK(u)
  BY <1>2, <1>3, <1>4, <1>5, <1>6, StartStep
<1>8. QED  BY <1>1, <1>6, <1>7, OneTeller

LEMMA MakeTellings ==
    ASSUME TellingsOK, NEW s \in Sides, MakeStep(s)
    PROVE  TellingsOK'
<1>1. PICK t, u : t = Telling(s) /\ u = Telling(s)'
  OBVIOUS
<1>2. TellingOK(t) /\ TablesOK
  BY <1>1 DEF TellingsOK
<1>3. /\ t.all = own[s] /\ t.fields = setting[s] /\ t.busy = (s \in writing)
      /\ t.made = making[s] /\ t.late = overtaken[s] /\ t.missed = unread[s]
      /\ t.q = net[Peer(s)] /\ t.table = peer[Peer(s)] /\ t.inOrder = ordered[Peer(s)]
  BY <1>1, TellingFields
<1>4. /\ u.all = own'[s] /\ u.fields = setting'[s] /\ u.busy = (s \in writing')
      /\ u.made = making'[s] /\ u.late = overtaken'[s] /\ u.missed = unread'[s]
      /\ u.q = net'[Peer(s)] /\ u.table = peer'[Peer(s)] /\ u.inOrder = ordered'[Peer(s)]
  BY <1>1 DEF Telling
<1>5. \A p \in t.made : PacketOK(p, t.all) /\ IsPacket(p)
  BY <1>2 DEF TellingOK, MadeTold, PacketOK
<1>6. Peer(s) \in Sides /\ Peer(s) # s /\ \A r \in Sides : r # s => Peer(r) # Peer(s)
  BY Peers
<1>7. CASE \E elapsed \in BOOLEAN : CopyItem(s, elapsed)
  <2>1. PICK p, value, item, q :
           /\ p \in t.made /\ value \in Readings(s, p.next)
           /\ item = t.all[p.next] /\ p.next <= p.count /\ ~p.copied
           /\ making' = [making EXCEPT ![s] = {q}]
           /\ \/ /\ q = [p EXCEPT !.next = p.count + 1] \/ q = [p EXCEPT !.next = p.next + 1]
                 /\ overtaken' = overtaken
              \/ /\ q = [p EXCEPT !.size = p.size + SizeOf[value], !.copied = TRUE,
                                  !.items = Append(p.items,
                                              [key |-> item.key, value |-> value])]
                 /\ overtaken' = [overtaken EXCEPT ![s] = overtaken[s] \ {item.key}]
           /\ UNCHANGED <<own, setting, writing, linkVars>>
    <3>1. PICK p \in making[s], elapsed \in BOOLEAN :
             /\ p.next <= p.count /\ ~p.copied
             /\ UNCHANGED <<own, setting, writing, linkVars>>
             /\ \E value \in Readings(s, p.next) :
                   LET item == own[s][p.next]
                       full == p.size + SizeOf[value] + 1 > p.room
                       copies == ~full /\ Due(item, elapsed)
                   IN  /\ making' =
                            [making EXCEPT ![s] =
                               IF full THEN {[p EXCEPT !.next = p.count + 1]}
                               ELSE IF copies
                               THEN {[p EXCEPT !.size = p.size + SizeOf[value], !.copied = TRUE,
                                               !.items = Append(p.items,
                                                 [key |-> item.key, value |-> value])]}
                               ELSE {[p EXCEPT !.next = p.next + 1]}]
                       /\ overtaken' = IF copies
                                       THEN [overtaken EXCEPT ![s] = overtaken[s] \ {item.key}]
                                       ELSE overtaken
      BY <1>7 DEF CopyItem
    <3>2. PICK value, full, copies :
             /\ value \in Readings(s, p.next)
             /\ full \in BOOLEAN /\ copies \in BOOLEAN /\ (copies => ~full)
             /\ making' =
                   [making EXCEPT ![s] =
                      IF full THEN {[p EXCEPT !.next = p.count + 1]}
                      ELSE IF copies
                      THEN {[p EXCEPT !.size = p.size + SizeOf[value], !.copied = TRUE,
                                      !.items = Append(p.items,
                                        [key |-> own[s][p.next].key, value |-> value])]}
                      ELSE {[p EXCEPT !.next = p.next + 1]}]
             /\ overtaken' = IF copies
                             THEN [overtaken EXCEPT ![s] = overtaken[s] \ {own[s][p.next].key}]
                             ELSE overtaken
      BY <3>1
    <3>3. PICK item : item = own[s][p.next]
      OBVIOUS
    <3>4. CASE full
      BY <1>3, <3>1, <3>2, <3>3, <3>4
    <3>5. CASE ~full /\ copies
      BY <1>3, <3>1, <3>2, <3>3, <3>5
    <3>6. CASE ~full /\ ~copies
      BY <1>3, <3>1, <3>2, <3>3, <3>6
    <3>7. QED  BY <3>2, <3>4, <3>5, <3>6
  <2>2. PacketOK(p, t.all) /\ IsPacket(p)
    BY <1>5, <2>1
  <2>3. /\ u.made = {q} /\ TablesOK'
        /\ u.all = t.all /\ u.fields = t.fields /\ u.busy = t.busy
        /\ u.missed = t.missed /\ u.q = t.q /\ u.table = t.table /\ u.inOrder = t.inOrder
        /\ \A r \in Sides : r # s => making'[r] = making[r] /\ overtaken'[r] = overtaken[r]
    BY <1>2, <1>3, <1>4, <2>1 DEF TablesOK, linkVars
  <2>4. TellingOK(u)
    <3>1. CASE /\ q = [p EXCEPT !.next = p.count + 1] \/ q = [p EXCEPT !.next = p.next + 1]
               /\ overtaken' = overtaken
      <4>1. /\ IsPacket(q) /\ q.next \in {p.next + 1, p.count + 1}
            /\ q.count = p.count /\ q.size = p.size /\ q.copied = p.copied
            /\ q.items = p.items
        BY <2>2, <3>1 DEF IsPacket
      <4>2. u.late = t.late
        BY <1>3, <1>4, <3>1
      <4>3. QED  BY <1>2, <2>1, <2>3, <4>1, <4>2, SkipStep
    <3>2. CASE /\ q = [p EXCEPT !.size = p.size + SizeOf[value], !.copied = TRUE,
                                !.items = Append(p.items,
                                            [key |-> item.key, value |-> value])]
               /\ overtaken' = [overtaken EXCEPT ![s] = overtaken[s] \ {item.key}]
      <4>1. PICK size, items : /\ size = p.size + SizeOf[value]
                               /\ items = Append(p.items, [key |-> item.key, value |-> value])
        OBVIOUS
      <4>2. q = [p EXCEPT !.size = size, !.copied = TRUE, !.items = items]
        BY <3>2, <4>1
      <4>3. /\ IsPacket(q) /\ q.next = p.next /\ q.count = p.count /\ q.copied = TRUE
            /\ q.size = size /\ q.items = items
        <5>1. q = [reports |-> p.reports, room |-> p.room, time |-> p.time,
                   next |-> p.next, count |-> p.count, size |-> size,
                   copied |-> TRUE, items |-> items]
          BY <2>2, <4>2 DEF IsPacket
        <5>2. QED  BY <5>1 DEF IsPacket
      <4>4. u.late = t.late \ {item.key}
        BY <1>2, <1>3, <1>4, <3>2 DEF TablesOK
      <4>5. /\ value \in DOMAIN SizeOf
            /\ value = item.value \/ (t.busy /\ item.key = Head(t.fields).key)
        <5>1. CASE s \in writing /\ item.key = Head(t.fields).key
          BY <1>3, <2>1, <5>1 DEF Readings
        <5>2. CASE ~(s \in writing /\ item.key = Head(t.fields).key)
          <6>1. value = item.value
            BY <1>3, <2>1, <5>2 DEF Readings
          <6>2. item \in Item
            <7>1. t.all \in Seq(Item) /\ DOMAIN t.all = 1 .. Len(t.all) /\ Len(t.all) \in Nat
              BY <1>2 DEF TellingOK, OwnOK
            <7>2. p.next \in 1 .. Len(t.all)
              BY <2>1, <2>2, <7>1 DEF PacketOK
            <7>3. QED  BY <2>1, <7>1, <7>2
          <6>3. QED  BY <6>1, <6>2 DEF Item
        <5>3. QED  BY <5>1, <5>2
      <4>6. /\ p \in t.made /\ ~p.copied /\ p.next <= p.count /\ item = t.all[p.next]
            /\ q.size = p.size + SizeOf[value]
            /\ q.items = Append(p.items, [key |-> item.key, value |-> value])
        BY <2>1, <4>1, <4>3
      <4>7. /\ TellingOK(t) /\ u.made = {q} /\ u.all = t.all /\ u.fields = t.fields
            /\ u.busy = t.busy /\ u.missed = t.missed /\ u.q = t.q /\ u.table = t.table
            /\ u.inOrder = t.inOrder
            /\ IsPacket(q) /\ q.next = p.next /\ q.count = p.count /\ q.copied = TRUE
        BY <1>2, <2>3, <4>3
      <4>8. CopiesItem(t, u, p, q, item, value)
        BY <4>4, <4>5, <4>6, <4>7 DEF CopiesItem
      <4>9. QED  BY <4>7, <4>8, CopyStep
    <3>3. QED  BY <2>1, <3>1, <3>2
  <2>5. QED  BY <1>1, <2>1, <2>3, <2>4, OneTeller DEF linkVars
<1>8. CASE MarkItem(s)
  <2>1. PICK p, q :
           /\ p \in t.made /\ p.copied /\ q = [p EXCEPT !.next = p.next + 1, !.copied = FALSE]
           /\ making' = [making EXCEPT ![s] = {q}]
           /\ own' = [own EXCEPT ![s] = [t.all EXCEPT ![p.next].sent = TRUE]]
           /\ UNCHANGED <<overtaken, setting, writing, linkVars>>
    BY <1>3, <1>8 DEF MarkItem
  <2>2. IsPacket(p)
    BY <1>5, <2>1
  <2>3. /\ IsPacket(q) /\ q.next = p.next + 1 /\ q.count = p.count /\ q.copied = FALSE
        /\ q.size = p.size /\ q.items = p.items
    <3>1. q = [reports |-> p.reports, room |-> p.room, time |-> p.time,
               next |-> p.next + 1, count |-> p.count, size |-> p.size,
               copied |-> FALSE, items |-> p.items]
      BY <2>1, <2>2 DEF IsPacket
    <3>2. QED  BY <3>1 DEF IsPacket
  <2>4. /\ u.made = {q} /\ TablesOK'
        /\ u.all = [t.all EXCEPT ![p.next].sent = TRUE]
        /\ u.fields = t.fields /\ u.busy = t.busy /\ u.late = t.late
        /\ u.missed = t.missed /\ u.q = t.q /\ u.table = t.table /\ u.inOrder = t.inOrder
        /\ \A r \in Sides : r # s => making'[r] = making[r] /\ own'[r] = own[r]
    BY <1>2, <1>3, <1>4, <2>1 DEF TablesOK, linkVars
  <2>5. TellingOK(u)
    BY <1>2, <2>1, <2>3, <2>4, MarkStep
  <2>6. QED  BY <1>1, <2>1, <2>4, <2>5, OneTeller DEF linkVars
<1>9. CASE SendCompound(s)
  <2>1. PICK p \in making[s] :
           LET size == p.size + Padding(p.size)
               fits == size <= p.room
               c == clock[s]
               asks == fits /\ size + Sizes.app <= p.room /\ AsksClock(c, p.time)
               app == IF asks THEN {ClockRequest(c, p.time)} ELSE {}
               lastSeen == Len(p.items) - Cardinality(Unseen(p.items))
               Written(first, last) == {p.items[k].key : k \in first .. last}
           IN  /\ making' = [making EXCEPT ![s] = {}]
               /\ net' = IF fits
                         THEN [net EXCEPT ![Peer(s)] =
                                 Append(net[Peer(s)], [reports |-> p.reports, sdes |-> p.items,
                                                       app |-> app])]
                         ELSE net
               /\ ordered' = [ordered EXCEPT ![Peer(s)] = ordered[Peer(s)] /\ fits]
               /\ unread' = [unread EXCEPT ![s] = (unread[s] \ Written(1, Len(p.items)))
                                                 \cup Written(lastSeen + 1, Len(p.items))]
               /\ UNCHANGED <<own, setting, writing, overtaken, peer>>
    BY <1>9 DEF SendCompound
  <2>2. PICK fits, app, lastSeen :
           /\ fits = (p.size + Padding(p.size) <= p.room)
           /\ app = IF /\ p.size + Padding(p.size) <= p.room
                       /\ p.size + Padding(p.size) + Sizes.app <= p.room
                       /\ AsksClock(clock[s], p.time)
                    THEN {ClockRequest(clock[s], p.time)} ELSE {}
           /\ lastSeen = Len(p.items) - Cardinality(Unseen(p.items))
    OBVIOUS
  <2>3. /\ p \in t.made /\ fits \in BOOLEAN
        /\ making' = [making EXCEPT ![s] = {}]
        /\ net' = IF fits
                  THEN [net EXCEPT ![Peer(s)] =
                          Append(t.q, [reports |-> p.reports, sdes |-> p.items,
                                       app |-> app])]
                  ELSE net
        /\ ordered' = [ordered EXCEPT ![Peer(s)] = ordered[Peer(s)] /\ fits]
        /\ unread' = [unread EXCEPT ![s] =
              (unread[s] \ {p.items[k].key : k \in 1 .. Len(p.items)})
              \cup {p.items[k].key : k \in lastSeen + 1 .. Len(p.items)}]
        /\ UNCHANGED <<own, setting, writing, overtaken, peer>>
    <3>1. p \in t.made /\ fits \in BOOLEAN
      BY <1>3, <2>2
    <3>2. /\ making' = [making EXCEPT ![s] = {}]
          /\ UNCHANGED <<own, setting, writing, overtaken, peer>>
      BY <2>1
    <3>3. unread' = [unread EXCEPT ![s] =
              (unread[s] \ {p.items[k].key : k \in 1 .. Len(p.items)})
              \cup {p.items[k].key : k \in lastSeen + 1 .. Len(p.items)}]
      BY <2>1, <2>2
    <3>4. ordered' = [ordered EXCEPT ![Peer(s)] = ordered[Peer(s)] /\ fits]
      BY <2>1, <2>2
    <3>5. CASE p.size + Padding(p.size) <= p.room
      BY <1>3, <2>1, <2>2, <3>1, <3>2, <3>3, <3>4, <3>5
    <3>6. CASE ~(p.size + Padding(p.size) <= p.room)
      BY <1>3, <2>1, <2>2, <3>1, <3>2, <3>3, <3>4, <3>6
    <3>7. QED  BY <3>5, <3>6
  <2>4. /\ u.made = {} /\ u.all = t.all /\ u.fields = t.fields /\ u.busy = t.busy
        /\ u.late = t.late /\ u.table = t.table
    BY <1>2, <1>3, <1>4, <2>3 DEF TablesOK
  <2>5. u.missed = (t.missed \ {p.items[k].key : k \in 1 .. Len(p.items)})
                   \cup {p.items[k].key : k \in lastSeen + 1 .. Len(p.items)}
    BY <1>2, <1>3, <1>4, <2>3 DEF TablesOK
  <2>6. \/ \E m : m.sdes = p.items /\ u.q = Append(t.q, m) /\ (u.inOrder => t.inOrder)
        \/ u.q = t.q /\ ~u.inOrder
    <3>1. CASE fits
      <4>1. PICK m : m = [reports |-> p.reports, sdes |-> p.items, app |-> app]
        OBVIOUS
      <4>2. m.sdes = p.items
        BY <4>1
      <4>3. u.q = Append(t.q, m)
        <5>1. net' = [net EXCEPT ![Peer(s)] = Append(t.q, m)]
          BY <2>3, <3>1, <4>1
        <5>2. QED  BY <1>2, <1>4, <1>6, <5>1 DEF TablesOK
      <4>4. u.inOrder => t.inOrder
        BY <1>2, <1>3, <1>4, <1>6, <2>3, <3>1 DEF TablesOK
      <4>5. QED  BY <4>2, <4>3, <4>4
    <3>2. CASE ~fits
      BY <1>2, <1>3, <1>4, <1>6, <2>3, <3>2 DEF TablesOK
    <3>3. QED  BY <3>1, <3>2
  <2>7. TellingOK(u)
    BY <1>2, <2>2, <2>3, <2>4, <2>5, <2>6, SendStep
  <2>8. TablesOK'
    BY <1>2, <2>3 DEF TablesOK
  <2>9. \A r \in Sides : r # s =>
           /\ making'[r] = making[r] /\ unread'[r] = unread[r]
           /\ net'[Peer(r)] = net[Peer(r)] /\ ordered'[Peer(r)] = ordered[Peer(r)]
    BY <1>2, <1>6, <2>3 DEF TablesOK
  <2>10. QED  BY <1>1, <2>3, <2>7, <2>8, <2>9, OneTeller
<1>10. QED  BY <1>7, <1>8, <1>9 DEF MakeStep

LEMMA DeliverTellings ==
    ASSUME TellingsOK, NEW r \in Sides, NEW k \in DOMAIN net[r],
           NEW again \in BOOLEAN, NEW old \in BOOLEAN, Deliver(r, k, again, old)
    PROVE  TellingsOK'
<1>1. PICK s : s = Peer(r)
  OBVIOUS
<1>2. /\ s \in Sides /\ Peer(s) = r /\ s # r
      /\ \A x \in Sides : x # s => Peer(x) # r
  BY <1>1, Peers
<1>3. PICK t, u : t = Telling(s) /\ u = Telling(s)'
  OBVIOUS
<1>4. TellingOK(t) /\ TablesOK
  BY <1>2, <1>3 DEF TellingsOK
<1>5. /\ t.all = own[s] /\ t.fields = setting[s] /\ t.busy = (s \in writing)
      /\ t.made = making[s] /\ t.late = overtaken[s] /\ t.missed = unread[s]
      /\ t.q = net[r] /\ t.table = peer[r] /\ t.inOrder = ordered[r]
  BY <1>2, <1>3, TellingFields
<1>6. /\ u.all = own'[s] /\ u.fields = setting'[s] /\ u.busy = (s \in writing')
      /\ u.made = making'[s] /\ u.late = overtaken'[s] /\ u.missed = unread'[s]
      /\ u.q = net'[r] /\ u.table = peer'[r] /\ u.inOrder = ordered'[r]
  BY <1>2, <1>3 DEF Telling
<1>7. /\ net' = IF again THEN net ELSE [net EXCEPT ![r] = RemoveAt(net[r], k)]
      /\ ordered' = [ordered EXCEPT ![r] = ordered[r] /\ k = 1 /\ ~again]
      /\ peer' = [peer EXCEPT ![r] = ReadSdes(peer[r], net[r][k].sdes)]
      /\ UNCHANGED <<own, setting, writing, making, overtaken, unread>>
  BY DEF Deliver, ReadRest, itemVars
<1>8. /\ TablesOK'
      /\ \A x \in Sides : x # s =>
            /\ net'[Peer(x)] = net[Peer(x)] /\ peer'[Peer(x)] = peer[Peer(x)]
            /\ ordered'[Peer(x)] = ordered[Peer(x)]
  <2>1. CASE again
    BY <1>2, <1>4, <1>7, <2>1 DEF TablesOK
  <2>2. CASE ~again
    BY <1>2, <1>4, <1>7, <2>2 DEF TablesOK
  <2>3. QED  BY <2>1, <2>2
<1>9. /\ u.q = IF again THEN t.q ELSE RemoveAt(t.q, k)
      /\ u.table = ReadSdes(t.table, t.q[k].sdes)
      /\ u.inOrder => t.inOrder /\ k = 1 /\ ~again
      /\ u.made = t.made /\ u.all = t.all /\ u.fields = t.fields /\ u.busy = t.busy
      /\ u.late = t.late /\ u.missed = t.missed /\ k \in DOMAIN t.q
  BY <1>2, <1>4, <1>5, <1>6, <1>7 DEF TablesOK
<1>10. TellingOK(u)
  BY <1>4, <1>9, ReadStep
<1>11. QED  BY <1>2, <1>3, <1>7, <1>8, <1>10, OneTeller

LEMMA LoseTellings ==
    ASSUME TellingsOK, NEW r \in Sides, NEW k \in DOMAIN net[r], Lose(r, k)
    PROVE  TellingsOK'
<1>1. PICK s : s = Peer(r)
  OBVIOUS
<1>2. /\ s \in Sides /\ Peer(s) = r /\ s # r
      /\ \A x \in Sides : x # s => Peer(x) # r
  BY <1>1, Peers
<1>3. PICK t, u : t = Telling(s) /\ u = Telling(s)'
  OBVIOUS
<1>4. TellingOK(t) /\ TablesOK
  BY <1>2, <1>3 DEF TellingsOK
<1>5. /\ t.all = own[s] /\ t.fields = setting[s] /\ t.busy = (s \in writing)
      /\ t.made = making[s] /\ t.late = overtaken[s] /\ t.missed = unread[s]
      /\ t.q = net[r] /\ t.table = peer[r] /\ t.inOrder = ordered[r]
  BY <1>2, <1>3, TellingFields
<1>6. /\ u.all = own'[s] /\ u.fields = setting'[s] /\ u.busy = (s \in writing')
      /\ u.made = making'[s] /\ u.late = overtaken'[s] /\ u.missed = unread'[s]
      /\ u.q = net'[r] /\ u.table = peer'[r] /\ u.inOrder = ordered'[r]
  BY <1>2, <1>3 DEF Telling
<1>7. /\ net' = [net EXCEPT ![r] = RemoveAt(net[r], k)]
      /\ ordered' = [ordered EXCEPT ![r] = FALSE]
      /\ UNCHANGED <<own, setting, writing, making, overtaken, unread, peer>>
  BY DEF Lose, itemVars
<1>8. /\ TablesOK'
      /\ \A x \in Sides : x # s =>
            net'[Peer(x)] = net[Peer(x)] /\ ordered'[Peer(x)] = ordered[Peer(x)]
  <2>1. TablesOK'
    BY <1>4, <1>7 DEF TablesOK
  <2>2. ASSUME NEW x \in Sides, x # s
        PROVE  net'[Peer(x)] = net[Peer(x)] /\ ordered'[Peer(x)] = ordered[Peer(x)]
    <3>1. Peer(x) \in Sides /\ Peer(x) # r
      BY <1>2, <2>2, Peers
    <3>2. QED  BY <1>4, <1>7, <3>1 DEF TablesOK
  <2>3. QED  BY <2>1, <2>2
<1>9. /\ u.q = RemoveAt(t.q, k) /\ ~u.inOrder /\ u.table = t.table
      /\ u.made = t.made /\ u.all = t.all /\ u.fields = t.fields /\ u.busy = t.busy
      /\ u.late = t.late /\ u.missed = t.missed /\ k \in DOMAIN t.q
  BY <1>2, <1>4, <1>5, <1>6, <1>7 DEF TablesOK
<1>10. TellingOK(u)
  BY <1>4, <1>9, LoseStep
<1>11. QED  BY <1>2, <1>3, <1>7, <1>8, <1>10, OneTeller

LEMMA TellingsNext ==
    ASSUME TellingsOK, [RtcpNext]_allVars
    PROVE  TellingsOK'
<1> USE DEF linkVars, itemVars
<1>1. CASE \E n \in Arrivals : Arrive(n)
  BY <1>1, TellingsSame DEF Arrive
<1>2. CASE \E e \in waiting : \E garbage \in Garbage(e) : Depayload(e, garbage)
  BY <1>2, TellingsSame DEF Depayload
<1>3. CASE SenderReport
  <2>1. /\ UNCHANGED <<own, setting, writing, overtaken, unread, net, peer, ordered>>
        /\ "sender" \in Sides /\ making["sender"] = {}
        /\ BeginCompound("sender", GenerateSenderReport(now), Sizes.sr)
    BY <1>3 DEF SenderReport, Free, Sides
  <2>2. QED  BY <2>1, BeginTellings
<1>4. CASE \E withLoss \in BOOLEAN : \E beyond \in Beyond(withLoss) :
              ReceiverReport(withLoss, beyond)
  <2>1. /\ UNCHANGED <<own, setting, writing, overtaken, unread, net, peer, ordered>>
        /\ "receiver" \in Sides /\ making["receiver"] = {}
        /\ \E msg, size : BeginCompound("receiver", msg, size)
    BY <1>4 DEF ReceiverReport, Free, Sides
  <2>2. QED  BY <2>1, BeginTellings
<1>5. CASE \E s \in Sides : SetStep(s)
  BY <1>5, SetTellings
<1>6. CASE \E s \in Sides : MakeStep(s)
  BY <1>6, MakeTellings
<1>7. CASE \E s \in Sides : \E k \in DOMAIN net[s] :
              \/ \E again \in BOOLEAN, old \in BOOLEAN : Deliver(s, k, again, old)
              \/ Lose(s, k)
  BY <1>7, DeliverTellings, LoseTellings
<1>8. CASE Tick
  BY <1>8, TellingsSame DEF Tick
<1>9. CASE UNCHANGED allVars
  BY <1>9, TellingsSame DEF allVars
<1>10. QED
  BY <1>1, <1>2, <1>3, <1>4, <1>5, <1>6, <1>7, <1>8, <1>9 DEF RtcpNext

LEMMA TellingsImply ==
    ASSUME TellingsOK
    PROVE  SdesDelivered
<1>1. ASSUME NEW s \in Sides, NEW p, p = Peer(s),
             ordered[s], net[s] = <<>>, making[p] = {},
             NEW i \in ToSet(own[p]), i.sent,
             i.key \notin unread[p] \cup overtaken[p]
                          \cup (IF p \in writing THEN {Head(setting[p]).key} ELSE {})
      PROVE  /\ GetUntimedMetadata(p)[i.key] = {i.value}
             /\ GetPeerUntimedMetadata(s)[i.key] = {i.value}
  <2>1. p \in Sides /\ Peer(p) = s
    BY <1>1, Peers
  <2>2. PICK t : t = Telling(p)
    OBVIOUS
  <2>3. /\ t.all = own[p] /\ t.fields = setting[p] /\ t.busy = (p \in writing)
        /\ t.made = {} /\ t.late = overtaken[p] /\ t.missed = unread[p]
        /\ t.q = <<>> /\ t.table = peer[s] /\ t.inOrder
    BY <1>1, <2>1, <2>2, TellingFields
  <2>4. OwnOK(t.all) /\ Describes(t.table, t.all) /\ AllTold(t)
    BY <2>1, <2>2, <2>3 DEF TellingsOK, TellingOK
  <2>5. i \in Item
    BY <1>1, <2>3, <2>4 DEF OwnOK, ToSet
  <2>6. i.key \in Keys
    BY <2>5 DEF Item
  <2>7. Conveyed(t.q, t.table, i)
    <3>1. i.key \notin Doubtful(t) /\ i.key \notin t.missed
      BY <1>1, <2>3 DEF Doubtful
    <3>2. HasTold(t, i)
      BY <1>1, <2>3, <2>4, <3>1 DEF AllTold
    <3>3. QED  BY <2>3, <3>1, <3>2 DEF HasTold
  <2>8. PICK w : w = WordOf(i) /\ w \in ToSet(t.table)
    <3>1. Len(t.q) = 0
      BY <2>3
    <3>2. QED  BY <2>7, <3>1 DEF Conveyed
  <2>9. w.key = i.key /\ w.value = i.value
    BY <2>8 DEF WordOf
  <2>10. GetSdesItem(t.all, i.key) = {i.value}
    BY <1>1, <2>3, <2>4, GetLemma DEF OwnOK
  <2>11. GetSdesItem(t.table, i.key) = {i.value}
    BY <2>4, <2>8, <2>9, GetLemma DEF Describes
  <2>12. QED
    BY <2>3, <2>6, <2>10, <2>11
       DEF GetUntimedMetadata, GetPeerUntimedMetadata, GetPeerSdesItem
<1>2. QED  BY <1>1 DEF SdesDelivered

(* What a side's application reads of its peer's metadata is what the peer *)
(* has set, once its packets have arrived in order: there is always room   *)
(* in the table, an item that is not repeated has been told before, and a  *)
(* value set while the packets are made is told again, unless it was set   *)
(* between the copy of the item and the write of its lastSendTime          *)
(* (arstream2_rtcp.c 455-499 and 655-702).                                 *)
THEOREM MetadataDelivered == RtcpSpec => []SdesDelivered
<1>1. RtcpInit => TellingsOK
  BY TellingsInit
<1>2. TellingsOK /\ [RtcpNext]_allVars => TellingsOK'
  BY TellingsNext
<1>3. TellingsOK => SdesDelivered
  BY TellingsImply
<1>4. QED  BY <1>1, <1>2, <1>3, PTL DEF RtcpSpec

-----------------------------------------------------------------------------
(* The loss reports.                                                       *)

(* A report that leaves room for a source description, which takes 12      *)
(* bytes at least, is about far fewer than 2^16 packets: the ends of its   *)
(* loss RLE block tell how many.                                           *)
LeastSdes == 12

ShortBlocks ==
    ((MaxPacketSize - Sizes.rr - Sizes.xr - LeastSdes) \div Sizes.chunk) * ChunkBits
        < SeqRing

LossCtx == [count : Nat, start : Nat, end : Nat, flags : SUBSET Int,
            bits : Nat, sure : BOOLEAN, close : BOOLEAN]

(* The offsets of the packets of S from first to last.                     *)
Seen(S, first, last) == {k \in 0 .. last - first : first + k \in S}

(* The first flags, bits of them, tell of the packets of S that were taken *)
(* if close, and of no other if sure.                                      *)
Told(S, first, last, flags, bits, close, sure) ==
    /\ close => \A k \in Seen(S, first, last) : k < bits => k \in flags
    /\ sure => \A k \in 0 .. bits - 1 : k \in flags <=> k \in Seen(S, first, last)

(* The receiver's report, when the packets of S are taken and out is the   *)
(* last of them.                                                           *)
LossOK(l, S, out) ==
    /\ l \in LossCtx /\ l.start <= l.end
    /\ l.count = 0 => l.flags = {}
    /\ l.count > 0 => /\ l.end = out
                      /\ l.close => l.end - l.start < l.bits
                      /\ Told(S, l.start, l.end, l.flags, l.bits, l.close, l.sure)

(* A block about packets no later than out.                                *)
About(x, out) ==
    /\ x.from \in Nat /\ x.last \in Nat /\ x.from <= x.last /\ x.last <= out
    /\ x.bits \in Nat

(* A block on its way, and the report made of one.                         *)
BlockOK(x, S, out) ==
    x.empty \/ /\ About(x, out)
               /\ x.last - x.from + 1 < SeqRing
               /\ x.begin = x.from % SeqRing
               /\ x.end = ((x.last % SeqRing) + 1) % SeqRing
               /\ Told(S, x.from, x.last, Flags(x.chunks, x.last - x.from + 1),
                       x.bits, x.close, x.sure)

(* The flags that both buffers hold.                                       *)
Held(x, mem) == IF x.bits < mem THEN x.bits ELSE mem

ReportOK(r, S, out) ==
    /\ r.bits \in Nat /\ r.mem \in Nat
    /\ \A x \in r.block :
        x.empty \/ /\ About(x, out)
                   /\ r.start = x.from % SeqRing
                   /\ r.count = x.last - x.from + 1
                   /\ Told(S, x.from, x.last, r.flags, Held(x, r.mem), x.close, x.sure)

BlocksOK(q, S, out) ==
    \E P : q \in Seq(P) /\ \A m \in P : \A x \in m.reports.xr : BlockOK(x, S, out)

(* The packet that the receiver is making, if it can be sent.              *)
MadeBlocksOK(made, S, out) ==
    \A p \in made :
        /\ p.room \in Int
        /\ p.room >= LeastSdes => \A x \in p.reports.xr : BlockOK(x, S, out)

LossesOK ==
    /\ highest \in ExtNums /\ previous \in Int
    /\ waiting \subseteq Nat /\ taken \subseteq Nat /\ lastOut \in Int
    /\ \A e \in taken : e <= lastOut
    /\ LossOK(loss, taken, lastOut)
    /\ ReportOK(report, taken, lastOut)
    /\ DOMAIN net = Sides /\ BlocksOK(net["sender"], taken, lastOut)
    /\ MadeBlocksOK(making["receiver"], taken, lastOut)

(* The number of chunks of a report about span packets.                    *)
ChunkCount(span) ==
    LET n == (span + ChunkBits - 1) \div ChunkBits IN n + (n % 2)

(* Reading the chunks yields the flags they were made of.                  *)
LEMMA ChunksRead ==
    ASSUME NEW l \in LossCtx, l.start <= l.end
    PROVE  /\ Flags(Chunks(l), l.end - l.start + 1) =
                 {k \in 0 .. l.end - l.start : k \in l.flags}
           /\ l.end - l.start + 1 <= Len(Chunks(l)) * ChunkBits
           /\ Len(Chunks(l)) \in Nat
           /\ Len(Chunks(l)) = ChunkCount(l.end - l.start + 1)
<1>1. PICK C \in Nat : C = ChunkBits /\ C > 0
  BY RtcpAssumption
<1>2. PICK size \in Nat : size = l.end - l.start + 1 /\ size > 0
  BY DEF LossCtx
<1> DEFINE n == (size + C - 1) \div C
           N == n + (n % 2)
           Bit(i) == {b \in 0 .. C - 1 : /\ (i - 1) * C + b < size
                                         /\ (i - 1) * C + b \in l.flags}
           chunks == [i \in 1 .. N |-> Bit(i)]
<1>3. Chunks(l) = chunks
  BY <1>1, <1>2 DEF Chunks, Span
<1>0. N = ChunkCount(size)
  BY <1>1 DEF ChunkCount
<1>4. n \in Nat /\ size <= C * n
  <2>1. n \in Nat /\ size + C - 1 < C * n + C
    BY <1>1
  <2> HIDE DEF n
  <2>2. C * n \in Nat
    BY <2>1
  <2>3. QED  BY <1>1, <2>1, <2>2
<1> HIDE DEF n
<1>5. N \in Nat /\ n <= N
  BY <1>4
<1> HIDE DEF N
<1>6. Len(chunks) = N
  <2> HIDE DEF Bit
  <2>1. QED  BY <1>5
<1>7. ASSUME NEW k \in 0 .. size - 1
      PROVE  /\ k \div C < Len(chunks)
             /\ k % C \in chunks[k \div C + 1] <=> k \in l.flags
  <2>1. PICK q \in Nat, r \in 0 .. C - 1 :
            q = k \div C /\ r = k % C /\ k = C * q + r
    <3>1. /\ k \div C \in Nat /\ k % C \in 0 .. C - 1
          /\ k = C * (k \div C) + (k % C)
      BY <1>1
    <3>2. QED  BY <3>1
  <2>2. q < n
    <3>1. SUFFICES ASSUME q >= n PROVE FALSE
      BY <1>4
    <3>2. C * q >= C * n
      BY <1>4, <3>1
    <3>3. QED  BY <1>4, <2>1, <3>2
  <2>3. q + 1 \in 1 .. N
    BY <1>4, <1>5, <2>2
  <2>4. chunks[q + 1] = Bit(q + 1)
    BY <2>3
  <2>5. (q + 1 - 1) * C + r = k
    BY <2>1
  <2>6. r \in Bit(q + 1) <=> k \in l.flags
    BY <2>1, <2>5
  <2>7. q < Len(chunks)
    <3> HIDE DEF chunks
    <3>1. QED  BY <1>4, <1>5, <1>6, <2>2
  <2>8. r \in chunks[q + 1] <=> k \in l.flags
    BY <2>4, <2>6
  <2> HIDE DEF chunks
  <2>9. QED  BY <2>1, <2>7, <2>8
<1>8. Flags(chunks, size) = {k \in 0 .. size - 1 : k \in l.flags}
  <2> HIDE DEF chunks
  <2>1. QED  BY <1>1, <1>7 DEF Flags
<1>9. size <= N * C
  <2>1. C * n <= C * N
    BY <1>4, <1>5
  <2>2. N * C = C * N
    BY <1>5
  <2>3. QED  BY <1>4, <1>5, <2>1, <2>2
<1>10. size - 1 = l.end - l.start
  BY <1>2 DEF LossCtx
<1> HIDE DEF chunks
<1>11. QED  BY <1>0, <1>1, <1>2, <1>3, <1>5, <1>6, <1>8, <1>9, <1>10

(* The ends of a block, on 16 bits, tell its length (1082).                *)
LEMMA EndsTell ==
    ASSUME NEW from \in Nat, NEW last \in Nat, from <= last,
           last - from + 1 < SeqRing,
           NEW begin, begin = from % SeqRing,
           NEW end, end = ((last % SeqRing) + 1) % SeqRing
    PROVE  (IF end < begin THEN end + SeqRing ELSE end) - 1 - begin + 1
              = last - from + 1
<1>1. PICK S \in Nat : S = SeqRing /\ S > 1
  BY SeqNumAssumption
<1>2. PICK q \in Nat, r \in 0 .. S - 1 : from = S * q + r /\ r = from % S
  <2>1. /\ from \div S \in Nat /\ from % S \in 0 .. S - 1
        /\ from = S * (from \div S) + (from % S)
    BY <1>1
  <2>2. QED  BY <2>1
<1>3. PICK p \in Nat, t \in 0 .. S - 1 : last = S * p + t /\ t = last % S
  <2>1. /\ last \div S \in Nat /\ last % S \in 0 .. S - 1
        /\ last = S * (last \div S) + (last % S)
    BY <1>1
  <2>2. QED  BY <2>1
<1>4. S * p \in Nat /\ S * q \in Nat
  BY <1>1
<1>5. S * q < S * (p + 1) /\ S * p < S * (q + 2)
  BY <1>1, <1>2, <1>3, <1>4, SMTT(30)
<1>6. q < p + 1 /\ p < q + 2
  BY <1>1, <1>5
<1>7. p = q \/ p = q + 1
  BY <1>6
<1>8. S * (q + 1) = S * q + S
  BY <1>1
<1>9. end = IF t + 1 = S THEN 0 ELSE t + 1
  <2>1. end = (t + 1) % S
    BY <1>1, <1>3
  <2>2. t + 1 < S => (t + 1) % S = t + 1
    BY <1>1
  <2>3. S % S = 0
    BY <1>1
  <2>4. QED  BY <1>1, <2>1, <2>2, <2>3
<1>10. begin = r
  BY <1>1, <1>2
<1>11. CASE p = q
  BY <1>1, <1>2, <1>3, <1>4, <1>9, <1>10, <1>11
<1>12. CASE p = q + 1
  BY <1>1, <1>2, <1>3, <1>4, <1>8, <1>9, <1>10, <1>12
<1>13. QED  BY <1>7, <1>11, <1>12

(* A later packet changes nothing for what is about earlier ones.          *)
LEMMA ToldLater ==
    ASSUME NEW S, NEW first \in Int, NEW last \in Int, NEW e \in Int, last < e
    PROVE  Seen(S \cup {e}, first, last) = Seen(S, first, last)
  BY DEF Seen

LEMMA BlockLater ==
    ASSUME NEW S, NEW out \in Int, NEW e \in Int, out < e,
           NEW x, BlockOK(x, S, out)
    PROVE  BlockOK(x, S \cup {e}, e)
<1>1. CASE x.empty
  BY <1>1 DEF BlockOK
<1>2. CASE ~x.empty
  <2>1. /\ x.from \in Nat /\ x.last \in Nat /\ x.from <= x.last /\ x.last <= out
        /\ x.bits \in Nat
    BY <1>2 DEF BlockOK, About
  <2>2. Seen(S \cup {e}, x.from, x.last) = Seen(S, x.from, x.last)
    BY <2>1, ToldLater
  <2>3. About(x, e)
    BY <2>1 DEF About
  <2>4. QED  BY <1>2, <2>2, <2>3 DEF BlockOK, Told
<1>3. QED  BY <1>1, <1>2

LEMMA ReportLater ==
    ASSUME NEW S, NEW out \in Int, NEW e \in Int, out < e,
           NEW r, ReportOK(r, S, out)
    PROVE  ReportOK(r, S \cup {e}, e)
<1>1. SUFFICES ASSUME NEW x \in r.block, ~x.empty
               PROVE  /\ About(x, e)
                      /\ r.start = x.from % SeqRing
                      /\ r.count = x.last - x.from + 1
                      /\ Told(S \cup {e}, x.from, x.last, r.flags, Held(x, r.mem),
                              x.close, x.sure)
  BY DEF ReportOK
<1>2. /\ x.from \in Nat /\ x.last \in Nat /\ x.from <= x.last /\ x.last <= out
      /\ x.bits \in Nat
      /\ r.start = x.from % SeqRing
      /\ r.count = x.last - x.from + 1
      /\ Told(S, x.from, x.last, r.flags, Held(x, r.mem), x.close, x.sure)
  BY <1>1 DEF ReportOK, About
<1>3. Seen(S \cup {e}, x.from, x.last) = Seen(S, x.from, x.last)
  BY <1>2, ToldLater
<1>4. About(x, e)
  BY <1>2 DEF About
<1>5. QED  BY <1>2, <1>3, <1>4 DEF Told

LEMMA BlocksLater ==
    ASSUME NEW S, NEW out \in Int, NEW e \in Int, out < e,
           NEW q, BlocksOK(q, S, out)
    PROVE  BlocksOK(q, S \cup {e}, e)
<1>1. PICK P : /\ q \in Seq(P)
               /\ \A m \in P : \A x \in m.reports.xr : BlockOK(x, S, out)
  BY DEF BlocksOK
<1>2. \A m \in P : \A x \in m.reports.xr : BlockOK(x, S \cup {e}, e)
  BY <1>1, BlockLater
<1>3. QED  BY <1>1, <1>2 DEF BlocksOK

(* The receiver starts its report again.                                   *)
LEMMA ResetFacts ==
    ASSUME NEW l \in LossCtx
    PROVE  /\ LossReset(l) \in LossCtx
           /\ LossReset(l).count = 0 /\ LossReset(l).flags = {}
           /\ LossReset(l).start = l.start /\ LossReset(l).end = l.end
<1> DEFINE a == [l EXCEPT !.count = 0]
           b == [a EXCEPT !.flags = {}]
           c == [b EXCEPT !.sure = TRUE]
<1>1. a \in LossCtx /\ a.start = l.start /\ a.end = l.end /\ a.count = 0
  BY DEF LossCtx
<1>2. b \in LossCtx /\ b.start = l.start /\ b.end = l.end /\ b.count = 0 /\ b.flags = {}
  <2> HIDE DEF a
  <2>1. QED  BY <1>1 DEF LossCtx
<1>3. c \in LossCtx /\ c.start = l.start /\ c.end = l.end /\ c.count = 0 /\ c.flags = {}
  <2> HIDE DEF b
  <2>1. QED  BY <1>2 DEF LossCtx
<1>4. LossReset(l) = c
  BY DEF LossReset
<1> HIDE DEF c
<1>5. QED  BY <1>3, <1>4

LEMMA ResetKeeps ==
    ASSUME NEW l, NEW S, NEW out, LossOK(l, S, out), NEW T, NEW e
    PROVE  LossOK(LossReset(l), T, e)
<1>1. l \in LossCtx /\ l.start <= l.end
  BY DEF LossOK
<1>2. PICK r \in LossCtx : /\ r = LossReset(l) /\ r.count = 0 /\ r.flags = {}
                          /\ r.start <= r.end
  BY <1>1, ResetFacts
<1>3. LossOK(r, T, e)
  BY <1>2 DEF LossOK
<1>4. QED  BY <1>2, <1>3

LEMMA BitsType ==
    ASSUME NEW l \in LossCtx, NEW e \in Nat
    PROVE  BitsFor(l, e) \in Nat /\ BitsFor(l, e) > 0
<1>1. /\ l.bits \in Nat /\ FlagBits \in Nat /\ FlagBits > 0
      /\ SeqRing \in Nat /\ SeqRing > 0
  BY RtcpAssumption, SeqNumAssumption DEF LossCtx
<1>2. Grown(l.bits) \in Nat /\ Grown(l.bits) > 0
  BY <1>1 DEF Grown
<1>3. QED  BY <1>1, <1>2 DEF BitsFor

(* A packet taken is flagged, if there is room for its flag.               *)
LEMMA SetKeeps ==
    ASSUME NEW l, NEW S, NEW out \in Int, LossOK(l, S, out),
           S \subseteq Nat, \A f \in S : f <= out,
           NEW e \in Nat, out < e,
           NEW garbage, garbage \subseteq l.bits .. BitsFor(l, e) - 1
    PROVE  LossOK(LossReportSet(l, e, garbage), S \cup {e}, e)
<1>1. CASE TooLong(l)
  <2>1. LossReportSet(l, e, garbage) = LossReset(l)
    BY <1>1 DEF LossReportSet
  <2>2. QED  BY <2>1, ResetKeeps
<1>2. CASE ~TooLong(l)
  <2>1. PICK start, bits, place, flags, sure, close :
           /\ start = IF l.count = 0 THEN e ELSE l.start
           /\ bits = BitsFor(l, e)
           /\ place = e - start
           /\ flags = l.flags \cup garbage \cup ({place} \cap 0 .. bits - 1)
           /\ sure = (l.sure /\ bits = l.bits)
           /\ close = (\/ l.count = 0
                       \/ l.close /\ e - l.end <= l.bits /\ e - start < SeqRing)
    OBVIOUS
  <2>2. PICK r : r = [count |-> l.count + 1, start |-> start, end |-> e,
                      flags |-> flags, bits |-> bits, sure |-> sure, close |-> close]
    OBVIOUS
  <2>3. LossReportSet(l, e, garbage) = r
    <3>1. l.count = 0 => place = 0
      BY <2>1
    <3>2. LossReportSet(l, e, garbage) = WithFlag(l, e, place, garbage)
      BY <1>2, <2>1, <3>1 DEF LossReportSet
    <3>3. QED  BY <2>1, <2>2, <3>2 DEF WithFlag
  <2>4. /\ l \in LossCtx /\ l.count \in Nat /\ l.start \in Nat /\ l.end \in Nat
        /\ l.flags \subseteq Int /\ l.sure \in BOOLEAN /\ l.close \in BOOLEAN
        /\ l.bits \in Nat
    BY DEF LossOK, LossCtx
  <2>0. /\ start = IF l.count = 0 THEN e ELSE l.start
        /\ bits = BitsFor(l, e) /\ place = e - start
        /\ flags = l.flags \cup garbage \cup ({place} \cap 0 .. bits - 1)
        /\ l.count \in Nat /\ l.start \in Nat /\ l.end \in Nat /\ l.bits \in Nat
    BY <2>1, <2>4
  <2>5. /\ bits \in Nat /\ bits > 0 /\ start \in Nat /\ place \in Int /\ start <= e
        /\ 0 <= place /\ start + place = e
    <3>1. bits \in Nat /\ bits > 0
      BY <2>1, <2>4, BitsType
    <3>2. start \in Nat /\ start <= e
      BY <2>1, <2>4 DEF LossOK
    <3>3. QED  BY <2>1, <3>1, <3>2
  <2>6. /\ flags \in SUBSET Int /\ sure \in BOOLEAN /\ close \in BOOLEAN
        /\ garbage \subseteq l.bits .. bits - 1
    <3>1. garbage \subseteq l.bits .. bits - 1
      BY <2>0
    <3>2. garbage \subseteq Int
      BY <2>0, <2>5, <3>1
    <3>3. flags \subseteq Int
      BY <2>0, <2>4, <2>5, <3>2
    <3>4. sure \in BOOLEAN /\ close \in BOOLEAN
      BY <2>1, <2>4
    <3>5. QED  BY <3>1, <3>3, <3>4
  <2>7. place < bits => place \in flags
    BY <2>1, <2>5
  <2>8. ASSUME NEW k \in Int
        PROVE  k \in Seen(S \cup {e}, start, e) <=>
                  k = place \/ (l.count > 0 /\ k \in Seen(S, start, out))
    <3>1. start + k \in S => start + k <= out
      OBVIOUS
    <3>2. CASE l.count = 0
      BY <2>1, <2>4, <2>5, <3>1, <3>2 DEF Seen
    <3>3. CASE l.count > 0
      <4>1. start = l.start /\ start <= out
        BY <2>0, <3>3 DEF LossOK
      <4>2. k \in Seen(S \cup {e}, start, e) <=>
               0 <= k /\ k <= e - start /\ (start + k \in S \/ start + k = e)
        BY <2>5 DEF Seen
      <4>3. k \in Seen(S, start, out) <=> 0 <= k /\ k <= out - start /\ start + k \in S
        BY <2>5 DEF Seen
      <4>4. start + k = e <=> k = place
        BY <2>5
      <4>5. QED  BY <2>5, <3>1, <3>3, <4>1, <4>2, <4>3, <4>4
    <3>4. QED  BY <2>0, <3>2, <3>3
  <2>9. l.count > 0 =>
           /\ start = l.start /\ l.end = out /\ l.start <= l.end
           /\ l.close => l.end - l.start < l.bits
           /\ Told(S, start, out, l.flags, l.bits, l.close, l.sure)
    BY <2>1, <2>4 DEF LossOK
  <2>10. close => place < bits
    <3>1. CASE l.count = 0
      BY <2>1, <2>4, <2>5, <3>1
    <3>2. CASE l.count > 0 /\ close
      <4>1. /\ l.end - l.start < l.bits /\ e - l.end <= l.bits /\ place < SeqRing
            /\ place = e - l.start
        <5>1. l.count # 0
          BY <2>0, <3>2
        <5>2. /\ l.close /\ e - l.end <= l.bits /\ e - start < SeqRing
          BY <2>1, <3>2, <5>1, Zenon
        <5>3. QED  BY <2>0, <2>9, <3>2, <5>2
      <4>2. place < 2 * l.bits /\ l.bits # 0
        BY <2>0, <2>9, <3>2, <4>1
      <4>3. SeqRing \in Nat
        BY SeqNumAssumption
      <4>4. QED  BY <2>0, <2>5, <3>2, <4>1, <4>2, <4>3 DEF BitsFor, Grown
    <3>3. QED  BY <2>4, <3>1, <3>2
  <2>11. ASSUME close, NEW k \in Seen(S \cup {e}, start, e), k < bits
         PROVE  k \in flags
    <3>1. k \in Int
      BY <2>5 DEF Seen
    <3>2. CASE k = place
      BY <2>7, <2>11, <3>2
    <3>3. CASE l.count > 0 /\ k \in Seen(S, start, out)
      <4>0. l.close
        <5>1. l.count # 0
          BY <2>0, <3>3
        <5>2. QED  BY <2>1, <2>11, <5>1, Zenon
      <4>1. k <= out - start /\ l.close
        BY <2>5, <3>3, <4>0 DEF Seen
      <4>2. k < l.bits
        <5>1. out - start < l.bits
          BY <2>9, <3>3, <4>1
        <5>2. QED  BY <2>0, <2>5, <3>1, <4>1, <5>1
      <4>3. k \in l.flags
        BY <2>9, <3>3, <4>1, <4>2 DEF Told
      <4>4. QED  BY <2>1, <4>3
    <3>4. QED  BY <2>8, <2>11, <3>1, <3>2, <3>3
  <2>12. ASSUME sure, NEW k \in 0 .. bits - 1
         PROVE  k \in flags <=> k \in Seen(S \cup {e}, start, e)
    <3>1. l.sure /\ bits = l.bits /\ garbage = {} /\ k \in Int
      <4>1. l.sure /\ bits = l.bits
        BY <2>1, <2>12
      <4>2. garbage \subseteq bits .. bits - 1
        BY <2>6, <4>1
      <4>3. garbage = {}
        BY <2>5, <4>2
      <4>4. QED  BY <2>5, <2>12, <4>1, <4>3
    <3>2. k \in flags <=> k \in l.flags \/ k = place
      BY <2>1, <2>5, <2>12, <3>1
    <3>3. CASE l.count = 0
      <4>1. l.flags = {}
        BY <3>3 DEF LossOK
      <4>2. QED  BY <2>4, <2>8, <3>1, <3>2, <3>3, <4>1
    <3>4. CASE l.count > 0
      <4>1. k \in l.flags <=> k \in Seen(S, start, out)
        BY <2>9, <2>12, <3>1, <3>4 DEF Told
      <4>2. QED  BY <2>8, <3>1, <3>2, <3>4, <4>1
    <3>5. QED  BY <2>4, <3>3, <3>4
  <2>13. Told(S \cup {e}, start, e, flags, bits, close, sure)
    BY <2>11, <2>12 DEF Told
  <2>14. r \in LossCtx /\ r.count # 0 /\ r.start = start /\ r.end = e
         /\ r.flags = flags /\ r.bits = bits /\ r.sure = sure /\ r.close = close
    BY <2>2, <2>4, <2>5, <2>6 DEF LossCtx
  <2>15. close => e - start < bits
    BY <2>1, <2>10
  <2>16. LossOK(r, S \cup {e}, e)
    BY <2>5, <2>13, <2>14, <2>15 DEF LossOK
  <2>17. QED  BY <2>3, <2>16
<1>3. QED  BY <1>1, <1>2

(* A block of a report that leaves room for a source description.          *)
LEMMA BlockMade ==
    ASSUME ShortBlocks, NEW l, NEW S, NEW out \in Int, LossOK(l, S, out),
           NEW beyond, beyond \subseteq l.bits .. Span(l) - 1,
           ReportSize(l) <= MaxPacketSize - Sizes.rr - LeastSdes
    PROVE  BlockOK(LossBlock(l, beyond), S, out)
<1>1. PICK x, m : /\ x = LossBlock(l, beyond)
                  /\ m = [l EXCEPT !.flags = l.flags \cup beyond]
  OBVIOUS
<1>2. /\ x.begin = l.start % SeqRing /\ x.end = ((l.end % SeqRing) + 1) % SeqRing
      /\ x.chunks = Chunks(m) /\ x.from = l.start /\ x.last = l.end
      /\ x.bits = l.bits /\ x.empty = (l.count = 0) /\ x.sure = l.sure
      /\ x.close = l.close
  BY <1>1 DEF LossBlock
<1>3. CASE l.count = 0
  BY <1>1, <1>2, <1>3 DEF BlockOK
<1>4. CASE l.count # 0
  <2>1. /\ l \in LossCtx /\ l.count \in Nat /\ l.start \in Nat /\ l.end \in Nat
        /\ l.bits \in Nat /\ l.flags \subseteq Int
        /\ l.sure \in BOOLEAN /\ l.close \in BOOLEAN
    BY DEF LossOK, LossCtx
  <2>2. /\ l.start <= l.end /\ l.end = out
        /\ Told(S, l.start, l.end, l.flags, l.bits, l.close, l.sure)
    BY <1>4, <2>1 DEF LossOK
  <2>3. PICK size \in Nat : size = l.end - l.start + 1
    BY <2>1, <2>2
  <2>4. beyond \subseteq l.bits .. size - 1
    BY <2>3 DEF Span
  <2>5. /\ m \in LossCtx /\ m.start = l.start /\ m.end = l.end
        /\ m.flags = l.flags \cup beyond
    <3>1. l.flags \cup beyond \in SUBSET Int
      <4>1. beyond \subseteq Int
        BY <2>1, <2>3, <2>4
      <4>2. QED  BY <2>1, <4>1
    <3>2. PICK f : f = l.flags \cup beyond
      OBVIOUS
    <3>3. m = [l EXCEPT !.flags = f] /\ f \in SUBSET Int
      BY <1>1, <3>1, <3>2
    <3>4. QED  BY <2>1, <3>2, <3>3 DEF LossCtx
  <2>6. Flags(x.chunks, size) = {k \in 0 .. size - 1 : k \in l.flags \/ k \in beyond}
    <3>1. Flags(Chunks(m), size) = {k \in 0 .. l.end - l.start : k \in m.flags}
      BY <2>2, <2>3, <2>5, ChunksRead
    <3>2. l.end - l.start = size - 1
      BY <2>1, <2>3
    <3>3. QED  BY <1>2, <2>5, <3>1, <3>2
  <2>7. size < SeqRing
    <3>1. PICK N \in Nat : N = Len(Chunks(l)) /\ size <= N * ChunkBits
      BY <2>1, <2>2, <2>3, ChunksRead
    <3>2. PICK C \in Nat, c \in Nat \ {0}, room \in Int :
             /\ C = ChunkBits /\ c = Sizes.chunk
             /\ room = MaxPacketSize - Sizes.rr - Sizes.xr - LeastSdes
      <4>1. "chunk" \in DOMAIN Sizes /\ "rr" \in DOMAIN Sizes /\ "xr" \in DOMAIN Sizes
        BY SizesAssumption
      <4>2. /\ Sizes.chunk \in Nat \ {0} /\ Sizes.rr \in Nat \ {0}
            /\ Sizes.xr \in Nat \ {0} /\ MaxPacketSize \in Nat
        BY <4>1, SizesAssumption
      <4>3. PICK room \in Int : room = MaxPacketSize - Sizes.rr - Sizes.xr - LeastSdes
        BY <4>2 DEF LeastSdes
      <4>4. ChunkBits \in Nat
        BY RtcpAssumption
      <4>5. QED  BY <4>2, <4>3, <4>4
    <3>3. c * N <= room
      <4>1. Sizes.rr \in Nat /\ Sizes.xr \in Nat /\ MaxPacketSize \in Nat
        <5>1. "rr" \in DOMAIN Sizes /\ "xr" \in DOMAIN Sizes
          BY SizesAssumption
        <5>2. QED  BY <5>1, SizesAssumption
      <4>2. Sizes.xr + c * N <= MaxPacketSize - Sizes.rr - LeastSdes
        BY <3>1, <3>2 DEF ReportSize
      <4>3. c * N \in Nat
        BY <3>1, <3>2
      <4>4. QED  BY <3>2, <4>1, <4>2, <4>3 DEF LeastSdes
    <3>4. PICK most \in Nat : most = room \div c /\ N <= most
      <4>1. room \div c \in Int /\ room < c * (room \div c) + c
        BY <3>2
      <4>2. PICK d \in Int : d = room \div c /\ room < c * d + c
        BY <4>1
      <4>3. c * N < c * (d + 1)
        <5>1. c * (d + 1) = c * d + c
          BY <3>2, <4>2
        <5>2. c * N \in Int /\ c * d \in Int
          BY <3>1, <3>2, <4>2
        <5>3. QED  BY <3>2, <3>3, <4>2, <5>1, <5>2
      <4>4. N < d + 1
        <5>1. SUFFICES ASSUME N >= d + 1 PROVE FALSE
          BY <3>1, <4>2
        <5>2. c * N >= c * (d + 1)
          BY <3>1, <3>2, <4>2, <5>1
        <5>3. c * N \in Int /\ c * (d + 1) \in Int
          BY <3>1, <3>2, <4>2
        <5>4. QED  BY <4>3, <5>2, <5>3
      <4>5. QED  BY <3>1, <4>2, <4>4
    <3>5. N * C <= most * C /\ N * C \in Nat /\ most * C \in Nat
      <4>1. N \in Nat /\ most \in Nat /\ N <= most /\ C \in Nat
        BY <3>1, <3>2, <3>4
      <4>2. QED  BY <4>1
    <3>6. most * C < SeqRing
      BY <3>2, <3>4 DEF ShortBlocks
    <3>7. QED  BY <2>3, <3>1, <3>2, <3>4, <3>5, <3>6, SeqNumAssumption
  <2>8. Told(S, l.start, l.end, Flags(x.chunks, size), l.bits, l.close, l.sure)
    <3>1. \A k \in Seen(S, l.start, l.end) : k \in 0 .. size - 1
      BY <2>1, <2>3 DEF Seen
    <3>2. ASSUME l.close, NEW k \in Seen(S, l.start, l.end), k < l.bits
          PROVE  k \in Flags(x.chunks, size)
      BY <2>2, <2>6, <3>1, <3>2 DEF Told
    <3>3. ASSUME l.sure, NEW k \in 0 .. l.bits - 1
          PROVE  k \in Flags(x.chunks, size) <=> k \in Seen(S, l.start, l.end)
      <4>1. k \notin beyond
        BY <2>1, <2>4
      <4>2. k \in l.flags <=> k \in Seen(S, l.start, l.end)
        BY <2>2, <3>3 DEF Told
      <4>3. QED  BY <2>6, <3>1, <4>1, <4>2
    <3>4. QED  BY <3>2, <3>3 DEF Told
  <2>9. About(x, out)
    BY <1>2, <2>1, <2>2 DEF About
  <2>10. BlockOK(x, S, out)
    BY <1>2, <2>3, <2>7, <2>8, <2>9 DEF BlockOK
  <2>11. QED  BY <1>1, <2>10
<1>5. QED  BY <1>3, <1>4

(* A block is read.                                                        *)
LEMMA DecodeKeeps ==
    ASSUME NEW r, NEW S, NEW out \in Int, NEW x, BlockOK(x, S, out),
           r.bits \in Nat, r.mem \in Nat
    PROVE  ReportOK(DecodeLoss(r, x), S, out)
<1> DEFINE end == (IF x.end < x.begin THEN x.end + SeqRing ELSE x.end) - 1
           count == end - x.begin + 1
           grow == r.bits = 0 \/ count >= r.bits
           d == DecodeLoss(r, x)
<1>1. Grown(r.bits) \in Nat
  BY RtcpAssumption, SeqNumAssumption DEF Grown
<1>2. /\ d.bits \in Nat /\ d.mem \in Nat
      /\ \/ d.block = {}
         \/ /\ d.block = {x} /\ d.start = x.begin /\ d.count = count
            /\ d.flags = Flags(x.chunks, count) \cap 0 .. d.mem - 1
  <2> HIDE DEF count
  <2>1. CASE grow /\ 2 * r.bits >= SeqRing
    BY <2>1 DEF DecodeLoss, count
  <2>2. CASE ~(grow /\ 2 * r.bits >= SeqRing) /\ grow
    BY <1>1, <2>2 DEF DecodeLoss, count
  <2>3. CASE ~grow
    BY <1>1, <2>3 DEF DecodeLoss, count
  <2>4. QED  BY <2>1, <2>2, <2>3
<1> HIDE DEF d
<1>3. CASE d.block = {}
  BY <1>2, <1>3 DEF ReportOK, d
<1>4. CASE x.empty
  BY <1>2, <1>4 DEF ReportOK, d
<1>5. CASE ~x.empty /\ d.block # {}
  <2>1. /\ x.from \in Nat /\ x.last \in Nat /\ x.from <= x.last /\ x.bits \in Nat
        /\ About(x, out)
        /\ x.last - x.from + 1 < SeqRing
        /\ x.begin = x.from % SeqRing
        /\ x.end = ((x.last % SeqRing) + 1) % SeqRing
        /\ Told(S, x.from, x.last, Flags(x.chunks, x.last - x.from + 1),
                x.bits, x.close, x.sure)
    BY <1>5 DEF BlockOK, About
  <2>2. count = x.last - x.from + 1
    BY <2>1, EndsTell
  <2> HIDE DEF count
  <2>3. PICK flags : flags = Flags(x.chunks, x.last - x.from + 1)
    OBVIOUS
  <2>4. /\ d.block = {x} /\ d.start = x.from % SeqRing
        /\ d.count = x.last - x.from + 1
        /\ d.flags = flags \cap 0 .. d.mem - 1
        /\ d.bits \in Nat /\ d.mem \in Nat
    BY <1>2, <1>5, <2>1, <2>2, <2>3
  <2>5. PICK held \in Nat : held = Held(x, d.mem) /\ held <= x.bits /\ held <= d.mem
    BY <2>1, <2>4 DEF Held
  <2>6. Told(S, x.from, x.last, d.flags, held, x.close, x.sure)
    <3>1. \A k \in Seen(S, x.from, x.last) : k \in Nat
      BY <2>1 DEF Seen
    <3>2. ASSUME x.close, NEW k \in Seen(S, x.from, x.last), k < held
          PROVE  k \in d.flags
      <4>1. k \in flags
        BY <2>1, <2>3, <2>5, <3>1, <3>2 DEF Told
      <4>2. QED  BY <2>4, <2>5, <3>1, <3>2, <4>1
    <3>3. ASSUME x.sure, NEW k \in 0 .. held - 1
          PROVE  k \in d.flags <=> k \in Seen(S, x.from, x.last)
      <4>1. k \in 0 .. x.bits - 1 /\ k \in 0 .. d.mem - 1
        BY <2>1, <2>4, <2>5
      <4>2. k \in flags <=> k \in Seen(S, x.from, x.last)
        BY <2>1, <2>3, <3>3, <4>1 DEF Told
      <4>3. QED  BY <2>4, <4>1, <4>2
    <3>4. QED  BY <3>2, <3>3 DEF Told
  <2>7. ReportOK(d, S, out)
    BY <2>1, <2>4, <2>5, <2>6 DEF ReportOK
  <2>8. QED  BY <2>7 DEF d
<1>6. QED  BY <1>3, <1>4, <1>5

-----------------------------------------------------------------------------
(* The loss reports in the composition.                                    *)

LEMMA LossesInit ==
    ASSUME RtcpInit
    PROVE  LossesOK
<1>1. /\ highest = 0 /\ previous = -1 /\ waiting = {} /\ taken = {} /\ lastOut = -1
      /\ loss = NoLoss /\ report = NoReport
      /\ DOMAIN net = Sides /\ net["sender"] = <<>> /\ making["receiver"] = {}
  BY DEF RtcpInit, Init, NoPrevious, Sides
<1>2. LossOK(loss, taken, lastOut)
  <2>1. /\ NoLoss \in LossCtx /\ NoLoss.count = 0 /\ NoLoss.flags = {}
        /\ NoLoss.start <= NoLoss.end
    BY DEF NoLoss, LossCtx
  <2>2. QED  BY <1>1, <2>1 DEF LossOK
<1>3. ReportOK(report, taken, lastOut)
  BY <1>1 DEF NoReport, ReportOK
<1>4. BlocksOK(net["sender"], taken, lastOut)
  <2>1. PICK P : P = {}
    OBVIOUS
  <2>2. <<>> \in Seq(P)
    OBVIOUS
  <2>3. \A m \in P : \A x \in m.reports.xr : BlockOK(x, taken, lastOut)
    BY <2>1
  <2>4. QED  BY <1>1, <2>2, <2>3 DEF BlocksOK
<1>5. MadeBlocksOK(making["receiver"], taken, lastOut)
  BY <1>1 DEF MadeBlocksOK
<1>6. QED  BY <1>1, <1>2, <1>3, <1>4, <1>5, SeqNumsExtend DEF LossesOK

LEMMA LossesSame ==
    ASSUME LossesOK, UNCHANGED <<highest, previous, queueVars, report>>,
           net'["sender"] = net["sender"], DOMAIN net' = Sides,
           MadeBlocksOK(making'["receiver"], taken, lastOut)
    PROVE  LossesOK'
<1>1. /\ waiting' = waiting /\ lastOut' = lastOut /\ loss' = loss /\ taken' = taken
  BY DEF queueVars
<1>2. QED  BY <1>1 DEF LossesOK

(* A packet arrives.                                                       *)
LEMMA ArriveLosses ==
    ASSUME LossesOK, NEW n \in Arrivals, Arrive(n)
    PROVE  LossesOK'
<1> DEFINE e == NextExt(n % SeqRing, highest, previous)
<1>1. n \in Nat
  BY WindowAssumption DEF Arrivals
<1>2. n % SeqRing \in SeqNums
  BY <1>1, ModRange, SeqNumAssumption DEF SeqNums
<1>3. e \in ExtNums
  BY <1>2, ExtendType, SeqNumsExtend DEF NextExt, LossesOK
<1>4. /\ waiting' = waiting \cup {e}
      /\ highest' = NextHighest(e, highest, previous) /\ previous' = ToInt32(e)
      /\ UNCHANGED <<lastOut, loss, taken, report, net, making>>
  BY DEF Arrive, Receive, reportVars, itemVars, linkVars
<1> HIDE DEF e
<1>5. highest' \in ExtNums /\ previous' \in Int
  BY <1>3, <1>4, ToInt32Type DEF NextHighest, LossesOK
<1>6. waiting' \subseteq Nat
  BY <1>3, <1>4 DEF ExtNums, LossesOK
<1>7. QED  BY <1>4, <1>5, <1>6 DEF LossesOK

(* A packet is taken, or dropped for being late.                           *)
LEMMA DepayloadLosses ==
    ASSUME LossesOK, NEW e \in waiting, NEW garbage \in Garbage(e),
           Depayload(e, garbage)
    PROVE  LossesOK'
<1>1. /\ waiting' = waiting \ {e} /\ UNCHANGED <<highest, previous, report, net, making>>
      /\ making["receiver"] = {}
      /\ e \in Nat /\ lastOut \in Int /\ taken \subseteq Nat
      /\ \A f \in taken : f <= lastOut
      /\ LossOK(loss, taken, lastOut)
  BY DEF Depayload, Free, numberVars, reportVars, itemVars, linkVars, LossesOK
<1>2. CASE e <= lastOut
  BY <1>1, <1>2 DEF Depayload, LossesOK
<1>3. CASE ~(e <= lastOut)
  <2>1. /\ loss' = LossReportSet(loss, e, garbage) /\ lastOut' = e
        /\ taken' = taken \cup {e}
    BY <1>3 DEF Depayload
  <2>2. lastOut < e
    BY <1>1, <1>3
  <2>3. LossOK(loss', taken \cup {e}, e)
    <3>1. CASE TooLong(loss)
      <4>1. loss' = LossReset(loss)
        BY <2>1, <3>1 DEF LossReportSet
      <4>2. QED  BY <1>1, <4>1, ResetKeeps
    <3>2. CASE ~TooLong(loss)
      <4>1. garbage \subseteq loss.bits .. BitsFor(loss, e) - 1
        BY <1>3, <3>2 DEF Garbage
      <4>2. QED  BY <1>1, <2>1, <2>2, <4>1, SetKeeps
    <3>3. QED  BY <3>1, <3>2
  <2>4. ReportOK(report, taken \cup {e}, e)
    BY <1>1, <2>2, ReportLater DEF LossesOK
  <2>5. BlocksOK(net["sender"], taken \cup {e}, e)
    BY <1>1, <2>2, BlocksLater DEF LossesOK
  <2>6. /\ taken \cup {e} \subseteq Nat /\ e \in Int
        /\ \A f \in taken \cup {e} : f <= e
    <3>1. e \in Nat /\ lastOut \in Int /\ taken \subseteq Nat
      BY <1>1
    <3>2. \A f \in taken : f <= lastOut
      BY <1>1
    <3>3. QED  BY <2>2, <3>1, <3>2
  <2>7. MadeBlocksOK(making'["receiver"], taken', lastOut')
    BY <1>1 DEF MadeBlocksOK
  <2>8. QED  BY <1>1, <2>1, <2>3, <2>4, <2>5, <2>6, <2>7 DEF LossesOK
<1>4. QED  BY <1>2, <1>3

LEMMA ReportSizeType ==
    ASSUME NEW l \in LossCtx, l.start <= l.end
    PROVE  ReportSize(l) \in Nat
<1>1. PICK N \in Nat : N = Len(Chunks(l))
  BY ChunksRead
<1>2. Sizes.xr \in Nat /\ Sizes.chunk \in Nat
  <2>1. "xr" \in DOMAIN Sizes /\ "chunk" \in DOMAIN Sizes
    BY SizesAssumption
  <2>2. QED  BY <2>1, SizesAssumption
<1>3. QED  BY <1>1, <1>2 DEF ReportSize

(* The receiver's compound packet is begun.                                *)
LEMMA ReportLosses ==
    ASSUME ShortBlocks, TellingsOK, LossesOK, NEW withLoss \in BOOLEAN,
           NEW beyond \in Beyond(withLoss), ReceiverReport(withLoss, beyond)
    PROVE  LossesOK'
<1>1. PICK room, size, msg :
         /\ room = MaxPacketSize - Sizes.rr - (IF HasBlock THEN Sizes.block ELSE 0)
         /\ size = MaxPacketSize - room + (IF withLoss THEN ReportSize(loss) ELSE 0)
         /\ msg = [block |-> HasBlock,
                   xr |-> IF withLoss THEN {LossBlock(loss, beyond)} ELSE {}]
         /\ BeginCompound("receiver", msg, size)
         /\ loss' = IF withLoss THEN LossReset(loss) ELSE loss
         /\ UNCHANGED <<highest, previous, waiting, lastOut, taken, report, net>>
  BY DEF ReceiverReport, numberVars, linkVars
<1>2. /\ LossOK(loss, taken, lastOut) /\ lastOut \in Int /\ loss \in LossCtx
      /\ loss.start <= loss.end
      /\ DOMAIN making = Sides /\ "receiver" \in Sides
  BY DEF LossesOK, LossOK, TellingsOK, TablesOK, Sides
<1>3. LossOK(loss', taken, lastOut)
  BY <1>1, <1>2, ResetKeeps
<1>4. MadeBlocksOK(making'["receiver"], taken, lastOut)
  <2>1. PICK p : /\ p.room = MaxPacketSize - size /\ p.reports = msg
                 /\ making'["receiver"] = {} \/ making'["receiver"] = {p}
    <3>1. PICK q : q = [reports |-> msg, room |-> MaxPacketSize - size,
                        time |-> ClockOf("receiver"), next |-> 1,
                        count |-> Len(own["receiver"]), size |-> SdesHeader,
                        copied |-> FALSE, items |-> <<>>]
      OBVIOUS
    <3>2. q.room = MaxPacketSize - size /\ q.reports = msg
      BY <3>1
    <3>3. making' = [making EXCEPT !["receiver"] =
                       IF size + SdesHeader + 1 > MaxPacketSize THEN {} ELSE {q}]
      BY <1>1, <3>1 DEF BeginCompound
    <3>4. QED  BY <1>2, <3>2, <3>3
  <2>2. PICK rr \in Nat, block \in Nat, M \in Nat, R \in Nat :
           /\ rr = Sizes.rr /\ M = MaxPacketSize
           /\ block = IF HasBlock THEN Sizes.block ELSE 0
           /\ R = ReportSize(loss)
    <3>1. "rr" \in DOMAIN Sizes /\ "block" \in DOMAIN Sizes
      BY SizesAssumption
    <3>2. Sizes.rr \in Nat /\ Sizes.block \in Nat /\ MaxPacketSize \in Nat
      BY <3>1, SizesAssumption
    <3>3. ReportSize(loss) \in Nat
      BY <1>2, ReportSizeType
    <3>4. QED  BY <3>2, <3>3
  <2>3. /\ p.room = M - (M - (M - rr - block) + (IF withLoss THEN R ELSE 0))
        /\ p.room \in Int
    BY <1>1, <2>1, <2>2
  <2>4. ASSUME p.room >= LeastSdes, NEW x \in p.reports.xr
        PROVE  BlockOK(x, taken, lastOut)
    <3>1. withLoss /\ x = LossBlock(loss, beyond)
      BY <1>1, <2>1, <2>4
    <3>2. beyond \subseteq loss.bits .. Span(loss) - 1
      BY <3>1 DEF Beyond
    <3>3. ReportSize(loss) <= MaxPacketSize - Sizes.rr - LeastSdes
      BY <2>4, <2>2, <2>3, <3>1 DEF LeastSdes
    <3>4. QED  BY <1>2, <3>1, <3>2, <3>3, BlockMade
  <2>5. QED  BY <2>1, <2>4, <2>3 DEF MadeBlocksOK
<1>5. QED  BY <1>1, <1>3, <1>4 DEF LossesOK

(* An item is copied, or marked.                                           *)
LEMMA WriteLosses ==
    ASSUME TellingsOK, LossesOK, NEW s \in Sides,
           (\E elapsed \in BOOLEAN : CopyItem(s, elapsed)) \/ MarkItem(s)
    PROVE  LossesOK'
<1>1. \A p \in making[s] : IsPacket(p)
  BY DEF TellingsOK, TellingOK, MadeTold, PacketOK, Telling
<1>2. PICK p, q : /\ p \in making[s] /\ making' = [making EXCEPT ![s] = {q}]
                  /\ SameReport(p, q)
  BY <1>1, PacketSteps
<1>3. UNCHANGED <<highest, previous, queueVars, report, net>>
  BY DEF CopyItem, MarkItem, numberVars, reportVars, linkVars
<1>4. DOMAIN making = Sides /\ DOMAIN net = Sides
  BY DEF TellingsOK, TablesOK
<1>5. MadeBlocksOK(making'["receiver"], taken, lastOut)
  <2>1. CASE s = "receiver"
    <3>1. making'["receiver"] = {q}
      BY <1>2, <1>4, <2>1
    <3>2. MadeBlocksOK(making["receiver"], taken, lastOut)
      BY DEF LossesOK
    <3>3. QED  BY <1>2, <2>1, <3>1, <3>2 DEF MadeBlocksOK, SameReport
  <2>2. CASE s # "receiver"
    <3>1. making'["receiver"] = making["receiver"]
      BY <1>2, <1>4, <2>2 DEF Sides
    <3>2. QED  BY <3>1 DEF LossesOK
  <2>3. QED  BY <2>1, <2>2
<1>6. QED  BY <1>3, <1>4, <1>5, LossesSame

(* A packet is sent.                                                       *)
LEMMA SendLosses ==
    ASSUME TellingsOK, LossesOK, NEW s \in Sides, SendCompound(s)
    PROVE  LossesOK'
<1>1. PICK p, fits, m :
         /\ p \in making[s]
         /\ fits = (p.size + Padding(p.size) <= p.room)
         /\ m.reports = p.reports
         /\ making' = [making EXCEPT ![s] = {}]
         /\ net' = IF fits THEN [net EXCEPT ![Peer(s)] = Append(net[Peer(s)], m)] ELSE net
  <2>1. PICK p \in making[s] :
           /\ making' = [making EXCEPT ![s] = {}]
           /\ \/ /\ p.size + Padding(p.size) <= p.room
                 /\ \E app : net' = [net EXCEPT ![Peer(s)] =
                          Append(net[Peer(s)],
                                 [reports |-> p.reports, sdes |-> p.items, app |-> app])]
              \/ ~(p.size + Padding(p.size) <= p.room) /\ net' = net
    BY DEF SendCompound
  <2>2. CASE p.size + Padding(p.size) <= p.room
    <3>1. PICK app : net' = [net EXCEPT ![Peer(s)] =
                          Append(net[Peer(s)],
                                 [reports |-> p.reports, sdes |-> p.items, app |-> app])]
      BY <2>1, <2>2
    <3>2. PICK m : m = [reports |-> p.reports, sdes |-> p.items, app |-> app]
      OBVIOUS
    <3>3. m.reports = p.reports
      BY <3>2
    <3>4. net' = [net EXCEPT ![Peer(s)] = Append(net[Peer(s)], m)]
      BY <3>1, <3>2
    <3>5. QED  BY <2>1, <2>2, <3>3, <3>4
  <2>3. CASE ~(p.size + Padding(p.size) <= p.room)
    <3>1. PICK m : m = [reports |-> p.reports]
      OBVIOUS
    <3>2. PICK fits \in BOOLEAN : fits = FALSE
      OBVIOUS
    <3>3. m.reports = p.reports
      BY <3>1
    <3>4. fits = (p.size + Padding(p.size) <= p.room)
      BY <2>3, <3>2
    <3>5. net' = IF fits THEN [net EXCEPT ![Peer(s)] = Append(net[Peer(s)], m)] ELSE net
      BY <2>1, <2>3, <3>2
    <3>6. QED  BY <2>1, <3>3, <3>4, <3>5
  <2>4. QED  BY <2>2, <2>3
<1>2. UNCHANGED <<highest, previous, queueVars, report>>
  BY DEF SendCompound, numberVars, reportVars
<1>3. /\ DOMAIN making = Sides /\ DOMAIN net = Sides /\ Peer(s) \in Sides
      /\ "sender" \in Sides /\ "receiver" \in Sides
  BY Peers DEF TellingsOK, TablesOK, Sides
<1>4. DOMAIN net' = Sides
  BY <1>1, <1>3
<1>5. MadeBlocksOK(making'["receiver"], taken, lastOut)
  <2>1. CASE s = "receiver"
    BY <1>1, <1>3, <2>1 DEF MadeBlocksOK
  <2>2. CASE s # "receiver"
    <3>1. making'["receiver"] = making["receiver"]
      BY <1>1, <1>3, <2>2
    <3>2. QED  BY <3>1 DEF LossesOK
  <2>3. QED  BY <2>1, <2>2
<1>6. CASE ~(s = "receiver" /\ fits)
  <2>1. net'["sender"] = net["sender"]
    <3>1. CASE ~fits
      BY <1>1, <3>1
    <3>2. CASE s # "receiver"
      <4>1. Peer(s) # "sender"
        BY <3>2, Peers DEF Sides
      <4>2. QED  BY <1>1, <1>3, <4>1
    <3>3. QED  BY <1>6, <3>1, <3>2
  <2>2. QED  BY <1>2, <1>4, <1>5, <2>1, LossesSame
<1>7. CASE s = "receiver" /\ fits
  <2>1. PICK q : q = net["sender"] /\ BlocksOK(q, taken, lastOut)
    BY DEF LossesOK
  <2>2. net'["sender"] = Append(q, m)
    BY <1>1, <1>3, <1>7, <2>1, Peers
  <2>3. p.room >= LeastSdes
    <3>1. p.size \in Nat /\ p.size >= SdesHeader
      BY <1>1, <1>7 DEF TellingsOK, TellingOK, MadeTold, PacketOK, Telling
    <3>2. PICK size \in Nat : size = p.size /\ size >= 8
      BY <3>1 DEF SdesHeader
    <3>3. size + (4 - (size % 4)) >= 12 /\ size + (4 - (size % 4)) \in Nat
      BY <3>2
    <3>4. size + (4 - (size % 4)) <= p.room
      BY <1>1, <1>7, <3>2 DEF Padding
    <3>5. p.room \in Int
      BY <1>1, <1>7 DEF LossesOK, MadeBlocksOK
    <3>6. QED  BY <3>3, <3>4, <3>5 DEF LeastSdes
  <2>4. \A x \in m.reports.xr : BlockOK(x, taken, lastOut)
    BY <1>1, <1>7, <2>3 DEF LossesOK, MadeBlocksOK
  <2>5. PICK P : /\ q \in Seq(P)
                 /\ \A y \in P : \A x \in y.reports.xr : BlockOK(x, taken, lastOut)
    BY <2>1 DEF BlocksOK
  <2>6. q \in Seq(P \cup {m})
    BY <2>5
  <2>7. Append(q, m) \in Seq(P \cup {m})
    BY <2>6
  <2>8. \A y \in P \cup {m} : \A x \in y.reports.xr : BlockOK(x, taken, lastOut)
    BY <2>4, <2>5
  <2>9. BlocksOK(net'["sender"], taken, lastOut)
    BY <2>2, <2>7, <2>8 DEF BlocksOK
  <2>10. QED  BY <1>2, <1>4, <1>5, <2>9 DEF LossesOK, queueVars
<1>8. QED  BY <1>6, <1>7

(* A compound packet arrives.                                              *)
LEMMA DeliverLosses ==
    ASSUME LossesOK, NEW s \in Sides, NEW k \in DOMAIN net[s],
           NEW again \in BOOLEAN, NEW old \in BOOLEAN, Deliver(s, k, again, old)
    PROVE  LossesOK'
<1>1. /\ net' = IF again THEN net ELSE [net EXCEPT ![s] = RemoveAt(net[s], k)]
      /\ UNCHANGED <<highest, previous, queueVars>>
      /\ s = "receiver" => report' = report
      /\ making' = making
      /\ MadeBlocksOK(making'["receiver"], taken, lastOut)
  BY DEF Deliver, numberVars, itemVars, LossesOK
<1>2. DOMAIN net = Sides /\ DOMAIN net' = Sides
  BY <1>1 DEF LossesOK
<1>3. CASE s = "receiver"
  <2>1. net'["sender"] = net["sender"]
    BY <1>1, <1>2, <1>3 DEF Sides
  <2>2. QED  BY <1>1, <1>2, <1>3, <2>1, LossesSame
<1>4. CASE s = "sender"
  <2>1. /\ lastOut \in Int /\ ReportOK(report, taken, lastOut)
        /\ report.bits \in Nat /\ report.mem \in Nat
        /\ BlocksOK(net["sender"], taken, lastOut)
    BY DEF LossesOK, ReportOK
  <2>2. PICK P : /\ net["sender"] \in Seq(P)
                 /\ \A y \in P : \A x \in y.reports.xr : BlockOK(x, taken, lastOut)
    BY <2>1 DEF BlocksOK
  <2>3. net["sender"][k] \in P
    BY <1>4, <2>2
  <2>4. BlocksOK(net'["sender"], taken, lastOut)
    <3>1. CASE again
      BY <1>1, <2>1, <3>1
    <3>2. CASE ~again
      <4>1. net'["sender"] = RemoveAt(net["sender"], k)
        BY <1>1, <1>2, <1>4, <3>2
      <4>2. RemoveAt(net["sender"], k) \in Seq(P)
        BY <1>4, <2>2, RemoveAtType
      <4>3. QED  BY <2>2, <4>1, <4>2 DEF BlocksOK
    <3>3. QED  BY <3>1, <3>2
  <2>5. ReportOK(report', taken, lastOut)
    <3> DEFINE xr == net["sender"][k].reports.xr
               x == CHOOSE y \in xr : TRUE
    <3>1. report' = report \/ (xr # {} /\ report' = DecodeLoss(report, x))
      BY <1>4 DEF Deliver, ReadExtendedReport
    <3>2. xr # {} => BlockOK(x, taken, lastOut)
      <4>1. xr # {} => x \in xr
        OBVIOUS
      <4> HIDE DEF x
      <4>2. QED  BY <2>2, <2>3, <4>1
    <3> HIDE DEF x, xr
    <3>3. QED  BY <2>1, <3>1, <3>2, DecodeKeeps
  <2>6. QED  BY <1>1, <1>2, <2>4, <2>5 DEF LossesOK, queueVars
<1>5. QED  BY <1>3, <1>4 DEF Sides

LEMMA LoseLosses ==
    ASSUME LossesOK, NEW s \in Sides, NEW k \in DOMAIN net[s], Lose(s, k)
    PROVE  LossesOK'
<1>1. /\ net' = [net EXCEPT ![s] = RemoveAt(net[s], k)]
      /\ UNCHANGED <<highest, previous, queueVars, report>>
      /\ DOMAIN net = Sides
      /\ MadeBlocksOK(making'["receiver"], taken, lastOut)
  BY DEF Lose, numberVars, reportVars, itemVars, LossesOK
<1>2. DOMAIN net' = Sides
  BY <1>1
<1>3. CASE s # "sender"
  BY <1>1, <1>2, <1>3, LossesSame
<1>4. CASE s = "sender"
  <2>1. PICK P : /\ net["sender"] \in Seq(P)
                 /\ \A y \in P : \A x \in y.reports.xr : BlockOK(x, taken, lastOut)
    BY DEF LossesOK, BlocksOK
  <2>2. RemoveAt(net["sender"], k) \in Seq(P)
    BY <1>4, <2>1, RemoveAtType
  <2>3. net'["sender"] = RemoveAt(net["sender"], k)
    BY <1>1, <1>4
  <2>4. BlocksOK(net'["sender"], taken, lastOut)
    BY <2>1, <2>2, <2>3 DEF BlocksOK
  <2>5. QED  BY <1>1, <1>2, <2>4 DEF LossesOK, queueVars
<1>5. QED  BY <1>3, <1>4

LEMMA LossesNext ==
    ASSUME ShortBlocks, TellingsOK, LossesOK, [RtcpNext]_allVars
    PROVE  LossesOK'
<1>1. /\ DOMAIN net = Sides /\ DOMAIN making = Sides /\ "receiver" \in Sides
      /\ MadeBlocksOK(making["receiver"], taken, lastOut)
  BY DEF LossesOK, TellingsOK, TablesOK, Sides
<1>2. CASE \E n \in Arrivals : Arrive(n)
  BY <1>2, ArriveLosses
<1>3. CASE \E e \in waiting : \E garbage \in Garbage(e) : Depayload(e, garbage)
  BY <1>3, DepayloadLosses
<1>4. CASE SenderReport
  <2>1. /\ UNCHANGED <<highest, previous, queueVars, report, net>>
        /\ \E made : making' = [making EXCEPT !["sender"] = made]
    BY <1>4 DEF SenderReport, BeginCompound, numberVars, reportVars, linkVars
  <2>2. making'["receiver"] = making["receiver"]
    BY <1>1, <2>1
  <2>3. QED  BY <1>1, <2>1, <2>2, LossesSame
<1>5. CASE \E withLoss \in BOOLEAN : \E beyond \in Beyond(withLoss) :
              ReceiverReport(withLoss, beyond)
  BY <1>5, ReportLosses
<1>6. CASE \E s \in Sides : SetStep(s)
  <2>1. UNCHANGED <<highest, previous, queueVars, report, net, making>>
    BY <1>6 DEF SetStep, SetUntimedMetadata, AddField, BeginValue, EndValue,
                numberVars, reportVars, linkVars
  <2>2. QED  BY <1>1, <2>1, LossesSame
<1>7. CASE \E s \in Sides : MakeStep(s)
  BY <1>7, WriteLosses, SendLosses DEF MakeStep
<1>8. CASE \E s \in Sides : \E k \in DOMAIN net[s] :
              \/ \E again \in BOOLEAN, old \in BOOLEAN : Deliver(s, k, again, old)
              \/ Lose(s, k)
  BY <1>8, DeliverLosses, LoseLosses
<1>9. CASE Tick
  BY <1>1, <1>9, LossesSame DEF Tick, numberVars, reportVars, itemVars, linkVars
<1>10. CASE UNCHANGED allVars
  BY <1>1, <1>10, LossesSame
     DEF allVars, numberVars, reportVars, itemVars, linkVars
<1>11. QED
  BY <1>2, <1>3, <1>4, <1>5, <1>6, <1>7, <1>8, <1>9, <1>10 DEF RtcpNext

LEMMA LossesImply ==
    ASSUME LossesOK
    PROVE  LossReportTrue
<1>1. loss.count > 0 /\ loss.close => loss.end - loss.start < loss.bits
  BY DEF LossesOK, LossOK
<1>2. ASSUME NEW x \in report.block, ~x.empty
      PROVE  LET seen == {k \in 0 .. x.last - x.from : x.from + k \in taken}
                 held == {k \in 0 .. x.last - x.from : k < x.bits /\ k < report.mem}
             IN  /\ report.start = x.from % SeqRing
                 /\ report.count = x.last - x.from + 1
                 /\ x.close => seen \cap held \subseteq report.flags
                 /\ x.sure => report.flags \cap held = seen \cap held
  <2>1. /\ x.from \in Nat /\ x.last \in Nat /\ x.bits \in Nat /\ report.mem \in Nat
        /\ report.start = x.from % SeqRing
        /\ report.count = x.last - x.from + 1
        /\ Told(taken, x.from, x.last, report.flags, Held(x, report.mem),
                x.close, x.sure)
    BY <1>2 DEF LossesOK, ReportOK, About
  <2>2. \A k \in 0 .. x.last - x.from :
           k < x.bits /\ k < report.mem <=> k < Held(x, report.mem)
    BY <2>1 DEF Held
  <2>3. \A k \in 0 .. x.last - x.from :
           k < x.bits /\ k < report.mem => k \in 0 .. Held(x, report.mem) - 1
    BY <2>1 DEF Held
  <2>4. QED  BY <2>1, <2>2, <2>3 DEF Told, Seen
<1>3. QED  BY <1>1, <1>2 DEF LossReportTrue

(* Of each packet a loss report is about, whose flag the buffers of both   *)
(* sides hold, the sender is told that the receiver took it, unless a gap  *)
(* was longer than the buffer, and that it did not, unless the buffer grew *)
(* in that report, whatever reports are refused, lost, repeated or late    *)
(* (arstream2_rtcp.c 737-815, 820-1010 and 1017-1239).  What is written or *)
(* read past the buffers is not among these flags.                         *)
THEOREM ReportsTrue ==
    ASSUME ShortBlocks
    PROVE  RtcpSpec => []LossReportTrue
<1>1. RtcpInit => TellingsOK /\ LossesOK
  BY TellingsInit, LossesInit
<1>2. TellingsOK /\ LossesOK /\ [RtcpNext]_allVars => TellingsOK' /\ LossesOK'
  BY TellingsNext, LossesNext
<1>3. LossesOK => LossReportTrue
  BY LossesImply
<1>4. QED  BY <1>1, <1>2, <1>3, PTL DEF RtcpSpec

=============================================================================
