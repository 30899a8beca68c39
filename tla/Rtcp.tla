-------------------------------- MODULE Rtcp ---------------------------------
(***************************************************************************)
(* RTCP between the sender and the receiver of a stream                    *)
(* (arstream2_rtcp.c and the ProcessRtcp functions of arstream2_rtp_sender  *)
(* and arstream2_rtp_receiver): receiver reports and loss reports about    *)
(* the packets of SeqNumExt, source descriptions and clock offsets in both *)
(* directions, over a network that loses, repeats and reorders.            *)
(* Timing is nondeterministic: a report may be due at any time.  A side    *)
(* has two threads: its network thread makes the packets item by item and  *)
(* reads those of its peer; its application sets metadata, without a lock. *)
(* A side that writes or reads past a buffer ends there, or goes on with   *)
(* what it wrote lost and with any value for what it read.                 *)
(***************************************************************************)
EXTENDS SeqNumExt, SequencesExt

CONSTANTS
    FlagBits,     (* flags in the first allocation of a loss report, 1024  *)
    ChunkBits,    (* flags in a chunk of a loss RLE block, 15              *)
    MaxPacketSize, (* bytes of a compound packet                           *)
    Sizes,        (* bytes of what a compound packet is made of: see below *)
    Cname,        (* the key of the CNAME item                             *)
    Keys,         (* the keys (type and prefix) of the items               *)
    Metadata,     (* what the applications set: sequences of keys and values, *)
                  (* in the order of the fields of the metadata            *)
    FirstValue,   (* the CNAME both sides are created with                 *)
    SizeOf,       (* function: a value to the bytes of an item with it     *)
    MaxItems,     (* ARSTREAM2_RTCP_SDES_ITEM_MAX_COUNT                    *)
    Offset,       (* the receiver's clock minus the sender's               *)
    MinDelta,     (* ARSTREAM2_RTCP_CLOCKDELTA_MIN_TS_DELTA                *)
    ClockTimeout, (* ARSTREAM2_RTCP_CLOCKDELTA_TIMEOUT                     *)
    ClockWindow,  (* ARSTREAM2_RTCP_CLOCKDELTA_WINDOW_SIZE                 *)
    MaxRtDelay,   (* ARSTREAM2_RTCP_CLOCKDELTA_MAX_RTDELAY                 *)
    Alpha,        (* ARSTREAM2_RTCP_CLOCKDELTA_AVG_ALPHA                   *)
    Budgets       (* bounds of a run: one record of them is chosen in Init *)

(* A sender report; a receiver report and its block; an extended report    *)
(* with a loss RLE block, and a chunk of it; a clock offset packet.        *)
ASSUME SizesAssumption ==
    /\ DOMAIN Sizes = {"sr", "rr", "block", "xr", "chunk", "app"}
    /\ \A part \in DOMAIN Sizes : Sizes[part] \in Nat \ {0}
    /\ MaxPacketSize \in Nat
    /\ Sizes.sr <= MaxPacketSize /\ Sizes.rr + Sizes.block <= MaxPacketSize

ASSUME RtcpAssumption ==
    /\ FlagBits \in 1 .. SeqRing /\ ChunkBits \in Nat \ {0}
    /\ Cname \in Keys /\ FirstValue \in DOMAIN SizeOf
    /\ Metadata \subseteq Seq([key : Keys, value : DOMAIN SizeOf])
    /\ \A v \in DOMAIN SizeOf : SizeOf[v] \in Nat \ {0}
    /\ MaxItems \in Nat \ {0}
    /\ Offset \in Int
    /\ {MinDelta, ClockTimeout, ClockWindow, MaxRtDelay, Alpha} \subseteq Nat \ {0}

Sides == {"sender", "receiver"}
Peer(s) == CHOOSE p \in Sides : p # s

VARIABLES
    waiting,    (* extended numbers in the receiver's packet FIFO          *)
    lastOut,    (* previousDepayloadExtSeqNum                              *)
    received,   (* rtcpReceiverContext.packetsReceived, a uint32_t         *)
    rrReceived, (* rtcpReceiverContext.lastRrPacketsReceived               *)
    loss,       (* the receiver's lossReportCtx                            *)
    report,     (* the sender's lossReportCtx                              *)
    prevSr,     (* prevSrNtpTimestamp, 0: no sender report yet             *)
    knowsSsrc,  (* the sender's receiverSsrc is not 0                      *)
    own,        (* sdesItem of each side                                   *)
    peer,       (* peerSdesItem of each side                               *)
    setting,    (* what an application still has to set, field by field    *)
    writing,    (* the sides whose application is in the middle of a value *)
    making,     (* the compound packet a side is making, none or one       *)
    clock,      (* clockDeltaCtx of each side                              *)
    net,        (* compound packets on their way to each side              *)
    halted,     (* the sides whose process has ended                       *)
    now,        (* the sender's clock                                      *)
    budget,     (* what is left of the run's bounds                        *)
    taken,      (* history: the extended numbers depayloaded               *)
    ordered,    (* history: all packets to a side have arrived in order    *)
    unread,     (* history: keys whose last item was followed by one zero  *)
    overtaken   (* history: keys set between the copy of the last item of  *)
                (* theirs and the write of its lastSendTime                *)

numberVars == <<top, latest, origin, firsts, highest, previous>>
queueVars == <<waiting, lastOut, received, loss, taken>>
reportVars == <<rrReceived, report, prevSr, knowsSsrc>>
itemVars == <<own, setting, writing, making, overtaken>>
linkVars == <<peer, clock, net, ordered, unread>>
allVars == <<numberVars, queueVars, reportVars, itemVars, linkVars, halted,
             now, budget>>

ClockOf(s) == IF s = "sender" THEN now ELSE now + Offset
Spend(bound) == /\ budget[bound] > 0
                /\ budget' = [budget EXCEPT ![bound] = @ - 1]

(* The outcomes of a step of side s; past: it goes past the end of a       *)
(* buffer.                                                                 *)
Ends(s, past) == IF past THEN {halted, halted \cup {s}} ELSE {halted}

-----------------------------------------------------------------------------
(* Loss reports.  flags are offsets from start; bits is the capacity; sure *)
(* says that it did not grow in this report, close that no gap in it was   *)
(* longer than the capacity of the time, or took it to the ring's size.    *)

NoLoss == [count |-> 0, start |-> 0, end |-> 0, flags |-> {}, bits |-> 0,
           sure |-> FALSE, close |-> FALSE]

(* The sender's: mem is the capacity allocated, block the loss RLE block   *)
(* it was read from.                                                       *)
NoReport == [count |-> 0, start |-> 0, end |-> 0, flags |-> {}, bits |-> 0,
             mem |-> 0, block |-> {}]

(* ARSTREAM2_RTCP_LossReportReset                                          *)
LossReset(l) == [l EXCEPT !.count = 0, !.flags = {}, !.sure = TRUE]

Grown(bits) == IF bits = 0 THEN FlagBits
               ELSE IF 2 * bits > SeqRing THEN SeqRing ELSE 2 * bits

(* The capacity packet e gets: the buffer is doubled once, whatever it     *)
(* takes to hold the packet's flag.                                        *)
BitsFor(l, e) ==
    IF l.bits = 0 \/ (l.count > 0 /\ e - l.start >= l.bits)
    THEN Grown(l.bits) ELSE l.bits

TooLong(l) == l.count > 0 /\ l.end - l.start + 1 >= SeqRing - 2

(* The flag of packet e is written past the buffer.                        *)
SetsPast(l, e) == ~TooLong(l) /\ l.count > 0 /\ e - l.start >= BitsFor(l, e)

(* ARSTREAM2_RTCP_LossReportSet with the flag of packet e at place.        *)
WithFlag(l, e, place, garbage) ==
    LET start == IF l.count = 0 THEN e ELSE l.start
        bits == BitsFor(l, e)
    IN  [count |-> l.count + 1, start |-> start, end |-> e,
         flags |-> l.flags \cup garbage \cup ({place} \cap 0 .. bits - 1),
         bits |-> bits, sure |-> l.sure /\ bits = l.bits,
         close |-> \/ l.count = 0
                   \/ l.close /\ e - l.end <= l.bits /\ e - start < SeqRing]

(* Mutant: the flag of the packet after.                                   *)
MutLossReportSet(l, e, garbage) ==
    WithFlag(l, e, IF l.count = 0 THEN 1 ELSE e - l.start + 1, garbage)

(* ARSTREAM2_RTCP_LossReportSet: memory added to the buffer is not         *)
(* initialised, garbage is what its flags happen to be.                    *)
LossReportSet(l, e, garbage) ==
    IF TooLong(l) THEN LossReset(l)
    ELSE WithFlag(l, e, IF l.count = 0 THEN 0 ELSE e - l.start, garbage)

(* ARSTREAM2_RTCP_GenerateExtendedReport writes the flags as chunks, each  *)
(* the set of its bits that are 1, and an empty one if they are odd.  All  *)
(* are bit vectors: a run length chunk takes a run of 16, and a run is     *)
(* cut when a bit vector of 15 is full (947).                              *)
Span(l) == l.end - l.start + 1

Chunks(l) ==
    LET count == (Span(l) + ChunkBits - 1) \div ChunkBits
        Bit(i) == {b \in 0 .. ChunkBits - 1 :
                      /\ (i - 1) * ChunkBits + b < Span(l)
                      /\ (i - 1) * ChunkBits + b \in l.flags}
    IN  [i \in 1 .. count + (count % 2) |-> Bit(i)]

ReportSize(l) == Sizes.xr + Sizes.chunk * Len(Chunks(l))

(* The flags it reads with this much room: up to the chunk that does not   *)
(* fit.                                                                    *)
FlagsRead(l, room) ==
    IF Sizes.xr > room THEN 0
    ELSE LET chunks == (room - Sizes.xr) \div Sizes.chunk + 1
         IN  IF chunks * ChunkBits < Span(l) THEN chunks * ChunkBits ELSE Span(l)

(* Its loss RLE block; from to sure record what the block is about, they   *)
(* are not sent.  beyond is what the flags read past the buffer happen to  *)
(* be.                                                                     *)
LossBlock(l, beyond) ==
    [begin |-> l.start % SeqRing,
     end   |-> ((l.end % SeqRing) + 1) % SeqRing,
     chunks |-> Chunks([l EXCEPT !.flags = @ \cup beyond]),
     from  |-> l.start, last |-> l.end, bits |-> l.bits,
     empty |-> l.count = 0, sure |-> l.sure, close |-> l.close]

(* The flags of the chunks of a block about count packets.                 *)
Flags(chunks, count) ==
    {k \in 0 .. count - 1 : /\ k \div ChunkBits < Len(chunks)
                            /\ k % ChunkBits \in chunks[k \div ChunkBits + 1]}

(* The loss RLE block is read.  A buffer that would reach the ring's size  *)
(* is not allocated, but its size is kept.                                 *)
DecodeLoss(l, x) ==
    LET end == (IF x.end < x.begin THEN x.end + SeqRing ELSE x.end) - 1
        count == end - x.begin + 1
        grow == l.bits = 0 \/ count >= l.bits
        bits == IF grow THEN Grown(l.bits) ELSE l.bits
        mem == IF grow THEN bits ELSE l.mem
    IN  IF grow /\ 2 * l.bits >= SeqRing
        THEN [count |-> 0, start |-> x.begin, end |-> end, flags |-> {},
              bits |-> 2 * l.bits, mem |-> l.mem, block |-> {}]
        ELSE [count |-> count, start |-> x.begin, end |-> end,
              flags |-> Flags(x.chunks, count) \cap 0 .. mem - 1,
              bits |-> bits, mem |-> mem, block |-> {x}]

(* It is cleared, or written, past what is allocated.                      *)
DecodesPast(l, x) ==
    LET d == DecodeLoss(l, x) IN d.bits > d.mem \/ d.count > d.mem

-----------------------------------------------------------------------------
(* Source descriptions.                                                    *)

Due(item, elapsed) == item.key = Cname \/ ~item.sent \/ elapsed

SdesHeader == 8

(* Zeroes that end the list of items and fill its last word.               *)
Padding(size) == 4 - (size % 4)

(* The reader wants two bytes after an item, so that it does not see the   *)
(* last one when a single zero follows.                                    *)
Unseen(items) ==
    LET size == FoldLeft(LAMBDA n, item : n + SizeOf[item.value], 0, items)
    IN  IF items # <<>> /\ Padding(size) = 1 THEN {Len(items)} ELSE {}

StoreItem(table, item) ==
    LET found == {k \in DOMAIN table : table[k].key = item.key}
    IN  IF found # {}
        THEN [table EXCEPT ![CHOOSE k \in found : TRUE] = item]
        ELSE IF Len(table) < MaxItems THEN Append(table, item) ELSE table

(* The GetSdesItem functions of both sides: the values found, none or one. *)
GetSdesItem(table, key) ==
    {table[k].value : k \in {k \in DOMAIN table : table[k].key = key}}

(* Mutant: a new value does not make the item due.                         *)
MutSetSdesItem(table, key, value) ==
    LET old == {k \in DOMAIN table : table[k].key = key}
    IN  StoreItem(table, [key |-> key, value |-> value,
                          sent |-> \E k \in old : table[k].sent])

(* ARSTREAM2_RtpSender_SetSdesItem, ARSTREAM2_RtpReceiver_SetSdesItem       *)
SetSdesItem(table, key, value) ==
    StoreItem(table, [key |-> key, value |-> value, sent |-> FALSE])

(* What an application reads of its own metadata, and of its peer's.       *)
GetUntimedMetadata(s) ==
    [key \in Keys |-> GetSdesItem(own[s], key)]

(* The GetPeerSdesItem functions.                                          *)
GetPeerSdesItem(s, key) == GetSdesItem(peer[s], key)

GetPeerUntimedMetadata(s) ==
    [key \in Keys |-> GetPeerSdesItem(s, key)]

(* ARSTREAM2_RTCP_ProcessSourceDescription                                 *)
ReadSdes(table, items) ==
    FoldLeft(StoreItem, table,
             SubSeq(items, 1, Len(items) - Cardinality(Unseen(items))))

-----------------------------------------------------------------------------
(* Clock offsets.                                                          *)

NoClock == [expected |-> 0, nextOriginate |-> 0, nextReceive |-> 0,
            window |-> <<>>, avg |-> 0, minRtAvg |-> 0]

(* C's division truncates towards zero.                                    *)
Div(a, b) == IF a >= 0 THEN a \div b ELSE -((-a) \div b)
AbsInt(a) == IF a < 0 THEN -a ELSE a
Slide(avg, v) == IF avg = 0 THEN v ELSE avg + Div(v - avg + Alpha \div 2, Alpha)

(* ARSTREAM2_RTCP_GenerateApplicationClockDelta and its callers: a request *)
(* is outstanding until it is answered or times out.                       *)
AsksClock(c, t) == c.expected = 0 \/ t >= c.expected + ClockTimeout

ClockRequest(c, t) ==
    [originate |-> c.nextOriginate, receive |-> c.nextReceive, transmit |-> t]

(* The window is full, or half full when it is old (old is any value).     *)
WindowDone(w, old) ==
    Len(w) >= ClockWindow \/ (old /\ Len(w) >= ClockWindow \div 2)

(* The end of a window: the sample with the smallest round trip counts.    *)
CloseWindow(c) ==
    LET best == CHOOSE i \in DOMAIN c.window :
                  \A j \in DOMAIN c.window :
                     \/ c.window[i].rt < c.window[j].rt
                     \/ c.window[i].rt = c.window[j].rt /\ i <= j
        rt == c.window[best].rt
        minAvg == Slide(c.minRtAvg, rt)
        delta == c.window[best].delta
        base == [c EXCEPT !.window = <<>>]
    IN  IF rt >= MaxRtDelay THEN base
        ELSE IF rt > 2 * minAvg THEN [base EXCEPT !.minRtAvg = minAvg]
        ELSE [base EXCEPT !.minRtAvg = minAvg, !.avg = Slide(c.avg, delta)]

(* A sample is kept when the delays of its two ways are similar.           *)
Similar(c, m, t) ==
    LET there == AbsInt(m.originate - m.receive + c.avg)
        back == AbsInt(t - m.transmit + c.avg)
    IN  c.avg = 0 \/ 2 * AbsInt(there - back) <= (t - m.originate) - (m.transmit - m.receive)

IsSample(c, m, t) ==
    /\ {t, m.originate, m.receive, m.transmit} \cap {0} = {}
    /\ m.transmit >= m.receive + MinDelta
    /\ t >= m.originate + MinDelta
    /\ m.originate = c.expected

TakeSample(c, m, t, old) ==
    LET rt == (t - m.originate) - (m.transmit - m.receive)
        s == [delta |-> Div(m.receive + m.transmit - m.originate - t + 1, 2),
              rt |-> rt, request |-> m.originate]
        kept == [c EXCEPT !.window = Append(@, s)]
    IN  IF ~(rt > 0 /\ Similar(c, m, t)) THEN c
        ELSE IF WindowDone(kept.window, old) THEN CloseWindow(kept) ELSE kept

(* Mutant: an answer does not end its request.                             *)
MutReadClock(c, m, t, old) ==
    LET c2 == IF IsSample(c, m, t) THEN TakeSample(c, m, t, old) ELSE c
    IN  [c2 EXCEPT !.nextOriginate = m.transmit, !.nextReceive = t]

(* ARSTREAM2_RTCP_ProcessApplicationClockDelta, at time t                  *)
ReadClock(c, m, t, old) ==
    LET c2 == IF IsSample(c, m, t)
              THEN [TakeSample(c, m, t, old) EXCEPT !.expected = 0] ELSE c
    IN  [c2 EXCEPT !.nextOriginate = m.transmit, !.nextReceive = t]

-----------------------------------------------------------------------------
RtcpInit ==
    /\ Init
    /\ waiting = {} /\ lastOut = -1 /\ received = 0 /\ rrReceived = 0
    /\ loss = NoLoss /\ report = NoReport
    /\ prevSr = 0 /\ knowsSsrc = FALSE
    /\ own = [s \in Sides |-> <<[key |-> Cname, value |-> FirstValue, sent |-> FALSE]>>]
    /\ setting = [s \in Sides |-> <<>>] /\ writing = {}
    /\ making = [s \in Sides |-> {}]
    /\ peer = [s \in Sides |-> <<>>] /\ clock = [s \in Sides |-> NoClock]
    /\ net = [s \in Sides |-> <<>>]
    /\ halted = {}
    /\ now = 1 /\ budget \in Budgets
    /\ taken = {}
    /\ ordered = [s \in Sides |-> TRUE] /\ unread = [s \in Sides |-> {}]
    /\ overtaken = [s \in Sides |-> {}]

(* The network thread of a side is between two packets of its own.         *)
Free(s) == s \notin halted /\ making[s] = {}

(* A packet arrives and is queued, unless it is in the queue already.  The *)
(* first one resets the counters.                                          *)
Arrive(n) ==
    /\ Free("receiver")
    /\ Spend("arrivals")
    /\ Receive(n)
    /\ waiting' = waiting \cup {NextExt(n % SeqRing, highest, previous)}
    /\ received' = IF previous = NoPrevious THEN 0 ELSE received
    /\ UNCHANGED <<lastOut, loss, taken, reportVars, itemVars, linkVars, halted, now>>

(* The head of the queue is released when it is the next packet or has     *)
(* timed out, which may be at any time; a packet behind the last one is    *)
(* dropped.                                                                *)
Depayload(e, garbage) ==
    /\ Free("receiver")
    /\ \A f \in waiting : e <= f
    /\ waiting' = waiting \ {e}
    /\ IF e <= lastOut
       THEN UNCHANGED <<lastOut, received, loss, taken, halted>>
       ELSE LET missing == IF lastOut = -1 THEN 0 ELSE e - lastOut - 1
            IN  /\ received' = (received - missing + 1) % ExtRing
                /\ loss' = LossReportSet(loss, e, garbage)
                /\ halted' \in Ends("receiver", SetsPast(loss, e))
                /\ lastOut' = e
                /\ taken' = taken \cup {e}
    /\ UNCHANGED <<numberVars, reportVars, itemVars, linkVars, now, budget>>

(* What uninitialised flags can be.                                        *)
Garbage(e) ==
    IF e <= lastOut \/ TooLong(loss) THEN {{}}
    ELSE SUBSET (loss.bits .. BitsFor(loss, e) - 1)

-----------------------------------------------------------------------------
(* A side's application calls SetUntimedMetadata.                          *)
SetUntimedMetadata(s, metadata) ==
    /\ s \notin halted /\ setting[s] = <<>>
    /\ Spend("sets")
    /\ setting' = [setting EXCEPT ![s] = metadata]
    /\ UNCHANGED <<numberVars, queueVars, reportVars, own, writing, making,
                   overtaken, linkVars, halted, now>>

(* Its next field: skipped if the value is the item's, or a new item; one  *)
(* that does not fit in the table is left out without an error.            *)
AddField(s) ==
    LET f == Head(setting[s])
        old == GetSdesItem(own[s], f.key)
    IN  /\ s \notin halted \cup writing /\ setting[s] # <<>>
        /\ old = {} \/ old = {f.value}
        /\ own' = IF old = {}
                  THEN [own EXCEPT ![s] = SetSdesItem(@, f.key, f.value)] ELSE own
        /\ setting' = [setting EXCEPT ![s] = Tail(@)]
        /\ UNCHANGED <<numberVars, queueVars, reportVars, writing, making,
                       overtaken, linkVars, halted, now, budget>>

(* Or a value that changes: it is written over the old one, byte by byte.  *)
BeginValue(s) ==
    LET f == Head(setting[s])
    IN  /\ s \notin halted \cup writing /\ setting[s] # <<>>
        /\ GetSdesItem(own[s], f.key) \notin {{}, {f.value}}
        /\ writing' = writing \cup {s}
        /\ UNCHANGED <<numberVars, queueVars, reportVars, own, setting, making,
                       overtaken, linkVars, halted, now, budget>>

(* Then lastSendTime is cleared.                                           *)
EndValue(s) ==
    LET f == Head(setting[s])
        late == \E p \in making[s] : p.copied /\ own[s][p.next].key = f.key
    IN  /\ s \notin halted /\ s \in writing
        /\ own' = [own EXCEPT ![s] = SetSdesItem(@, f.key, f.value)]
        /\ writing' = writing \ {s}
        /\ setting' = [setting EXCEPT ![s] = Tail(@)]
        /\ overtaken' = IF late THEN [overtaken EXCEPT ![s] = @ \cup {f.key}]
                        ELSE overtaken
        /\ UNCHANGED <<numberVars, queueVars, reportVars, making, linkVars,
                       halted, now, budget>>

(* What the network thread can read of item i, which its application may   *)
(* be writing.                                                             *)
Readings(s, i) ==
    IF s \in writing /\ own[s][i].key = Head(setting[s]).key
    THEN DOMAIN SizeOf ELSE {own[s][i].value}

-----------------------------------------------------------------------------
(* A compound packet is made: its time, the number of items and the bytes  *)
(* left to them are those at its beginning.  It is not made if what comes  *)
(* first leaves no room.                                                   *)
BeginCompound(s, msg, size) ==
    making' =
      [making EXCEPT ![s] =
         IF size + SdesHeader + 1 > MaxPacketSize THEN {}
         ELSE {[reports |-> msg, room |-> MaxPacketSize - size,
                time |-> ClockOf(s), next |-> 1, count |-> Len(own[s]),
                size |-> SdesHeader, copied |-> FALSE, items |-> <<>>]}]

(* One item of ARSTREAM2_RTCP_GenerateSourceDescription: it is tested for  *)
(* room before it is tested for being due.                                 *)
CopyItem(s, elapsed) ==
    \E p \in making[s] :
        /\ s \notin halted /\ p.next <= p.count /\ ~p.copied
        /\ \E value \in Readings(s, p.next) :
            LET item == own[s][p.next]
                full == p.size + SizeOf[value] + 1 > p.room
                copies == ~full /\ Due(item, elapsed)
            IN  /\ making' =
                     [making EXCEPT ![s] =
                        IF full THEN {[p EXCEPT !.next = p.count + 1]}
                        ELSE IF copies
                        THEN {[p EXCEPT !.size = @ + SizeOf[value], !.copied = TRUE,
                                 !.items = Append(@, [key |-> item.key, value |-> value])]}
                        ELSE {[p EXCEPT !.next = @ + 1]}]
                /\ overtaken' = IF copies THEN [overtaken EXCEPT ![s] = @ \ {item.key}]
                                ELSE overtaken
        /\ UNCHANGED <<numberVars, queueVars, reportVars, own, setting, writing,
                       linkVars, halted, now, budget>>

(* The write of its lastSendTime is a step of its own.                     *)
MarkItem(s) ==
    \E p \in making[s] :
        /\ s \notin halted /\ p.copied
        /\ own' = [own EXCEPT ![s][p.next].sent = TRUE]
        /\ making' = [making EXCEPT ![s] =
                        {[p EXCEPT !.next = @ + 1, !.copied = FALSE]}]
        /\ UNCHANGED <<numberVars, queueVars, reportVars, setting, writing,
                       overtaken, linkVars, halted, now, budget>>

(* The end of both GenerateCompoundPacket functions: the source            *)
(* description is closed, the clock offset follows it if there is room,    *)
(* and the packet is sent if the source description could be closed.       *)
SendCompound(s) ==
    \E p \in making[s] :
        LET size == p.size + Padding(p.size)
            fits == size <= p.room
            c == clock[s]
            asks == fits /\ size + Sizes.app <= p.room /\ AsksClock(c, p.time)
            app == IF asks THEN {ClockRequest(c, p.time)} ELSE {}
            lastSeen == Len(p.items) - Cardinality(Unseen(p.items))
            Written(first, last) == {p.items[k].key : k \in first .. last}
        IN  /\ s \notin halted /\ p.next > p.count
            /\ making' = [making EXCEPT ![s] = {}]
            /\ clock' = IF asks THEN [clock EXCEPT ![s] = [c EXCEPT !.expected = p.time]]
                      ELSE clock
            /\ net' = IF fits
                      THEN [net EXCEPT ![Peer(s)] =
                              Append(@, [reports |-> p.reports, sdes |-> p.items,
                                         app |-> app])]
                      ELSE net
            /\ ordered' = [ordered EXCEPT ![Peer(s)] = @ /\ fits]
            /\ unread' = [unread EXCEPT ![s] =
                            (@ \ Written(1, Len(p.items)))
                            \cup Written(lastSeen + 1, Len(p.items))]
            /\ UNCHANGED <<numberVars, queueVars, reportVars, own, setting,
                           writing, overtaken, peer, halted, now, budget>>

(* ARSTREAM2_RTCP_Sender_GenerateSenderReport at time t; the counts and    *)
(* rates in it are left out.                                               *)
GenerateSenderReport(t) == [sr |-> t]

(* The sender's compound packet (ARSTREAM2_RtpSender_ProcessRtcp).          *)
SenderReport ==
    /\ Free("sender")
    /\ Spend("senderReports")
    /\ BeginCompound("sender", GenerateSenderReport(now), Sizes.sr)
    /\ UNCHANGED <<numberVars, queueVars, reportVars, own, setting, writing,
                   overtaken, linkVars, halted, now>>

(* Is there a report block?                                                *)
HasBlock == received > 0 /\ received > rrReceived

(* ARSTREAM2_RTCP_Receiver_GenerateReceiverReport                          *)
GenerateReceiverReport ==
    rrReceived' = IF HasBlock THEN received ELSE rrReceived

(* The receiver's compound packet (ARSTREAM2_RtpReceiver_ProcessRtcp),      *)
(* with a loss report if withLoss: its flags are reset even if the packet  *)
(* is not sent because they do not fit.  They are read before anything is  *)
(* known to be received: through a null pointer then.                      *)
ReceiverReport(withLoss, beyond) ==
    LET room == MaxPacketSize - Sizes.rr - (IF HasBlock THEN Sizes.block ELSE 0)
        past == withLoss /\ FlagsRead(loss, room) > loss.bits
        size == MaxPacketSize - room + (IF withLoss THEN ReportSize(loss) ELSE 0)
        msg == [block |-> HasBlock,
                xr |-> IF withLoss THEN {LossBlock(loss, beyond)} ELSE {}]
    IN  /\ Free("receiver")
        /\ prevSr # 0
        /\ Spend(IF withLoss THEN "lossReports" ELSE "receiverReports")
        /\ halted' \in IF past /\ loss.bits = 0 THEN {halted \cup {"receiver"}}
                       ELSE Ends("receiver", past)
        /\ GenerateReceiverReport
        /\ loss' = IF withLoss THEN LossReset(loss) ELSE loss
        /\ BeginCompound("receiver", msg, size)
        /\ UNCHANGED <<numberVars, waiting, lastOut, received, taken, report,
                       prevSr, knowsSsrc, own, setting, writing, overtaken,
                       linkVars, now>>

(* What flags read past the buffer can be.                                 *)
Beyond(withLoss) == IF withLoss THEN SUBSET (loss.bits .. Span(loss) - 1) ELSE {{}}

(* ARSTREAM2_RTCP_Receiver_ProcessSenderReport: one that is out of order   *)
(* or a repetition is ignored.                                             *)
ReadSenderReport(sr) == prevSr' = IF sr > prevSr THEN sr ELSE prevSr

(* ARSTREAM2_RTCP_Sender_ProcessReceiverReport: the sender learns the      *)
(* receiver's SSRC from the first report with a block.                     *)
ReadReceiverReport(block) == knowsSsrc' = (knowsSsrc \/ block)

(* ARSTREAM2_RTCP_ProcessExtendedReport: blocks of an SSRC that is not     *)
(* known yet are refused.                                                  *)
ReadExtendedReport(xr) ==
    IF xr # {} /\ knowsSsrc'
    THEN LET x == CHOOSE x \in xr : TRUE
         IN  /\ report' = DecodeLoss(report, x)
             /\ halted' \in Ends("sender", DecodesPast(report, x))
    ELSE UNCHANGED <<report, halted>>

(* What both ProcessCompoundPacket functions do with the rest of packet m. *)
ReadRest(s, m, old) ==
    LET heard == s = "receiver" \/ knowsSsrc'
    IN  /\ peer' = [peer EXCEPT ![s] = ReadSdes(@, m.sdes)]
        /\ clock' = IF m.app # {} /\ heard
                    THEN [clock EXCEPT ![s] =
                            ReadClock(@, CHOOSE a \in m.app : TRUE, ClockOf(s), old)]
                    ELSE clock

(* Packet k of those on their way arrives; again: the network keeps a copy. *)
Deliver(s, k, again, old) ==
    LET m == net[s][k]
    IN  /\ Free(s)
        /\ k # 1 \/ again => budget.faults > 0
        /\ budget' = IF k # 1 \/ again THEN [budget EXCEPT !.faults = @ - 1] ELSE budget
        /\ net' = IF again THEN net ELSE [net EXCEPT ![s] = RemoveAt(@, k)]
        /\ ordered' = [ordered EXCEPT ![s] = @ /\ k = 1 /\ ~again]
        /\ IF s = "receiver"
           THEN /\ ReadSenderReport(m.reports.sr)
                /\ UNCHANGED <<knowsSsrc, report, halted>>
           ELSE /\ ReadReceiverReport(m.reports.block)
                /\ ReadExtendedReport(m.reports.xr)
                /\ UNCHANGED prevSr
        /\ ReadRest(s, m, old)
        /\ UNCHANGED <<numberVars, queueVars, rrReceived, itemVars, unread, now>>

(* A compound packet is lost: on its way, or because it could not be sent. *)
Lose(s, k) ==
    /\ Spend("faults")
    /\ net' = [net EXCEPT ![s] = RemoveAt(@, k)]
    /\ ordered' = [ordered EXCEPT ![s] = FALSE]
    /\ UNCHANGED <<numberVars, queueVars, reportVars, itemVars, peer, clock,
                   unread, halted, now>>

Tick ==
    /\ Spend("ticks")
    /\ now' = now + 1
    /\ UNCHANGED <<numberVars, queueVars, reportVars, itemVars, linkVars, halted>>

MakeStep(s) ==
    \/ \E elapsed \in BOOLEAN : CopyItem(s, elapsed)
    \/ MarkItem(s)
    \/ SendCompound(s)

SetStep(s) ==
    \/ \E metadata \in Metadata : SetUntimedMetadata(s, metadata)
    \/ AddField(s) \/ BeginValue(s) \/ EndValue(s)

RtcpNext ==
    \/ \E n \in Arrivals : Arrive(n)
    \/ \E e \in waiting : \E garbage \in Garbage(e) : Depayload(e, garbage)
    \/ SenderReport
    \/ \E withLoss \in BOOLEAN : \E beyond \in Beyond(withLoss) :
          ReceiverReport(withLoss, beyond)
    \/ \E s \in Sides :
          \/ SetStep(s)
          \/ MakeStep(s)
          \/ \E k \in DOMAIN net[s] :
                \/ \E again \in BOOLEAN, old \in BOOLEAN : Deliver(s, k, again, old)
                \/ Lose(s, k)
    \/ Tick

RtcpSpec == RtcpInit /\ [][RtcpNext]_allVars

-----------------------------------------------------------------------------
(* What the sender's application is told about the packets of a loss       *)
(* report (arstream2_stream_stats.h 93-99).  The receiver's buffer holds   *)
(* the flags of every packet since the last report, unless a gap was       *)
(* longer than the buffer (arstream2_rtcp.c 764-803).  The report covers   *)
(* the packets the receiver took.  Of the flags that the buffers of both   *)
(* sides hold, that of a packet taken is set, unless there was such a gap, *)
(* and that of another is not, unless the receiver's buffer grew during    *)
(* that report.  Reports made while no packet came are left out: they      *)
(* repeat the last window, with its flags cleared.                         *)
LossReportTrue ==
    /\ loss.count > 0 /\ loss.close => loss.end - loss.start < loss.bits
    /\ \A x \in report.block :
         LET seen == {k \in 0 .. x.last - x.from : x.from + k \in taken}
             held == {k \in 0 .. x.last - x.from : k < x.bits /\ k < report.mem}
         IN  x.empty \/ /\ report.start = x.from % SeqRing
                        /\ report.count = x.last - x.from + 1
                        /\ x.close => seen \cap held \subseteq report.flags
                        /\ x.sure => report.flags \cap held = seen \cap held

(* Each side's estimate of the other's clock is as good as its round trips *)
(* allow: every sample is the answer to a request of its own, within half  *)
(* its round trip of the truth (and 1, for the rounding of the division),  *)
(* and so is the average, whatever is lost, repeated or reordered          *)
(* (arstream2_rtcp.c 1437-1545).                                           *)
ClockDeltaAccurate ==
    \A s \in Sides :
        LET offset == IF s = "sender" THEN Offset ELSE -Offset
            w == clock[s].window
        IN  /\ \A i, j \in DOMAIN w : w[i].request = w[j].request => i = j
            /\ \A i \in DOMAIN w : AbsInt(2 * (w[i].delta - offset)) <= w[i].rt + 2
            /\ clock[s].avg # 0 => AbsInt(2 * (clock[s].avg - offset)) <= MaxRtDelay + 1

(* Once every compound packet to a side has arrived in order, what its     *)
(* application gets from GetPeerUntimedMetadata for each item the peer has *)
(* sent is what the peer's application gets from GetUntimedMetadata, one   *)
(* value, the current one, in spite of metadata set again in between,      *)
(* values read while they are written, intervals and full packets and      *)
(* tables (arstream2_rtcp.c 455-499 and 655-702).  Left out: items the     *)
(* reader does not see because of the padding (line 636), and a value set  *)
(* between the copy of an item and the write of its lastSendTime           *)
(* (469-478, 494-497), which is told only when the interval has elapsed.   *)
SdesDelivered ==
    \A s \in Sides :
        LET p == Peer(s)
            changing == IF p \in writing THEN {Head(setting[p]).key} ELSE {}
        IN  ordered[s] /\ net[s] = <<>> /\ making[p] = {} =>
              \A i \in ToSet(own[p]) :
                i.sent /\ i.key \notin unread[p] \cup overtaken[p] \cup changing =>
                    /\ GetUntimedMetadata(p)[i.key] = {i.value}
                    /\ GetPeerUntimedMetadata(s)[i.key] = {i.value}
=============================================================================
