------------------------------- MODULE Filter --------------------------------
(***************************************************************************)
(* What becomes of the access units the depayloader outputs: the H.264     *)
(* filter (arstream2_h264_filter.c), which follows the slices of each      *)
(* access unit, keeps the status of every macroblock and counts frames,    *)
(* and its error concealment (arstream2_h264_filter_error.c), which fills  *)
(* the holes that lost packets leave.  The filter is called back by the    *)
(* depayloader, so an access unit is processed in the step that outputs it.*)
(*                                                                         *)
(* The sender follows a script: an encoder's stream, cut into packets.  A  *)
(* NALU is a record of its type and of what its header says.  Abstracted:  *)
(* bit streams (a NALU that arrives is parsed, since it is a whole one),   *)
(* sizes, timestamps, zones of the picture and errored seconds.            *)
(***************************************************************************)
EXTENDS Depayloader, FiniteSetsExt

CONSTANTS Scripts,      (* the streams the sender may send, by their names *)
          MaxInterval,  (* ARSTREAM2_H264_FILTER_MAX_INFERRED_IDR_INTERVAL *)
          MaxSlices     (* ..._PARROT_STREAMING_MAX_SLICE_COUNT            *)

(* A script has what the SPS says (the size of a picture in macroblocks,   *)
(* the modulus of frame_num), the frames (frame_num and whether it is a    *)
(* reference) and the packets (payload type, marker bit, frame and the     *)
(* headers of the NALUs that begin there).  With no packets it stands for  *)
(* any stream, of which only the depayloading is looked at.                *)
ASSUME FilterAssumption ==
    /\ {MaxInterval, MaxSlices} \subseteq Nat \ {0}
    /\ \A s \in Range(Scripts) :
          /\ {s.mbCount, s.maxFrameNum} \subseteq Nat \ {0}
          /\ \A i \in DOMAIN s.packets : s.packets[i].frame \in DOMAIN s.frames

(* The packets of a script are such as Sendable says: fragments of a NALU  *)
(* follow one another, and none but the last has the marker bit.           *)
ASSUME ScriptAssumption ==
    \A s \in Range(Scripts) :
        /\ Len(s.packets) \in Nat
        /\ \A i \in 1 .. Len(s.packets) :
              LET p     == s.packets[i]
                  inFuA == i > 1 /\ s.packets[i - 1].kind \in {"start", "mid"}
              IN  /\ p.kind \in IF inFuA THEN {"mid", "end"}
                                         ELSE {"single", "stap", "start"}
                  /\ p.marker \in BOOLEAN
                  /\ p.marker => p.kind \notin {"start", "mid"}

IsSlice(n) == n.type \in {"idr", "slice"}

(* They are an encoder's: a frame ends with the marker bit; a STAP-A has   *)
(* two NALUs, and other packets begin one or none; within a frame what is  *)
(* not a slice comes first; frame_num counts the reference frames, modulo  *)
(* maxFrameNum, from the last IDR frame on (H.264, 7.4.1.2.3 and 7.4.3).   *)
ASSUME EncoderAssumption ==
    \A s \in Range(Scripts) :
        /\ DOMAIN s.packets = 1 .. Len(s.packets)
        /\ \A i \in 1 .. Len(s.packets) :
              LET p == s.packets[i]
              IN  /\ p.frame = IF i = 1 THEN 1
                               ELSE s.packets[i - 1].frame
                                    + (IF s.packets[i - 1].marker THEN 1 ELSE 0)
                  /\ DOMAIN p.nalus = 1 .. CASE p.kind = "stap"            -> 2
                                             [] p.kind \in {"mid", "end"}  -> 0
                                             [] OTHER                      -> 1
                  /\ \A k \in DOMAIN p.nalus :
                        /\ p.nalus[k].frame = p.frame
                        /\ p.nalus[k].type \in {"idr", "slice", "sei", "sps", "pps"}
                        /\ IsSlice(p.nalus[k]) =>
                              (p.nalus[k].type = "idr" <=> s.frames[p.frame].idr)
        /\ \A i, j \in 1 .. Len(s.packets) :
              LET p == s.packets[i]
                  q == s.packets[j]
              IN  p.frame = q.frame =>
                      \A k \in DOMAIN p.nalus, l \in DOMAIN q.nalus :
                          (i < j \/ (i = j /\ k < l)) /\ IsSlice(p.nalus[k])
                              => IsSlice(q.nalus[l])
        /\ Len(s.frames) \in Nat /\ DOMAIN s.frames = 1 .. Len(s.frames)
        /\ \A k \in DOMAIN s.frames :
              LET frame == s.frames[k]
              IN  /\ frame.num \in 0 .. s.maxFrameNum - 1
                  /\ frame.ref \in BOOLEAN /\ frame.idr \in BOOLEAN
                  /\ frame.ref /\ ~frame.idr =>
                        \A j \in DOMAIN s.frames :
                            /\ j < k /\ s.frames[j].ref
                            /\ \A i \in j + 1 .. k - 1 : ~s.frames[i].ref
                            => frame.num = (s.frames[j].num + 1) % s.maxFrameNum

VARIABLES
    chosen,    (* which of the scripts the sender follows                  *)
    filter,    (* ARSTREAM2_H264Filter_t                                   *)
    results,   (* the access units filtered in the last step               *)
    counted,   (* the frames of which slices were received in sync         *)
    shown      (* the frames output                                        *)

filterVars == <<chosen, filter, results, counted, shown>>

script == Scripts[chosen]

Valid == {"validI", "validP"}

(* ARSTREAM2_H264Filter_Init and the calloc of the rest.  A NULL array of  *)
(* macroblock status is the empty sequence.                                *)
NewFilter(outputIncompleteAu, generateSkippedPSlices) ==
    [outputIncompleteAu |-> outputIncompleteAu,
     generateSkippedPSlices |-> generateSkippedPSlices,
     sync |-> FALSE, spsSync |-> FALSE, ppsSync |-> FALSE,
     mbStatus |-> <<>>, refMbStatus |-> <<>>,
     frameNum |-> 0, previousFrameNum |-> 0, inferredIdrInterval |-> MaxInterval,
     isIdr |-> FALSE, isRef |-> FALSE, slicesAllI |-> FALSE,
     slicesReceived |-> FALSE, incomplete |-> FALSE, recoveryPoint |-> FALSE,
     infoV1 |-> FALSE, infoV2 |-> FALSE, gopStart |-> FALSE,
     sliceMbCount |-> [k \in 0 .. MaxSlices |-> 0], sliceCount |-> 0,
     previousSliceIndex |-> 0, previousFirstMb |-> 0, currentFirstMb |-> 0,
     inferredPreviousFirstMb |-> 0, inferredSliceMbCount |-> 0,
     sliceType |-> "none", previousSliceType |-> "none",
     total |-> 0, output |-> 0, errored |-> 0, missed |-> 0, discarded |-> 0,
     syncType |-> "none", nalus |-> 0, slices |-> <<>>]

-----------------------------------------------------------------------------
(* An array of macroblock status; NULL is the array of none.               *)
NewStatus(status) == [mb \in 0 .. script.mbCount - 1 |-> status]

Part(f, first, count) == DOMAIN f.mbStatus \cap first .. first + count - 1

(* memset of a part of currentAuMacroblockStatus.                          *)
Mark(f, first, count, status) ==
    [f EXCEPT !.mbStatus = [mb \in Part(f, first, count) |-> status] @@ @]

StreamingInfo(f) == f.infoV1 \/ f.infoV2

(* Where the slice after the last one received should begin.               *)
NextFirstMb(f) ==
    IF StreamingInfo(f) THEN f.previousFirstMb + f.sliceMbCount[f.previousSliceIndex]
    ELSE f.inferredPreviousFirstMb + f.inferredSliceMbCount

-----------------------------------------------------------------------------
(* Parsing a NALU: ARSTREAM2_H264Filter_ParseNalu.                         *)

(* Mutant: the frame itself is counted among those missing before it.      *)
MutHandleGapsInFrameNum(f) ==
    LET current == f.frameNum + (IF f.frameNum < f.previousFrameNum
                                 THEN script.maxFrameNum ELSE 0)
        gap     == current - f.previousFrameNum
        missed  == IF gap >= f.inferredIdrInterval THEN 0 ELSE gap
    IN  IF /\ f.isRef /\ ~f.isIdr /\ f.previousFrameNum # -1
           /\ f.frameNum # (f.previousFrameNum + 1) % script.maxFrameNum
        THEN [f EXCEPT !.refMbStatus = [mb \in DOMAIN @ |-> "missing"],
                       !.total = @ + missed, !.missed = @ + missed]
        ELSE f

(* Frames are missing before a reference frame: what it refers to is not   *)
(* there.  A gap too large is taken for a missed IDR frame.                *)
HandleGapsInFrameNum(f) ==
    LET current == f.frameNum + (IF f.frameNum < f.previousFrameNum
                                 THEN script.maxFrameNum ELSE 0)
        gap     == current - f.previousFrameNum - 1
        missed  == IF gap >= f.inferredIdrInterval THEN 0 ELSE gap
    IN  IF /\ f.isRef /\ ~f.isIdr /\ f.previousFrameNum # -1
           /\ f.frameNum # (f.previousFrameNum + 1) % script.maxFrameNum
        THEN [f EXCEPT !.refMbStatus = [mb \in DOMAIN @ |-> "missing"],
                       !.total = @ + missed, !.missed = @ + missed]
        ELSE f

ParseIdr(f) ==
    [f EXCEPT !.syncType = "IDR",
              !.inferredIdrInterval =
                  IF f.previousFrameNum = -1 THEN @
                  ELSE Min({f.previousFrameNum + 1, MaxInterval})]

ParseSlice(f, n) ==
    LET frame == script.frames[n.frame]
        f1 == [f EXCEPT !.isIdr = f.syncType = "IDR", !.isRef = frame.ref,
                        !.sliceType = n.sliceType,
                        !.slicesAllI = @ /\ n.sliceType = "I",
                        !.currentFirstMb = n.firstMb]
    IN  IF ~f.sync THEN [f EXCEPT !.currentFirstMb = -1]
        ELSE IF f.frameNum # -1 THEN f1
        ELSE HandleGapsInFrameNum([f1 EXCEPT !.frameNum = frame.num])

(* The streaming information: version 1 has the size of each slice, and    *)
(* holds for the access unit; version 2 has the size of all slices but the *)
(* last.  When the last is smaller the code subtracts the number of user   *)
(* data SEI of this NALU, which is 1, from the size of the picture.        *)
ParseSei(f, n) ==
    LET full(k) == (k + 1) * n.sliceMbCount <= script.mbCount
        counts  == IF n.version = 1 THEN [k \in 0 .. Len(n.counts) - 1 |-> n.counts[k + 1]]
                   ELSE [k \in 0 .. n.sliceCount - 1 |->
                            IF full(k) THEN n.sliceMbCount ELSE script.mbCount - 1]
    IN  IF ~f.sync THEN f
        ELSE [f EXCEPT !.infoV1 = @ \/ n.version = 1, !.infoV2 = @ \/ n.version = 2,
                       !.recoveryPoint = @ \/ n.gopStart,
                       !.sliceMbCount = counts @@ @,
                       !.inferredSliceMbCount = counts[0],
                       !.sliceCount = Cardinality(DOMAIN counts)]

(* What ends ARSTREAM2_H264Filter_ParseNalu: ARSTREAM2_H264Filter_Sync,    *)
(* once there are a SPS and a PPS.                                         *)
Sync(f) ==
    IF f.spsSync /\ f.ppsSync /\ ~f.sync
    THEN [f EXCEPT !.sync = TRUE, !.previousFrameNum = -1,
                   !.mbStatus = NewStatus("unknown"),
                   !.refMbStatus = NewStatus("unknown")]
    ELSE f

ParseNalu(f, n) ==
    LET g == [f EXCEPT !.sliceType = "none"]
    IN  CASE n.type = "idr"   -> ParseSlice(ParseIdr(g), n)
          [] n.type = "slice" -> ParseSlice(g, n)
          [] n.type = "sei"   -> ParseSei(g, n)
          [] n.type = "sps"   -> [g EXCEPT !.spsSync = TRUE]
          [] n.type = "pps"   -> [g EXCEPT !.ppsSync = TRUE]

-----------------------------------------------------------------------------
(* Error concealment.  f.nalus counts the NALU items of the access unit.   *)

Incomplete(f) == [f EXCEPT !.incomplete = TRUE]

(* The macroblocks from first on are missing: a slice of skipped           *)
(* macroblocks, or a gray one in an IDR frame, takes their place if the    *)
(* streaming information tells that they were one or more whole slices,    *)
(* and a NALU item is left.                                                *)
Conceal(f, first, count) ==
    IF /\ f.generateSkippedPSlices /\ StreamingInfo(f)
       /\ f.infoV2 \/ f.sliceType = "P"
    THEN IF count <= 0 THEN f
         ELSE IF f.nalus < NaluCapacity
         THEN Mark([f EXCEPT !.nalus = @ + 1,
                             !.slices = Append(@, [firstMb |-> first, count |-> count])],
                   first, count, "concealed")
         ELSE Incomplete(Mark(f, first, count, "missing"))
    ELSE Incomplete(Mark(f, first, count, "missing"))

(* Mutant: the hole is taken to begin where the last slice began.          *)
MutHandleMissingSlices(f, n) ==
    IF ~IsSlice(n) \/ f.currentFirstMb = 0 THEN f
    ELSE IF ~f.sync THEN Incomplete(f)
    ELSE Conceal(f, f.previousFirstMb, f.currentFirstMb - f.previousFirstMb)

(* ARSTREAM2_H264FilterError_HandleMissingSlices: packets are missing      *)
(* before this NALU.  Those before a first slice were of no slice, or of   *)
(* the access unit before.                                                 *)
HandleMissingSlices(f, n) ==
    LET noPrevious == IF StreamingInfo(f) THEN f.previousSliceIndex < 0
                                          ELSE ~f.slicesReceived
        known == noPrevious \/ StreamingInfo(f) \/ f.inferredSliceMbCount > 0
        first == IF noPrevious THEN 0 ELSE NextFirstMb(f)
    IN  IF ~IsSlice(n) \/ f.currentFirstMb = 0
        THEN IF f.currentFirstMb = 0
             THEN [f EXCEPT !.previousFirstMb = 0, !.previousSliceIndex = 0]
             ELSE f
        ELSE IF ~f.sync \/ ~known \/ f.currentFirstMb <= first THEN Incomplete(f)
        ELSE Conceal(f, first, f.currentFirstMb - first)

(* ARSTREAM2_H264FilterError_HandleMissingEndOfFrame: the last NALU was    *)
(* not the last one of the access unit.                                    *)
HandleMissingEndOfFrame(f) ==
    LET noPrevious == IF StreamingInfo(f) THEN f.previousSliceIndex < 0
                                          ELSE ~f.slicesReceived
        first == IF noPrevious THEN 0 ELSE NextFirstMb(f)
    IN  IF ~f.sync \/ (StreamingInfo(f) /\ noPrevious) THEN Incomplete(f)
        ELSE Conceal(f, first, script.mbCount - first)

-----------------------------------------------------------------------------
(* ARSTREAM2_H264Filter_FillSliceMbStatus: what refers to a macroblock     *)
(* that is not valid is not valid either.                                  *)
FillSliceMbStatus(f, sliceType, first, count) ==
    [f EXCEPT !.mbStatus =
        [mb \in Part(f, first, count) |->
            IF sliceType = "I" THEN "validI"
            ELSE IF f.refMbStatus[mb] \in Valid THEN "validP"
            ELSE "propagation"] @@ @]

(* The index of the slice that begins at currentFirstMb.                   *)
SliceIndex(f) ==
    LET index == Max({f.previousSliceIndex, 0})
        first == IF f.previousSliceIndex < 0 THEN 0 ELSE f.previousFirstMb
        FirstMb(i) == first + MapThenSumSet(LAMBDA k : f.sliceMbCount[k], index .. i - 1)
    IN  Min({i \in index .. f.sliceCount :
                i = f.sliceCount \/ FirstMb(i) >= f.currentFirstMb})

(* With streaming information the slice has the size it says.              *)
ProcessKnownSlice(f) ==
    LET index == SliceIndex(f)
    IN  FillSliceMbStatus(
            [f EXCEPT !.slicesReceived = TRUE, !.previousSliceIndex = index,
                      !.previousFirstMb = f.currentFirstMb],
            f.sliceType, f.currentFirstMb, f.sliceMbCount[index])

(* Without, it has the size of the slices of an earlier access unit, or    *)
(* ends with the picture, or where the next one begins if none is missing  *)
(* in between.                                                             *)
ProcessSlice(f, missing, isLast) ==
    LET first  == f.currentFirstMb
        before == f.inferredPreviousFirstMb
        f1 == [f EXCEPT !.slicesReceived = TRUE, !.inferredPreviousFirstMb = first]
        f2 == IF f.inferredSliceMbCount > 0
              THEN FillSliceMbStatus(f1, f.sliceType, first, f.inferredSliceMbCount)
              ELSE IF isLast
              THEN FillSliceMbStatus(f1, f.sliceType, first, script.mbCount - first)
              ELSE f1
    IN  IF missing > 0 THEN f2
        ELSE FillSliceMbStatus(f2, f.previousSliceType, before, first - before)

(* ARSTREAM2_H264Filter_ProcessNalu.                                       *)
ProcessNalu(f, n, missing, isLast) ==
    LET g == IF ~IsSlice(n) THEN f
             ELSE IF ~f.sync THEN [f EXCEPT !.slicesReceived = TRUE]
             ELSE IF StreamingInfo(f) THEN ProcessKnownSlice(f)
             ELSE ProcessSlice(f, missing, isLast)
    IN  [g EXCEPT !.previousSliceType = f.sliceType,
                  !.slices = IF IsSlice(n) THEN Append(@, [firstMb |-> n.firstMb,
                                                           count   |-> n.count])
                                           ELSE @]

-----------------------------------------------------------------------------
(* ARSTREAM2_H264Filter_ResetAu.  The streaming information of version 2   *)
(* stays, and so does the size of slices that was last known.              *)
ResetAu(f, nalus) ==
    [f EXCEPT !.incomplete = FALSE, !.slicesAllI = TRUE, !.slicesReceived = FALSE,
              !.infoV1 = FALSE, !.recoveryPoint = FALSE,
              !.previousSliceIndex = -1, !.previousFirstMb = 0,
              !.inferredPreviousFirstMb = 0, !.currentFirstMb = -1,
              !.previousSliceType = "none", !.sliceType = "none",
              !.mbStatus = [mb \in DOMAIN @ |-> "unknown"],
              !.previousFrameNum = IF f.isRef THEN f.frameNum ELSE @,
              !.frameNum = -1, !.isIdr = FALSE, !.isRef = FALSE,
              !.syncType = "none", !.nalus = Len(nalus), !.slices = <<>>]

(* op of the value of x, which TLC evaluates once.                         *)
Apply(op(_), x) == CHOOSE y \in {op(z) : z \in {x}} : TRUE

(* The header of the i-th NALU of an access unit, and whether it is the    *)
(* last one the sender put there.  A STAP-A packet has two of them.        *)
IsSecond(nalus, i) == i > 1 /\ nalus[i].packets = nalus[i - 1].packets

Header(nalus, i) ==
    script.packets[Head(nalus[i].packets)].nalus[IF IsSecond(nalus, i) THEN 2 ELSE 1]

IsLast(nalus, i) ==
    LET p == script.packets[Last(nalus[i].packets)]
    IN  p.marker /\ (p.kind = "stap" => IsSecond(nalus, i))

FilterNalu(f, nalus, i) ==
    LET n == Header(nalus, i)
        missing == nalus[i].missing
        Handle(g) == IF missing > 0 THEN HandleMissingSlices(g, n) ELSE g
        Process(g) == ProcessNalu(g, n, missing, IsLast(nalus, i))
    IN  Apply(Process, Apply(Handle, Apply(Sync, ParseNalu(f, n))))

FilterNalus(f, nalus) ==
    LET Handle(g) == IF nalus # <<>> /\ ~IsLast(nalus, Len(nalus))
                     THEN HandleMissingEndOfFrame(g) ELSE g
    IN  Apply(Handle, FoldLeft(LAMBDA h, i : FilterNalu(h, nalus, i),
                               Apply(LAMBDA g : ResetAu(g, nalus), f),
                               [i \in DOMAIN nalus |-> i]))

HasErrors(f) == \E mb \in DOMAIN f.mbStatus : f.mbStatus[mb] \notin Valid

Outputs(f) == f.sync /\ (f.outputIncompleteAu \/ ~f.incomplete)

Count(condition) == IF condition THEN 1 ELSE 0

(* Mutant: the access unit that is not output stays a reference.           *)
MutEndAu(f) ==
    LET g == [f EXCEPT !.total = @ + Count(f.slicesReceived),
                       !.output = @ + Count(f.slicesReceived /\ Outputs(f)),
                       !.missed = @ + Count(f.slicesReceived /\ f.isRef /\ ~Outputs(f))]
    IN  IF f.sync /\ f.isRef
        THEN [g EXCEPT !.mbStatus = f.refMbStatus, !.refMbStatus = f.mbStatus]
        ELSE f

(* The end of ARSTREAM2_H264Filter_ProcessAu: the counters, and the status *)
(* of the reference for the access units to come.                          *)
EndAu(f) ==
    LET dropped == f.isRef /\ ~Outputs(f)
        g == [f EXCEPT
                !.total     = @ + Count(f.slicesReceived),
                !.output    = @ + Count(f.slicesReceived /\ Outputs(f)),
                !.errored   = @ + Count(f.slicesReceived /\ Outputs(f) /\ HasErrors(f)),
                !.discarded = @ + Count(f.slicesReceived /\ dropped
                                        /\ f.incomplete /\ ~f.outputIncompleteAu),
                !.missed    = @ + Count(f.slicesReceived /\ dropped),
                !.mbStatus  = f.refMbStatus,
                !.refMbStatus = IF dropped THEN [mb \in DOMAIN @ |-> "missing"]
                                ELSE f.mbStatus]
    IN  IF ~f.sync THEN f
        ELSE IF f.isRef THEN g
        ELSE [g EXCEPT !.mbStatus = f.mbStatus, !.refMbStatus = f.refMbStatus]

SyncType(f) ==
    IF f.syncType = "IDR" THEN "IDR"
    ELSE IF f.slicesAllI THEN "iFrame"
    ELSE IF f.recoveryPoint THEN "pirStart" ELSE "none"

(* The access unit as the filter returns it; lost is the number of frames  *)
(* that the gap in frame_num before it added to those missed.              *)
Result(f, nalus, missedBefore) ==
    [lost |-> f.missed - missedBefore, info |-> StreamingInfo(f),
     interval |-> f.inferredIdrInterval,
     frame |-> IF nalus = <<>> THEN 0 ELSE Header(nalus, 1).frame,
     counted |-> f.sync /\ f.slicesReceived, output |-> Outputs(f),
     isComplete |-> ~f.incomplete, hasErrors |-> HasErrors(f), isRef |-> f.isRef,
     syncType |-> SyncType(f), mbStatus |-> f.mbStatus, slices |-> f.slices]

-----------------------------------------------------------------------------
FilterInit ==
    /\ Init /\ chosen \in DOMAIN Scripts
    /\ \E incompleteAus, skippedSlices \in BOOLEAN :
          /\ script.packets = <<>> => ~incompleteAus /\ ~skippedSlices
          /\ filter = NewFilter(incompleteAus, skippedSlices)
    /\ results = <<>> /\ counted = {} /\ shown = {}

(* ARSTREAM2_H264Filter_ProcessAu: s has the filter and the results so far *)
(* of the step.                                                            *)
ProcessAu(s, unit) ==
    LET End(g) == [filter  |-> EndAu(g),
                   results |-> Append(s.results, Result(g, unit.nalus, s.filter.missed))]
    IN  Apply(End, FilterNalus(s.filter, unit.nalus))

(* The access units that the depayloader outputs in this step: there may   *)
(* be the one before the packet, and the one that the packet ends.         *)
ProcessAus ==
    LET new == SubSeq(output', Len(output) + 1, Len(output'))
        framesOf(P(_)) == {r.frame : r \in {x \in ToSet(results') : P(x)}}
    IN  /\ \E s \in {FoldLeft(ProcessAu, [filter |-> filter, results |-> <<>>], new)} :
              filter' = s.filter /\ results' = s.results
        /\ counted' = counted \cup framesOf(LAMBDA r : r.counted)
        /\ shown'   = shown \cup framesOf(LAMBDA r : r.counted /\ r.output)

Scripted ==
    /\ Len(stream) < Len(script.packets)
    /\ LET next == script.packets[Len(stream) + 1]
           p    == [kind |-> next.kind, ts |-> SentTs, marker |-> next.marker]
       IN  Receive(p, "both") \/ Lose(p)
    /\ ProcessAus
    /\ UNCHANGED chosen

AnyStream ==
    /\ script.packets = <<>> /\ Next
    /\ UNCHANGED filterVars

FilterNext == Scripted \/ AnyStream

FilterSpec == FilterInit /\ [][FilterNext]_<<vars, filterVars>>

-----------------------------------------------------------------------------
(* What the encoder sent and what has been filtered of it.                 *)
Frames == DOMAIN script.frames

MbsOf(n) == n.firstMb .. n.firstMb + n.count - 1

Received(k) ==
    LET headers(nalus) == {Header(nalus, i) : i \in DOMAIN nalus}
    IN  {n \in UNION {headers(output[i].nalus) : i \in DOMAIN output} :
            n.frame = k /\ IsSlice(n)}

Reference(k) == Max({j \in 1 .. k - 1 : script.frames[j].ref} \cup {0})

(* The macroblocks of each frame that a decoder fed with what the filter   *)
(* outputs shows as the encoder meant them.                                *)
Intact ==
    LET intact[k \in Frames \cup {0}] ==
            IF k = 0 THEN {}
            ELSE UNION {MbsOf(n) \cap (IF n.sliceType = "I" THEN Nat
                           ELSE IF Reference(k) \in shown THEN intact[Reference(k)]
                           ELSE {}) : n \in Received(k)}
    IN  intact

(* The reference frame filtered before frame k.                            *)
Before(k) == Max({j \in counted : j < k /\ script.frames[j].ref} \cup {0})

(* The reference frames between are missing and the filter does not see    *)
(* it: it compares frame_num for reference frames only, and an IDR frame   *)
(* among the missing ones may have led frame_num back to what was expected *)
(* (arstream2_h264_filter.c:84).                                           *)
GapUnseen(k) ==
    LET frame == script.frames[k]
    IN  /\ Before(k) # 0 /\ Before(k) # Reference(k)
        /\ \/ ~frame.ref
           \/ frame.num = (script.frames[Before(k)].num + 1) % script.maxFrameNum

Deceived(k) == GapUnseen(k) \/ \E j \in counted : j < k /\ script.frames[j].ref /\ GapUnseen(j)

(* No macroblock of an access unit that is output is said to be valid      *)
(* unless it is shown as it was meant: its slice was received, and if it   *)
(* refers to another frame the macroblock there is valid in turn, whatever *)
(* was lost in between, frames included.  None is said to be missing when  *)
(* its slice was received, if the sizes of the slices are known.  The gaps *)
(* that are not seen are the exception.                                    *)
MbStatusTrue ==
    \A i \in DOMAIN results :
        LET r == results[i]
        IN  r.output /\ r.counted => \A mb \in DOMAIN r.mbStatus :
                /\ r.mbStatus[mb] \in Valid =>
                      mb \in Intact[r.frame] \/ Deceived(r.frame)
                /\ r.info /\ r.mbStatus[mb] = "missing" =>
                      mb \notin UNION {MbsOf(n) : n \in Received(r.frame)}

(* "True if the access unit has errors (missing slices and/or error        *)
(* propagation)" (arstream2_stream_receiver.h:93): one without errors is   *)
(* shown as it was meant, wholly.                                          *)
ErrorsTold ==
    \A i \in DOMAIN results :
        LET r == results[i]
        IN  r.output /\ r.counted /\ ~r.hasErrors => DOMAIN r.mbStatus \subseteq Intact[r.frame]

(* An access unit that is said to be complete, and has any slice, has the  *)
(* macroblocks of the picture once each and in order: the concealment      *)
(* slices fit the holes exactly.                                           *)
CompleteCovers ==
    \A i \in DOMAIN results :
        LET s == results[i].slices
        IN  results[i].counted /\ results[i].isComplete =>
                /\ s[1].firstMb = 0
                /\ \A j \in 2 .. Len(s) : s[j].firstMb = s[j - 1].firstMb + s[j - 1].count
                /\ Last(s).firstMb + Last(s).count = script.mbCount

(* The reference frames between the previous one filtered and frame k.     *)
LostBefore(k) ==
    IF Before(k) = 0 THEN {}
    ELSE {j \in Before(k) + 1 .. k - 1 : script.frames[j].ref}

(* "totalFrameCount = outputFrameCount + missedFrameCount +                *)
(* (missedNonRefFrameCount)" (arstream2_h264_filter.c:683), and the gap    *)
(* before a reference frame counts the reference frames lost there, no     *)
(* more and no less, unless it is or they have an IDR frame, at which      *)
(* frame_num begins anew.  The gap must be less than the modulus of        *)
(* frame_num less one, at which frame_num is back to what it was and -1    *)
(* frame is counted (line 90); a gap of a whole group of pictures or more  *)
(* is not counted at all (line 97).                                        *)
FramesAccounted ==
    /\ filter.total = filter.output + filter.missed
          + Cardinality({j \in counted \ shown : ~script.frames[j].ref})
    /\ \A i \in DOMAIN results :
          LET r    == results[i]
              lost == LostBefore(r.frame)
          IN  /\ r.counted /\ r.isRef
              /\ \A j \in lost \cup {r.frame} : ~script.frames[j].idr
              /\ Cardinality(lost) < script.maxFrameNum - 1
              => r.lost = IF Cardinality(lost) < r.interval THEN Cardinality(lost)
                                                            ELSE 0
=============================================================================
