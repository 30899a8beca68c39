------------------------------ MODULE AppOutput ------------------------------
(***************************************************************************)
(* The outputs of the stream receiver (arstream2_stream_receiver.c,        *)
(* arstream2_stream_recorder.c): the network thread that produces access   *)
(* units, the output thread that gives them to the application, the        *)
(* recorder thread that writes them to a file, and the application thread  *)
(* that starts and stops the output, the recorder and the receiver.        *)
(*                                                                         *)
(* Each critical section of threadMutex, callbackMutex, the recorder's     *)
(* mutex and of the mutexes of the access unit FIFO is one action.         *)
(* Callbacks run outside the mutexes: entering and leaving one are two     *)
(* actions.                                                                *)
(*                                                                         *)
(* Abstracted: an access unit is a number, 2k for the k-th of the stream   *)
(* and 2k - 1 for the gray one made before it; an item is the record of    *)
(* that number, its buffer and its type of synchronisation.  The pool of   *)
(* items is not modelled: it has 200 of them, 60 buffers, and an item in   *)
(* use refers to a buffer, with at most 3 items to a buffer.               *)
(***************************************************************************)
EXTENDS Integers, SequencesExt

CONSTANTS Buffers,     (* the buffer pool of the access unit FIFO          *)
          NoItem,      (* a NULL item pointer                              *)
          NoQueue,     (* a NULL queue pointer                             *)
          Scenarios    (* bounds of which a run takes one                  *)

Outputs == {"app", "rec"}
SyncTypes == {"idr", "iFrame", "none"}

(* A scenario: how many access units the stream has and which buffers the  *)
(* pool; how many times the application starts the output and the recorder *)
(* and asks for a resync; config->generateFirstGrayIFrame; the types of    *)
(* the access units; if the receiver may be stopped; and how many access   *)
(* units there have been, none at first.                                   *)
ASSUME BoundAssumption ==
    /\ IsFiniteSet(Buffers) /\ Buffers # {}
    /\ Scenarios \subseteq [aus : Nat, pool : SUBSET Buffers, starts : Nat,
                             recordings : Nat, resyncs : Nat, gray : BOOLEAN,
                             types : SUBSET SyncTypes, stop : BOOLEAN,
                             au : {0}]

Items == [au : Nat, buffer : Buffers, sync : SyncTypes]

ASSUME NullAssumption == NoItem \notin Items /\ NoQueue \notin Outputs

VARIABLES
    refCount,     (* buffer->refCount                                      *)
    content,      (* the access unit each buffer holds                     *)
    queue,        (* auFifoQueue of appOutput and of recorder              *)
    list,         (* fifo->queue, and queue->prev and next of both         *)
    leaked,       (* how many items of a reset queue refer to each buffer  *)
    registered,   (* the callbacks of appOutput are not NULL               *)
    inProgress,   (* appOutput.callbackInProgress                          *)
    running,      (* appOutput.running and recorder.running                *)
    pending,      (* grayIFramePending of both                             *)
    sync,         (* streamReceiver->sync                                  *)
    netStop,      (* threadShouldStop of the network thread                *)
    outStop,      (* appOutput.threadShouldStop                            *)
    recorder,     (* recorder.recorder is not NULL                         *)
    recStop,      (* threadShouldStop of the recorder                      *)
    startPending, (* recorder.startPending                                 *)
    netPc, netItem,
    grayItem,     (* the gray IDR frame being queued                       *)
    target,       (* the output that an item is being queued for, or the   *)
                  (* queue that a flush has come to                        *)
    outPc, outItem,
    outRunning,   (* the output thread's local copies of running           *)
    outEnding,    (* and of threadShouldStop                               *)
    recPc, recItem,
    appPc,
    last,         (* the last access unit given to auReadyCallback, and    *)
                  (* the last recorded                                     *)
    asked,        (* history: outputs with a request for an IDR frame that *)
                  (* none has been accepted for yet                        *)
    dropped,      (* history: outputs whose last request was overwritten   *)
    bound         (* what is left of the scenario                          *)

poolVars == <<refCount, content>>
fifoVars == <<queue, list, leaked>>
cbVars   == <<registered, inProgress>>
stopVars == <<sync, netStop, outStop>>
grayVars == <<pending, asked, dropped>>
recFlags == <<recorder, recStop, startPending>>
runVars  == <<running, stopVars, grayVars, recFlags>>
held     == <<netItem, grayItem, target>>
netVars  == <<netPc, held>>
outVars  == <<outPc, outItem, outRunning, outEnding>>
recVars  == <<recPc, recItem>>
shared   == <<poolVars, fifoVars, cbVars, runVars>>
notNet   == <<outVars, recVars, appPc, last, bound>>
vars     == <<shared, netVars, notNet>>

(* ARSTREAM2_StreamReceiver_AutoStartRecorder, called by Init before there *)
(* is any access unit: if it is enabled by a directory, a start of the     *)
(* recorder is pending from the beginning.                                 *)
AutoStartRecorder(s, auto) ==
    /\ startPending = auto
    /\ bound = [s EXCEPT !.recordings = IF auto THEN @ - 1 ELSE @]

Init ==
    /\ refCount = [b \in Buffers |-> 0] /\ content = [b \in Buffers |-> 0]
    /\ queue = [t \in Outputs |-> <<>>]
    /\ list = [first |-> NoQueue, prev |-> [t \in Outputs |-> NoQueue],
               next |-> [t \in Outputs |-> NoQueue]]
    /\ leaked = [b \in Buffers |-> 0]
    /\ registered = FALSE /\ inProgress = FALSE
    /\ running = [t \in Outputs |-> FALSE] /\ pending = {}
    /\ sync = FALSE /\ netStop = FALSE /\ outStop = FALSE
    /\ recorder = FALSE /\ recStop = FALSE
    /\ netPc = "idle" /\ netItem = NoItem /\ grayItem = NoItem
    /\ target = "app"
    /\ outPc = "begin" /\ outItem = NoItem
    /\ outRunning = FALSE /\ outEnding = FALSE
    /\ recPc = "none" /\ recItem = NoItem
    /\ appPc = "idle" /\ last = [t \in Outputs |-> 0]
    /\ asked = {} /\ dropped = {}
    /\ \E s \in Scenarios :
          \E auto \in {FALSE, s.recordings > 0} : AutoStartRecorder(s, auto)

-----------------------------------------------------------------------------
(* The access unit FIFO (arstream2_h264.c).                                *)

(* ARSTREAM2_H264_AuFifoUnrefBuffer; the count is never below 0.           *)
Unref(b) ==
    refCount' = [refCount EXCEPT ![b] = IF @ # 0 THEN @ - 1 ELSE 0]

(* ARSTREAM2_H264_AuFifoBufferAddRef.                                      *)
AddRef(b) == refCount' = [refCount EXCEPT ![b] = @ + 1]

Free(b) == b \in bound.pool /\ refCount[b] = 0

(* AuFifoGetBuffer: b now holds the access unit given.                     *)
GetBuffer(b, au) ==
    /\ Free(b)
    /\ refCount' = [refCount EXCEPT ![b] = 1]
    /\ content' = [content EXCEPT ![b] = au]

(* AuFifoAddQueue and AuFifoRemoveQueue set the head and the tail of the   *)
(* queue to NULL, whatever is in it.                                       *)
ResetQueue(t) ==
    /\ queue' = [queue EXCEPT ![t] = <<>>]
    /\ leaked' = [b \in Buffers |->
                   leaked[b] + Cardinality({it \in ToSet(queue[t]) : it.buffer = b})]

(* The pointers of the list, as in module QueueList; but a queue that was  *)
(* removed may still be fifo->queue when it is added again.                *)
AddQueue(t) ==
    /\ ResetQueue(t)
    /\ list' = [first |-> t,
                next |-> [list.next EXCEPT ![t] = list.first],
                prev |-> [u \in Outputs |-> IF u = list.first THEN t
                            ELSE IF u = t THEN NoQueue ELSE list.prev[u]]]

RemoveQueue(t) ==
    /\ ResetQueue(t)
    /\ LET before == list.prev[t]
           after  == list.next[t]
       IN  list' = [first |-> IF before = NoQueue /\ after = NoQueue
                              THEN NoQueue ELSE list.first,
                    next |-> [u \in Outputs |-> IF u = t THEN NoQueue
                                ELSE IF u = before THEN after ELSE list.next[u]],
                    prev |-> [u \in Outputs |-> IF u = t THEN NoQueue
                                ELSE IF u = after THEN before ELSE list.prev[u]]]

(* ARSTREAM2_H264_AuFifoEnqueueItem, of a copy of the item.                *)
EnqueueItem(t, item) == queue' = [queue EXCEPT ![t] = Append(@, item)]

(* AuFifoDequeueItem by the output thread, which goes on at next if the    *)
(* queue is empty.                                                         *)
OutDequeue(next) ==
    IF queue["app"] = <<>>
    THEN outPc' = next /\ outItem' = NoItem /\ UNCHANGED queue
    ELSE /\ outPc' = "have" /\ outItem' = Head(queue["app"])
         /\ queue' = [queue EXCEPT !["app"] = Tail(@)]

-----------------------------------------------------------------------------
(* The condition variables: a signal wakes the thread that waits, if any.  *)
(* The recorder's thread waits with a time-out and needs no signal.        *)

SignalOutput ==
    outPc' = IF outPc = "wait" THEN "loop" ELSE outPc

SignalCallback ==
    appPc' = CASE appPc = "startAsleep" -> "startWait"
               [] appPc = "stopAsleep"  -> "stopWait"
               [] OTHER                 -> appPc

(* Mutant: the end of a callback is not signalled.                         *)
MutEndCallback == inProgress' = FALSE /\ UNCHANGED <<registered, appPc>>

(* The end of a callback, under callbackMutex.                             *)
EndCallback == inProgress' = FALSE /\ UNCHANGED registered /\ SignalCallback

-----------------------------------------------------------------------------
(* What is started asks for a gray IDR frame, if configured so.            *)
AskGray(t) ==
    IF bound.gray
    THEN /\ pending' = pending \cup {t} /\ asked' = asked \cup {t}
         /\ dropped' = dropped \ {t}
    ELSE UNCHANGED grayVars

(* ARSTREAM2_StreamReceiver_StreamRecorderInit, by the network thread when *)
(* the start is pending, or by the application's: the recorder and its     *)
(* thread, then the queue, then running.                                   *)
CreateRecorder ==
    /\ recorder' = TRUE /\ recStop' = FALSE
    /\ recPc' = "check" /\ UNCHANGED recItem

RunRecorder ==
    /\ running' = [running EXCEPT !["rec"] = TRUE]
    /\ AskGray("rec")

-----------------------------------------------------------------------------
(* The network thread.                                                     *)

(* A request for a gray IDR frame, and an I-frame or recovery point to     *)
(* make one for.                                                           *)
GrayNeeded == netPc = "gray" /\ pending # {} /\ netItem.sync = "iFrame"

(* Mutant: the access unit is not copied into its buffer.                  *)
MutNetNewAu(b) ==
    /\ netPc = "idle" /\ ~netStop /\ bound.au < bound.aus
    /\ Free(b) /\ refCount' = [refCount EXCEPT ![b] = 1]
    /\ \E s \in bound.types :
          netItem' = [au |-> 2 * (bound.au + 1), buffer |-> b, sync |-> s]
    /\ bound' = [bound EXCEPT !.au = @ + 1] /\ netPc' = "filter"
    /\ UNCHANGED <<content, fifoVars, cbVars, runVars, grayItem, target,
                   outVars, recVars, appPc, last>>

(* An access unit is complete: it has a buffer of its own.                 *)
NetNewAu(b) ==
    /\ netPc = "idle" /\ ~netStop /\ bound.au < bound.aus
    /\ GetBuffer(b, 2 * (bound.au + 1))
    /\ \E s \in bound.types :
          netItem' = [au |-> 2 * (bound.au + 1), buffer |-> b, sync |-> s]
    /\ bound' = [bound EXCEPT !.au = @ + 1] /\ netPc' = "filter"
    /\ UNCHANGED <<fifoVars, cbVars, runVars, grayItem, target, outVars,
                   recVars, appPc, last>>

(* There is no buffer for the next access unit, or for a gray one:         *)
(* AuFifoFlush walks the list, without a lock, and empties the queues.     *)
NetNoBuffer ==
    /\ \A b \in Buffers : ~Free(b)
    /\ \/ netPc = "idle" /\ ~netStop /\ bound.au < bound.aus /\ netPc' = "flush"
       \/ GrayNeeded /\ netPc' = "grayFlush"
    /\ target' = list.first
    /\ UNCHANGED <<shared, netItem, grayItem, notNet>>

NetFlush ==
    /\ netPc \in {"flush", "grayFlush"} /\ target # NoQueue
    /\ IF queue[target] = <<>>
       THEN target' = list.next[target] /\ UNCHANGED <<refCount, queue>>
       ELSE /\ Unref(Head(queue[target]).buffer)
            /\ queue' = [queue EXCEPT ![target] = Tail(@)] /\ UNCHANGED target
    /\ UNCHANGED <<content, list, leaked, cbVars, runVars, netPc, netItem,
                   grayItem, notNet>>

NetFlushed ==
    /\ netPc \in {"flush", "grayFlush"} /\ target = NoQueue
    /\ netPc' = IF netPc = "flush" THEN "idle" ELSE "output"
    /\ target' = "app"
    /\ UNCHANGED <<shared, netItem, grayItem, notNet>>

(* ARSTREAM2_H264Filter_ProcessAu: the access unit may bring a SPS and a   *)
(* PPS that synchronise the filter, which happens once; without sync it is *)
(* not output.  The callback then starts the recorder if that is pending.  *)
NetSync ==
    /\ netPc = "filter" /\ ~sync
    /\ sync' = TRUE /\ netPc' = IF startPending THEN "recInit" ELSE "spsPps"
    /\ UNCHANGED <<poolVars, fifoVars, cbVars, running, grayVars, netStop,
                   outStop, recFlags, held, notNet>>

NetCreateRecorder ==
    /\ netPc = "recInit" /\ CreateRecorder /\ netPc' = "recAdd"
    /\ UNCHANGED <<poolVars, fifoVars, cbVars, running, stopVars, grayVars,
                   startPending, held, outVars, appPc, last, bound>>

NetAddRecorder ==
    /\ netPc = "recAdd" /\ AddQueue("rec") /\ netPc' = "recRun"
    /\ UNCHANGED <<poolVars, cbVars, runVars, held, notNet>>

NetRunRecorder ==
    /\ netPc = "recRun" /\ RunRecorder
    /\ startPending' = FALSE /\ netPc' = "spsPps"
    /\ UNCHANGED <<poolVars, fifoVars, cbVars, stopVars, recorder, recStop,
                   held, notNet>>

NetFiltered ==
    /\ netPc = "filter"
    /\ netPc' = IF sync THEN "gray" ELSE "free"
    /\ UNCHANGED <<shared, held, notNet>>

(* ARSTREAM2_StreamReceiver_H264FilterSpsPpsCallback.                      *)
NetEnterSpsPps ==
    /\ netPc = "spsPps" /\ registered
    /\ inProgress' = TRUE /\ netPc' = "inSpsPps"
    /\ UNCHANGED <<poolVars, fifoVars, registered, runVars, held, notNet>>

NetLeaveSpsPps ==
    /\ (netPc = "spsPps" /\ ~registered) \/ netPc = "inSpsPps"
    /\ EndCallback /\ netPc' = "gray"
    /\ UNCHANGED <<poolVars, fifoVars, runVars, held, outVars, recVars,
                   last, bound>>

-----------------------------------------------------------------------------
(* ARSTREAM2_StreamReceiver_RtpReceiverAuCallback, once the access unit is *)
(* filtered.                                                               *)

(* A real IDR frame serves who waits for a gray one; an I-frame, or a      *)
(* recovery point, has a gray one generated before it.                     *)
NetNoGray ==
    /\ netPc = "gray" /\ netPc' = "output"
    /\ \/ pending = {} /\ UNCHANGED pending
       \/ pending # {} /\ netItem.sync = "idr" /\ pending' = {}
       \/ netItem.sync = "none" /\ UNCHANGED pending
    /\ UNCHANGED <<poolVars, fifoVars, cbVars, running, stopVars, asked,
                   dropped, recFlags, held, notNet>>

(* ARSTREAM2_H264FilterError_GenerateGrayIdrFrame in buffer b: an IDR      *)
(* frame just before the access unit, or none, when the filter has no      *)
(* slice context saved or a NALU cannot be made.                           *)
GrayIdrFrame(b) ==
    {NoItem, [au |-> netItem.au - 1, buffer |-> b, sync |-> "idr"]}

(* ARSTREAM2_StreamReceiver_GenerateGrayIdrFrame up to its outputs: if no  *)
(* frame is made, the buffer is given back.                                *)
NetGray(b) ==
    /\ GrayNeeded /\ Free(b)
    /\ \E frame \in GrayIdrFrame(b) :
          /\ grayItem' = frame
          /\ IF frame = NoItem THEN UNCHANGED poolVars ELSE GetBuffer(b, frame.au)
    /\ netPc' = "output"
    /\ UNCHANGED <<fifoVars, cbVars, runVars, netItem, target, notNet>>

Item == IF grayItem # NoItem THEN grayItem ELSE netItem

(* After the application's output, the recorder's; after that the item is  *)
(* freed.                                                                  *)
AfterOutput == IF target = "app" THEN "output" ELSE "free"

Other == IF target = "app" THEN "rec" ELSE "app"

(* running is read under threadMutex and used after its release.  A gray   *)
(* frame is for those who wait for one, others are for those who do not.   *)
Accepts(t) ==
    /\ running[t]
    /\ IF grayItem # NoItem THEN t \in pending
                            ELSE t \notin pending \/ netItem.sync = "idr"

NetAccept ==
    /\ netPc = "output" /\ Accepts(target)
    /\ netPc' = "enqueue"
    /\ asked' = IF Item.sync = "idr" THEN asked \ {target} ELSE asked
    /\ UNCHANGED <<poolVars, fifoVars, cbVars, running, stopVars, pending,
                   dropped, recFlags, held, notNet>>

NetSkip ==
    /\ netPc = "output" /\ ~Accepts(target)
    /\ netPc' = AfterOutput /\ target' = Other
    /\ UNCHANGED <<shared, netItem, grayItem, notNet>>

(* Mutant: the copy of the item has no reference of its own.               *)
MutNetAddRef ==
    /\ netPc = "enqueue" /\ netPc' = "signal"
    /\ EnqueueItem(target, Item)
    /\ UNCHANGED <<poolVars, list, leaked, cbVars, runVars, held, notNet>>

(* Mutant: the item is queued twice, with a reference for each.            *)
MutNetEnqueue ==
    /\ netPc = "enqueue" /\ netPc' = "signal"
    /\ refCount' = [refCount EXCEPT ![Item.buffer] = @ + 2]
    /\ queue' = [queue EXCEPT ![target] = @ \o <<Item, Item>>]
    /\ UNCHANGED <<content, list, leaked, cbVars, runVars, held, notNet>>

(* ARSTREAM2_StreamReceiver_AppOutputAuEnqueue and RecorderAuEnqueue: the  *)
(* reference is added first, while the network thread has one of its own.  *)
NetEnqueue ==
    /\ netPc = "enqueue" /\ netPc' = "signal"
    /\ AddRef(Item.buffer) /\ EnqueueItem(target, Item)
    /\ UNCHANGED <<content, list, leaked, cbVars, runVars, held, notNet>>

(* Mutant: the gray frame queued for one is taken to serve the other too.  *)
MutNetSignal ==
    /\ netPc = "signal"
    /\ IF target = "app" THEN SignalOutput ELSE UNCHANGED outPc
    /\ pending' = IF grayItem # NoItem THEN {} ELSE pending
    /\ netPc' = AfterOutput /\ target' = Other
    /\ dropped' = IF grayItem # NoItem THEN dropped \cup (asked \cap {target})
                                       ELSE dropped
    /\ UNCHANGED <<poolVars, fifoVars, cbVars, running, stopVars, asked,
                   recFlags, netItem, grayItem, outItem, outRunning, outEnding,
                   recVars, appPc, last, bound>>

(* The signal, and then without a mutex the end of the request for a gray  *)
(* frame, even of one that has been made since this frame was accepted.    *)
NetSignal ==
    /\ netPc = "signal"
    /\ IF target = "app" THEN SignalOutput ELSE UNCHANGED outPc
    /\ pending' = IF grayItem # NoItem THEN pending \ {target} ELSE pending
    /\ dropped' = IF grayItem # NoItem THEN dropped \cup (asked \cap {target})
                                       ELSE dropped
    /\ netPc' = AfterOutput /\ target' = Other
    /\ UNCHANGED <<poolVars, fifoVars, cbVars, running, stopVars, asked,
                   recFlags, netItem, grayItem, outItem, outRunning, outEnding,
                   recVars, appPc, last, bound>>

(* The gray frame is freed, and the access unit is next.                   *)
NetFree ==
    /\ netPc = "free"
    /\ Unref(Item.buffer)
    /\ IF grayItem # NoItem
       THEN grayItem' = NoItem /\ netPc' = "output" /\ UNCHANGED netItem
       ELSE netItem' = NoItem /\ netPc' = "idle" /\ UNCHANGED grayItem
    /\ UNCHANGED <<content, fifoVars, cbVars, runVars, target, notNet>>

NetEnd ==
    /\ netPc = "idle" /\ netStop
    /\ netPc' = "done"
    /\ UNCHANGED <<shared, held, notNet>>

-----------------------------------------------------------------------------
(* The output thread: ARSTREAM2_StreamReceiver_RunAppOutputThread.         *)

OutBegin ==
    /\ outPc = "begin"
    /\ outRunning' = running["app"] /\ outEnding' = outStop
    /\ outPc' = "loop"
    /\ UNCHANGED <<shared, netVars, outItem, recVars, appPc, last, bound>>

OutLoop ==
    /\ outPc = "loop"
    /\ IF outEnding THEN outPc' = "done" /\ UNCHANGED <<queue, outItem>>
       ELSE IF outRunning THEN OutDequeue("check")
       ELSE outPc' = "check" /\ UNCHANGED <<queue, outItem>>
    /\ UNCHANGED <<poolVars, list, leaked, cbVars, runVars, netVars, outRunning,
                   outEnding, recVars, appPc, last, bound>>

OutEnterGet ==
    /\ outPc = "have" /\ registered
    /\ inProgress' = TRUE /\ outPc' = "inGet"
    /\ UNCHANGED <<poolVars, fifoVars, registered, runVars, netVars, outItem,
                   outRunning, outEnding, recVars, appPc, last, bound>>

(* There is no callback, or no buffer has come from it.                    *)
OutNoBuffer ==
    /\ (outPc = "have" /\ ~registered) \/ outPc = "inGet"
    /\ EndCallback /\ outPc' = "free"
    /\ UNCHANGED <<poolVars, fifoVars, runVars, netVars, outItem, outRunning,
                   outEnding, recVars, last, bound>>

(* The access unit is copied and given to auReadyCallback, still under     *)
(* callbackInProgress.                                                     *)
OutEnterReady ==
    /\ outPc = "inGet" /\ registered
    /\ outPc' = "inReady"
    /\ last' = [last EXCEPT !["app"] = content[outItem.buffer]]
    /\ UNCHANGED <<shared, netVars, outItem, outRunning, outEnding, recVars,
                   appPc, bound>>

(* auReadyCallback may answer that it needs to resynchronise.              *)
OutLeaveReady ==
    /\ outPc = "inReady"
    /\ EndCallback
    /\ \/ outPc' = "free" /\ UNCHANGED bound
       \/ /\ bound.resyncs > 0 /\ bound' = [bound EXCEPT !.resyncs = @ - 1]
          /\ outPc' = "resync"
    /\ UNCHANGED <<poolVars, fifoVars, runVars, netVars, outItem, outRunning,
                   outEnding, recVars, last>>

(* The request for a gray IDR frame, made without a mutex.                 *)
OutResync ==
    /\ outPc = "resync" /\ AskGray("app") /\ outPc' = "free"
    /\ UNCHANGED <<poolVars, fifoVars, cbVars, running, stopVars, recFlags,
                   netVars, outItem, outRunning, outEnding, recVars, appPc,
                   last, bound>>

OutFree ==
    /\ outPc = "free"
    /\ Unref(outItem.buffer) /\ outItem' = NoItem /\ outPc' = "next"
    /\ UNCHANGED <<content, fifoVars, cbVars, runVars, netVars, outRunning,
                   outEnding, recVars, appPc, last, bound>>

OutNext ==
    /\ outPc = "next"
    /\ OutDequeue("check")
    /\ UNCHANGED <<poolVars, list, leaked, cbVars, runVars, netVars, outRunning,
                   outEnding, recVars, appPc, last, bound>>

(* Mutant: the thread waits without looking at threadShouldStop.           *)
MutOutCheck ==
    /\ outPc = "check"
    /\ outRunning' = running["app"] /\ outEnding' = outStop
    /\ outPc' = "wait"
    /\ UNCHANGED <<shared, netVars, outItem, recVars, appPc, last, bound>>

(* The flags are read again and the wait begins under threadMutex; what    *)
(* was read is used after the wait.                                        *)
OutCheck ==
    /\ outPc = "check"
    /\ outRunning' = running["app"] /\ outEnding' = outStop
    /\ outPc' = IF outStop THEN "loop" ELSE "wait"
    /\ UNCHANGED <<shared, netVars, outItem, recVars, appPc, last, bound>>

-----------------------------------------------------------------------------
(* The recorder thread: ARSTREAM2_StreamRecorder_RunThread.                *)

recAside == <<poolVars, cbVars, runVars, netVars, outVars, appPc, bound>>

(* The thread reads threadShouldStop when it begins and when the queue is  *)
(* empty; then it waits for a signal or a time-out: it is at "loop" until  *)
(* its next step.                                                          *)
RecCheck ==
    /\ recPc = "check"
    /\ recPc' = IF recStop THEN "done" ELSE "loop"
    /\ UNCHANGED <<recAside, fifoVars, recItem, last>>

RecDequeue ==
    /\ recPc = "loop"
    /\ IF queue["rec"] = <<>>
       THEN recPc' = "check" /\ UNCHANGED <<queue, recItem>>
       ELSE /\ recPc' = "have" /\ recItem' = Head(queue["rec"])
            /\ queue' = [queue EXCEPT !["rec"] = Tail(@)]
    /\ UNCHANGED <<recAside, list, leaked, last>>

(* The access unit is written to the file and freed.                       *)
RecRecord ==
    /\ recPc = "have" /\ recPc' = "loop"
    /\ last' = [last EXCEPT !["rec"] = content[recItem.buffer]]
    /\ Unref(recItem.buffer) /\ recItem' = NoItem
    /\ UNCHANGED <<content, cbVars, runVars, netVars, outVars, appPc, bound,
                   fifoVars>>

-----------------------------------------------------------------------------
(* The application thread.                                                 *)

threads == <<netVars, outVars, recVars, last>>

(* ARSTREAM2_StreamReceiver_StartAppOutput.                                *)
StartAppOutput ==
    /\ appPc = "idle" /\ bound.starts > 0 /\ ~running["app"]
    /\ bound' = [bound EXCEPT !.starts = @ - 1]
    /\ AddQueue("app") /\ appPc' = "startWait"
    /\ UNCHANGED <<poolVars, cbVars, runVars, threads>>

(* ARSTREAM2_StreamReceiver_StopAppOutput; it is assumed of the            *)
(* application that it stops what it has started: the code tests nothing,  *)
(* and would destroy a mutex that is not initialised.                      *)
StopAppOutput ==
    /\ appPc = "idle" /\ running["app"]
    /\ running' = [running EXCEPT !["app"] = FALSE] /\ appPc' = "stopWait"
    /\ UNCHANGED <<poolVars, fifoVars, cbVars, stopVars, grayVars, recFlags,
                   threads, bound>>

(* Both wait for the callback in progress before they set the callbacks.   *)
AppSleep ==
    /\ appPc \in {"startWait", "stopWait"} /\ inProgress
    /\ appPc' = IF appPc = "startWait" THEN "startAsleep" ELSE "stopAsleep"
    /\ UNCHANGED <<shared, threads, bound>>

StartRegister ==
    /\ appPc = "startWait" /\ ~inProgress
    /\ registered' = TRUE /\ appPc' = "startSync"
    /\ UNCHANGED <<poolVars, fifoVars, inProgress, runVars, threads, bound>>

(* The SPS/PPS callback is called at once if there is sync already.        *)
StartEnterSpsPps ==
    /\ appPc = "startSync" /\ sync
    /\ inProgress' = TRUE /\ appPc' = "inSpsPps"
    /\ UNCHANGED <<poolVars, fifoVars, registered, runVars, threads, bound>>

StartLeaveSpsPps ==
    /\ appPc = "inSpsPps"
    /\ inProgress' = FALSE /\ appPc' = "startRun"
    /\ UNCHANGED <<poolVars, fifoVars, registered, runVars, threads, bound>>

StartRun ==
    /\ appPc = "startRun" \/ (appPc = "startSync" /\ ~sync)
    /\ running' = [running EXCEPT !["app"] = TRUE] /\ AskGray("app")
    /\ appPc' = "idle"
    /\ UNCHANGED <<poolVars, fifoVars, cbVars, stopVars, recFlags, threads, bound>>

StopUnregister ==
    /\ appPc = "stopWait" /\ ~inProgress
    /\ registered' = FALSE /\ appPc' = "stopRemove"
    /\ UNCHANGED <<poolVars, fifoVars, inProgress, runVars, threads, bound>>

StopRemove ==
    /\ appPc = "stopRemove"
    /\ RemoveQueue("app") /\ appPc' = "idle"
    /\ UNCHANGED <<poolVars, cbVars, runVars, threads, bound>>

-----------------------------------------------------------------------------
(* ARSTREAM2_StreamReceiver_StartRecorder: with sync the recorder is       *)
(* started at once, without it the start is left to the network thread.    *)
(* It is assumed of the application that it does not call it again while a *)
(* start is pending, nor stops the recorder while the network thread is    *)
(* starting it: the code has no guard against either.                      *)
StartingRecorder == startPending \/ netPc \in {"recInit", "recAdd", "recRun"}

StartRecorder ==
    /\ appPc = "idle" /\ bound.recordings > 0
    /\ ~recorder /\ ~StartingRecorder
    /\ bound' = [bound EXCEPT !.recordings = @ - 1]
    /\ appPc' = IF sync THEN "recInit" ELSE "recPending"
    /\ UNCHANGED <<shared, threads>>

RecorderPending ==
    /\ appPc = "recPending" /\ startPending' = TRUE /\ appPc' = "idle"
    /\ UNCHANGED <<poolVars, fifoVars, cbVars, running, stopVars, grayVars,
                   recorder, recStop, threads, bound>>

AppCreateRecorder ==
    /\ appPc = "recInit" /\ CreateRecorder /\ appPc' = "recAdd"
    /\ UNCHANGED <<poolVars, fifoVars, cbVars, running, stopVars, grayVars,
                   startPending, netVars, outVars, last, bound>>

AppAddRecorder ==
    /\ appPc = "recAdd" /\ AddQueue("rec") /\ appPc' = "recRun"
    /\ UNCHANGED <<poolVars, cbVars, runVars, threads, bound>>

AppRunRecorder ==
    /\ appPc = "recRun" /\ RunRecorder /\ appPc' = "idle"
    /\ UNCHANGED <<poolVars, fifoVars, cbVars, stopVars, recFlags, threads, bound>>

(* ARSTREAM2_StreamReceiver_StreamRecorderStop, for StopRecorder and Stop. *)
EndRecorder(pc) ==
    /\ recStop' = TRUE /\ appPc' = pc
    /\ UNCHANGED <<poolVars, fifoVars, cbVars, running, stopVars, grayVars,
                   recorder, startPending, threads, bound>>

StopRecorder ==
    appPc = "idle" /\ recorder /\ ~StartingRecorder /\ EndRecorder("recStopped")

RecorderStopped ==
    /\ appPc \in {"recStopped", "stopRec"}
    /\ running' = [running EXCEPT !["rec"] = FALSE]
    /\ appPc' = IF appPc = "stopRec" THEN "stopNet" ELSE "recJoin"
    /\ UNCHANGED <<poolVars, fifoVars, cbVars, stopVars, grayVars, recFlags,
                   threads, bound>>

(* ARSTREAM2_StreamReceiver_StreamRecorderFree; the recorder is not        *)
(* running, as StreamRecorderStop has just seen to it.                     *)
FreeRecorder ==
    /\ appPc = "recJoin" /\ recPc = "done"
    /\ recorder' = FALSE /\ recPc' = "none" /\ appPc' = "recRemove"
    /\ UNCHANGED <<poolVars, fifoVars, cbVars, running, stopVars, grayVars, recStop,
                   startPending, netVars, outVars, recItem, last, bound>>

RecorderRemove ==
    /\ appPc = "recRemove" /\ RemoveQueue("rec") /\ appPc' = "idle"
    /\ UNCHANGED <<poolVars, cbVars, runVars, threads, bound>>

(* ARSTREAM2_StreamReceiver_Stop: the recorder, the network thread and the *)
(* output thread.                                                          *)
Stop ==
    /\ appPc = "idle" /\ bound.stop /\ ~netStop
    /\ \/ recorder /\ EndRecorder("stopRec")
       \/ ~recorder /\ appPc' = "stopNet" /\ UNCHANGED <<shared, threads, bound>>

StopNetwork ==
    /\ appPc = "stopNet" /\ netStop' = TRUE /\ appPc' = "stopThread"
    /\ UNCHANGED <<poolVars, fifoVars, cbVars, running, sync, outStop, grayVars,
                   recFlags, threads, bound>>

StopThread ==
    /\ appPc = "stopThread" /\ outStop' = TRUE /\ appPc' = "stopSignal"
    /\ UNCHANGED <<poolVars, fifoVars, cbVars, running, sync, netStop, grayVars,
                   recFlags, threads, bound>>

StopSignal ==
    /\ appPc = "stopSignal" /\ SignalOutput /\ appPc' = "idle"
    /\ UNCHANGED <<shared, netVars, outItem, outRunning, outEnding, recVars,
                   last, bound>>

-----------------------------------------------------------------------------
NetStep ==
    \/ \E b \in Buffers : NetNewAu(b) \/ NetGray(b)
    \/ NetNoBuffer \/ NetFlush \/ NetFlushed \/ NetSync \/ NetFiltered
    \/ NetCreateRecorder \/ NetAddRecorder \/ NetRunRecorder
    \/ NetEnterSpsPps \/ NetLeaveSpsPps \/ NetNoGray
    \/ NetAccept \/ NetSkip \/ NetEnqueue \/ NetSignal
    \/ NetFree \/ NetEnd

OutStep ==
    \/ OutBegin \/ OutLoop \/ OutEnterGet \/ OutNoBuffer \/ OutEnterReady
    \/ OutLeaveReady \/ OutResync \/ OutFree \/ OutNext \/ OutCheck

RecStep == RecCheck \/ RecDequeue \/ RecRecord

AppCall == StartAppOutput \/ StopAppOutput \/ StartRecorder \/ StopRecorder \/ Stop

AppStep ==
    \/ AppSleep \/ StartRegister \/ StartEnterSpsPps \/ StartLeaveSpsPps
    \/ StartRun \/ StopUnregister \/ StopRemove
    \/ RecorderPending \/ AppCreateRecorder \/ AppAddRecorder \/ AppRunRecorder
    \/ RecorderStopped \/ FreeRecorder \/ RecorderRemove
    \/ StopNetwork \/ StopThread \/ StopSignal

Next == NetStep \/ OutStep \/ RecStep \/ AppCall \/ AppStep

Spec == Init /\ [][Next]_vars

(* The threads are scheduled, the recorder's wait has a time-out and the   *)
(* application's callbacks return; what the application calls, and whether *)
(* it calls anything, is up to it.                                         *)
FairSpec ==
    /\ Spec /\ WF_vars(NetStep) /\ WF_vars(OutStep) /\ WF_vars(RecStep)
    /\ WF_vars(AppStep)

-----------------------------------------------------------------------------
TypeOK ==
    /\ refCount \in [Buffers -> Nat] /\ content \in [Buffers -> Nat]
    /\ leaked \in [Buffers -> Nat]
    /\ \A b \in Buffers : content[b] = 0 => refCount[b] = 0
    /\ \A t \in Outputs :
          /\ queue[t] \in Seq(Items) /\ running[t] \in BOOLEAN
          /\ last[t] \in Nat
          /\ {list.first, list.prev[t], list.next[t]} \subseteq Outputs \cup {NoQueue}
    /\ {registered, inProgress, sync, netStop, outStop, recorder, recStop,
        startPending, outRunning, outEnding} \subseteq BOOLEAN
    /\ {netItem, grayItem, outItem, recItem} \subseteq Items \cup {NoItem}
    /\ target \in Outputs \cup {NoQueue}
    /\ pending \cup asked \cup dropped \subseteq Outputs

(* The items that refer to a buffer: the network thread's, those of the    *)
(* queues, the output and the recorder thread's.                           *)
QueuedItems(t) == {<<t, it>> : it \in ToSet(queue[t])}

Copies ==
    QueuedItems("app") \cup QueuedItems("rec")
        \cup {<<"out", outItem>>, <<"recorder", recItem>>,
              <<"net", netItem>>, <<"gray", grayItem>>}

Holders(b) == {c \in Copies : c[2] # NoItem /\ c[2].buffer = b}

(* A buffer is free exactly when no item refers to it, whatever the        *)
(* interleaving of the network thread's enqueues, flush and free, of the   *)
(* dequeue and free of the two threads it serves, and of their stops and   *)
(* restarts: what a stop leaves behind in a queue (1310, 1945) is lost,    *)
(* but nothing in use is ever taken for free.                              *)
RefCountExact ==
    \A b \in Buffers : refCount[b] = Cardinality(Holders(b)) + leaked[b]

(* What the threads and the queues hold is still what was received: the    *)
(* buffer has not been given to another access unit meanwhile.             *)
HeldAuIntact ==
    \A it \in {outItem, recItem} \cup UNION {ToSet(queue[t]) : t \in Outputs} :
        it # NoItem => content[it.buffer] = it.au

(* Every access unit given to auReadyCallback, and every one recorded, is  *)
(* later in the stream than the last one given to it, a gray IDR frame     *)
(* right where it was made: out of order is refused, and so is the same    *)
(* one a second time, be it at once.                                       *)
DeliveredInOrder ==
    [][/\ OutEnterReady => last'["app"] > last["app"]
       /\ RecRecord     => last'["rec"] > last["rec"]]_vars

(* An output that asked for an IDR frame when it was started, or when it   *)
(* lost the reference (1608), is given no other frame before it has had    *)
(* one, even if the other output asks and is served at another time; the   *)
(* exception is a request made while the network thread is queueing the    *)
(* gray frame of the one before, which 844 and 861 take for answered.      *)
RequestsServed ==
    [][\A t \in Outputs :
          NetAccept /\ t = target /\ t \in asked \ dropped
              => Item.sync = "idr"]_vars

(* "signal the thread to avoid a deadlock" (1992): once the receiver is    *)
(* stopped the output thread ends, also when it is about to wait, in a     *)
(* callback, or has never had an access unit.                              *)
StopEndsThread == []<>(outStop => outPc = "done")

(* StartAppOutput, StopAppOutput, StartRecorder, StopRecorder and Stop     *)
(* return: the wait for a callback in progress is not missed by the signal *)
(* that ends it (1869-1873, 1927-1931), and the recorder's thread that     *)
(* StopRecorder joins sees that it should stop, even if it began late.     *)
CallsReturn == []<>(appPc = "idle")

(* "will not be called any more" (the header's word on StopAppOutput):     *)
(* once it has returned, no callback runs.                                 *)
NoCallbackAfterStop ==
    appPc = "idle" /\ ~running["app"] =>
        outPc \notin {"inGet", "inReady"} /\ netPc # "inSpsPps"
=============================================================================
