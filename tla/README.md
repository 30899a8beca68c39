# libARStream2: a verification development

libARStream2 streams H.264 video over RTP: a *stream sender* cuts NAL units (NALUs) into RTP
packets, a *stream receiver* rebuilds access units from the packets, repairs what it can of the
losses, and gives the access units to the application, to a recorder and, packet by packet, to
*resenders*. Two or more threads share pools of preallocated items and reference-counted buffers,
under several mutexes, and everything happens on an unreliable network. This directory holds TLA+
models of that code, the TLC configurations that check them, and TLAPS proofs.

Line numbers refer to `src/src/`; `PROJECT.json` maps every definition to its lines.

## 1. The system

| Component | Code | State | Operations |
|---|---|---|---|
| RTP packet FIFO | `arstream2_rtp.c` | pools of items and buffers with `refCount`; a list of queues: the receiver's, one per resender | get/ref/unref buffer, pop/push item, add/remove queue, ordered enqueue, dequeue, fill and add from message vector, resend enqueue, clean from time-out or message vector, flush |
| Sequence number extension | `arstream2_rtp.c` 1314-1373 | highest and previous extended number | extend on every packet received |
| Depayloader | `arstream2_rtp_h264.c` 683-1386 | current access unit, incomplete FU-A NALU, packets missing so far | one packet to NALUs; hand the access unit over |
| Access unit FIFO | `arstream2_h264.c` | as the packet FIFO, plus NALU items | the same, plus duplicate item |
| Stream receiver | `arstream2_stream_receiver.c` | network, output and recorder threads; callbacks; list of resenders | Init, Free, Stop, Start/Stop of app output, recorder, resender |
| RTP receiver | `arstream2_rtp_receiver.c` | sockets or mux channels, message vector | ProcessRtp, ProcessRtcp, ProcessEnd |
| RTP sender, packetizer | `arstream2_rtp_sender.c`, `arstream2_rtp_h264.c` 60-680 | sockets, pending STAP-A, sequence number | ProcessRtp, ProcessRtcp, ProcessEnd |
| Stream sender | `arstream2_stream_sender.c` | NALU FIFO, thread | SendNewNalu, FlushNaluQueue, Stop |
| RTCP | `arstream2_rtcp.c` | packet counters, flags of the loss report, source description tables, clock offset | generate and process each kind of report, on both sides |
| H.264 filter, error concealment | `arstream2_h264_filter*.c` | synchronisation, status of every macroblock, previous slice, frame counters | ProcessAu: parse each NALU, conceal, decide what is output |
| Recorder | `arstream2_stream_recorder.c` | its thread, its queue, the file | Init, RunThread, Stop, Free |
| Parser, writer, SEI | `arstream2_h264_{parser,writer,sei}.c` | a bit stream | pure coding |
| Statistics, JNI, test driver | the rest | files, handles | glue |

How they interact. The **network thread** (`RunNetworkThread`, 1648-1825) waits in `select`, takes
`resendMutex`, and in one turn receives datagrams into free buffers, extends and orders them, copies
them to the resenders' queues, depayloads what is in sequence or overdue, calls the access unit
callback, and lets every resender drop, send and clean its own queue. The **access unit callback**
runs the filter, which may call the SPS/PPS callback, and puts copies of the access unit in the
queues of the application and of the recorder; buffers are shared by reference. The **output
thread** takes copies from its queue, asks the application for a buffer, copies and hands it over.
The **application** starts and stops all of this from its own thread.

What is hard: reference counts across four users and two pools that both run out; a protocol
between two functions that rests on the order of a free list (1271); reordering, repetition, loss
and wrap-around of 16-bit numbers; losing any packet of a fragmented NALU; flags read under a mutex
and used after it, or used after a wait; one flag for several callbacks in progress; condition
variables signalled without their mutex; lists of queues changed while others walk them.
`PROJECT.json` lists these hazards at their lines with the properties that address them.

What makes each component correct:

- *packet FIFO*: no item lost or in two places; counts exact; no buffer received into while used;
  each queued packet keeps its own data; the queue strictly ordered; room after a flush; every turn
  and every call ends;
- *extension*: the sender's own numbering is recovered; one packet is the first one;
- *depayloader*: only whole NALUs; access units neither mixed nor split; every gap reported;
- *output and recorder*: counts exact, data unchanged while held, in order and once; who asks for an
  IDR frame gets one first; threads end; calls return; no callback after the stop;
- *sender*: packets in order, losses visible as gaps, the packets of the pool conserved; each NALU
  and each access unit completed once, and every NALU completed;
- *RTCP*: what a side is told of losses, of the peer's clock and of its metadata is true;
- *filter*: a macroblock said to be valid is one; concealment covers the holes exactly; frames are
  counted once.

## 2. The modules

| Module | Models | State and actions |
|---|---|---|
| `RtpSeqNum` | the extension arithmetic | pure operators; `SeqRing` stands for 2^16, `ExtRing` for 2^32; sums wrap as `uint32_t`, the store into `int32_t previousExtSeqNum` is `ToInt32` |
| `SeqNumExt` | a sender, a network and the extension | one action, a packet arrives; `top`, `latest`, `origin` and `firsts` are what an observer knows |
| `Rtcp` | RTCP of both sides | extends `SeqNumExt`, whose packets the reports are about; an action each for taking a packet out of the packet FIFO, beginning, continuing (item by item) and sending a compound packet of either side, setting metadata field by field, and processing a packet that arrives |
| `PacketFifo` | packet FIFO, network turn, resenders | `pc` is the place of the network thread inside one turn, each loop iteration an action; `mutex` is `resendMutex` and says which call holds it |
| `ReorderBuffer` | what the receiver's queue promises | the abstract specification that `PacketFifo` implements |
| `QueueList` | `fifo->queue`, `prev`, `next` | pointers beside the sequence they stand for; `Removal` selects one of the two removals in the code |
| `Depayloader` | `PacketFifoToAuFifo` | one action receives a packet and does all the code does with it; `ctx` is the receiver context; operators from `ctx` to `ctx` are the code's functions |
| `Filter` | filter and error concealment | extends `Depayloader`; `filter` is `ARSTREAM2_H264Filter_t`; the step that outputs an access unit filters it, as the callback does |
| `AppOutput` | access unit buffers, output and recorder threads, gray IDR frames, start and stop | each critical section an action, entering and leaving a callback two actions; `netPc`, `outPc`, `recPc`, `appPc` are the four threads |
| `Sender` | NALU FIFO, packetizer, packet queue, sender thread | `s` is what the packetizer changes; an action for each step of the thread's turn and of the application's calls |
| `PacketFifoProofs` | | theorems about `PacketFifo`: the pools; order, data and refinement |
| `QueueListProofs`, `AppOutputProofs`, `SenderProofs` | | theorems about the module of that name |
| `RtcpProofs` | | theorems about `SeqNumExt` and `Rtcp` |
| `DepayloaderProofs` | | theorems about `Depayloader`, alone and called with the packets of a script in `Filter` |
| `FilterProofs` | | the theorem about the frames that `Filter` counts |
| `SeqLemmas` | | lemmas about sequences, least and greatest elements, and numbers that wrap |
| `MCPacketFifo`, `MCRtcp`, `MCFilter`, `MCAppOutput`, `MCSender` | | symmetry, budgets, streams, scenarios and sizes for TLC |

How they compose. `PacketFifo` extends `RtpSeqNum` and works on its list of queues as a sequence;
`QueueList` shows that the pointers of `arstream2_rtp.c` represent that sequence and that a walk
visits it. `Depayloader` takes packets in increasing order, which is what `ReorderBuffer` promises
and `PacketFifo` implements. `Filter` is composed with `Depayloader`: it works on the NALUs, with
their `missingPacketsBefore`, that the depayloader makes of a stream with any packets lost.
`AppOutput` takes access units in stream order, as `Depayloader` outputs them. `Rtcp` is composed
with `SeqNumExt`: the numbers in its loss reports are those the extension computes.

### Abstractions

*PacketFifo.* The payload is the sequence number in the header that a buffer holds. Time is left
out: whether a packet is overdue is a free choice, so that all time-outs are covered. Item
identities are interchangeable, so the list of free items is a set; the free buffers are a sequence,
because `AddFromMsgVec` relies on their order. What the depayloader does with a packet is left to
`Depayloader`. A resender's sender is its queue: sending takes any number of the first packets, as
`sendmmsg` may. Once the thread has left its loop, the application is assumed to join it before it
starts or stops resenders (`AppMayAct`), because the final flush takes no mutex (1816).

*SeqNumExt.* The network delivers packets within `Window` of the newest, with repetitions and
losses. `2 * Window < Half`: farther apart than 2^15 no receiver can tell cycles apart.

*Rtcp.* A compound packet is a record of its parts. When a report is due, and which items of a
source description are, is a free choice. The flags of a loss report are a set of positions; the loss
RLE block is its list of chunks of `ChunkBits` flags, as it is written and read. `bits` is the size of
the buffer of flags, which is doubled once for a packet beyond its end, however far (764-803). What an
enlarged buffer holds that nobody wrote is any set of flags (`Garbage`). A flag beyond the buffer is
written past it, and flags beyond it are read (893, 1126-1157, 1189): the side that does so ends there
(`halted`), or goes on, with what it wrote lost and any value for what it read (`Ends`, `Beyond`); what
becomes of the memory beside the buffer is left out. Before the first packet the buffer is a null
pointer, and a loss report then ends the receiver (907). Allocations are taken to succeed.

An item of a source description is a key (type and prefix) and a value, with the size in bytes that
decides what fits; `room` is what the reports in front of it have left. A side has two threads without
a lock between them: the network thread copies an item (`CopyItem`) and then writes its `lastSendTime`
(`MarkItem`), for one item after the other; the application sets metadata field by field, writes a
value over the old one (`BeginValue`) and then clears `lastSendTime` (`EndValue`). A value read while
it is written is any value of `SizeOf`; its size is read once, while the code calls `strlen` for the
test of the room and again for the copy. One thread of an application sets metadata at a time. The
two clocks differ by `Offset`; a time stamp is a number.

*QueueList.* A walk is not interleaved with changes of the list. `resendMutex` ensures that for
packets. `AuFifoFlush` takes no such lock, so that for access units this is the best case.

*Depayloader.* A NALU is the list of its packets; sizes are left out, hence also the failures of a
buffer too small. The NALU item pool is `NaluCapacity`. Packets arrive in order, since
`ReorderBuffer` promises it; a packet that is not received is lost or came too late. A STAP-A packet
holds two NALUs. The failures of an enlargement of the access unit's buffer and of the callback
(`arstream2_rtp_h264.c` 1215-1225, 1318-1326) are left out.

*Filter.* The stream follows a script: the frames an encoder made (`frame_num`, reference or not),
cut into packets with the headers of the NALUs that begin there. A NALU that reaches the filter is
whole, so that it is parsed; what its bits are is left out, and so are timestamps, the zones of the
picture and the errored seconds. Concealment slices are records of their macroblocks.
`resyncPending` is not modelled: nothing sets it. In the runs with the filter no packet is refused for
want of an access unit (access unit items run out only in the stream of any packets, which is not
filtered), so what the filter makes of a gap not told (1349) is not shown.

*AppOutput.* An access unit is its number, 2k for the k-th of the stream and 2k - 1 for the gray one
made before it. The pool of items is not modelled: there are 200 of them for 60 buffers, and a
buffer has at most three items in use here. The SPS/PPS callback is given whenever the callbacks are
registered. The recorder's file is the order of what is written to it. An access unit copied to a
queue that was removed meanwhile is kept in the queue, as the memory is; the use of that queue's
destroyed mutex (undefined in principle) is taken to work. What a stop leaves in a queue that is then
initialised again is counted in `leaked`. Three things are assumed of the application, against which
the code has no guard: it does not start or stop the recorder while a start is pending or the network
thread is inside `StreamRecorderInit` (`StartingRecorder`), and it stops an output that runs only.

*Sender.* A NALU is its number; sizes are numbers, and the packetizer computes with them as the code
does. Whether a NALU or a packet is overdue is a free choice. An item of the packet FIFO and its
buffer are taken and given back together, so the pool is the number of free pairs. `FlushTake`,
`FlushDrop` and `FlushEnd` are the steps of `FlushNaluQueue`, whose increment of the sequence number
is not protected against the thread's. `Stop` may come from another thread at any time:
`SendNNewNalu` tests `threadStarted` under the mutex (468-474) and queues after its release
(475-510), while the thread clears it and flushes the FIFO (657-661). A NALU that is accepted so
late stays in the FIFO and is never completed; the model shows it and `EveryNaluCompleted` excludes
it. Time stamps (`uint32_t`, 432) and sequence numbers do not wrap. `FragmentAssumption` is what the
packetizer takes for granted of the sizes it is given: it divides by the number of fragments (157),
and computes the size of the last one as an unsigned number; sizes for which either fails (see §3)
are not modelled.

## 3. What is checked

| Run | Instance | States | Shows |
|---|---|---|---|
| `packet_fifo` | 3 items, 2 buffers, 1 resender, numbers 0-2 of a ring of 8 | 233 000 | pools, counts, order, deadlock freedom, and the refinement of `ReorderBuffer` |
| `packet_fifo_live` | 2 items, 2 buffers, 1 resender, numbers 0-1 | 31 000 | `MutexReleased` |
| `second_resender` | 2 items, 1 buffer, 2 resenders | | `StartReturns` is violated |
| `rtcp` | ring of 10 in 100, window 2, five budgets (below) | 1 841 000 | numbering, loss reports, clocks and metadata |
| `queue_list` | 4 queues, packet FIFO | 1 300 | pointers follow the list, flushes reach all and end |
| `queue_list_au` | 2 queues, access unit FIFO | | `FlushReachesAll` is violated |
| `filter` | six streams (below), every choice of lost packets | 634 000 | whole NALUs, separate access units, gaps reported; true macroblock status, exact concealment, frame counts |
| `filter_errors` | a stream of 8 frames | | `ErrorsTold` is violated |
| `depayloader_full` | 5 packets, 2 NALU items, buffers may run out | | `OutputOwned` is violated |
| `app_output` | seven scenarios (below) | 678 000 | counts, data, order, requests served, threads end, calls return |
| `app_output_resync` | 2 buffers, 2 access units, 1 start | | `NoCallbackAfterStop` is violated |
| `sender` | 3 requests, 2 packets, 2 NALU items, 3 sizes | 342 000 | order, losses visible, each NALU completed once and in the end |

Properties, by the hazard they are about:

- `ItemsInOnePlace`, `RefCountExact`, `FreeBuffersUnused` (PacketFifo): the pools, over all paths of
  reception, forwarding, time-out, partial send, flush and stop, with either pool exhausted anywhere.
- `QueuedDataIntact`, `MsgVecMatchesFreeList`: the warning at 1150 and 1271 that
  "the call sequence must not be broken".
- `MainSorted`, `ReordersPackets`: what the depayloader relies on. The refinement maps the queue to
  the set of its numbers and `previousDepayloadExtSeqNum` to the last number delivered.
- `FlushRecovers`: "flush to recover" leaves a buffer even when resenders share all of them.
- `MutexReleased`, `StartReturns`: every loop under `resendMutex` ends.
- `PointersFollowList`, `FlushReachesAll`, `FlushEnds`: the lists of queues.
- `NumbersRecovered`, `OneFirstPacket`: across the wrap of the 16-bit number, whatever is late or
  repeated; the second with first packets other than 0, see below.
- `LossReportTrue`: of the packets whose flags the buffers of both sides hold, the sender is told
  whether the receiver took them, through buffers that grow and are written past, chunks, refused
  reports and reports lost or repeated. The exceptions stand in the property because the code has
  them: after a gap longer than the buffer a packet taken may be told as lost (its flag was written
  past the buffer); in a report during which the buffer grew, a packet lost may be told as taken (the
  new part is not initialised); and a report made when no packet came repeats the last window.
- `ClockDeltaAccurate`: a sample pairs an answer with its own request, whatever is lost, late or
  asked again.
- `SdesDelivered`: the peer's metadata is one's own, in spite of changes at any moment of the making
  of a packet, half-written values, intervals and full packets. Two cases in which the code does not
  tell the current value are excluded: the padding (637, `unread`), and a value set between the copy of
  an item and the write of its `lastSendTime`, which counts as sent (469-478, 494-497, `overtaken`).
- `WholeNalus`, `AccessUnitsSeparate`, `MissingReported`, `OutputOwned`: any packets of a fragmented
  NALU, or with marker bits, are lost, and items run out.
- `MbStatusTrue`: a macroblock of an access unit that is output and said to be valid is shown as the
  encoder meant it, through the frames it refers to, whatever was lost; none is said to be missing
  that was received. `CompleteCovers`: an access unit said to be complete covers the picture once, in
  order, with its concealment slices. `FramesAccounted`: the frames missing before a frame are those
  lost. `ErrorsTold`: the header's word on `hasErrors`.
- `RefCountExact`, `HeldAuIntact`, `DeliveredInOrder`, `StopEndsThread`, `CallsReturn`,
  `NoCallbackAfterStop` (AppOutput): the four threads interleaved. `DeliveredInOrder` refuses an access
  unit that comes again, also right after itself. `RequestsServed`: an output that
  was started, or has lost its reference, gets an IDR frame, gray or real, before any other frame.
- `WireOrder`, `LossesVisible`, `CompletedOnce`, `AuCompletedOnce`, `EveryNaluCompleted` (Sender):
  aggregation, fragmentation, priorities, time-outs, a full packet FIFO and partial sends, with
  flushes by the application's thread and the stop by any other anywhere. `EveryNaluCompleted` is about
  the NALUs queued before the thread has ended.

### Bounds, and why they are enough

*Pools.* With three items and two buffers, a forwarded packet takes two items and one buffer, so
items run out first, or buffers first, in every place where the code asks for them; one packet may
be queued while another is in the middle of being added. Three sequence numbers give out-of-order
insertion, duplicates, gaps, and packets later than what was delivered. The window of 0-2 of a ring of 8
keeps wraps out of `PacketFifo`; `SeqNumExt` covers those. *Resenders.* One may run and be stopped
at any place between turns; a second one cannot be started (`second_resender`). *Lists.* Four queues
give a head, two inner queues and a tail.

*Rtcp.* The first packet is number 8 of a ring of 10, and up to six packets arrive among the next
ones, so that the window of a report crosses the wrap. The first buffer has one flag: the second
packet makes it grow, one of the gaps the window allows is longer than what it grows to, so that a
flag is written past it, and the report of that gap is read past it and makes the sender's buffer
outgrown in turn. Two chunks of four flags fit in a packet, so that a longer report is refused. A
budget bounds each kind of behaviour closely and leaves room for another: numbers with two loss
reports and a loss or repetition; numbers with a long report; source descriptions with three changes
of metadata, full packets and tables; the same with a faulty network; clocks over four ticks with
requests repeated after three. A first packet numbered 0 is not among them: the packet before it,
late, is -1 in `int32_t`, the sentinel of 1373 that stands for no packet yet, and the next packet is
then taken for the first. A report that the sender's buffer refuses (its double would reach the
ring's size) does not occur in the run; the theorem covers it.

*Depayloader and Filter.* In a stream of any five packets a fragmented NALU of three fragments has a
neighbour on either side, NALU items run out, and so do access unit items. Five more streams are
those of an encoder, in each of which any packets are lost: three slices to a frame with either
version of the streaming information, an I slice in a P frame; slices of two packets without
information; two groups of pictures of one slice per frame with a frame that is not a reference; and
`frame_num` modulo 4 over two wraps. Both choices of `outputIncompleteAu` and
`generateSkippedPSlices` are initial states.

*Output.* A scenario bounds the access units, the buffers, the starts of the output and of the
recorder, the requests for an IDR frame, and says whether the receiver may be stopped. Two starts
give a restart on a queue that was removed with contents. The scenarios: the output restarted, with
two buffers and a stop, and with one buffer, so that the pool is exhausted and flushed; the recorder
restarted, with the stop; both once; gray frames for a restart, for a resynchronisation with all
kinds of access units, and for both outputs.

*Sender.* Of 20 bytes aimed at and 30 at most, NALUs of 5, 10 and 30 go into a STAP-A, a packet of
their own and two fragments; two packets in the pool are exhausted by a fragmented NALU with anything
queued. Three requests are three NALUs, or NALUs and flushes.

The counters are capped by these bounds, so those systems really may stop: their runs do not check
deadlock. `PacketFifo` and `QueueList` never stop, and are checked for deadlock.

### Fairness

`PacketFifo`: weak fairness of the network thread while it has the mutex (sockets are non-blocking
and it waits for nothing) and of the application inside a call that has it. None for starting a
turn, for stopping, or for any call. `QueueList`: of the walk, which waits for nothing. `AppOutput`:
of the steps of each thread; the output thread, which waits on a condition variable, has no step
until it is signalled, while the recorder's wait has a time-out. Leaving a callback is a fair step:
the application's callbacks are assumed to return. `Sender`: of the thread, whose `select` has a
time-out, and of the application inside a call, where no call waits. What the application calls, and
whether it calls anything, is never fair.

### Disagreements found

1. `StartResender` (2815, 2830, 2842) advances with `r = resender->next` instead of `r->next`: with a resender
   started already it does not return, holding `resendMutex`.
2. `AuFifoRemoveQueue` (`arstream2_h264.c` 603-638) does not move the head of the list when the head is
   removed and another queue follows, unlike its twin at `arstream2_rtp.c:251`. After the recorder
   is stopped, the flush of a full FIFO does not empty the application's queue. Starting the recorder
   again then links the queue to itself.
3. When there is an access unit item but no buffer (`arstream2_rtp_h264.c:1147`), the item goes back
   to the free list and `context->auItem` still points to it; the next packet continues in it.
4. Three callbacks share `callbackInProgress` (1100, 1885): `StopAppOutput` may return while
   one of them runs, which the header excludes.
5. The filter compares `frame_num` for reference frames only (`arstream2_h264_filter.c:84`): a frame
   that is not a reference is output complete and without errors although the frame it refers to is
   lost.

Smaller things that the properties state as their exceptions: the sentinel -1 of `previousExtSeqNum`
(1373); the flags of a loss report that are written past their buffer or never initialised
(`arstream2_rtcp.c:764`); a value set between the copy of an item and its mark (469-478); a NALU
accepted after the sender's last flush (`arstream2_stream_sender.c:468`); the last item of a source
description that ends in a single zero of padding and is not read (637); `FlushNaluQueue`'s
increment of the sequence number and its calls of `auCallback` (`arstream2_rtp_h264.c:653`); the
sequence number of a NALU dropped while a STAP-A with earlier NALUs is pending (480); exactly the
modulus of `frame_num` less one frames lost, which counts -1 frame (`arstream2_h264_filter.c:88`); a
request for a gray frame made while one is being queued, which is taken for answered (844).

Two more are outside the models. The items of the gray frame's SPS and PPS are never reset
(`arstream2_h264_filter_error.c:46`, 66 reset `naluItem`, still `NULL` there): the models leave the
contents of NALU items out. And the packetizer may divide by zero: without a target size, a mode that
the comment at `arstream2_rtp_h264.c:464` describes, the number of fragments is 0, and a NALU larger
than `maxPacketSize` makes `FuAPackets` divide by it (157), as does one that is larger than the
maximum and smaller than half the target. Also the mean size of a fragment is rounded, so that
nothing may be left for the last of very many. `FragmentAssumption` keeps such sizes out.

## 4. What is proved

TLC shows the properties above on the instances of §3; the theorems below hold for every value of the
constants that satisfies the named assumptions of the modules. These ask for no more than that pools
are finite and not empty, that the values that stand for no item, buffer or queue are not among the
real ones, that `ExtRing` is a multiple of `SeqRing`, that sizes and time-outs are natural numbers, for
`Sender` what §2 says of fragments, and for `Filter` that the packets of a script are such as the
sender emits (`ScriptAssumption`) and their NALUs such as an encoder makes (`EncoderAssumption`). A
theorem that needs more states it as a hypothesis.

| Module | Theorem | Statement |
|---|---|---|
| `PacketFifoProofs` | `Invariance` | `Spec => []IInv` |
| | `TypeCorrect` | `Spec => []TypeOK` |
| | `ItemsConserved` | `Spec => []ItemsInOnePlace` |
| | `CountsExact` | `Spec => []RefCountExact` |
| | `FreeListExact` | `Spec => []FreeBuffersUnused` |
| | `QueueSorted` | `Spec => []MainSorted` |
| | `Reorders` | `Spec => ReordersPackets`, the refinement of `ReorderBuffer` |
| | `DataIntact` | `Spec => []QueuedDataIntact` |
| | `VectorMatches` | `Spec => []MsgVecMatchesFreeList` |
| | `FlushMakesRoom` | `Spec => []FlushRecovers` |
| `QueueListProofs` | `TypeCorrect` | `Spec => []TypeOK` |
| | `PointersRepresentList` | `Spec => []PointersFollowList`, if `Removal = "rtp"` |
| | `FlushComplete` | `Spec => FlushReachesAll`, if `Removal = "rtp"` |
| `AppOutputProofs` | `IInvHolds` | `Spec => []IInv` |
| | `TypeCorrect` | `Spec => []TypeOK` |
| | `CountsExact` | `Spec => []RefCountExact` |
| | `Intact` | `Spec => []HeldAuIntact` |
| | `InOrder` | `Spec => DeliveredInOrder` |
| | `Served` | `Spec => RequestsServed` |
| `SenderProofs` | `TypeCorrect` | `Spec => []TypeOK` |
| | `NaluCompletedOnce` | `Spec => []CompletedOnce` |
| | `SentInOrder` | `Spec => []WireOrder` |
| | `AuDoneOnce` | `Spec => []AuCompletedOnce` |
| | `LossesShow` | `Spec => []LossesVisible` |
| `RtcpProofs` | `Recovered` | `Spec => []NumbersRecovered`, if `NoEarlierCycle` and `ShortSession` |
| | `FirstOnce` | `Spec => []OneFirstPacket`, under the same hypotheses |
| | `ReportedNumbers` | both, of `RtcpSpec` |
| | `ClocksAccurate` | `RtcpSpec => []ClockDeltaAccurate` |
| | `ReportsTrue` | `RtcpSpec => []LossReportTrue`, if `ShortBlocks` |
| | `MetadataDelivered` | `RtcpSpec => []SdesDelivered` |
| `DepayloaderProofs` | `Invariant` | `Spec => []Inv` |
| | `TypeCorrect`, `FilterTypeCorrect` | `Spec => []TypeOK`, and the same of `FilterSpec` |
| | `OnlyWhole`, `FilterOnlyWhole` | `[]WholeNalus`, of both |
| | `NeverMixed`, `FilterNeverMixed` | `[]AccessUnitsSeparate`, of both |
| | `GapsTold`, `FilterGapsTold` | `[]MissingReported`, of both |
| `FilterProofs` | `FramesCounted` | `FilterSpec => []FramesAccounted` |

`SeqLemmas` states what `Tail`, `Cons`, `Append`, `RemoveAt`, `InsertAt` and concatenation do to the
elements of a sequence and to its injectivity, that a non-empty set of numbers has a least element
and a finite one a greatest, and that the extension of a sequence number stays in 32 bits (`LowPart`).

### The arguments

*Pools of the packet FIFO.* None of `ItemsInOnePlace`, `RefCountExact` and `FreeBuffersUnused` is
inductive alone. That a count is exact needs the free list to hold only buffers whose count is 0
(taking one sets its count to 1), which needs counts to be exact; that a release removes one user and
no more needs the item to be in one place. `IInv` has three layers: `PoolInv` (types of the pools,
both count properties, every item in use has a buffer), `PlaceInv` (`ItemsInOnePlace` and the types
of the lists) and `ControlInv` (the queue of a resender that is not started is empty; the garbage
list is empty outside `AddFromMsgVec`; the item being resent is in the main queue; who holds the
mutex and where the network thread then is). One lemma per operation on pools (`ReleasePool`,
`TakePool`, `CopyPool`, `SamePool`) and on places (`QueueToFree`, `FreeToQueue`, `FreeToGarbage`,
`GarbageToFree`) covers all actions; `PlacesNext` and `ControlNext` have one step per action.

*Order and data of the packet FIFO*, with `IInv` as a hypothesis. `MainEffect` says what any step
does to the main queue: nothing, remove its head, empty it, or insert a free item where the scan
stopped. Sortedness is preserved by each, because the scan has passed smaller numbers only and
stopped at a larger one (`ScanSplits`); the same four cases are the steps of `ReorderBuffer`
(`StepRefines`). `DataEffect` does so for the contents of buffers: a buffer is written only while it
is free, so no item refers to it. The message vector and the free list match because the loop takes
the head of the free list once for each message, and gives nothing back before it has ended. A flush
makes room because, with every queue empty and no garbage, no item is in use, so every count is 0 and
every buffer free (`EmptyMeansFree`).

*List of queues.* `PointersFollowList` is inductive with `TypeOK`; `WalkInv` says that before the
k-th queue of the list a walk has emptied the k - 1 before it. The hypothesis is needed: with the
other removal in the code the runs find both properties violated.

*Outputs.* `IInv` has five parts. `Control`: where each thread is when it has an item, and one start
of the recorder at a time. `Ordered`: each queue rises from above `Bar`, the last that was taken
from it, to `Limit` at most, what the network thread has already queued there at its place in the
code. `CountExact`: the count of a buffer is the sum over both queues, both readers and the network
thread's two items, plus what is leaked. `AllIntact`: each of those still finds what it was made
for. `RequestKept`: a request that is not answered is pending, or an IDR frame of the stream is on
its way to who made it. `DeliveredInOrder` and `RequestsServed` are about steps and follow from it;
what a reader is about to deliver is later than what it delivered last (`Ordered`).

*Sender.* `Custody`: a NALU is in one place, the FIFO or one of the threads, until it is completed;
what a thread holds is older than what the FIFO holds. `ContextOK`, at the access unit the packetizer
is at: the wire followed by the queue is one ordered sequence that does not go past that access unit,
a pending STAP-A belongs to it, and the pool is conserved. `AuCallsInv`: the access units completed
are those before whatever is still to come. The packetizer's operators are proved one by one to
preserve `ContextOK`; what the time-out drop keeps of a queue, a fold, is a subsequence by an
induction on a set of indices, where the predicate is a set rather than a parameter of a theorem.

*Losses of the sender.* `LossesVisible` speaks of the packets on the wire alone, and says nothing of
those that are queued, pending or still to be made; `Visibility` does. As long as `LossesVisible`
promises anything (one priority, no flush), the NALUs ahead of the packetizer are those after the
`last` it has seen, and the packets, sent or queued, are `Numbered` in the order of the NALUs and,
within one, of the fragments, the pending STAP-A after all of them. `AllMarked`: behind the closing
packet of NALU i, once i + 1 was seen, its number is followed by one that no packet of a later NALU
has: i + 1 has used it in packets or in a drop, or will with the pending STAP-A. A new NALU can go
without using a number only when the pool is empty. Then the code flushes, and `PoolOK` says that
the queue was not empty: the packets lost came after everything sent, so no closing packet of the
NALU before is on the wire (`LostSeen`). One lemma per operator of the packetizer shows that it keeps
`Seen`. That a NALU sent whole has its closing packet on the wire is a matter of counting
(`LastPart`): as many different parts as there are cannot all be smaller than the last.

*Numbers.* After the first packet the invariant `Following` says that `previous` and `highest` are
the sender's indices less those of the first cycle. The extension picks the right cycle because the
index of a packet is within `Window` of `highest` and `2 * Window < Half` (`ExtendRecovers`).
`NoEarlierCycle`: the receiver's first packet is one of the sender's first cycle, or not one of the
first `Window` of a later cycle. Otherwise a late packet of the cycle before gets a negative number,
-1 among them (1373), and the property fails as §3 tells. `ShortSession`: fewer than 2^31 packets,
after which `int32_t previousExtSeqNum` wraps, a month at 800 packets a second.

*Clocks.* `ClocksOK`: measured on one clock, the three times of every message on its way are in the
order in which they happened, and so is what a side remembers to answer; a packet in the making carries the
time of its beginning, and its side reads nothing meanwhile (`MadeOK`); samples are of distinct
requests, all earlier than the outstanding one; so an answer accepted is to that request, and half
its round trip bounds its error. The sliding average lies between the old and the new value.

*Loss reports.* `LossesOK`: the flags of the report in progress, of the block in a packet being made,
of every block on its way and of the last one read tell of the packets taken (`Told`), as far as they
are within `bits`: each taken packet is flagged if the report is `close` (no gap was longer than the
buffer), and no other is if it is `sure` (the buffer did not grow). A close report ends within its
buffer, since a gap of at most its size is covered by one doubling. Of the last report read this is
known up to the smaller of the two buffers (`Held`). Packets taken later have larger numbers and change
nothing for earlier blocks. Reading the chunks gives the flags they were made of (`ChunksRead`).
`ShortBlocks`: a block that leaves room for a source description has fewer than 2^16 flags, because
its two 16-bit ends could not tell exactly 2^16 from none; a compound packet has room for some 11 000.

*Metadata.* `TellingsOK` says of what each side tells of itself (`Telling`, one record of its items,
its packet in the making, the packets on their way and the peer's table): the tables have one item for
each key; the keys of the peer's table and of every packet are among those of the side's own; and,
while all packets arrive in order, each own item that counts as sent and is not `Doubtful` is in the
packet being made with its current value, or, if that packet has none of its key, is `Conveyed`: the
peer has it, or reads it in a packet on its way, and no later packet says anything else of its key.
`Doubtful` are the keys whose value is being written, and those set between copy and mark. Each step of
either thread is a lemma about that record (`FieldStep`, `CopyStep`, `MarkStep`, `SendStep`, ...). It
rests on an inequality: since a table of the peer's items has no more keys than the peer's own, which
never loses one and fits in `MaxItems`, there is room for every item read (`RoomLemma`), although
`StoreItem` drops in silence what does not fit. A packet is read by a fold; `FoldExists` and
`FoldStates` turn the fold into the list of its intermediate values, by an induction over the prefixes,
and the lemmas on reading are inductions over such lists.

*Depayloader.* The NALUs handed on so far, the current access unit's included, are a list of lists;
a step puts NALUs at the end of the last list (`PutLemma`) or opens a new one (`OpenLemma`), and the
properties are statements about that list (`ListsOK`). None is inductive alone. A NALU is whole
because an incomplete one (`Frag`) is a run of consecutive fragments that begins with a start and ends
at the last packet received: were there a gap before the next fragment, the count of missing packets
would not be 0 and the NALU would be dropped. Timestamps separate because the current access unit is
of the time of the previous packet, and where there is none, all NALUs are older than the next packet.
For the gaps, `Ready` accounts for the packets that are in no NALU: if any lies after the last NALU
and none of them was refused, then `pending`, what is missing before this packet, or the fragments of
the incomplete NALU are not 0, and whichever function makes the next NALU adds them to its
`missingPacketsBefore`. `Payload` and the functions it calls have a lemma each (`SingleStage`,
`StapStage`, `StartStage`, `MoreStage`); `ReceiveStep` composes them in the order of the code. In
`Filter` the sender follows a script, whose packets are `Sendable` because the last one sent is the
script's (`Follows`).

*Frames.* The counters of the filter are a matter of two folds, over the NALUs of an access unit and
over the access units of a step, and of what `frame_num` tells. `FramesInv`: the packets sent are the
first of the script (`Sent`); a frame that was counted is that of an access unit the depayloader has
output (`CountedOutput`), so the frames to come were not counted yet; `total` is `output` plus `missed` plus the frames counted, not shown and no reference
(`Recorded`); and, once the parameter sets have come, what the filter remembers as the previous
`frame_num` is that of the last reference frame it counted, -1 if there is none. `IsFold` turns a fold
into the list of its intermediate values. Each operator of the filter has a lemma that says which of
the `Tracked` fields it changes (`Kept`), so concealment, macroblock status and streaming information
drop out. `ReadUnit` is the induction over the NALUs of an access unit: it leaves in the filter the
header of the slices read, all of one frame (`Reading`). `GapLost` is the arithmetic: between two
reference frames with no IDR frame between, `frame_num` grows by one for each, modulo its size, so
that the difference of the two is the number lost if that is less than the modulus less one (the code
compares with `<`, line 88). `UnitLemma` puts them together for one access unit, `AllFiltered` for
those of a step. That access units come one to a frame and in order is from `DepayloaderProofs`:
`Separate` and `Ordered` of `ListsOK` order access units by timestamps, which in `Filter` are frames,
and the NALUs of one by their packets.

`EncoderAssumption` is what H.264 asks of a stream (7.4.1.2.3, 7.4.3), and what the packetizer adds: a
frame ends with the marker bit; parameter sets and SEI come before the slices of their frame; all
slices of a frame are IDR slices or none is; and `frame_num` is that of the reference frame before,
plus one modulo `maxFrameNum`. The order of NALUs is there so that a filter that synchronises within
an access unit does so before its first slice. The scripts of the runs satisfy the assumption, as TLC
verifies.

### Only model-checked

- Liveness: `MutexReleased`, `FlushEnds`, `StopEndsThread`, `CallsReturn`, `EveryNaluCompleted`. The
  prover has no rule for fairness, nor for `ENABLED`.
- `MbStatusTrue` and `CompleteCovers` of `Filter`: they follow the macroblocks through concealment
  and, for the first, through the reference frames; a proof could use the folds and the reading of an
  access unit of `FilterProofs`, for more fields than the counters depend on.
- `OutputOwned`, `ErrorsTold`, `StartReturns`, `NoCallbackAfterStop` and, with the removal of the
  access unit FIFO, `FlushReachesAll` do not hold (§3).

## 5. The plan

The modules of the plan are written, and the safety properties of `PacketFifo`, `QueueList`,
`AppOutput`, `SeqNumExt`, `Rtcp`, `Depayloader` and `Sender` are proved, and of `Filter` what it
counts, but for those listed above. What is left:

1. `CompleteCovers` of `Filter`, by an invariant on the macroblocks covered so far that each NALU's
   operators preserve, and then `MbStatusTrue`.

## 6. What is not modelled

- *Parser, writer, SEI codec*: bit-level, sequential coding of a standard's syntax, without shared
  state; `Filter` takes what it yields from the script.
- *Statistics files, JNI, generated error strings, test driver*: formatting and glue.
- *Sockets and mux channels*: their outcomes are inputs (`RecvMmsg`, `SendMmsg`, `Deliver`, `Lose`);
  the creation of threads, sockets and pipes, and its failures.
- *RTCP*: the reports of the de-jitter buffer and of video statistics, which carry counters from one
  side to the other; the rates, the jitter and the round-trip times computed from reports.
- *Packet FIFO*: clock skew and jitter estimation, random drop (a debug build option).
- *Sender*: header extensions, forced discontinuities, the dynamic configuration, monitoring, the
  failures of its creation; RTCP of a resender.
- *Output*: the pools of items and NALU items, video statistics, errored seconds, what is written to
  the recorder's file.
