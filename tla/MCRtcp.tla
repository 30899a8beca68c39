------------------------------- MODULE MCRtcp --------------------------------
(* Instances of Rtcp for TLC.  Each budget bounds one kind of behaviour    *)
(* closely and leaves room for another.                                    *)
EXTENDS Rtcp

MCKeys == {"serial", "maker", "model"}
Field(key, value) == [key |-> key, value |-> value]
MCMetadata == {<<Field("serial", "b")>>, <<Field("maker", "c")>>,
               <<Field("maker", "a"), Field("model", "b")>>}
MCSizes == [sr |-> 26, rr |-> 2, block |-> 2, xr |-> 12, chunk |-> 7, app |-> 4]
MCSizeOf == [a |-> 4, b |-> 3, c |-> 8]

Budget(arrivals, sets, sends, receives, losses, faults, ticks) ==
    [arrivals |-> arrivals, sets |-> sets, senderReports |-> sends,
     receiverReports |-> receives, lossReports |-> losses, faults |-> faults,
     ticks |-> ticks]

(* Numbers and loss reports; long loss reports; source descriptions, with  *)
(* the threads at their freest, and with a faulty network; clocks.         *)
MCBudgets == {Budget(4, 0, 1, 0, 2, 1, 0), Budget(6, 0, 1, 0, 1, 0, 0),
              Budget(0, 3, 2, 1, 0, 0, 0), Budget(0, 2, 2, 1, 0, 1, 0),
              Budget(1, 0, 2, 2, 0, 1, 4)}
=============================================================================
