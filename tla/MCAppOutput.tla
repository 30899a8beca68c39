---------------------------- MODULE MCAppOutput ----------------------------
(* Scenarios for TLC: the bounds of a run are those of one of them.        *)
EXTENDS AppOutput

CONSTANTS b1, b2

Scenario(n, pool, starts, recordings, resyncs, types, stop) ==
    [aus |-> n, pool |-> pool, starts |-> starts, recordings |-> recordings,
     resyncs |-> resyncs, gray |-> types # {"none"}, types |-> types,
     stop |-> stop, au |-> 0]

(* The output restarted, the recorder restarted, both at once, and gray    *)
(* frames for a restart, for a resynchronisation and for both outputs.     *)
MCScenarios == {
    Scenario(2, Buffers, 2, 0, 0, {"none"}, TRUE),
    Scenario(2, {b1},    2, 0, 0, {"none"}, FALSE),
    Scenario(2, {b1},    0, 2, 0, {"none"}, TRUE),
    Scenario(2, {b1},    1, 1, 0, {"none"}, FALSE),
    Scenario(2, Buffers, 2, 0, 0, {"iFrame"}, FALSE),
    Scenario(2, Buffers, 1, 0, 1, SyncTypes, FALSE),
    Scenario(1, Buffers, 1, 1, 0, {"iFrame"}, FALSE) }

MCResync == {Scenario(2, Buffers, 1, 0, 0, {"none"}, FALSE)}
=============================================================================
