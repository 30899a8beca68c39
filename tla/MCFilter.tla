------------------------------ MODULE MCFilter -------------------------------
(* Instances of Filter, and of the depayloader in it, for TLC. *)
EXTENDS Filter

Packet(k, kind, marker, nalus) ==
    [frame |-> k, kind |-> kind, marker |-> marker,
     nalus |-> [i \in DOMAIN nalus |-> nalus[i] @@ [frame |-> k]]]

Sps == [type |-> "sps"]
Pps == [type |-> "pps"]
SeiV1(counts) == [type |-> "sei", version |-> 1, counts |-> counts, gopStart |-> FALSE]
SeiV2(size, count) == [type |-> "sei", version |-> 2, sliceMbCount |-> size,
                       sliceCount |-> count, gopStart |-> TRUE]

(* The slices of frame k, one to a packet; type is "idr" or "slice". *)
Slices(k, type, sliceTypes, sizes) ==
    [i \in DOMAIN sizes |->
        Packet(k, "single", i = Len(sizes),
               <<[type |-> type, sliceType |-> sliceTypes[i], count |-> sizes[i],
                  firstMb |-> FoldLeft(+, 0, SubSeq(sizes, 1, i - 1))]>>)]

Sets(k) == <<Packet(k, "stap", FALSE, <<Sps, Pps>>)>>
Sei(k, sei) == <<Packet(k, "single", FALSE, <<sei>>)>>

Ref(num) == [num |-> num, ref |-> TRUE, idr |-> num = 0]
NonRef(num) == [num |-> num, ref |-> FALSE, idr |-> FALSE]
Script(mbCount, maxFrameNum, frames, packets) ==
    [mbCount |-> mbCount, maxFrameNum |-> maxFrameNum, frames |-> frames,
     packets |-> packets]

I3 == <<"I", "I", "I">>
P3 == <<"P", "P", "P">>

AnyPackets == Script(1, 1, <<>>, <<>>)

InfoV1 == Script(5, 16, <<Ref(0), Ref(1), Ref(2)>>,
    Sets(1) \o Sei(1, SeiV1(<<2, 2, 1>>)) \o Slices(1, "idr", I3, <<2, 2, 1>>)
    \o Sei(2, SeiV1(<<2, 2, 1>>)) \o Slices(2, "slice", P3, <<2, 2, 1>>)
    \o Sei(3, SeiV1(<<2, 2, 1>>)) \o Slices(3, "slice", <<"P", "I", "P">>, <<2, 2, 1>>))

InfoV2 == Script(5, 16, <<Ref(0), Ref(1), NonRef(2), Ref(2)>>,
    Sets(1) \o Sei(1, SeiV2(2, 3)) \o Slices(1, "idr", I3, <<2, 2, 1>>)
    \o Slices(2, "slice", P3, <<2, 2, 1>>)
    \o Slices(3, "slice", P3, <<2, 2, 1>>)
    \o Slices(4, "slice", P3, <<2, 2, 1>>))

Fragments(k, type, sliceType, size) ==
    <<Packet(k, "start", FALSE, <<[type |-> type, sliceType |-> sliceType,
                                   count |-> size, firstMb |-> 0]>>),
      Packet(k, "end", FALSE, <<>>)>>

NoInfo == Script(4, 16, <<Ref(0), Ref(1), NonRef(2), Ref(2)>>,
    Sets(1) \o Fragments(1, "idr", "I", 2) \o Tail(Slices(1, "idr", <<"I", "I">>, <<2, 2>>))
    \o Slices(2, "slice", <<"P", "P">>, <<2, 2>>)
    \o Fragments(3, "slice", "P", 2) \o Tail(Slices(3, "slice", <<"P", "P">>, <<2, 2>>))
    \o Slices(4, "slice", <<"P", "P">>, <<2, 2>>))

P(k) == Slices(k, "slice", <<"P">>, <<1>>)
Idr(k) == Sets(k) \o Slices(k, "idr", <<"I">>, <<1>>)

Groups == Script(1, 16,
    <<Ref(0), Ref(1), NonRef(2), Ref(2), Ref(0), Ref(1), Ref(2), Ref(3)>>,
    Idr(1) \o P(2) \o P(3) \o P(4) \o Idr(5) \o P(6) \o P(7) \o P(8))

Wrap == Script(1, 4, [k \in 1 .. 9 |-> [Ref((k - 1) % 4) EXCEPT !.idr = k = 1]],
    Idr(1) \o P(2) \o P(3) \o P(4) \o P(5) \o P(6) \o P(7) \o P(8) \o P(9))

MCScripts ==
    [any |-> AnyPackets, v1 |-> InfoV1, v2 |-> InfoV2, none |-> NoInfo,
     groups |-> Groups, wrap |-> Wrap]

MCGroups == [groups |-> Groups]
=============================================================================
