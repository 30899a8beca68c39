CONSTANTS
    Items = {i1, i2, i3}
    Buffers = {b1, b2}
    Resenders = {r1}
    WireSeqs = {0, 1, 2}
    SeqRing = 8
    ExtRing = 64
    Main = Main
    NoBuffer = NoBuffer
    NoItem = NoItem
    Nobody = Nobody
SPECIFICATION Spec
SYMMETRY Symmetry
INVARIANTS
    TypeOK
    ItemsInOnePlace
    RefCountExact
    FreeBuffersUnused
    QueuedDataIntact
    MsgVecMatchesFreeList
    MainSorted
    FlushRecovers
PROPERTIES
    ReordersPackets
