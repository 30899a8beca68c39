CONSTANTS
    Items = {i1, i2}
    Buffers = {b1, b2}
    Resenders = {r1}
    WireSeqs = {0, 1}
    SeqRing = 8
    ExtRing = 64
    Main = Main
    NoBuffer = NoBuffer
    NoItem = NoItem
    Nobody = Nobody
SPECIFICATION FairSpec
PROPERTIES
    MutexReleased
