CONSTANTS
    Items = {i1, i2}
    Buffers = {b1}
    Resenders = {r1, r2}
    WireSeqs = {0}
    SeqRing = 8
    ExtRing = 64
    Main = Main
    NoBuffer = NoBuffer
    NoItem = NoItem
    Nobody = Nobody
SPECIFICATION FairSpec
PROPERTIES
    StartReturns
CHECK_DEADLOCK FALSE
