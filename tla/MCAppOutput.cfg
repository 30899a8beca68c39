SPECIFICATION FairSpec
CONSTANTS
    b1 = b1
    b2 = b2
    Buffers = {b1, b2}
    NoItem = NoItem
    NoQueue = NoQueue
    Scenarios <- MCScenarios
INVARIANTS
    TypeOK
    RefCountExact
    HeldAuIntact
PROPERTIES
    DeliveredInOrder
    StopEndsThread
    CallsReturn
    RequestsServed
CHECK_DEADLOCK FALSE
