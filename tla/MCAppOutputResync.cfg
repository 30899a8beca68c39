SPECIFICATION Spec
CONSTANTS
    b1 = b1
    b2 = b2
    Buffers = {b1, b2}
    NoItem = NoItem
    NoQueue = NoQueue
    Scenarios <- MCResync
INVARIANTS
    NoCallbackAfterStop
CHECK_DEADLOCK FALSE
