SPECIFICATION Spec
CONSTANTS
    MaxRequests = 3
    MaxBatch = 2
    NaluFifoSize = 2
    PoolSize = 2
    Kinds <- MCKinds
    MaxPacketSize = 30
    TargetPacketSize = 20
    RtpHeaderSize = 12
INVARIANTS TypeOK WireOrder LossesVisible CompletedOnce AuCompletedOnce
PROPERTY EveryNaluCompleted
CHECK_DEADLOCK FALSE
