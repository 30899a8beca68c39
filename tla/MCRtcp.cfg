CONSTANTS
    SeqRing = 10
    ExtRing = 100
    Window = 2
    Joins = {8}
    MaxIndex = 16
    FlagBits = 1
    ChunkBits = 4
    MaxPacketSize = 46
    Sizes <- MCSizes
    Cname = "serial"
    Keys <- MCKeys
    Metadata <- MCMetadata
    FirstValue = "a"
    SizeOf <- MCSizeOf
    MaxItems = 2
    Offset = 5
    MinDelta = 1
    ClockTimeout = 3
    ClockWindow = 3
    MaxRtDelay = 4
    Alpha = 2
    Budgets <- MCBudgets
SPECIFICATION RtcpSpec
INVARIANTS
    NumbersRecovered
    OneFirstPacket
    LossReportTrue
    ClockDeltaAccurate
    SdesDelivered
CHECK_DEADLOCK FALSE
