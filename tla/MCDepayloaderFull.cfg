SPECIFICATION Spec
CONSTANTS
    MaxPackets = 5
    NaluCapacity = 2
    Allocations = {"both", "noBuffer"}
INVARIANTS
    OutputOwned
CHECK_DEADLOCK FALSE
