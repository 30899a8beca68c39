SPECIFICATION FilterSpec
CONSTANTS
    MaxPackets = 5
    NaluCapacity = 6
    Allocations = {"both"}
    Scripts <- MCGroups
    MaxInterval = 60
    MaxSlices = 8
INVARIANTS
    ErrorsTold
CHECK_DEADLOCK FALSE
