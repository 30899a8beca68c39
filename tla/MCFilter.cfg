SPECIFICATION FilterSpec
CONSTANTS
    MaxPackets = 5
    NaluCapacity = 6
    Allocations = {"both", "noItem"}
    Scripts <- MCScripts
    MaxInterval = 60
    MaxSlices = 8
INVARIANTS
    TypeOK
    WholeNalus
    AccessUnitsSeparate
    MissingReported
    MbStatusTrue
    CompleteCovers
    FramesAccounted
CHECK_DEADLOCK FALSE
