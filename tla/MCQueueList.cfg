SPECIFICATION FairSpec
CONSTANTS
    Queues = {q1, q2, q3, q4}
    Null = Null
    Removal = "rtp"
INVARIANTS
    TypeOK
    PointersFollowList
PROPERTIES
    FlushReachesAll
    FlushEnds
