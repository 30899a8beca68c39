SPECIFICATION FairSpec
CONSTANTS
    Queues = {appOutput, recorder}
    Null = Null
    Removal = "h264"
PROPERTIES
    FlushReachesAll
