SPECIFICATION FairSpec
CONSTANTS
    c1 = c1
    c2 = c2
    Job = Job
    Free = Free
    Sessions = {c1}
    Leavers = {c1}
    Sentences <- Two
    Chunks <- Three
    ChanMax = 2
    WorkMax = 1
INVARIANTS
    TypeOK
    AudioInOrder
    NoChunkLost
PROPERTIES
    LockReleased
    AllSpoken
    JobEnds
    HandlerEnds
CHECK_DEADLOCK FALSE
