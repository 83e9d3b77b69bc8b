SPECIFICATION FairSpec
CONSTANTS
    c1 = c1
    c2 = c2
    Job = Job
    Free = Free
    Sessions = {c1, c2}
    Leavers = {c2}
    Audio <- AudioOf
    Step <- StepOf
    Roll = 3
    Cache = 3
    Jobs = 1
    Segments = 2
INVARIANTS
    TypeOK
    AudioOnce
    ClosedComplete
    RollPreventsOverflow
    TokensOwn
PROPERTY EveryoneEnds
CHECK_DEADLOCK FALSE
