SPECIFICATION FairSpec
CONSTANTS
    c1 = c1
    c2 = c2
    Job = Job
    Free = Free
    Sessions = {c1, c2}
    Leavers = {c1}
    Sentences <- TwoAndOne
    Chunks <- TwoAndOne
    ChanMax = 1
    WorkMax = 1
PROPERTY FailureNotFatal
CHECK_DEADLOCK FALSE
