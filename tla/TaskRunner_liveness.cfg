SPECIFICATION FairSpec
CONSTANTS
    b = b
    NoTask = NoTask
    a = a
    s = s
    Tasks = {s, a}
    Keep = {a}
    Deletable = {a}
    Faulty = {a}
    QueueMax = 1
    TTL = 1
    MaxClock = 4
PROPERTIES
    SyncAnswered
    UploadReclaimed
    ExpiredForgotten
CHECK_DEADLOCK FALSE
