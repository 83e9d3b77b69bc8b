SPECIFICATION FairSpec
CONSTANTS
    b = b
    NoTask = NoTask
    a = a
    s = s
    Tasks = {s, a}
    Keep = {a}
    Deletable = {}
    Faulty = {a}
    QueueMax = 2
    TTL = 1
    MaxClock = 4
PROPERTY RunningEnds
CHECK_DEADLOCK FALSE
