SPECIFICATION Spec
CONSTANTS
    NoTask = NoTask
    a = a
    b = b
    s = s
    Tasks = {s, a, b}
    Keep = {a, b}
    Deletable = {a}
    Faulty = {}
    QueueMax = 2
    TTL = 1
    MaxClock = 4
INVARIANT UploadOutlivesJob
CHECK_DEADLOCK FALSE
