SPECIFICATION Spec
CONSTANTS
    NoTask = NoTask
    a = a
    b = b
    s = s
    Tasks = {s, a, b}
    Keep = {a, b}
    Deletable = {a}
    Faulty = {b}
    QueueMax = 2
    TTL = 1
    MaxClock = 4
INVARIANTS
    TypeOK
    QueueBound
    PositionTruthful
    UploadHeld
    FutureSetOnce
    TerminalDocComplete
    ResultKept
    NoStrandedFile
    ListKeepsAll
PROPERTY ImplementsServer
CHECK_DEADLOCK FALSE
