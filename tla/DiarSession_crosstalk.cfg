SPECIFICATION SessionSpec
CONSTANTS
    Total = 24
    Frame = 4
    Step = 3
    Chunk = 2
    Right = 1
    Keep = 2
    People = {p, q, r}
    Units = 5
    Piece = 2
    StepW = 1
    Least = 1
    Window = 3
    Lap = 2
    Incremental = TRUE
SYMMETRY Alike
CHECK_DEADLOCK FALSE
PROPERTY StepsAgree
