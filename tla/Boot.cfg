SPECIFICATION FairSpec
CONSTANTS
    Pids = {1, 2}
    Timeout = 2
    MaxBoots = 3
INVARIANTS
    TypeOK
    ModelWhole
PROPERTIES
    OutcomeStays
    BootSettles
CHECK_DEADLOCK FALSE
