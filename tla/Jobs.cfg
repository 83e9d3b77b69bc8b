SPECIFICATION Spec
CONSTANTS
    one = one
    two = two
    Requests = {one, two}
    MaxItems = 3
    MaxSamples = 8
    WindowPlans <- Plans
SYMMETRY Alike
INVARIANTS
    TypeOK
    TempsRemoved
    NothingSkipped
    ProgressHonest
CHECK_DEADLOCK FALSE
