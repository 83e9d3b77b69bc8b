SPECIFICATION Spec
CONSTANTS
    Pods = {p, q}
    Pids = {1, 2}
INVARIANT NoCollision
CHECK_DEADLOCK FALSE
