SPECIFICATION Spec
CONSTANTS
    N = 1
    Clients = {c1}
    MaxErrors = 0
INVARIANTS
    ServesUntilSignal
CHECK_DEADLOCK FALSE
