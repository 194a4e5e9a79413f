SPECIFICATION Spec
CONSTANTS
    N = 3
    Clients = {c1, c2}
    MaxErrors = 2
INVARIANTS
    TypeOK
    NoRaceOnIndex
    TwoAccepts
    BalancedHandout
PROPERTIES
    PoolSpec
    QuietAfterReturn
    SignalStops
    EveryClientAccepted
CHECK_DEADLOCK FALSE
