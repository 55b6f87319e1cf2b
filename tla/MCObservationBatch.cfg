SPECIFICATION Spec
CONSTANTS
    a = a
    b = b
    c = c
    d = d
    e = e
    CallIds = {a, b, c, d, e}
    Order <- CallOrder
    MaxRequested = 4
    MaxBatchCalls = 3
    MaxParallel = 2
    Budget = 4
    MaxFaults = 2
CHECK_DEADLOCK FALSE
INVARIANTS
    NothingRunsOutside
    LogIsSound
PROPERTIES
    ContractHolds
    EveryBatchSettles
