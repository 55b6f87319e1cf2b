SPECIFICATION Spec
CONSTANTS
    MaxTurns = 3
    MaxTools = 2
    MaxBatch = 2
    InvalidLimit = 2
    BlockLimit = 2
    MaxRaises = 1
INVARIANTS
    TurnsAreSettled
    BudgetIsHonoured
    NoLateWork
    ResetEndsRun
PROPERTIES
    EveryAskEnds
