SPECIFICATION Spec
CONSTANTS
    CallIds = {"a", "b"}
    Timeout = 7
    TurnRemaining = {2, 9}
    MaxRedirects = 1
    MaxTurns = 2
    MaxCalls = 2
    MaxTime = 14
CHECK_DEADLOCK FALSE
INVARIANTS
    RequestsKeepTime
    CutBodyIsNotUsed
    ConversationIsPaired
PROPERTIES
    EveryRequestEnds
