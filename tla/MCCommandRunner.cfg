SPECIFICATION Spec
CONSTANTS
    Helpers = {h1}
    Threads = {t1, t2}
    Reasons = {"user_cancelled", "user_reset"}
    Poll = 1
    Grace = 1
    Limit = 3
    Timeouts = {1, 3}
    TurnDeadlines = {0, 2, 9}
    MaxOutput = 4
    MaxTime = 5
CHECK_DEADLOCK FALSE
INVARIANTS
    NothingSurvives
    StopsForCause
    OutputIsShared
PROPERTIES
    EndsInTime
