SPECIFICATION HistorySpec
CONSTANTS
    Sizes = {1, 3}
    Rooms = {2, 5}
    KeepRecent = 2
    Slack = 0
    MaxCalls = 2
    MaxEvents = 6
CHECK_DEADLOCK FALSE
INVARIANTS
    HistoryIsComplete
    SummariesAreHonest
    PromptsAreServed
