SPECIFICATION Spec
CONSTANTS
    Files <- TheFiles
    ScanOrder <- Scan
    PathOrder <- Sorted
    TestFiles = {"t"}
    Texts <- TheTexts
    May <- MayHold
    Size <- Bytes
    Large = {"large"}
    Deep = {"deep"}
    Defs <- Definitions
    Uses <- References
    Names <- TheNames
    ModuleName <- SameName
    LastName <- LastNames
    Ends <- NameEnds
    TestNames = {"test_load", "test_save_load"}
    Tests <- NameTests
    MaxFiles = 2
    MaxTargets = 2
    Scores <- TheScores
    Budgets = {0, 4, 7}
    MaxResults = 3
    HeaderTokens = 2
    PathTokens = 1
    LineTokens = 2
    MaxTick = 1
    MaxEdits = 2
    MaxRefreshes = 3
CHECK_DEADLOCK FALSE
INVARIANTS
    MapIsTrue
    EdgesAreWithin
    TextIsRight
