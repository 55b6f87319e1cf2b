SPECIFICATION Spec
CONSTANTS
    f = f
    g = g
    c1 = c1
    c2 = c2
    Paths = {f, g}
    Contents = {c1, c2}
    Absent = Absent
    MaxEdits = 2
    MaxEffects = 2
    MaxCrashes = 1
SYMMETRY FilesAndContents
CHECK_DEADLOCK FALSE
INVARIANTS
    UserEditsSurvive
    EvidenceReplays
    CompletionIsEarned
    ChangesAreAccounted
