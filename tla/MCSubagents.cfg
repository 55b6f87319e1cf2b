SPECIFICATION Spec
CONSTANTS
    c1 = c1
    c2 = c2
    Children = {c1, c2}
    MaxEdits = 3
    MaxCrashes = 2
SYMMETRY ChildIds
CHECK_DEADLOCK FALSE
INVARIANTS
    BetweenCallsAgree
    AppliedWhereVerified
    CompletedIsIntegrated
    
