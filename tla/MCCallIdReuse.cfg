SPECIFICATION Spec
CONSTANTS
    r1 = r1
    r2 = r2
    Runs = {r1, r2}
    NoRun = NoRun
    read1 = read1
    read2 = read2
    edit = edit
    shell = shell
    CallIds = {read1, read2, edit, shell}
    Mutators = {edit}
    Commands = {shell}
    ReuseIds = TRUE
    ReloadMayFail = FALSE
    MaxEvents = 6
    MaxAskable = 8
    MaxRaises = 1
    MaxPointerRaises = 1
    MaxCrashes = 1
SYMMETRY Symmetry
INVARIANT
    Reconcilable
