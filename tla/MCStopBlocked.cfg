SPECIFICATION StoreSpec
CONSTANTS
    Calls = {c1}
    nothing = nothing
    ascii = ascii
    wide = wide
    Contents = {nothing, ascii, wide}
    Boundary <- MCBoundary
    Carriage = {wide}
    PageSizes = {1, 3}
    MaxFaults = 2
    MaxEdits = 1
CHECK_DEADLOCK FALSE
PROPERTIES
    StopTerminalizes
