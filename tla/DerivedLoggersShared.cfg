\* Two goroutines pass one array that has room for the caller.
SPECIFICATION Spec
CONSTANTS
    g1 = g1
    g2 = g2
    Goroutines = {g1, g2}
    Levels = {2}
    Options <- MCOptions
    Cells <- MCCells
    Calls <- SharedCalls
    StaticSlices <- MCStaticSlices
    MaxLoggers = 1
    MaxVersion = 0
INVARIANTS
    CallerIsOwn
CHECK_DEADLOCK FALSE
