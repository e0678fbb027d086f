\* A root and what is derived from it, two goroutines with arrays of their own.
SPECIFICATION Spec
CONSTANTS
    g1 = g1
    g2 = g2
    Goroutines = {g1, g2}
    Levels = {0, 2, 6, 7}
    Options <- MCOptions
    Cells <- MCCells
    Calls <- OwnCalls
    StaticSlices <- MCStaticSlices
    MaxLoggers = 3
    MaxVersion = 1
INVARIANTS
    FilterFollowsDerivation
    LinesFollowDerivation
    ExitAfterLine
CHECK_DEADLOCK FALSE
