SPECIFICATION Spec
CONSTANTS
    Goroutines = {g1, g2}
    Readers = {r1}
    Destinations = 2
    Observers <- MCObservers
    MaxLines = 3
SYMMETRY Symmetry
INVARIANTS
    FailuresExact
    ToldWhatFailed
    CopiesNested
    StatsInCall
CHECK_DEADLOCK FALSE
