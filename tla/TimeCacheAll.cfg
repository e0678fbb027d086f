\* start, refresh and two closers over a bounded clock, under fairness.
CONSTANTS
    k1 = k1
    k2 = k2
    Closers = {k1, k2}
    MaxTime = 6
    TickerMayEnd = TRUE
    Format <- Fine
    Empty = Empty
SPECIFICATION FairSpec
INVARIANTS
    LagIsDropped
PROPERTIES
    NeverGoesBack
    QuietAfterDone
    StopIsHeeded
