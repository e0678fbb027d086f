SPECIFICATION Spec
CONSTANTS
    Goroutines = {g1, g2}
    Loggers = {l1, l2}
    Buffers = {b1, b2}
    Entries <- MCEntries
    MaxEntries = 3
    DefaultCap = 2
    FlushTrigger = 3
    MaxCap = 6
    Nil = Nil
INVARIANTS
    BufferHeldOnce
    WrittenOnceAndWhole
    StartsSmall
    HintIsOwnLine
SYMMETRY Symmetry
CHECK_DEADLOCK FALSE
