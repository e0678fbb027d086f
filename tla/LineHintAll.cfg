\* Two goroutines, the constants of console_hint.go, under fairness.
SPECIFICATION FairHintSpec
CONSTANTS
    Recorders = {g1, g2}
    Lengths = {40, 150, 600, 8192, 20000}
    Usual = 150
    MaxUnusual = 2
    MaxPrealloc = 8192
    MinDelta = 64

    
PROPERTIES
    StoreCoversLine
    ComesDown
