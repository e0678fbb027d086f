CONSTANTS
    WordBytes = 2
    Second = 4
    NanoWidth = 8
    Slots = 2
    Programs <- MCPrograms
    LongFloats <- MCLongFloats
SPECIFICATION Spec
INVARIANT FieldsReadBack
INVARIANT StaticReadsBack
INVARIANT StringsEscaped
INVARIANT CachesOwn
INVARIANT OutputErrorsSurface
INVARIANT EnvLeavesSeed
INVARIANT BridgeKeepsText
CHECK_DEADLOCK FALSE
