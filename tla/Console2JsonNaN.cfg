\* One stream of one line is enough for a line that ends the run.
SPECIFICATION Spec
CONSTANTS
    Commands <- MCCommands
    Entries <- MCEntries
    Foreign <- MCForeign
    Reads <- MCReads
    Infinite <- MCInfinite
    MaxLines = 1
    Nil = Nil
PROPERTIES
    InvalidLinesSkipped
CHECK_DEADLOCK FALSE
