\* Two files with one base name, or standard input, at most three lines.
SPECIFICATION Spec
CONSTANTS
    Commands <- MCCommands
    Entries <- MCEntries
    Foreign <- MCForeign
    Reads <- MCReads
    Infinite <- MCInfinite
    MaxLines = 3
    Nil = Nil
INVARIANTS
    OutputFollowsInput
PROPERTIES
    EntryComesBack
CHECK_DEADLOCK FALSE
