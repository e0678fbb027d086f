----------------------------- MODULE MCLogPath -----------------------------
(* Instances of LogPath: two goroutines, loggers and lineWriters, and lines *)
(* that cross the default capacity, the flush trigger and the maximum.      *)
EXTENDS LogPath, TLC

Entry(sizes, mark, bad) == [sizes |-> sizes, mark |-> mark, bad |-> bad]

\* Without runtime fields; a short line rolled back at the last runtime
\* field; a long one rolled back at once; one longer than MaxCap rolled back too.
MCEntries ==
    {Entry(<<1>>, 1, {}), Entry(<<1, 1, 1>>, 1, {2}), Entry(<<1, 3>>, 1, {1}),
     Entry(<<3, 6>>, 1, {2})}

Symmetry == Permutations(Goroutines) \cup Permutations(Buffers)
            \cup Permutations(Loggers)
=============================================================================
