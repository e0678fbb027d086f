-------------------------- MODULE MCDerivedLoggers --------------------------
(* DerivedLoggers with arrays that have spare cells and arrays that have not. *)
EXTENDS DerivedLoggers

CONSTANTS g1, g2  \* the goroutines

\* "even" and "odd" have room for the caller, the others have none; "common" is
\* passed by both goroutines.
MCCells ==
    [none  |-> << >>,
     even  |-> <<"k", "obj", "free", "free">>,
     odd   |-> <<"", "v", "x", "free", "free">>,
     keys  |-> <<"nil", "v", "x">>,
     error |-> <<"err">>,
     common |-> <<"k", "v", "free", "free">>]

Whole(a, n) == [array |-> a, len |-> n]

MCOptions == {[minLevel |-> 0, timestamp |-> TRUE, caller |-> TRUE],
              [minLevel |-> 2, timestamp |-> FALSE, caller |-> FALSE]}

Logs(levels, slices) == [level: levels, slice: slices, exits: {FALSE}]
Fatals(slices)       == [level: {Fatal}, slice: slices, exits: {TRUE}]

\* Each array with room belongs to one goroutine.
OwnCalls == [g \in Goroutines |->
    IF g = g1
    THEN Logs({0, 2, 7}, {Whole("even", 2), Whole("keys", 3)})
    ELSE Logs({2}, {Whole("odd", 3)}) \cup Fatals({Whole("none", 0)})]

SharedCalls == [g \in Goroutines |-> Logs({1}, {Whole("common", 2)})]

MCStaticSlices == {Whole("even", 2), Whole("odd", 3), Whole("keys", 3), Whole("error", 1)}

=============================================================================
