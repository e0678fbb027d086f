--------------------------- MODULE MCOutputChain ---------------------------
(* Instances of OutputChain: an ObservedWriter around the tee and one      *)
(* around its first destination.                                           *)
EXTENDS OutputChain, TLC

MCObservers == {0, 1}

Symmetry == Permutations(Goroutines)
=============================================================================
