---------------------------- MODULE MCLineHint ----------------------------
(* Instances of LineHint with the constants of console_hint.go. *)
EXTENDS LineHint, TLC

Symmetry == Permutations(Recorders)
=============================================================================
