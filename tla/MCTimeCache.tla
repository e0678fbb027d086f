---------------------------- MODULE MCTimeCache ----------------------------
(* TimeCache with a small clock and a layout that shows every tick. *)
EXTENDS TimeCache

Fine(t) == t

=============================================================================
