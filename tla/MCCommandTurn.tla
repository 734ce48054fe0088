--------------------------- MODULE MCCommandTurn ---------------------------
(* CommandTurn on small sets of model values. *)
EXTENDS CommandTurn, TLC

Symmetry == Permutations(Calls) \cup Permutations(Ids)
=============================================================================
