-------------------------- MODULE MCRangeDocument --------------------------
(* RangeDocument on small sets of model values. *)
EXTENDS RangeDocument, TLC

Symmetry == Permutations(Tabs) 
=============================================================================
