-------------------------- MODULE MCSessionRuntime --------------------------
(* SessionRuntime on small sets of model values. *)
EXTENDS SessionRuntime, TLC

Symmetry == Permutations(Sockets) \cup Permutations(Turns)
            \cup Permutations(Deletes) \cup Permutations(Runtimes)
=============================================================================
