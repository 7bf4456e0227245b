-------------------------- MODULE MCSessionRunState -------------------------
(* Model-checking instance of SessionRunState. *)
EXTENDS SessionRunState, TLC

Symmetry == Permutations(Callers) \cup Permutations(Objs)
=============================================================================
