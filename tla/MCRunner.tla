------------------------------ MODULE MCRunner ------------------------------
(* Model-checking instance of Runner: callers and runner objects are        *)
(* interchangeable.                                                         *)
EXTENDS Runner, TLC

Symmetry == Permutations(Callers) \cup Permutations(Objs)
=============================================================================
