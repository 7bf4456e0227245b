---------------------------- MODULE MCPromptLoop ----------------------------
(* Clients are interchangeable. *)
EXTENDS PromptLoop, TLC

Symmetry == Permutations(Clients)
=============================================================================
