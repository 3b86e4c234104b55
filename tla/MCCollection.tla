---------------------------- MODULE MCCollection ----------------------------
(* Symmetry for the model checker: clients are interchangeable. *)
EXTENDS Collection, TLC

Symmetry == Permutations(Clients)
=============================================================================
