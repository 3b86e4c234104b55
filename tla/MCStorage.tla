------------------------------ MODULE MCStorage ------------------------------
(***************************************************************************)
(* Storage for TLC with more than one document.                            *)
(***************************************************************************)
EXTENDS Storage, TLC

\* Document ids differ in name only.
Symmetry == Permutations(Ids)
=============================================================================
