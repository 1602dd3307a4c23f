------------------------------ MODULE MCDosing ------------------------------
(* Instances of DosingController for TLC. *)
EXTENDS DosingController, TLC

Symmetry == Permutations(Tags)
=============================================================================
