------------------------------ MODULE MCServer ------------------------------
(* Server with interchangeable tasks.                                      *)
EXTENDS Server, TLC

Symmetry == Permutations(Tasks)
=============================================================================
