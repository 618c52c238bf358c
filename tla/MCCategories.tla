---------------------------- MODULE MCCategories ----------------------------
(* A small instance of Categories for TLC.                                 *)
EXTENDS Categories, TLC

MCSymmetry == Permutations(Initial) \cup Permutations(Requests)
=============================================================================
