------------------------------ MODULE MCImages ------------------------------
(* A small instance of Images for TLC.                                     *)
EXTENDS Images, TLC

CONSTANT r1

\* r1 may upload two files
MCSize == [r \in Requests |-> IF r = r1 THEN 2 ELSE 1]

MCSymmetry == Permutations(Requests \ {r1}) \cup Permutations(Posted)
=============================================================================
