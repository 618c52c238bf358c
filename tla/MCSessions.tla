----------------------------- MODULE MCSessions -----------------------------
(* Small instances of Sessions for TLC.                                    *)
EXTENDS Sessions, TLC

MCSymmetry == Permutations(Requests) \cup Permutations(Devices)
=============================================================================
