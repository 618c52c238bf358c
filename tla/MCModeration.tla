---------------------------- MODULE MCModeration ----------------------------
(* Small instances of Moderation for TLC.                                  *)
EXTENDS Moderation, TLC

CONSTANT u1

MCOwner == [l \in Listings |-> u1]

\* used where only safety is checked
MCSymmetry == Permutations(Moderators) \cup Permutations(Listings) \cup Permutations(Reporters)
=============================================================================
