------------------------------ MODULE MCWallet ------------------------------
(* Small instances of Wallet for TLC.                                      *)
EXTENDS Wallet, TLC

CONSTANTS u1, u2, c1, c2, c3

\* two checkouts of one user, and one of another
MCPayer == [c \in Checkouts |-> IF c = c3 THEN u2 ELSE u1]
MCAmount == [c \in Checkouts |-> 2]

\* purchases contend for one balance
MCBuyer == [p \in Purchases |-> u1]
MCType == [k \in Packets |-> "TOP"]
MCDuration == [k \in Packets |-> 1]

\* used where only safety is checked
MCSymmetry == Permutations(Purchases) \cup Permutations(Packets)
=============================================================================
