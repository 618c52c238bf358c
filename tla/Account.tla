------------------------------ MODULE Account -------------------------------
(***************************************************************************)
(* What the wallet promises its users, with no word of Stripe, rows or     *)
(* requests: a balance that money enters once for every checkout that was  *)
(* paid, and that money leaves only to buy something it can afford.        *)
(***************************************************************************)
EXTENDS Integers

CONSTANTS Users, Checkouts, Payer, Amount, Purchases, Buyer, Prices

VARIABLES
  balance,   \* what each user can spend
  paid,      \* the checkouts that were paid
  credited,  \* the paid checkouts that have reached the balance
  spent      \* spent[p] : what purchase p cost, 0 while it is not made

vars == <<balance, paid, credited, spent>>

Init ==
  /\ balance = [u \in Users |-> 0]
  /\ paid = {}
  /\ credited = {}
  /\ spent = [p \in Purchases |-> 0]

PayCheckout(c) ==
  /\ c \notin paid
  /\ paid' = paid \cup {c}
  /\ UNCHANGED <<balance, credited, spent>>

Credit(c) ==
  /\ c \in paid \ credited
  /\ credited' = credited \cup {c}
  /\ balance' = [balance EXCEPT ![Payer[c]] = @ + Amount[c]]
  /\ UNCHANGED <<paid, spent>>

Spend(p, cost) ==
  /\ spent[p] = 0
  /\ cost <= balance[Buyer[p]]
  /\ spent' = [spent EXCEPT ![p] = cost]
  /\ balance' = [balance EXCEPT ![Buyer[p]] = @ - cost]
  /\ UNCHANGED <<paid, credited>>

Next ==
  \/ \E c \in Checkouts : PayCheckout(c) \/ Credit(c)
  \/ \E p \in Purchases, cost \in Prices : Spend(p, cost)

Safety == Init /\ [][Next]_vars

Spec == Safety /\ \A c \in Checkouts : WF_vars(Credit(c))
=============================================================================
