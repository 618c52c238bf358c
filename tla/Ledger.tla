------------------------------- MODULE Ledger -------------------------------
(***************************************************************************)
(* The users' prepaid balance (users.balance) and the two statements of    *)
(* UsersRepository that change it.  Both are single UPDATE statements that *)
(* compute the new balance from the current row, so each is one atomic     *)
(* step however many transactions touch the user.                          *)
(***************************************************************************)
EXTENDS Integers

CONSTANT Users  \* the accounts

VARIABLE balance  \* balance[u] : users.balance, in cents

BalanceTypeOK == balance \in [Users -> Int]

BalanceInit == balance = [u \in Users |-> 0]

\* Mutant of AddBalance: the new balance is computed from one that was read earlier.
OverwriteBalance(u, amount) == balance' = [balance EXCEPT ![u] = amount]

\* UPDATE users SET balance = balance + amount WHERE id = u
AddBalance(u, amount) == balance' = [balance EXCEPT ![u] = @ + amount]

\* The WHERE clause of deduct_balance; the row's lock makes the test and the
\* subtraction of DeductBalance one step.
CanDeduct(u, amount) == balance[u] >= amount

\* UPDATE users SET balance = balance - amount WHERE id = u AND balance >= amount
DeductBalance(u, amount) ==
  /\ CanDeduct(u, amount)
  /\ balance' = [balance EXCEPT ![u] = @ - amount]
=============================================================================
