------------------------------- MODULE Wallet -------------------------------
(***************************************************************************)
(* The prepaid wallet: top-ups (Payments) and promotions (Promotions) that *)
(* meet in users.balance and in the balance_transactions table.            *)
(***************************************************************************)
EXTENDS Payments, Promotions, Functions

\* The rows of a database, and with them a ledger that can be summed, are finite.
ASSUME WalletAssumption == IsFiniteSet(Checkouts) /\ IsFiniteSet(Purchases)

vars == <<balance, paymentVars, promotionVars>>

TypeOK == BalanceTypeOK /\ PaymentsTypeOK /\ PromotionsTypeOK

Init == BalanceInit /\ PaymentsInit /\ PromotionsInit

Next ==
  \/ PaymentsNext /\ UNCHANGED promotionVars
  \/ PromotionsNext /\ UNCHANGED paymentVars

Safety == Init /\ [][Next]_vars

-----------------------------------------------------------------------------
(* Fairness.  Stripe delivers an event again until it is answered with 200, *)
(* so a delivery of an unanswered event is not put off for ever.  A handler *)
(* is an ordinary request: it does not hang, and not every attempt at the   *)
(* same event is lost (nothing in the handler fails systematically).  The   *)
(* cron job of the worker runs every five minutes.  Nothing is assumed of   *)
(* customers, admins or the clock.                                          *)

Redeliver(c) ==
  /\ c \notin acked
  /\ \E h \in Handlers : Deliver(h, c)
  /\ UNCHANGED promotionVars

Settle(c) ==
  /\ \E h \in Handlers : job[h] = c /\ (CommitCompleted(h) \/ CommitExpired(h))
  /\ UNCHANGED promotionVars

Finish(h) ==
  /\ CommitCompleted(h) \/ CommitExpired(h) \/ Respond(h)
  /\ UNCHANGED promotionVars

Fairness ==
  /\ \A c \in Checkouts : SF_vars(Redeliver(c)) /\ SF_vars(Settle(c))
  /\ \A h \in Handlers : WF_vars(Finish(h))
  /\ WF_vars(BulkExpire /\ UNCHANGED paymentVars)

Spec == Safety /\ Fairness

-----------------------------------------------------------------------------
(* Properties                                                              *)

\* No interleaving of purchases and credits overdraws a balance
\* (UsersRepository.deduct_balance).
NoOverdraft == \A u \in Users : balance[u] >= 0

\* A user's balance is the sum of the user's balance_transactions: no credit
\* and no debit is lost to, or counted without, its row.
BalanceMatchesLedger ==
  \A u \in Users :
    balance[u] =
        SumFunctionOnSet([c \in Checkouts |-> topUps[c] * Amount[c]],
                         {c \in Checkouts : Payer[c] = u})
      - SumFunctionOnSet(debit, {p \in Purchases : Buyer[p] = u})

\* The wallet keeps the promise of Account.
Promise == INSTANCE Account WITH
  paid     <- {c \in Checkouts : stripe[c] = "complete"},
  credited <- {c \in Checkouts : topUps[c] > 0},
  spent    <- debit

KeepsPromiseSafety == Promise!Safety
KeepsPromise == Promise!Spec
=============================================================================
