------------------------------ MODULE Payments ------------------------------
(***************************************************************************)
(* Top-ups through Stripe Checkout: PaymentsService.create_checkout_session *)
(* and PaymentsService.handle_webhook, with Stripe as the environment.     *)
(*                                                                         *)
(* A checkout c is one POST /payments/checkout request.  It opens a Stripe *)
(* session first and inserts its payments_sessions row afterwards, in a    *)
(* transaction of its own.  The customer pays at Stripe, or Stripe expires *)
(* the session, and Stripe then delivers the event to the webhook at least *)
(* once: until a delivery is answered with 200, and possibly again.        *)
(*                                                                         *)
(* A delivery is handled by a request task h.  The row is read before the  *)
(* unit of work opens and the status it showed is not looked at again, so  *)
(* the read (Deliver) and the commit (CommitCompleted, CommitExpired) are  *)
(* two steps.  The statements inside the unit of work take the locks of    *)
(* the rows they write and become visible together: one step.              *)
(***************************************************************************)
EXTENDS Ledger, FiniteSets

CONSTANTS
  Checkouts,            \* POST /payments/checkout requests
  Payer,                \* Payer[c] : the user who asked for checkout c
  Amount,               \* Amount[c] : the amount of checkout c, in cents
  Handlers,             \* request tasks that serve the Stripe webhook
  NoCheckout,           \* job of an idle task
  OverlappingDelivery   \* may two deliveries of one event be handled at once?

ASSUME PaymentsAssumption ==
  /\ Payer \in [Checkouts -> Users]
  /\ Amount \in [Checkouts -> Nat \ {0}]
  /\ NoCheckout \notin Checkouts
  /\ OverlappingDelivery \in BOOLEAN

VARIABLES
  stripe,    \* stripe[c] : the Stripe session, "none" before it is created
  creating,  \* checkouts whose Stripe session exists and whose row is not inserted yet
  row,       \* row[c] : payments_sessions.status, "NONE" when there is no row
  topUps,    \* topUps[c] : TOP_UP rows of balance_transactions inserted for c
  pc,        \* pc[h] : where the webhook task h is
  job,       \* job[h] : the checkout of the event task h handles
  acked      \* checkouts whose event Stripe has seen answered with 200

paymentVars == <<stripe, creating, row, topUps, pc, job, acked>>

PaymentsTypeOK ==
  /\ stripe \in [Checkouts -> {"none", "open", "complete", "expired"}]
  /\ creating \subseteq Checkouts
  /\ row \in [Checkouts -> {"NONE", "PENDING", "COMPLETED", "EXPIRED"}]
  /\ topUps \in [Checkouts -> Nat]
  /\ pc \in [Handlers -> {"idle", "commit", "respond"}]
  /\ job \in [Handlers -> Checkouts \cup {NoCheckout}]
  /\ \A h \in Handlers : pc[h] = "idle" <=> job[h] = NoCheckout
  /\ acked \subseteq Checkouts

PaymentsInit ==
  /\ stripe = [c \in Checkouts |-> "none"]
  /\ creating = {}
  /\ row = [c \in Checkouts |-> "NONE"]
  /\ topUps = [c \in Checkouts |-> 0]
  /\ pc = [h \in Handlers |-> "idle"]
  /\ job = [h \in Handlers |-> NoCheckout]
  /\ acked = {}

-----------------------------------------------------------------------------
(* create_checkout_session                                                 *)

\* The call to Stripe returns a new session; nothing is stored yet.
CreateStripeSession(c) ==
  /\ stripe[c] = "none"
  /\ stripe' = [stripe EXCEPT ![c] = "open"]
  /\ creating' = creating \cup {c}
  /\ UNCHANGED <<balance, row, topUps, pc, job, acked>>

\* The row is committed as PENDING, then the request returns the checkout URL.
InsertSession(c) ==
  /\ c \in creating
  /\ creating' = creating \ {c}
  /\ row' = [row EXCEPT ![c] = "PENDING"]
  /\ UNCHANGED <<balance, stripe, topUps, pc, job, acked>>

\* The request dies between the two: Stripe keeps a session without a row.
AbandonCheckout(c) ==
  /\ c \in creating
  /\ creating' = creating \ {c}
  /\ UNCHANGED <<balance, stripe, row, topUps, pc, job, acked>>

-----------------------------------------------------------------------------
(* Stripe                                                                  *)

\* The customer pays.  The URL is only handed out once the row is committed.
CustomerPays(c) ==
  /\ stripe[c] = "open"
  /\ row[c] # "NONE"
  /\ stripe' = [stripe EXCEPT ![c] = "complete"]
  /\ UNCHANGED <<balance, creating, row, topUps, pc, job, acked>>

\* An unpaid session times out at Stripe, whether or not its row exists.  Stripe
\* keeps a session open for a day, longer than any request that creates one.
SessionTimesOut(c) ==
  /\ stripe[c] = "open"
  /\ c \notin creating
  /\ stripe' = [stripe EXCEPT ![c] = "expired"]
  /\ UNCHANGED <<balance, creating, row, topUps, pc, job, acked>>

-----------------------------------------------------------------------------
(* handle_webhook                                                          *)

Handling(c) == {h \in Handlers : job[h] = c}

\* Mutant of Deliver: the status of the row is not looked at.
DeliverAgain(h, c) ==
  /\ pc[h] = "idle"
  /\ stripe[c] \in {"complete", "expired"}
  /\ OverlappingDelivery \/ Handling(c) = {}
  /\ row[c] # "NONE"
  /\ pc' = [pc EXCEPT ![h] = "commit"]
  /\ job' = [job EXCEPT ![h] = c]
  /\ UNCHANGED <<balance, stripe, creating, row, topUps, acked>>

\* get_by_stripe_id: only a row that reads PENDING is acted upon, any other
\* answer to the query ends the request with 200.
Deliver(h, c) ==
  /\ pc[h] = "idle"
  /\ stripe[c] \in {"complete", "expired"}
  /\ OverlappingDelivery \/ Handling(c) = {}
  /\ \/ /\ row[c] = "PENDING"
        /\ pc' = [pc EXCEPT ![h] = "commit"]
        /\ job' = [job EXCEPT ![h] = c]
        /\ UNCHANGED acked
     \/ /\ row[c] # "PENDING"
        /\ acked' = acked \cup {c}
        /\ UNCHANGED <<pc, job>>
  /\ UNCHANGED <<balance, stripe, creating, row, topUps>>

\* Mutant of CommitCompleted: any event of a PENDING session is taken for a payment.
CommitAnyEvent(h) ==
  LET c == job[h] IN
  /\ pc[h] = "commit"
  /\ row' = [row EXCEPT ![c] = "COMPLETED"]
  /\ AddBalance(Payer[c], Amount[c])
  /\ topUps' = [topUps EXCEPT ![c] = @ + 1]
  /\ pc' = [pc EXCEPT ![h] = "respond"]
  /\ UNCHANGED <<stripe, creating, job, acked>>

\* checkout.session.completed: the status, the balance and the TOP_UP row are
\* written by one transaction.  The UPDATE of the status is by id alone.
CommitCompleted(h) ==
  LET c == job[h] IN
  /\ pc[h] = "commit"
  /\ stripe[c] = "complete"
  /\ row' = [row EXCEPT ![c] = "COMPLETED"]
  /\ AddBalance(Payer[c], Amount[c])
  /\ topUps' = [topUps EXCEPT ![c] = @ + 1]
  /\ pc' = [pc EXCEPT ![h] = "respond"]
  /\ UNCHANGED <<stripe, creating, job, acked>>

\* checkout.session.expired
CommitExpired(h) ==
  LET c == job[h] IN
  /\ pc[h] = "commit"
  /\ stripe[c] = "expired"
  /\ row' = [row EXCEPT ![c] = "EXPIRED"]
  /\ pc' = [pc EXCEPT ![h] = "respond"]
  /\ UNCHANGED <<balance, stripe, creating, topUps, job, acked>>

Respond(h) ==
  /\ pc[h] = "respond"
  /\ pc' = [pc EXCEPT ![h] = "idle"]
  /\ job' = [job EXCEPT ![h] = NoCheckout]
  /\ acked' = acked \cup {job[h]}
  /\ UNCHANGED <<balance, stripe, creating, row, topUps>>

\* The task dies, or its answer is lost: an open transaction is rolled back,
\* a committed one stays, and Stripe will deliver the event again.
LoseDelivery(h) ==
  /\ pc[h] # "idle"
  /\ pc' = [pc EXCEPT ![h] = "idle"]
  /\ job' = [job EXCEPT ![h] = NoCheckout]
  /\ UNCHANGED <<balance, stripe, creating, row, topUps, acked>>

-----------------------------------------------------------------------------
PaymentsNext ==
  \/ \E c \in Checkouts : CreateStripeSession(c)
  \/ \E c \in Checkouts : InsertSession(c)
  \/ \E c \in Checkouts : AbandonCheckout(c)
  \/ \E c \in Checkouts : CustomerPays(c)
  \/ \E c \in Checkouts : SessionTimesOut(c)
  \/ \E h \in Handlers, c \in Checkouts : Deliver(h, c)
  \/ \E h \in Handlers : CommitCompleted(h)
  \/ \E h \in Handlers : CommitExpired(h)
  \/ \E h \in Handlers : Respond(h)
  \/ \E h \in Handlers : LoseDelivery(h)

-----------------------------------------------------------------------------
(* Properties                                                              *)

\* A paid checkout is credited at most once, however often Stripe delivers its
\* event and wherever its handler dies (handle_webhook's status test is the
\* only thing that stops a second credit).
CreditedAtMostOnce == \A c \in Checkouts : topUps[c] <= 1

\* Without the test being repeated in the unit of work, a checkout may be credited once
\* for each request that has read its row as PENDING, and no more often than that.
CreditedPerHandler == \A c \in Checkouts : topUps[c] <= Cardinality(Handlers)

\* Money is credited only for a session the customer paid, and exactly when the
\* row says so: a row marked EXPIRED, or never stored, has brought no credit and
\* a paid session is never marked EXPIRED.  Stripe stops delivering only what is
\* settled: once an event has been answered with 200, a paid session is credited
\* and an expired one is not left PENDING.
CreditMatchesPayment ==
  /\ \A c \in Checkouts :
       /\ topUps[c] > 0 <=> row[c] = "COMPLETED"
       /\ row[c] = "COMPLETED" => stripe[c] = "complete"
       /\ row[c] = "EXPIRED" => stripe[c] = "expired"
  /\ \A c \in acked : row[c] # "PENDING" /\ (stripe[c] = "complete" => topUps[c] > 0)
=============================================================================
