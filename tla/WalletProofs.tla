---------------------------- MODULE WalletProofs ----------------------------
(***************************************************************************)
(* Proofs about Wallet, for any users, checkouts, packets and purchases.   *)
(* The type invariant comes first; the ledger is an invariant of its own;  *)
(* every other result is a conjunct of one of the two inductive invariants *)
(* below, or follows from one.                                             *)
(***************************************************************************)
EXTENDS Wallet, FiniteSetTheorems, WellFoundedInduction, NaturalsInduction, TLAPS

(***************************************************************************)
(* Webhook tasks.  A task about to commit holds the answer of a query made *)
(* earlier.  That a credit follows a payment does not depend on whether    *)
(* the answer is still true; that there is one credit does, and then only  *)
(* because no second task handles the same checkout.                       *)
(***************************************************************************)

\* What the pc of a task says of its checkout.
TaskKnowsRow ==
  \A h \in Handlers :
    /\ pc[h] = "commit" => row[job[h]] # "NONE"
    /\ pc[h] = "respond" => row[job[h]] \in {"COMPLETED", "EXPIRED"}
    /\ pc[h] # "idle" => stripe[job[h]] \in {"complete", "expired"}

\* A row follows its Stripe session, and the TOP_UP rows follow the row.
RowFollowsStripe ==
  \A c \in Checkouts :
    /\ row[c] = "COMPLETED" => stripe[c] = "complete" /\ topUps[c] > 0
    /\ row[c] # "COMPLETED" => topUps[c] = 0
    /\ row[c] = "EXPIRED" => stripe[c] = "expired"
    /\ row[c] = "NONE" => stripe[c] # "complete"
    /\ c \in creating => stripe[c] = "open" /\ row[c] = "NONE"
    /\ stripe[c] = "none" => row[c] = "NONE"
    /\ c \in acked => row[c] # "PENDING" /\ stripe[c] \in {"complete", "expired"}

CreditInv ==
  /\ TypeOK
  /\ TaskKnowsRow
  /\ RowFollowsStripe

\* Two tasks never work on one checkout.
OneTaskPerCheckout ==
  \A g, h \in Handlers : (pc[g] # "idle" /\ job[g] = job[h]) => g = h

\* What a task read before its unit of work is true until it commits.
ReadingStands == \A h \in Handlers : pc[h] = "commit" => row[job[h]] = "PENDING"

TopUpInv ==
  /\ CreditInv
  /\ OneTaskPerCheckout
  /\ ReadingStands
  /\ CreditedAtMostOnce

(***************************************************************************)
(* Purchases.  What a purchase saw when it looked for a live promotion     *)
(* stays over for good, because a term, once written, never grows.         *)
(***************************************************************************)

PurchaseProgress ==
  \A p \in Purchases :
    /\ begun[p] <= clock
    /\ promo[p].status # "NONE" => step[p] = "done"
    /\ debit[p] # 0 => step[p] = "done"
    /\ step[p] \in {"duplicate", "pay"} => quote[p] # 0
    /\ \A q \in seen[p] : promo[q].status # "NONE"
    /\ step[p] \in {"pay", "done"} =>
         \A q \in seen[p] : SameKind(p, q) => ~LiveAt(q, begun[p])

PurchaseInv ==
  /\ TypeOK
  /\ NoOverdraft
  /\ PurchaseProgress

-----------------------------------------------------------------------------
(* Type correctness                                                        *)

\* A quote is an integer.
LEMMA QuoteInt ==
  ASSUME PromotionsTypeOK, NEW p \in Purchases
  PROVE  quote[p] \in Int
<1>1. \A amount \in Prices \cup {0} : amount \in Int
  BY PromotionsAssumption
<1>2. quote[p] \in Prices \cup {0}
  BY DEF PromotionsTypeOK
<1>. QED
  BY <1>1, <1>2

\* The initial states have the right types.
LEMMA InitTypeOK == Init => TypeOK
  BY PaymentsAssumption, PromotionsAssumption
  DEF Init, BalanceInit, PaymentsInit, PromotionsInit, TypeOK, BalanceTypeOK,
      PaymentsTypeOK, PromotionsTypeOK, NoPromotion

\* Every step of the payments keeps the types.
LEMMA PaymentsStepTypeOK ==
  ASSUME TypeOK, PaymentsNext, UNCHANGED promotionVars
  PROVE  TypeOK'
<1>. USE PaymentsAssumption DEF TypeOK, BalanceTypeOK, PaymentsTypeOK
<1>0. PromotionsTypeOK'
  BY DEF PromotionsTypeOK, promotionVars
<1>1. CASE \E c \in Checkouts : CreateStripeSession(c)
  BY <1>0, <1>1 DEF CreateStripeSession
<1>2. CASE \E c \in Checkouts : InsertSession(c)
  BY <1>0, <1>2 DEF InsertSession
<1>3. CASE \E c \in Checkouts : AbandonCheckout(c)
  BY <1>0, <1>3 DEF AbandonCheckout
<1>4. CASE \E c \in Checkouts : CustomerPays(c)
  BY <1>0, <1>4 DEF CustomerPays
<1>5. CASE \E c \in Checkouts : SessionTimesOut(c)
  BY <1>0, <1>5 DEF SessionTimesOut
<1>6. CASE \E h \in Handlers, c \in Checkouts : Deliver(h, c)
  BY <1>0, <1>6 DEF Deliver
<1>7. ASSUME NEW h \in Handlers, CommitCompleted(h)
      PROVE  TypeOK'
  <2>1. job[h] \in Checkouts
    BY <1>7 DEF CommitCompleted
  <2>. QED
    BY <1>0, <1>7, <2>1 DEF CommitCompleted, AddBalance
<1>8. CASE \E h \in Handlers : CommitExpired(h)
  BY <1>0, <1>8 DEF CommitExpired
<1>9. CASE \E h \in Handlers : Respond(h)
  BY <1>0, <1>9 DEF Respond
<1>10. CASE \E h \in Handlers : LoseDelivery(h)
  BY <1>0, <1>10 DEF LoseDelivery
<1>. QED
  BY <1>1, <1>2, <1>3, <1>4, <1>5, <1>6, <1>7, <1>8, <1>9, <1>10 DEF PaymentsNext

\* Every step of the promotions keeps the types.
LEMMA PromotionsStepTypeOK ==
  ASSUME TypeOK, PromotionsNext, UNCHANGED paymentVars
  PROVE  TypeOK'
<1>. USE PromotionsAssumption DEF TypeOK, BalanceTypeOK, PromotionsTypeOK
<1>0. PaymentsTypeOK'
  BY DEF PaymentsTypeOK, paymentVars
<1>1. CASE \E k \in Packets, amount \in Prices : CreatePacket(k, amount)
  BY <1>0, <1>1 DEF CreatePacket, requestVars
<1>2. CASE \E k \in Packets, amount \in Prices, active \in BOOLEAN :
             UpdatePacket(k, amount, active)
  BY <1>0, <1>2 DEF UpdatePacket, requestVars
<1>3. CASE \E l \in Listings, status \in {"ACTIVE", "INACTIVE"} :
             UpdateListingStatus(l, status)
  BY <1>0, <1>3 DEF UpdateListingStatus, requestVars
<1>4. CASE \E l \in Listings : RemoveListing(l)
  BY <1>0, <1>4 DEF RemoveListing, requestVars
<1>5. ASSUME NEW p \in Purchases, ReadListing(p)
      PROVE  TypeOK'
  <2>1. begun' \in [Purchases -> 0..MaxClock]
    <3>1. clock \in 0..MaxClock /\ begun' = [begun EXCEPT ![p] = clock]
      BY <1>5 DEF ReadListing
    <3>. QED
      BY <3>1
  <2>2. step' \in [Purchases -> {"new", "packet", "duplicate", "pay", "done", "refused"}]
    <3>1. \/ step' = [step EXCEPT ![p] = "packet"]
          \/ step' = [step EXCEPT ![p] = "refused"]
      BY <1>5 DEF ReadListing, At
    <3>. QED
      BY <3>1
  <2>3. UNCHANGED <<balance, clock, listing, price, onSale, want, quote, debit, promo, seen>>
    BY <1>5 DEF ReadListing, At
  <2>. QED
    BY <1>0, <2>1, <2>2, <2>3
<1>6. ASSUME NEW p \in Purchases, ReadPacket(p)
      PROVE  TypeOK'
  <2>1. price[want[p].packet] \in Prices \cup {0}
    OBVIOUS
  <2>2. quote' \in [Purchases -> Prices \cup {0}]
    BY <1>6, <2>1 DEF ReadPacket
  <2>3. step' \in [Purchases -> {"new", "packet", "duplicate", "pay", "done", "refused"}]
    <3>1. \/ step' = [step EXCEPT ![p] = "duplicate"]
          \/ step' = [step EXCEPT ![p] = "refused"]
      BY <1>6 DEF ReadPacket, At
    <3>. QED
      BY <3>1
  <2>4. UNCHANGED <<balance, clock, listing, price, onSale, want, begun, debit, promo, seen>>
    BY <1>6 DEF ReadPacket, At
  <2>. QED
    BY <1>0, <2>2, <2>3, <2>4
<1>7. CASE \E p \in Purchases : CheckDuplicate(p)
  BY <1>0, <1>7 DEF CheckDuplicate, At
<1>8. ASSUME NEW p \in Purchases, Pay(p)
      PROVE  TypeOK'
  <2>1. quote[p] \in Prices \cup {0} /\ Duration[want[p].packet] \in Nat /\ clock \in Nat
    OBVIOUS
  <2>2. balance' \in [Users -> Int] /\ debit' \in [Purchases -> Prices \cup {0}]
    <3>1. balance' = [balance EXCEPT ![Buyer[p]] = @ - quote[p]]
      BY <1>8 DEF Pay, DeductBalance
    <3>2. balance[Buyer[p]] - quote[p] \in Int
      <4>1. quote[p] \in Int
        BY QuoteInt
      <4>2. Buyer[p] \in Users /\ balance[Buyer[p]] \in Int
        OBVIOUS
      <4>. QED
        BY <4>1, <4>2
    <3>3. debit' = [debit EXCEPT ![p] = quote[p]]
      BY <1>8 DEF Pay
    <3>. QED
      BY <2>1, <3>1, <3>2, <3>3
  <2>3. promo' \in [Purchases -> [status : {"NONE", "ACTIVE", "EXPIRED"}, expires : Nat]]
    BY <1>8, <2>1 DEF Pay
  <2>4. step' \in [Purchases -> {"new", "packet", "duplicate", "pay", "done", "refused"}]
    BY <1>8 DEF Pay, At
  <2>5. UNCHANGED <<clock, listing, price, onSale, want, begun, quote, seen>>
    BY <1>8 DEF Pay, At
  <2>. QED
    BY <1>0, <2>2, <2>3, <2>4, <2>5
<1>9. CASE \E p \in Purchases : RefusePayment(p)
  BY <1>0, <1>9 DEF RefusePayment, At
<1>10. CASE BulkExpire
  BY <1>0, <1>10 DEF BulkExpire
<1>11. CASE Tick
  BY <1>0, <1>11 DEF Tick, requestVars
<1>. QED
  BY <1>1, <1>2, <1>3, <1>4, <1>5, <1>6, <1>7, <1>8, <1>9, <1>10, <1>11
  DEF PromotionsNext

\* Every step keeps the types.
LEMMA NextTypeOK == TypeOK /\ [Next]_vars => TypeOK'
<1>1. TypeOK /\ UNCHANGED vars => TypeOK'
  BY DEF vars, paymentVars, promotionVars, TypeOK, BalanceTypeOK, PaymentsTypeOK,
         PromotionsTypeOK
<1>. QED
  BY <1>1, PaymentsStepTypeOK, PromotionsStepTypeOK DEF Next

\* Every variable keeps its type, for any constants.
THEOREM TypeCorrect == Safety => []TypeOK
  BY InitTypeOK, NextTypeOK, PTL DEF Safety

-----------------------------------------------------------------------------
(* Top-ups                                                                 *)

\* At the start there is no task, and no row.
LEMMA InitCreditInv == Init => CreditInv
<1>. SUFFICES ASSUME Init PROVE CreditInv
  OBVIOUS
<1>1. TypeOK
  BY InitTypeOK
<1>2. TaskKnowsRow /\ RowFollowsStripe
  BY DEF Init, PaymentsInit, TaskKnowsRow, RowFollowsStripe
<1>. QED
  BY <1>1, <1>2 DEF CreditInv

\* Every step of the payments keeps rows after Stripe, and credits after rows.
LEMMA PaymentsStepCreditInv ==
  ASSUME CreditInv, PaymentsNext
  PROVE  (TaskKnowsRow /\ RowFollowsStripe)'
<1>. USE PaymentsAssumption
     DEF CreditInv, TypeOK, PaymentsTypeOK, TaskKnowsRow, RowFollowsStripe
<1>1. CASE \E c \in Checkouts : CreateStripeSession(c)
  BY <1>1 DEF CreateStripeSession
<1>2. CASE \E c \in Checkouts : InsertSession(c)
  BY <1>2 DEF InsertSession
<1>3. CASE \E c \in Checkouts : AbandonCheckout(c)
  BY <1>3 DEF AbandonCheckout
<1>4. CASE \E c \in Checkouts : CustomerPays(c)
  BY <1>4 DEF CustomerPays
<1>5. CASE \E c \in Checkouts : SessionTimesOut(c)
  BY <1>5 DEF SessionTimesOut
<1>6. CASE \E h \in Handlers, c \in Checkouts : Deliver(h, c)
  BY <1>6 DEF Deliver
<1>7. CASE \E h \in Handlers : CommitCompleted(h)
  BY <1>7 DEF CommitCompleted
<1>8. CASE \E h \in Handlers : CommitExpired(h)
  BY <1>8 DEF CommitExpired
<1>9. CASE \E h \in Handlers : Respond(h)
  BY <1>9 DEF Respond
<1>10. CASE \E h \in Handlers : LoseDelivery(h)
  BY <1>10 DEF LoseDelivery
<1>. QED
  BY <1>1, <1>2, <1>3, <1>4, <1>5, <1>6, <1>7, <1>8, <1>9, <1>10 DEF PaymentsNext

\* Every step keeps rows after Stripe, and credits after rows, overlapping deliveries or not.
LEMMA NextCreditInv == CreditInv /\ [Next]_vars => CreditInv'
<1>. SUFFICES ASSUME CreditInv, [Next]_vars PROVE CreditInv'
  OBVIOUS
<1>1. TypeOK'
  BY NextTypeOK DEF CreditInv
<1>2. CASE PaymentsNext
  BY <1>1, <1>2, PaymentsStepCreditInv DEF CreditInv
<1>3. CASE UNCHANGED paymentVars
  BY <1>1, <1>3 DEF CreditInv, paymentVars, TaskKnowsRow, RowFollowsStripe
<1>. QED
  BY <1>2, <1>3 DEF Next, vars

\* Only paid sessions are credited, the row says which, and what Stripe stops
\* delivering is settled, even if it hands one event to many requests at once.
THEOREM CreditFollowsPayment == Safety => []CreditMatchesPayment
<1>1. CreditInv => CreditMatchesPayment
  BY DEF CreditInv, TypeOK, PaymentsTypeOK, RowFollowsStripe, CreditMatchesPayment
<1>. QED
  BY <1>1, InitCreditInv, NextCreditInv, PTL DEF Safety

\* At the start nothing is credited.
LEMMA InitTopUpInv == Init => TopUpInv
<1>. SUFFICES ASSUME Init PROVE TopUpInv
  OBVIOUS
<1>1. OneTaskPerCheckout /\ ReadingStands /\ CreditedAtMostOnce
  BY DEF Init, PaymentsInit, OneTaskPerCheckout, ReadingStands, CreditedAtMostOnce
<1>. QED
  BY <1>1, InitCreditInv DEF TopUpInv

\* Where deliveries do not overlap, a task finds at its commit the row it read, and credits once.
LEMMA PaymentsStepTopUpInv ==
  ASSUME TopUpInv, ~OverlappingDelivery, PaymentsNext
  PROVE  (OneTaskPerCheckout /\ ReadingStands /\ CreditedAtMostOnce)'
<1>. USE PaymentsAssumption
     DEF TopUpInv, CreditInv, TypeOK, PaymentsTypeOK, TaskKnowsRow, RowFollowsStripe,
         OneTaskPerCheckout, ReadingStands, CreditedAtMostOnce
<1>1. CASE \E c \in Checkouts : CreateStripeSession(c) \/ AbandonCheckout(c) \/ CustomerPays(c)
  BY <1>1 DEF CreateStripeSession, AbandonCheckout, CustomerPays
<1>2. CASE \E c \in Checkouts : InsertSession(c)
  BY <1>2 DEF InsertSession
<1>3. CASE \E c \in Checkouts : SessionTimesOut(c)
  BY <1>3 DEF SessionTimesOut
<1>4. CASE \E h \in Handlers, c \in Checkouts : Deliver(h, c)
  BY <1>4 DEF Deliver, Handling
<1>5. CASE \E h \in Handlers : CommitCompleted(h)
  BY <1>5 DEF CommitCompleted
<1>6. CASE \E h \in Handlers : CommitExpired(h)
  BY <1>6 DEF CommitExpired
<1>7. CASE \E h \in Handlers : Respond(h)
  BY <1>7 DEF Respond
<1>8. CASE \E h \in Handlers : LoseDelivery(h)
  BY <1>8 DEF LoseDelivery
<1>. QED
  BY <1>1, <1>2, <1>3, <1>4, <1>5, <1>6, <1>7, <1>8 DEF PaymentsNext

\* Where deliveries do not overlap, every step keeps each checkout credited once at most.
LEMMA NextTopUpInv ==
  ASSUME ~OverlappingDelivery
  PROVE  TopUpInv /\ [Next]_vars => TopUpInv'
<1>. SUFFICES ASSUME TopUpInv, [Next]_vars PROVE TopUpInv'
  OBVIOUS
<1>1. CreditInv'
  BY NextCreditInv DEF TopUpInv
<1>2. CASE PaymentsNext
  BY <1>1, <1>2, PaymentsStepTopUpInv DEF TopUpInv
<1>3. CASE UNCHANGED paymentVars
  BY <1>1, <1>3 DEF TopUpInv, paymentVars, OneTaskPerCheckout, ReadingStands, CreditedAtMostOnce
<1>. QED
  BY <1>2, <1>3 DEF Next, vars

\* As long as Stripe does not hand one event to two requests at once, a paid
\* checkout is credited at most once.
THEOREM CreditOnce ==
  ASSUME ~OverlappingDelivery
  PROVE  Safety => []CreditedAtMostOnce
<1>1. Init => TopUpInv
  BY InitTopUpInv
<1>2. TopUpInv /\ [Next]_vars => TopUpInv'
  BY NextTopUpInv
<1>3. TopUpInv => CreditedAtMostOnce
  BY DEF TopUpInv
<1>. QED
  BY <1>1, <1>2, <1>3, PTL DEF Safety

\* The tasks about to commit for c
Committing(c) == {h \in Handlers : pc[h] = "commit" /\ job[h] = c}

\* Every credit that c has had, or may still get, is that of a task of its own: a
\* task that begins once c is credited does not get to the commit.
BoundInv ==
  \A c \in Checkouts : topUps[c] + Cardinality(Committing(c)) <= Cardinality(Handlers)

\* Some of the tasks are finitely many, and no more than all of them.
LEMMA CommittingIsFinite ==
  ASSUME IsFiniteSet(Handlers), NEW H \in SUBSET Handlers
  PROVE  /\ IsFiniteSet(H) /\ Cardinality(H) \in Nat /\ Cardinality(Handlers) \in Nat
         /\ Cardinality(H) <= Cardinality(Handlers)
  BY FS_Subset, FS_CardinalityType

\* Every step keeps credits, and commits to come, no more than there are tasks.
LEMMA NextBoundInv ==
  ASSUME IsFiniteSet(Handlers), CreditInv, BoundInv, [Next]_vars
  PROVE  BoundInv'
<1>. USE DEF CreditInv, TypeOK, PaymentsTypeOK
<1>. SUFFICES ASSUME NEW c \in Checkouts
              PROVE  topUps'[c] + Cardinality(Committing(c)') <= Cardinality(Handlers)
  BY DEF BoundInv
<1>0. /\ topUps[c] \in Nat
      /\ Cardinality(Committing(c)) \in Nat /\ Cardinality(Handlers) \in Nat
      /\ topUps[c] + Cardinality(Committing(c)) <= Cardinality(Handlers)
  BY CommittingIsFinite DEF BoundInv, Committing
<1>1. CASE topUps'[c] = topUps[c] /\ Committing(c)' \subseteq Committing(c)
  <2>1. IsFiniteSet(Committing(c)) /\ Committing(c) \subseteq Handlers
    BY CommittingIsFinite DEF Committing
  <2>2. Cardinality(Committing(c)') \in Nat /\ Cardinality(Committing(c)') <= Cardinality(Committing(c))
    BY <1>1, <2>1, FS_Subset, FS_CardinalityType
  <2>. QED
    BY <1>0, <1>1, <2>2
<1>2. ASSUME NEW h \in Handlers, Deliver(h, c), row[c] = "PENDING"
      PROVE  topUps'[c] + Cardinality(Committing(c)') <= Cardinality(Handlers)
  <2>1. topUps'[c] = 0
    BY <1>2 DEF Deliver, RowFollowsStripe
  <2>2. Committing(c)' \in SUBSET Handlers
    BY DEF Committing
  <2>. QED
    BY <2>1, <2>2, CommittingIsFinite
<1>3. ASSUME NEW h \in Handlers, CommitCompleted(h), job[h] = c
      PROVE  topUps'[c] + Cardinality(Committing(c)') <= Cardinality(Handlers)
  <2>1. topUps'[c] = topUps[c] + 1 /\ Committing(c)' = Committing(c) \ {h} /\ h \in Committing(c)
    BY <1>3 DEF CommitCompleted, Committing
  <2>2. Cardinality(Committing(c)') = Cardinality(Committing(c)) - 1
    <3>1. IsFiniteSet(Committing(c))
      BY CommittingIsFinite DEF Committing
    <3>. QED
      BY <2>1, <3>1, FS_RemoveElement
  <2>. QED
    BY <1>0, <2>1, <2>2
<1>4. PaymentsNext =>
        \/ topUps'[c] = topUps[c] /\ Committing(c)' \subseteq Committing(c)
        \/ \E h \in Handlers : Deliver(h, c) /\ row[c] = "PENDING"
        \/ \E h \in Handlers : CommitCompleted(h) /\ job[h] = c
  BY DEF PaymentsNext, CreateStripeSession, InsertSession, AbandonCheckout, CustomerPays,
         SessionTimesOut, Deliver, CommitCompleted, CommitExpired, Respond, LoseDelivery, Committing
<1>5. UNCHANGED paymentVars => topUps'[c] = topUps[c] /\ Committing(c)' \subseteq Committing(c)
  BY DEF paymentVars, Committing
<1>. QED
  BY <1>1, <1>2, <1>3, <1>4, <1>5 DEF Next, vars

\* When deliveries do overlap, a checkout is credited at most as often as there are
\* requests at work.
THEOREM CreditsAreBounded ==
  ASSUME IsFiniteSet(Handlers)
  PROVE  Safety => []CreditedPerHandler
<1>1. Init => BoundInv
  <2>. SUFFICES ASSUME Init, NEW c \in Checkouts
                PROVE  topUps[c] + Cardinality(Committing(c)) <= Cardinality(Handlers)
    BY DEF BoundInv
  <2>1. topUps[c] = 0 /\ Committing(c) \in SUBSET Handlers
    BY DEF Init, PaymentsInit, Committing
  <2>. QED
    BY <2>1, CommittingIsFinite
<1>2. CreditInv /\ BoundInv /\ [Next]_vars => BoundInv'
  BY NextBoundInv
<1>3. CreditInv /\ BoundInv => CreditedPerHandler
  <2>. SUFFICES ASSUME CreditInv, BoundInv, NEW c \in Checkouts
                PROVE  topUps[c] <= Cardinality(Handlers)
    BY DEF CreditedPerHandler
  <2>1. Committing(c) \in SUBSET Handlers /\ topUps[c] \in Nat
    BY DEF Committing, CreditInv, TypeOK, PaymentsTypeOK
  <2>2. Cardinality(Committing(c)) \in Nat /\ Cardinality(Handlers) \in Nat
    BY <2>1, CommittingIsFinite
  <2>3. topUps[c] + Cardinality(Committing(c)) <= Cardinality(Handlers)
    BY DEF BoundInv
  <2>. QED
    BY <2>1, <2>2, <2>3
<1>. QED
  BY <1>1, <1>2, <1>3, InitCreditInv, NextCreditInv, PTL DEF Safety

-----------------------------------------------------------------------------
(* Purchases                                                               *)

\* At the start nothing has been bought.
LEMMA InitPurchaseInv == Init => PurchaseInv
<1>. SUFFICES ASSUME Init PROVE PurchaseInv
  OBVIOUS
<1>1. TypeOK
  BY InitTypeOK
<1>2. NoOverdraft
  <2>. SUFFICES ASSUME NEW u \in Users PROVE balance[u] >= 0
    BY DEF NoOverdraft
  <2>1. balance = [v \in Users |-> 0]
    BY DEF Init, BalanceInit
  <2>. QED
    BY <2>1
<1>3. PurchaseProgress
  <2>. SUFFICES ASSUME NEW p \in Purchases
                PROVE  /\ begun[p] <= clock
                       /\ promo[p].status = "NONE" /\ debit[p] = 0 /\ seen[p] = {}
                       /\ step[p] = "new"
    BY DEF PurchaseProgress
  <2>. QED
    BY DEF Init, PromotionsInit, NoPromotion
<1>. QED
  BY <1>1, <1>2, <1>3 DEF PurchaseInv

\* A balance falls only by an amount it covers.
LEMMA NextNoOverdraft ==
  ASSUME TypeOK, NoOverdraft, [Next]_vars
  PROVE  NoOverdraft'
<1>. USE PaymentsAssumption, PromotionsAssumption DEF TypeOK, BalanceTypeOK, NoOverdraft
<1>1. ASSUME NEW h \in Handlers, CommitCompleted(h)
      PROVE  NoOverdraft'
  <2>1. job[h] \in Checkouts
    BY <1>1 DEF CommitCompleted, PaymentsTypeOK
  <2>2. Amount[job[h]] \in Nat /\ Payer[job[h]] \in Users
    BY <2>1
  <2>. QED
    BY <1>1, <2>2 DEF CommitCompleted, AddBalance
<1>2. ASSUME NEW p \in Purchases, Pay(p)
      PROVE  NoOverdraft'
  <2>1. quote[p] \in Int /\ Buyer[p] \in Users
    BY QuoteInt
  <2>. QED
    BY <1>2, <2>1 DEF Pay, DeductBalance, CanDeduct
<1>3. CASE UNCHANGED balance
  BY <1>3
<1>4. PaymentsNext => UNCHANGED balance \/ \E h \in Handlers : CommitCompleted(h)
  BY DEF PaymentsNext, CreateStripeSession, InsertSession, AbandonCheckout, CustomerPays,
         SessionTimesOut, Deliver, CommitExpired, Respond, LoseDelivery
<1>5. PromotionsNext => UNCHANGED balance \/ \E p \in Purchases : Pay(p)
  BY DEF PromotionsNext, CreatePacket, UpdatePacket, UpdateListingStatus, RemoveListing,
         ReadListing, ReadPacket, CheckDuplicate, RefusePayment, BulkExpire, Tick
<1>. QED
  BY <1>1, <1>2, <1>3, <1>4, <1>5 DEF Next, vars

\* No interleaving overdraws a balance, for any users, amounts and prices.
THEOREM NeverOverdrawn == Safety => []NoOverdraft
<1>1. Init => TypeOK /\ NoOverdraft
  BY InitPurchaseInv DEF PurchaseInv
<1>2. TypeOK /\ NoOverdraft /\ [Next]_vars => (TypeOK /\ NoOverdraft)'
  BY NextTypeOK, NextNoOverdraft
<1>. QED
  BY <1>1, <1>2, PTL DEF Safety

\* Every step of the promotions keeps what the step of a purchase says of it.
LEMMA PromotionsStepProgress ==
  ASSUME PurchaseInv, PromotionsNext, TypeOK'
  PROVE  PurchaseProgress'
<1>. USE PromotionsAssumption DEF PurchaseInv, TypeOK, PromotionsTypeOK, PurchaseProgress, SameKind, LiveAt
<1>1. CASE \E k \in Packets, amount \in Prices : CreatePacket(k, amount)
  BY <1>1 DEF CreatePacket, requestVars
<1>2. CASE \E k \in Packets, amount \in Prices, active \in BOOLEAN :
             UpdatePacket(k, amount, active)
  BY <1>2 DEF UpdatePacket, requestVars
<1>3. CASE \E l \in Listings, status \in {"ACTIVE", "INACTIVE"} :
             UpdateListingStatus(l, status)
  BY <1>3 DEF UpdateListingStatus, requestVars
<1>4. CASE \E l \in Listings : RemoveListing(l)
  BY <1>4 DEF RemoveListing, requestVars
<1>5. ASSUME NEW p \in Purchases, ReadListing(p)
      PROVE  PurchaseProgress'
  <2>1. step[p] = "new" /\ UNCHANGED <<clock, want, quote, debit, promo, seen>>
    BY <1>5 DEF ReadListing, At
  <2>2. \/ step' = [step EXCEPT ![p] = "packet"]
        \/ step' = [step EXCEPT ![p] = "refused"]
    BY <1>5 DEF ReadListing, At
  <2>3. begun' = [begun EXCEPT ![p] = clock]
    BY <1>5 DEF ReadListing
  <2>. QED
    BY <2>1, <2>2, <2>3
<1>6. ASSUME NEW p \in Purchases, ReadPacket(p)
      PROVE  PurchaseProgress'
  <2>1. step[p] = "packet" /\ UNCHANGED <<clock, want, begun, debit, promo, seen>>
    BY <1>6 DEF ReadPacket, At
  <2>2. \/ /\ step' = [step EXCEPT ![p] = "duplicate"]
           /\ price[want[p].packet] # 0
           /\ quote' = [quote EXCEPT ![p] = price[want[p].packet]]
        \/ step' = [step EXCEPT ![p] = "refused"] /\ UNCHANGED quote
    BY <1>6 DEF ReadPacket, At
  <2>. QED
    BY <2>1, <2>2
<1>7. ASSUME NEW p \in Purchases, CheckDuplicate(p)
      PROVE  PurchaseProgress'
  <2>1. step[p] = "duplicate" /\ UNCHANGED <<clock, want, begun, quote, debit, promo>>
    BY <1>7 DEF CheckDuplicate, At
  <2>2. seen' = [seen EXCEPT ![p] = {q \in Purchases : promo[q].status # "NONE"}]
    BY <1>7 DEF CheckDuplicate
  <2>3. \/ /\ step' = [step EXCEPT ![p] = "pay"]
           /\ ~\E q \in Purchases : SameKind(p, q) /\ LiveAt(q, begun[p])
        \/ step' = [step EXCEPT ![p] = "refused"]
    BY <1>7 DEF CheckDuplicate, At
  <2>4. CASE step' = [step EXCEPT ![p] = "refused"]
    BY <2>1, <2>2, <2>4
  <2>5. CASE /\ step' = [step EXCEPT ![p] = "pay"]
             /\ ~\E q \in Purchases : SameKind(p, q) /\ LiveAt(q, begun[p])
    <3>. SUFFICES ASSUME NEW r \in Purchases
                  PROVE  PurchaseProgress!(r)'
      OBVIOUS
    <3>1. CASE r = p
      BY <2>1, <2>2, <2>5, <3>1
    <3>2. CASE r # p
      BY <2>1, <2>2, <2>5, <3>2
    <3>. QED
      BY <3>1, <3>2
  <2>. QED
    BY <2>3, <2>4, <2>5
<1>8. CASE \E p \in Purchases : Pay(p)
  BY <1>8 DEF Pay, At
<1>9. CASE \E p \in Purchases : RefusePayment(p)
  BY <1>9 DEF RefusePayment, At
<1>10. CASE BulkExpire
  BY <1>10 DEF BulkExpire, Due
<1>11. CASE Tick
  BY <1>11 DEF Tick, requestVars
<1>. QED
  BY <1>1, <1>2, <1>3, <1>4, <1>5, <1>6, <1>7, <1>8, <1>9, <1>10, <1>11
  DEF PromotionsNext

\* Every step keeps the invariant of the purchases.
LEMMA NextPurchaseInv == PurchaseInv /\ [Next]_vars => PurchaseInv'
<1>. SUFFICES ASSUME PurchaseInv, [Next]_vars PROVE PurchaseInv'
  OBVIOUS
<1>1. TypeOK' /\ NoOverdraft'
  BY NextTypeOK, NextNoOverdraft DEF PurchaseInv
<1>2. CASE PromotionsNext
  BY <1>1, <1>2, PromotionsStepProgress DEF PurchaseInv
<1>3. CASE UNCHANGED promotionVars
  BY <1>1, <1>3 DEF PurchaseInv, promotionVars, PurchaseProgress, SameKind, LiveAt
<1>. QED
  BY <1>2, <1>3 DEF Next, vars

\* The invariant gives the property the run checks.
LEMMA PurchaseInvImplies == PurchaseInv => DuplicateOnlyWhenRaced
<1>. SUFFICES ASSUME PurchaseInv,
                     NEW p \in Purchases, NEW q \in Purchases,
                     p # q, SameKind(p, q), LiveAt(p, clock), LiveAt(q, clock), p \in seen[q]
              PROVE  FALSE
  BY DEF DuplicateOnlyWhenRaced
<1>1. step[q] = "done" /\ SameKind(q, p)
  BY DEF PurchaseInv, PurchaseProgress, LiveAt, SameKind
<1>2. ~LiveAt(p, begun[q]) /\ begun[q] <= clock
  BY <1>1 DEF PurchaseInv, PurchaseProgress
<1>3. promo[p].expires \in Int /\ begun[q] \in Int /\ clock \in Int
  BY PromotionsAssumption DEF PurchaseInv, TypeOK, PromotionsTypeOK
<1>. QED
  BY <1>2, <1>3 DEF LiveAt

\* Purchases that did not race never leave two live promotions of one type on a
\* listing, however long a request's transaction, and with it its now(), lags
\* behind the clock.
THEOREM DuplicatesRaced == Safety => []DuplicateOnlyWhenRaced
  BY InitPurchaseInv, NextPurchaseInv, PurchaseInvImplies, PTL DEF Safety

\* A promotion's row changes once, from ACTIVE to EXPIRED, and never before its
\* term is over.
THEOREM TermsHonoured == Safety => TermHonoured
<1>. DEFINE Honoured ==
       \A p \in Purchases :
         promo[p].status # "NONE" /\ promo'[p] # promo[p] =>
           /\ promo[p].status = "ACTIVE"
           /\ promo'[p] = [promo[p] EXCEPT !.status = "EXPIRED"]
           /\ clock >= promo[p].expires
<1>1. PurchaseInv /\ [Next]_vars => [Honoured]_promotionVars
  <2>. SUFFICES ASSUME PurchaseInv, [Next]_vars PROVE Honoured \/ UNCHANGED promo
    BY DEF promotionVars
  <2>. USE DEF PurchaseInv, TypeOK, PromotionsTypeOK
  <2>1. CASE \E p \in Purchases : Pay(p)
    BY <2>1 DEF Pay, At, PurchaseProgress
  <2>2. CASE BulkExpire
    BY <2>2, PromotionsAssumption DEF BulkExpire, Due
  <2>3. PromotionsNext => UNCHANGED promo \/ BulkExpire \/ \E p \in Purchases : Pay(p)
    BY DEF PromotionsNext, CreatePacket, UpdatePacket, UpdateListingStatus, RemoveListing,
           ReadListing, ReadPacket, CheckDuplicate, RefusePayment, Tick, requestVars, At
  <2>. QED
    BY <2>1, <2>2, <2>3 DEF Next, vars, promotionVars
<1>. QED
  BY <1>1, InitPurchaseInv, NextPurchaseInv, PTL DEF Safety, TermHonoured

-----------------------------------------------------------------------------
(* Sums.  SumFunctionOnSet is a recursive function over the subsets of a   *)
(* finite set.  That such a function exists, and what changing one number  *)
(* does to its values, is shown on a smallest counterexample.              *)

\* The element of T the community module's sum takes first
Pick(T) == CHOOSE x \in T : TRUE

\* one unfolding of the sum of f over T, g being the sums over smaller sets
Entry(f, g, T) == IF T = {} THEN 0 ELSE f[Pick(T)] + g[T \ {Pick(T)}]

\* The sums of f over the subsets of S
Sums(f, S) == CHOOSE g : g = [T \in SUBSET S |-> Entry(f, g, T)]

\* The library's sum over a set is the entry of that set in Sums.
LEMMA SumIsEntry ==
  ASSUME NEW f, NEW S
  PROVE SumFunctionOnSet(f, S) = Sums(f, S)[S]
BY DEF SumFunctionOnSet, FoldFunctionOnSet, MapThenFoldSet, Sums, Entry, Pick

\* A set of numbers has a smallest member.
LEMMA Least ==
  ASSUME NEW P \in SUBSET Nat, P # {}
  PROVE  \E k \in P : \A l \in P : ~(l < k)
<1>1. PICK k \in P : \A l \in P : ~(<<l, k>> \in OpToRel(<, Nat))
  BY NatLessThanWellFounded, WFMin, Zenon
<1>2. \A l \in P : ~(l < k)
  BY <1>1, Zenon DEF OpToRel
<1>. QED
  BY <1>2

\* Taking one element out of a finite set leaves a set smaller by one.
LEMMA PickOut ==
  ASSUME NEW T, IsFiniteSet(T), T # {}
  PROVE  /\ Pick(T) \in T
         /\ IsFiniteSet(T \ {Pick(T)})
         /\ Cardinality(T) \in Nat
         /\ Cardinality(T \ {Pick(T)}) \in Nat
         /\ Cardinality(T \ {Pick(T)}) = Cardinality(T) - 1
<1>1. Pick(T) \in T
  BY DEF Pick
<1>. QED
  BY <1>1, FS_RemoveElement, FS_CardinalityType

\* The subsets of S of up to n members
Small(S, n) == {T \in SUBSET S : Cardinality(T) <= n}

\* The recursion has a solution on the subsets of up to n members.
LEMMA SumsUpTo ==
  ASSUME NEW f, NEW S, IsFiniteSet(S), NEW n \in Nat
  PROVE  \E g : g = [T \in Small(S, n) |-> Entry(f, g, T)]
<1>. DEFINE Good(m) == \E g : g = [T \in Small(S, m) |-> Entry(f, g, T)]
            P == {m \in Nat : ~Good(m)}
<1>0. \A T \in SUBSET S : IsFiniteSet(T) /\ Cardinality(T) \in Nat
  BY FS_Subset, FS_CardinalityType
<1>1. Good(0)
  <2>. DEFINE g == [T \in Small(S, 0) |-> 0]
  <2>1. \A T \in Small(S, 0) : T = {}
    BY <1>0, FS_EmptySet DEF Small
  <2>2. \A T \in Small(S, 0) : Entry(f, g, T) = 0
    BY <2>1 DEF Entry
  <2>3. g = [T \in Small(S, 0) |-> Entry(f, g, T)]
    BY <2>2
  <2>. QED
    BY <2>3
<1>2. ASSUME NEW m \in Nat, Good(m)
      PROVE  Good(m + 1)
  <2>1. PICK g : g = [T \in Small(S, m) |-> Entry(f, g, T)]
    BY <1>2
  <2>. DEFINE h == [T \in Small(S, m + 1) |-> Entry(f, g, T)]
  <2>2. \A T \in Small(S, m) : T \in Small(S, m + 1) /\ h[T] = g[T]
    <3>1. \A T \in Small(S, m) : T \in Small(S, m + 1)
      BY <1>0 DEF Small
    <3>2. \A T \in Small(S, m) : g[T] = Entry(f, g, T)
      BY <2>1
    <3>. QED
      BY <3>1, <3>2
  <2>3. ASSUME NEW T \in Small(S, m + 1)
        PROVE  Entry(f, g, T) = Entry(f, h, T)
    <3>1. CASE T = {}
      BY <3>1 DEF Entry
    <3>2. CASE T # {}
      <4>1. T \ {Pick(T)} \in Small(S, m)
        BY <1>0, <3>2, PickOut DEF Small
      <4>2. h[T \ {Pick(T)}] = g[T \ {Pick(T)}]
        BY <2>2, <4>1
      <4>. HIDE DEF h
      <4>. QED
        BY <4>2 DEF Entry
    <3>. QED
      BY <3>1, <3>2
  <2>4. h = [T \in Small(S, m + 1) |-> Entry(f, h, T)]
    <3>1. [T \in Small(S, m + 1) |-> Entry(f, g, T)] = [T \in Small(S, m + 1) |-> Entry(f, h, T)]
      <4>. HIDE DEF h
      <4>. QED
        BY <2>3
    <3>. QED
      BY <3>1
  <2>. QED
    BY <2>4
<1>3. ASSUME P # {}
      PROVE  FALSE
  <2>1. PICK k \in P : \A l \in P : ~(l < k)
    <3>. HIDE DEF Good
    <3>. QED
      BY <1>3, Least
  <2>. HIDE DEF Good
  <2>2. k \in Nat /\ k # 0 /\ k - 1 \notin P /\ k - 1 \in Nat
    BY <1>1, <2>1
  <2>3. Good(k - 1)
    BY <2>2
  <2>4. Good((k - 1) + 1)
    BY <1>2, <2>2, <2>3
  <2>5. (k - 1) + 1 = k
    BY <2>2
  <2>. QED
    BY <2>1, <2>4, <2>5
<1>. QED
  <2>1. Good(n)
    <3>. HIDE DEF Good
    <3>. QED
      BY <1>3
  <2>. QED
    BY <2>1

\* Sums is what its definition says, for every subset of a finite set.
LEMMA SumsUnfold ==
  ASSUME NEW f, NEW S, IsFiniteSet(S)
  PROVE  \A T \in SUBSET S : Sums(f, S)[T] = Entry(f, Sums(f, S), T)
<1>1. Small(S, Cardinality(S)) = SUBSET S
  BY FS_Subset, FS_CardinalityType DEF Small
<1>2. \E g : g = [T \in Small(S, Cardinality(S)) |-> Entry(f, g, T)]
  <2>1. Cardinality(S) \in Nat
    BY FS_CardinalityType
  <2>. QED
    BY <2>1, SumsUpTo
<1>3. \E g : g = [T \in SUBSET S |-> Entry(f, g, T)]
  BY <1>1, <1>2
<1>4. Sums(f, S) = [T \in SUBSET S |-> Entry(f, Sums(f, S), T)]
  BY <1>3 DEF Sums
<1>. HIDE DEF Sums
<1>. QED
  BY <1>4, Zenon

\* A set of finite sets has a smallest member.
LEMMA Smallest ==
  ASSUME NEW F, F # {}, \A T \in F : Cardinality(T) \in Nat
  PROVE  \E T \in F : \A R \in F : ~(Cardinality(R) < Cardinality(T))
<1>. DEFINE P == {Cardinality(T) : T \in F}
<1>1. P \in SUBSET Nat /\ P # {}
  OBVIOUS
<1>2. PICK k \in P : \A l \in P : ~(l < k)
  <2>. HIDE DEF P
  <2>. QED
    BY <1>1, Least
<1>. QED
  BY <1>2

\* A finite sum of integers is an integer.
LEMMA SumIsInt ==
  ASSUME NEW S, IsFiniteSet(S), NEW f, \A x \in S : f[x] \in Int
  PROVE  \A T \in SUBSET S : Sums(f, S)[T] \in Int
<1>. DEFINE F == {T \in SUBSET S : Sums(f, S)[T] \notin Int}
<1>. SUFFICES ASSUME F # {} PROVE FALSE
  OBVIOUS
<1>1. \A T \in SUBSET S : IsFiniteSet(T) /\ Cardinality(T) \in Nat
  BY FS_Subset, FS_CardinalityType
<1>2. PICK T \in F : \A R \in F : ~(Cardinality(R) < Cardinality(T))
  <2>1. \A T \in F : Cardinality(T) \in Nat
    BY <1>1
  <2>. HIDE DEF F
  <2>. QED
    BY <2>1, Smallest
<1>3. Sums(f, S)[T] = Entry(f, Sums(f, S), T)
  BY SumsUnfold, T \in SUBSET S
<1>4. T # {}
  BY <1>3 DEF Entry
<1>5. T \ {Pick(T)} \in SUBSET S /\ Pick(T) \in S /\ Cardinality(T \ {Pick(T)}) < Cardinality(T)
  BY <1>1, <1>4, PickOut
<1>6. Sums(f, S)[T \ {Pick(T)}] \in Int
  BY <1>2, <1>5
<1>. QED
  BY <1>2, <1>3, <1>4, <1>5, <1>6 DEF Entry

\* Two functions that differ at most in x have sums that differ by as much.
LEMMA SumsDiffer ==
  ASSUME NEW S, IsFiniteSet(S), NEW f, NEW g, NEW x,
         \A y \in S : f[y] \in Int /\ g[y] \in Int,
         \A y \in S \ {x} : g[y] = f[y]
  PROVE  \A T \in SUBSET S :
           Sums(g, S)[T] = IF x \in T THEN Sums(f, S)[T] + (g[x] - f[x]) ELSE Sums(f, S)[T]
<1>. DEFINE Moved(T) == IF x \in T THEN Sums(f, S)[T] + (g[x] - f[x]) ELSE Sums(f, S)[T]
            F == {T \in SUBSET S : Sums(g, S)[T] # Moved(T)}
<1>. SUFFICES ASSUME F # {} PROVE FALSE
  OBVIOUS
<1>1. \A T \in SUBSET S : IsFiniteSet(T) /\ Cardinality(T) \in Nat
  BY FS_Subset, FS_CardinalityType
<1>2. PICK T \in F : \A R \in F : ~(Cardinality(R) < Cardinality(T))
  <2>1. \A T \in F : Cardinality(T) \in Nat
    BY <1>1
  <2>. HIDE DEF F
  <2>. QED
    BY <2>1, Smallest
<1>3. /\ Sums(f, S)[T] = Entry(f, Sums(f, S), T)
      /\ Sums(g, S)[T] = Entry(g, Sums(g, S), T)
  BY SumsUnfold, T \in SUBSET S
<1>4. T # {}
  <2>1. CASE T = {}
    <3>1. Sums(f, S)[T] = 0 /\ Sums(g, S)[T] = 0
      BY <1>3, <2>1 DEF Entry
    <3>. QED
      BY <1>2, <2>1, <3>1
  <2>. QED
    BY <2>1
<1>. DEFINE R == T \ {Pick(T)}
<1>5. R \in SUBSET S /\ Pick(T) \in T /\ Pick(T) \in S /\ Cardinality(R) < Cardinality(T)
  <2>. HIDE DEF Moved
  <2>1. T \in SUBSET S /\ IsFiniteSet(T)
    BY <1>1
  <2>. HIDE DEF F
  <2>. QED
    BY <1>4, <2>1, PickOut
<1>6. Sums(g, S)[R] = Moved(R)
  BY <1>2, <1>5
<1>7. Sums(f, S)[R] \in Int /\ Sums(f, S)[T] \in Int
  BY <1>5, SumIsInt
<1>8. /\ Sums(f, S)[T] = f[Pick(T)] + Sums(f, S)[R]
      /\ Sums(g, S)[T] = g[Pick(T)] + Sums(g, S)[R]
  BY <1>3, <1>4 DEF Entry
<1>9. Sums(g, S)[T] = Moved(T)
  <2>1. CASE Pick(T) = x
    <3>1. x \in T /\ x \notin R /\ f[x] \in Int /\ g[x] \in Int
      BY <1>5, <2>1
    <3>2. Sums(g, S)[T] = g[x] + Sums(f, S)[R] /\ Sums(f, S)[T] = f[x] + Sums(f, S)[R]
      BY <1>6, <1>8, <2>1, <3>1
    <3>3. g[x] + Sums(f, S)[R] = (f[x] + Sums(f, S)[R]) + (g[x] - f[x])
      BY <1>7, <3>1
    <3>. QED
      BY <3>1, <3>2, <3>3
  <2>2. CASE Pick(T) # x
    <3>1. g[Pick(T)] = f[Pick(T)] /\ f[Pick(T)] \in Int /\ (x \in T <=> x \in R)
      BY <1>5, <2>2
    <3>2. CASE x \notin T
      BY <1>6, <1>8, <3>1, <3>2
    <3>3. CASE x \in T
      <4>1. f[x] \in Int /\ g[x] \in Int
        BY <3>3
      <4>2. Sums(g, S)[R] = Sums(f, S)[R] + (g[x] - f[x])
        BY <1>6, <3>1, <3>3
      <4>3. Sums(g, S)[T] = f[Pick(T)] + (Sums(f, S)[R] + (g[x] - f[x]))
        BY <1>8, <3>1, <4>2
      <4>4. @ = (f[Pick(T)] + Sums(f, S)[R]) + (g[x] - f[x])
        BY <1>7, <3>1, <4>1
      <4>. QED
        BY <1>8, <3>3, <4>3, <4>4
    <3>. QED
      BY <3>2, <3>3
  <2>. QED
    BY <2>1, <2>2
<1>. QED
  BY <1>2, <1>9

\* Where the function is 0, so is the sum.
LEMMA SumsVanish ==
  ASSUME NEW S, IsFiniteSet(S), NEW f, \A y \in S : f[y] = 0
  PROVE  \A T \in SUBSET S : Sums(f, S)[T] = 0
<1>. DEFINE F == {T \in SUBSET S : Sums(f, S)[T] # 0}
<1>. SUFFICES ASSUME F # {} PROVE FALSE
  OBVIOUS
<1>1. \A T \in SUBSET S : IsFiniteSet(T) /\ Cardinality(T) \in Nat
  BY FS_Subset, FS_CardinalityType
<1>2. PICK T \in F : \A R \in F : ~(Cardinality(R) < Cardinality(T))
  <2>1. \A T \in F : Cardinality(T) \in Nat
    BY <1>1
  <2>. HIDE DEF F
  <2>. QED
    BY <2>1, Smallest
<1>3. Sums(f, S)[T] = Entry(f, Sums(f, S), T)
  BY SumsUnfold, T \in SUBSET S
<1>4. T # {}
  BY <1>2, <1>3 DEF Entry
<1>5. T \ {Pick(T)} \in SUBSET S /\ Pick(T) \in S /\ Cardinality(T \ {Pick(T)}) < Cardinality(T)
  BY <1>1, <1>4, PickOut
<1>6. Sums(f, S)[T \ {Pick(T)}] = 0
  BY <1>2, <1>5
<1>. QED
  BY <1>2, <1>3, <1>4, <1>5, <1>6 DEF Entry

\* When one summand changes, the sum changes by as much.
LEMMA SumMoves ==
  ASSUME NEW S, IsFiniteSet(S), NEW f, NEW g, NEW x,
         \A y \in S : f[y] \in Int /\ g[y] \in Int,
         \A y \in S \ {x} : g[y] = f[y]
  PROVE  /\ SumFunctionOnSet(f, S) \in Int
         /\ SumFunctionOnSet(g, S) =
              IF x \in S THEN SumFunctionOnSet(f, S) + (g[x] - f[x]) ELSE SumFunctionOnSet(f, S)
<1>1. SumFunctionOnSet(f, S) = Sums(f, S)[S] /\ SumFunctionOnSet(g, S) = Sums(g, S)[S]
  BY SumIsEntry
<1>2. Sums(f, S)[S] \in Int
  BY SumIsInt
<1>3. Sums(g, S)[S] = IF x \in S THEN Sums(f, S)[S] + (g[x] - f[x]) ELSE Sums(f, S)[S]
  <2>1. \A T \in SUBSET S :
          Sums(g, S)[T] = IF x \in T THEN Sums(f, S)[T] + (g[x] - f[x]) ELSE Sums(f, S)[T]
    BY SumsDiffer
  <2>. QED
    BY <2>1, S \in SUBSET S
<1>. QED
  BY <1>1, <1>2, <1>3

-----------------------------------------------------------------------------
(* The ledger                                                              *)

\* What each checkout has brought
Credits == [c \in Checkouts |-> topUps[c] * Amount[c]]
CheckoutsOf(u) == {c \in Checkouts : Payer[c] = u}
PurchasesOf(u) == {p \in Purchases : Buyer[p] = u}

\* BalanceMatchesLedger, in terms of two sums that do not depend on the balances.
LEMMA LedgerOf ==
  BalanceMatchesLedger <=>
    \A u \in Users :
      balance[u] = SumFunctionOnSet(Credits, CheckoutsOf(u))
                     - SumFunctionOnSet(debit, PurchasesOf(u))
  BY DEF BalanceMatchesLedger, Credits, CheckoutsOf, PurchasesOf

\* The checkouts and purchases of a user are finitely many.
LEMMA LedgersFinite ==
  \A u \in Users : IsFiniteSet(CheckoutsOf(u)) /\ IsFiniteSet(PurchasesOf(u))
<1>1. \A u \in Users : CheckoutsOf(u) \subseteq Checkouts /\ PurchasesOf(u) \subseteq Purchases
  BY DEF CheckoutsOf, PurchasesOf
<1>. QED
  BY <1>1, WalletAssumption, FS_Subset

\* What the sums of the ledger add up are integers.
LEMMA LedgerInts ==
  ASSUME TypeOK
  PROVE  /\ \A u \in Users : \A c \in CheckoutsOf(u) : Credits[c] \in Int
         /\ \A u \in Users : \A p \in PurchasesOf(u) : debit[p] \in Int
<1>1. ASSUME NEW c \in Checkouts PROVE Credits[c] \in Int
  <2>1. topUps[c] \in Nat /\ Amount[c] \in Nat
    BY PaymentsAssumption DEF TypeOK, PaymentsTypeOK
  <2>. QED
    BY <2>1 DEF Credits
<1>2. ASSUME NEW p \in Purchases PROVE debit[p] \in Int
  <2>1. debit[p] \in Prices \cup {0}
    BY DEF TypeOK, PromotionsTypeOK
  <2>2. \A amount \in Prices \cup {0} : amount \in Int
    BY PromotionsAssumption
  <2>. QED
    BY <2>1, <2>2
<1>. QED
  BY <1>1, <1>2 DEF CheckoutsOf, PurchasesOf

\* At the start every balance, and every ledger, is empty.
LEMMA InitLedger == Init => BalanceMatchesLedger
<1>. SUFFICES ASSUME Init, NEW u \in Users
              PROVE  balance[u] = SumFunctionOnSet(Credits, CheckoutsOf(u))
                                    - SumFunctionOnSet(debit, PurchasesOf(u))
  BY LedgerOf
<1>1. balance[u] = 0
  BY DEF Init, BalanceInit
<1>2. \A c \in CheckoutsOf(u) : Credits[c] = 0
  <2>1. \A c \in Checkouts : topUps[c] = 0 /\ Amount[c] \in Int
    BY PaymentsAssumption DEF Init, PaymentsInit
  <2>. QED
    BY <2>1 DEF Credits, CheckoutsOf
<1>3. \A p \in PurchasesOf(u) : debit[p] = 0
  BY DEF Init, PromotionsInit, PurchasesOf
<1>4. SumFunctionOnSet(Credits, CheckoutsOf(u)) = 0
  BY <1>2, LedgersFinite, SumsVanish, SumIsEntry
<1>5. SumFunctionOnSet(debit, PurchasesOf(u)) = 0
  BY <1>3, LedgersFinite, SumsVanish, SumIsEntry
<1>. QED
  BY <1>1, <1>4, <1>5

\* A credit and its TOP_UP row, and a debit and its DEBIT row, change together.
LEMMA NextLedger ==
  ASSUME PurchaseInv, BalanceMatchesLedger, [Next]_vars
  PROVE  BalanceMatchesLedger'
<1>. USE DEF PurchaseInv
<1>0. TypeOK' /\ BalanceTypeOK
  BY NextTypeOK DEF TypeOK
<1>1. ASSUME NEW h \in Handlers, CommitCompleted(h), UNCHANGED promotionVars, NEW u \in Users
      PROVE  balance'[u] = SumFunctionOnSet(Credits', CheckoutsOf(u))
                             - SumFunctionOnSet(debit', PurchasesOf(u))
  <2>1. PICK c \in Checkouts : c = job[h]
    BY <1>1 DEF CommitCompleted, TypeOK, PaymentsTypeOK
  <2>2. Payer[c] \in Users /\ Amount[c] \in Int /\ topUps[c] \in Int
    BY <2>1, PaymentsAssumption DEF TypeOK, PaymentsTypeOK
  <2>3. /\ balance' = [balance EXCEPT ![Payer[c]] = @ + Amount[c]]
        /\ topUps' = [topUps EXCEPT ![c] = @ + 1]
        /\ debit' = debit
    BY <1>1, <2>1 DEF CommitCompleted, AddBalance, promotionVars
  <2>4. Credits'[c] \in Int /\ Credits'[c] - Credits[c] = Amount[c]
    <3>1. Credits[c] = topUps[c] * Amount[c] /\ Credits'[c] = (topUps[c] + 1) * Amount[c]
      BY <2>1, <2>3 DEF Credits, TypeOK, PaymentsTypeOK
    <3>2. \A t, a \in Int : (t + 1) * a \in Int /\ t * a \in Int /\ (t + 1) * a - t * a = a
      OBVIOUS
    <3>. QED
      BY <2>2, <3>1, <3>2
  <2>5. \A d \in Checkouts \ {c} : Credits'[d] = Credits[d]
    BY <2>3 DEF Credits, TypeOK, PaymentsTypeOK
  <2>6. /\ SumFunctionOnSet(Credits, CheckoutsOf(u)) \in Int
        /\ SumFunctionOnSet(Credits', CheckoutsOf(u)) =
             IF c \in CheckoutsOf(u) THEN SumFunctionOnSet(Credits, CheckoutsOf(u)) + Amount[c]
                                     ELSE SumFunctionOnSet(Credits, CheckoutsOf(u))
    <3>1. \A d \in CheckoutsOf(u) : Credits[d] \in Int /\ Credits'[d] \in Int
      <4>1. \A d \in CheckoutsOf(u) : Credits[d] \in Int
        BY LedgerInts
      <4>. QED
        BY <2>4, <2>5, <4>1 DEF CheckoutsOf
    <3>2. IsFiniteSet(CheckoutsOf(u)) /\ \A d \in CheckoutsOf(u) \ {c} : Credits'[d] = Credits[d]
      BY <2>5, LedgersFinite DEF CheckoutsOf
    <3>. QED
      <4>. DEFINE S == CheckoutsOf(u)
                  f == Credits
                  g == Credits'
      <4>1. /\ IsFiniteSet(S) /\ \A d \in S : f[d] \in Int /\ g[d] \in Int
            /\ \A d \in S \ {c} : g[d] = f[d]
        BY <3>1, <3>2
      <4>2. g[c] - f[c] = Amount[c]
        BY <2>4
      <4>. HIDE DEF S, f, g
      <4>3. /\ SumFunctionOnSet(f, S) \in Int
            /\ SumFunctionOnSet(g, S) =
                 IF c \in S THEN SumFunctionOnSet(f, S) + (g[c] - f[c]) ELSE SumFunctionOnSet(f, S)
        BY <4>1, SumMoves
      <4>. QED
        BY <4>2, <4>3 DEF S, f, g
  <2>7. c \in CheckoutsOf(u) <=> Payer[c] = u
    BY <2>1 DEF CheckoutsOf
  <2>8. SumFunctionOnSet(debit, PurchasesOf(u)) \in Int /\ balance[u] \in Int
    BY <1>0, LedgersFinite, LedgerInts, SumMoves DEF BalanceTypeOK
  <2>9. balance[u] = SumFunctionOnSet(Credits, CheckoutsOf(u))
                      - SumFunctionOnSet(debit, PurchasesOf(u))
    BY LedgerOf
  <2>10. balance'[u] = IF Payer[c] = u THEN balance[u] + Amount[c] ELSE balance[u]
    BY <1>0, <2>2, <2>3 DEF BalanceTypeOK
  <2>. QED
    BY <2>2, <2>3, <2>6, <2>7, <2>8, <2>9, <2>10
<1>2. ASSUME NEW p \in Purchases, Pay(p), UNCHANGED paymentVars, NEW u \in Users
      PROVE  balance'[u] = SumFunctionOnSet(Credits', CheckoutsOf(u))
                             - SumFunctionOnSet(debit', PurchasesOf(u))
  <2>1. /\ balance' = [balance EXCEPT ![Buyer[p]] = @ - quote[p]]
        /\ debit' = [debit EXCEPT ![p] = quote[p]]
        /\ Credits' = Credits
    BY <1>2 DEF Pay, DeductBalance, paymentVars, Credits
  <2>2. quote[p] \in Int /\ Buyer[p] \in Users
    BY QuoteInt, PromotionsAssumption DEF TypeOK
  <2>3. debit[p] = 0 /\ debit'[p] = quote[p] /\ \A q \in Purchases \ {p} : debit'[q] = debit[q]
    BY <1>2, <2>1 DEF PurchaseProgress, Pay, At, TypeOK, PromotionsTypeOK
  <2>4. /\ SumFunctionOnSet(debit, PurchasesOf(u)) \in Int
        /\ SumFunctionOnSet(debit', PurchasesOf(u)) =
             IF p \in PurchasesOf(u) THEN SumFunctionOnSet(debit, PurchasesOf(u)) + quote[p]
                                     ELSE SumFunctionOnSet(debit, PurchasesOf(u))
    <3>1. \A q \in PurchasesOf(u) : debit[q] \in Int /\ debit'[q] \in Int
      <4>1. \A q \in PurchasesOf(u) : debit[q] \in Int
        BY LedgerInts
      <4>. QED
        BY <2>2, <2>3, <4>1 DEF PurchasesOf
    <3>2. IsFiniteSet(PurchasesOf(u)) /\ \A q \in PurchasesOf(u) \ {p} : debit'[q] = debit[q]
      BY <2>3, LedgersFinite DEF PurchasesOf
    <3>3. debit'[p] - debit[p] = quote[p]
      BY <2>2, <2>3
    <3>. QED
      BY <3>1, <3>2, <3>3, SumMoves
  <2>5. p \in PurchasesOf(u) <=> Buyer[p] = u
    BY DEF PurchasesOf
  <2>6. SumFunctionOnSet(Credits, CheckoutsOf(u)) \in Int /\ balance[u] \in Int
    BY <1>0, LedgersFinite, LedgerInts, SumMoves DEF BalanceTypeOK
  <2>7. balance[u] = SumFunctionOnSet(Credits, CheckoutsOf(u))
                      - SumFunctionOnSet(debit, PurchasesOf(u))
    BY LedgerOf
  <2>8. balance'[u] = IF Buyer[p] = u THEN balance[u] - quote[p] ELSE balance[u]
    BY <1>0, <2>1, <2>2 DEF BalanceTypeOK
  <2>. QED
    BY <2>1, <2>2, <2>4, <2>5, <2>6, <2>7, <2>8
<1>3. CASE UNCHANGED <<balance, topUps, debit>>
  BY <1>3, LedgerOf DEF BalanceMatchesLedger
<1>4. PaymentsNext => UNCHANGED <<balance, topUps>> \/ \E h \in Handlers : CommitCompleted(h)
  BY DEF PaymentsNext, CreateStripeSession, InsertSession, AbandonCheckout, CustomerPays,
         SessionTimesOut, Deliver, CommitExpired, Respond, LoseDelivery
<1>5. PromotionsNext => UNCHANGED <<balance, debit>> \/ \E p \in Purchases : Pay(p)
  BY DEF PromotionsNext, CreatePacket, UpdatePacket, UpdateListingStatus, RemoveListing,
         ReadListing, ReadPacket, CheckDuplicate, RefusePayment, BulkExpire, Tick, requestVars
<1>. QED
  BY <1>1, <1>2, <1>3, <1>4, <1>5 DEF Next, vars, paymentVars, promotionVars,
     BalanceMatchesLedger, Credits, CheckoutsOf, PurchasesOf

\* Every balance is what its rows say, for any users, amounts and prices, and
\* whether or not two deliveries of one event overlap.
THEOREM BalancesMatch == Safety => []BalanceMatchesLedger
<1>1. Init => PurchaseInv /\ BalanceMatchesLedger
  BY InitPurchaseInv, InitLedger
<1>2. PurchaseInv /\ BalanceMatchesLedger /\ [Next]_vars => (PurchaseInv /\ BalanceMatchesLedger)'
  BY NextPurchaseInv, NextLedger
<1>. QED
  BY <1>1, <1>2, PTL DEF Safety

-----------------------------------------------------------------------------
(* Refinement: every step of the wallet is a step of Account or none.      *)

\* Every step of the payments is a step of the abstract ledger, or none.
LEMMA PaymentsStepRefines ==
  ASSUME TopUpInv, PaymentsNext, UNCHANGED promotionVars
  PROVE  [Promise!Next]_(Promise!vars)
<1>. USE DEF Promise!vars, promotionVars, TopUpInv, CreditInv, TypeOK, PaymentsTypeOK
<1>1. ASSUME NEW c \in Checkouts, CustomerPays(c)
      PROVE  Promise!PayCheckout(c)
  BY <1>1 DEF CustomerPays, Promise!PayCheckout
<1>2. ASSUME NEW h \in Handlers, CommitCompleted(h)
      PROVE  \E c \in Checkouts : Promise!Credit(c)
  <2>1. /\ pc[h] = "commit" /\ stripe[job[h]] = "complete"
        /\ topUps' = [topUps EXCEPT ![job[h]] = topUps[job[h]] + 1]
        /\ balance' = [balance EXCEPT ![Payer[job[h]]] = @ + Amount[job[h]]]
        /\ UNCHANGED <<stripe, debit>>
    BY <1>2 DEF CommitCompleted, AddBalance
  <2>2. PICK c \in Checkouts : c = job[h] /\ row[c] = "PENDING"
    BY <2>1 DEF ReadingStands
  <2>3. topUps[c] = 0 /\ topUps' = [topUps EXCEPT ![c] = 1]
    <3>1. topUps[c] = 0
      BY <2>2 DEF RowFollowsStripe
    <3>2. topUps' = [topUps EXCEPT ![c] = topUps[c] + 1]
      BY <2>1, <2>2
    <3>. QED
      BY <3>1, <3>2
  <2>4. /\ {d \in Checkouts : topUps'[d] > 0} = {d \in Checkouts : topUps[d] > 0} \cup {c}
        /\ c \notin {d \in Checkouts : topUps[d] > 0}
    BY <2>3
  <2>5. Promise!Credit(c)
    BY <2>1, <2>2, <2>4 DEF Promise!Credit
  <2>. QED
    BY <2>5
<1>3. PaymentsNext =>
        \/ \E c \in Checkouts : CustomerPays(c)
        \/ \E h \in Handlers : CommitCompleted(h)
        \/ /\ UNCHANGED <<balance, topUps>>
           /\ \A c \in Checkouts : stripe'[c] = "complete" <=> stripe[c] = "complete"
  BY DEF PaymentsNext, CreateStripeSession, InsertSession, AbandonCheckout,
         SessionTimesOut, Deliver, CommitExpired, Respond, LoseDelivery
<1>4. CASE /\ UNCHANGED <<balance, topUps>>
           /\ \A c \in Checkouts : stripe'[c] = "complete" <=> stripe[c] = "complete"
  <2>1. {c \in Checkouts : stripe'[c] = "complete"} = {c \in Checkouts : stripe[c] = "complete"}
    BY <1>4
  <2>. QED
    BY <1>4, <2>1
<1>5. CASE \E c \in Checkouts : CustomerPays(c)
  BY <1>1, <1>5 DEF Promise!Next
<1>6. CASE \E h \in Handlers : CommitCompleted(h)
  BY <1>2, <1>6 DEF Promise!Next
<1>. QED
  BY <1>3, <1>4, <1>5, <1>6

\* Every step of the promotions is a step of the abstract ledger, or none.
LEMMA PromotionsStepRefines ==
  ASSUME PurchaseInv, PromotionsNext, UNCHANGED paymentVars
  PROVE  [Promise!Next]_(Promise!vars)
<1>. USE DEF Promise!vars, paymentVars, PurchaseInv, TypeOK, PromotionsTypeOK
<1>1. ASSUME NEW p \in Purchases, Pay(p)
      PROVE  quote[p] \in Prices /\ Promise!Spend(p, quote[p])
  <2>1. quote[p] \in Prices /\ debit[p] = 0
    BY <1>1 DEF Pay, At, PurchaseProgress
  <2>2. quote[p] \in Int /\ balance[Buyer[p]] \in Int
    BY QuoteInt, PromotionsAssumption DEF BalanceTypeOK
  <2>. QED
    BY <1>1, <2>1, <2>2 DEF Pay, DeductBalance, CanDeduct, Promise!Spend
<1>2. PromotionsNext => UNCHANGED <<balance, debit>> \/ \E p \in Purchases : Pay(p)
  BY DEF PromotionsNext, CreatePacket, UpdatePacket, UpdateListingStatus, RemoveListing,
         ReadListing, ReadPacket, CheckDuplicate, RefusePayment, BulkExpire, Tick, requestVars
<1>. QED
  BY <1>1, <1>2 DEF Promise!Next

\* The safety part of Account: a balance moves only by crediting a paid checkout,
\* once, and by a purchase it covers.
THEOREM WalletKeepsPromise ==
  ASSUME ~OverlappingDelivery
  PROVE  Safety => KeepsPromiseSafety
<1>1. Init => Promise!Init
  BY DEF Init, BalanceInit, PaymentsInit, PromotionsInit, Promise!Init
<1>2. TopUpInv /\ PurchaseInv /\ [Next]_vars => [Promise!Next]_(Promise!vars)
  BY PaymentsStepRefines, PromotionsStepRefines
  DEF Next, vars, paymentVars, promotionVars, Promise!vars
<1>3. TopUpInv /\ [Next]_vars => TopUpInv'
  BY NextTopUpInv
<1>. QED
  BY <1>1, <1>2, <1>3, InitTopUpInv, InitPurchaseInv, NextPurchaseInv, PTL
  DEF Safety, KeepsPromiseSafety, Promise!Safety
=============================================================================
