----------------------------- MODULE Promotions -----------------------------
(***************************************************************************)
(* Paid promotions of listings: PromotionsService.purchase with the packet *)
(* administration it races with, ListingsService.update_listing_status,    *)
(* and the worker's cron job deactivate_expired_promotions.                *)
(*                                                                         *)
(* A purchase p is one POST /promotions/listings/{id} request.  It reads   *)
(* the listing (the dependency get_owned_listing_by_id), then the packet,  *)
(* then looks for a live promotion of the same type, and only then opens   *)
(* its unit of work: four steps, between which anything can happen.  The   *)
(* unit of work deducts the price, inserts the DEBIT row and the promotion *)
(* and commits: one step, or nothing when the balance does not suffice.    *)
(***************************************************************************)
EXTENDS Ledger, FiniteSets

CONSTANTS
  Listings,
  Packets,      \* promotion_packets rows an admin may create
  Type,         \* Type[k]     : promotion_packets.type
  Duration,     \* Duration[k] : promotion_packets.duration_days, in clock ticks
  Prices,       \* the prices an admin may set, in cents
  Purchases,    \* purchase requests
  Buyer,        \* Buyer[p] : the user who sends purchase p, the listing's owner
  MaxClock      \* bound: the clock stops here

ASSUME PromotionsAssumption ==
  /\ Duration \in [Packets -> Nat \ {0}]
  /\ Prices \subseteq Nat \ {0}
  /\ Buyer \in [Purchases -> Users]
  /\ MaxClock \in Nat

VARIABLES
  clock,      \* the time of day, as the application and PostgreSQL read it
  listing,    \* listing[l] : listings.status (what a purchase tells apart) or DELETED
  price,      \* price[k] : promotion_packets.price, 0 while there is no row
  onSale,     \* onSale[k] : promotion_packets.is_active
  want,       \* want[p] : the listing and the packet purchase p asks for
  step,       \* step[p] : where purchase p is
  begun,      \* begun[p] : when p's database transaction began, its now()
  quote,      \* quote[p] : the price p read, 0 before it has
  debit,      \* debit[p] : amount of p's DEBIT row, 0 when there is none
  promo,      \* promo[p] : listing_promotions row of p: status and expires_at
  seen        \* history: the promotions committed when p looked for a live one

promotionVars ==
  <<clock, listing, price, onSale, want, step, begun, quote, debit, promo, seen>>

requestVars == <<want, step, begun, quote, debit, promo, seen>>

NoPromotion == [status |-> "NONE", expires |-> 0]

PromotionsTypeOK ==
  /\ clock \in 0..MaxClock
  /\ listing \in [Listings -> {"ACTIVE", "INACTIVE", "DELETED"}]
  /\ price \in [Packets -> Prices \cup {0}]
  /\ onSale \in [Packets -> BOOLEAN]
  /\ want \in [Purchases -> [listing : Listings, packet : Packets]]
  /\ step \in [Purchases -> {"new", "packet", "duplicate", "pay", "done", "refused"}]
  /\ begun \in [Purchases -> 0..MaxClock]
  /\ quote \in [Purchases -> Prices \cup {0}]
  /\ debit \in [Purchases -> Prices \cup {0}]
  /\ promo \in [Purchases -> [status : {"NONE", "ACTIVE", "EXPIRED"}, expires : Nat]]
  /\ seen \in [Purchases -> SUBSET Purchases]

PromotionsInit ==
  /\ clock = 0
  /\ listing = [l \in Listings |-> "INACTIVE"]
  /\ price = [k \in Packets |-> 0]
  /\ onSale = [k \in Packets |-> FALSE]
  /\ want \in [Purchases -> [listing : Listings, packet : Packets]]
  /\ step = [p \in Purchases |-> "new"]
  /\ begun = [p \in Purchases |-> 0]
  /\ quote = [p \in Purchases |-> 0]
  /\ debit = [p \in Purchases |-> 0]
  /\ promo = [p \in Purchases |-> NoPromotion]
  /\ seen = [p \in Purchases |-> {}]

-----------------------------------------------------------------------------
(* The admin's packets and the owner's listing                             *)

CreatePacket(k, amount) ==
  /\ price[k] = 0
  /\ price' = [price EXCEPT ![k] = amount]
  /\ onSale' = [onSale EXCEPT ![k] = TRUE]
  /\ UNCHANGED <<balance, clock, listing, requestVars>>

\* The type and the duration are not among the fields a PATCH may set.
UpdatePacket(k, amount, active) ==
  /\ price[k] # 0
  /\ price' = [price EXCEPT ![k] = amount]
  /\ onSale' = [onSale EXCEPT ![k] = active]
  /\ UNCHANGED <<balance, clock, listing, requestVars>>

\* update_listing_status accepts every status, whatever the current one.
UpdateListingStatus(l, status) ==
  /\ listing[l] # "DELETED"
  /\ listing' = [listing EXCEPT ![l] = status]
  /\ UNCHANGED <<balance, clock, price, onSale, requestVars>>

\* soft_delete_by_id, by the moderation of a report
RemoveListing(l) ==
  /\ listing[l] # "DELETED"
  /\ listing' = [listing EXCEPT ![l] = "DELETED"]
  /\ UNCHANGED <<balance, clock, price, onSale, requestVars>>

-----------------------------------------------------------------------------
(* purchase                                                                *)

At(p, from, to) ==
  /\ step[p] = from
  /\ step' = [step EXCEPT ![p] = to]
  /\ UNCHANGED <<clock, listing, price, onSale, want>>

\* The request's first query begins its transaction.  The listing it reads here
\* is the one _validate_purchase tests later: its status is decided now.
ReadListing(p) ==
  /\ begun' = [begun EXCEPT ![p] = clock]
  /\ IF listing[want[p].listing] = "ACTIVE"
       THEN At(p, "new", "packet")
       ELSE At(p, "new", "refused")
  /\ UNCHANGED <<balance, quote, debit, promo, seen>>

\* get_packet, and the is_active test on what it returned
ReadPacket(p) ==
  LET k == want[p].packet IN
  /\ IF price[k] # 0 /\ onSale[k]
       THEN At(p, "packet", "duplicate") /\ quote' = [quote EXCEPT ![p] = price[k]]
       ELSE At(p, "packet", "refused") /\ UNCHANGED quote
  /\ UNCHANGED <<balance, begun, debit, promo, seen>>

SameKind(p, q) ==
  /\ want[p].listing = want[q].listing
  /\ Type[want[p].packet] = Type[want[q].packet]

\* A promotion the query of get_active_by_listing_and_type returns at time t
LiveAt(q, t) == promo[q].status = "ACTIVE" /\ promo[q].expires > t

\* Mutant of CheckDuplicate: looks for a promotion by the same packet.
CheckSamePacket(p) ==
  /\ IF \E q \in Purchases : want[q] = want[p] /\ LiveAt(q, begun[p])
       THEN At(p, "duplicate", "refused")
       ELSE At(p, "duplicate", "pay")
  /\ seen' = [seen EXCEPT ![p] = {q \in Purchases : promo[q].status # "NONE"}]
  /\ UNCHANGED <<balance, begun, quote, debit, promo>>

\* get_active_by_listing_and_type compares with now(), the transaction's start.
CheckDuplicate(p) ==
  /\ IF \E q \in Purchases : SameKind(p, q) /\ LiveAt(q, begun[p])
       THEN At(p, "duplicate", "refused")
       ELSE At(p, "duplicate", "pay")
  /\ seen' = [seen EXCEPT ![p] = {q \in Purchases : promo[q].status # "NONE"}]
  /\ UNCHANGED <<balance, begun, quote, debit, promo>>

\* Mutant of Pay: the DEBIT row takes the price the packet has by now.
PayOneRecordAnother(p) ==
  /\ DeductBalance(Buyer[p], quote[p])
  /\ At(p, "pay", "done")
  /\ debit' = [debit EXCEPT ![p] = price[want[p].packet]]
  /\ promo' = [promo EXCEPT ![p] =
                 [status |-> "ACTIVE", expires |-> clock + Duration[want[p].packet]]]
  /\ UNCHANGED <<begun, quote, seen>>

\* The unit of work: DEBIT row, promotion row, both for the price read earlier.
Pay(p) ==
  /\ DeductBalance(Buyer[p], quote[p])
  /\ At(p, "pay", "done")
  /\ debit' = [debit EXCEPT ![p] = quote[p]]
  /\ promo' = [promo EXCEPT ![p] =
                 [status |-> "ACTIVE", expires |-> clock + Duration[want[p].packet]]]
  /\ UNCHANGED <<begun, quote, seen>>

\* InsufficientBalanceError rolls the unit of work back.
RefusePayment(p) ==
  /\ ~CanDeduct(Buyer[p], quote[p])
  /\ At(p, "pay", "refused")
  /\ UNCHANGED <<balance, begun, quote, debit, promo, seen>>

-----------------------------------------------------------------------------
(* deactivate_expired_promotions                                           *)

\* Mutant of Due: a promotion in its last tick is taken down with the others.
DueEarly(p) == promo[p].status = "ACTIVE" /\ promo[p].expires <= clock + 1

Due(p) == promo[p].status = "ACTIVE" /\ promo[p].expires <= clock

\* bulk_expire: one UPDATE over every promotion that is due
BulkExpire ==
  /\ \E p \in Purchases : Due(p)
  /\ promo' = [p \in Purchases |->
                 IF Due(p) THEN [promo[p] EXCEPT !.status = "EXPIRED"] ELSE promo[p]]
  /\ UNCHANGED <<balance, clock, listing, price, onSale, want, step, begun, quote,
                 debit, seen>>

Tick ==
  /\ clock < MaxClock
  /\ clock' = clock + 1
  /\ UNCHANGED <<balance, listing, price, onSale, requestVars>>

-----------------------------------------------------------------------------
PromotionsNext ==
  \/ \E k \in Packets, amount \in Prices : CreatePacket(k, amount)
  \/ \E k \in Packets, amount \in Prices, active \in BOOLEAN : UpdatePacket(k, amount, active)
  \/ \E l \in Listings, status \in {"ACTIVE", "INACTIVE"} : UpdateListingStatus(l, status)
  \/ \E l \in Listings : RemoveListing(l)
  \/ \E p \in Purchases : ReadListing(p)
  \/ \E p \in Purchases : ReadPacket(p)
  \/ \E p \in Purchases : CheckDuplicate(p)
  \/ \E p \in Purchases : Pay(p)
  \/ \E p \in Purchases : RefusePayment(p)
  \/ BulkExpire
  \/ Tick

-----------------------------------------------------------------------------
(* Properties                                                              *)

\* Two live promotions of one type on one listing come only from requests that
\* raced: a purchase never succeeds over a promotion that was there when it
\* looked and is still live (_validate_purchase, with its stale now()).
DuplicateOnlyWhenRaced ==
  \A p, q \in Purchases :
    (p # q /\ SameKind(p, q) /\ LiveAt(p, clock) /\ LiveAt(q, clock)) => p \notin seen[q]

\* A promotion, once paid for, stays on the listing for its whole term: the
\* worker takes it down after expires_at, not before, and it never comes back.
TermHonoured ==
  [][\A p \in Purchases :
       promo[p].status # "NONE" /\ promo'[p] # promo[p] =>
         /\ promo[p].status = "ACTIVE"
         /\ promo'[p] = [promo[p] EXCEPT !.status = "EXPIRED"]
         /\ clock >= promo[p].expires]_promotionVars
=============================================================================
