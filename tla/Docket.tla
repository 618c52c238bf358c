------------------------------- MODULE Docket -------------------------------
(***************************************************************************)
(* What moderation promises, with no word of statements, locks or          *)
(* snapshots: every decision happens at one moment, about reports that are *)
(* pending at that moment, together with what it takes down.  What it      *)
(* leaves standing of all that it covers is on record as late.             *)
(***************************************************************************)
CONSTANTS Sellers, Listings, Reports, Owner, Reporters, Moderators, Nobody

VARIABLES
  about,    \* about[r] : the listing r is on, and its reporter
  seller, listing, status, seenBy, decider,
  late      \* what a decision covered and left standing, or had yet to come

vars == <<about, seller, listing, status, seenBy, decider, late>>

Init ==
  /\ about \in [Reports -> [listing : Listings, reporter : Reporters]]
  /\ seller = [u \in Sellers |-> "live"]
  /\ listing = [l \in Listings |-> "none"]
  /\ status = [r \in Reports |-> "none"]
  /\ seenBy = [r \in Reports |-> Nobody]
  /\ decider = [r \in Reports |-> Nobody]
  /\ late = {}

\* A banned seller publishes only what was under way.
Publish(l) ==
  /\ listing[l] = "none"
  /\ seller[Owner[l]] = "banned" => l \in late
  /\ listing' = [listing EXCEPT ![l] = "live"]
  /\ UNCHANGED <<about, seller, status, seenBy, decider, late>>

\* A reporter reports a listing that was there, once at a time.
File(r) ==
  /\ status[r] = "none"
  /\ listing[about[r].listing] # "none"
  /\ listing[about[r].listing] = "removed" => r \in late
  /\ \A q \in Reports : status[q] = "PENDING" => about[q] # about[r]
  /\ status' = [status EXCEPT ![r] = "PENDING"]
  /\ UNCHANGED <<about, seller, listing, seenBy, decider, late>>

See(m, r) ==
  /\ status[r] # "none"
  /\ seenBy[r] = Nobody
  /\ seenBy' = [seenBy EXCEPT ![r] = m]
  /\ UNCHANGED <<about, seller, listing, status, decider, late>>

\* The rows a decision on r covers
Covered(r, a) ==
  LET l == about[r].listing IN
  CASE a = "DECLINE" -> {r}
    [] a = "REMOVE_LISTING" -> {l} \cup {q \in Reports : about[q].listing = l}
    [] a = "BAN_USER" -> {Owner[l]} \cup {k \in Listings : Owner[k] = Owner[l]}
                           \cup {q \in Reports : Owner[about[q].listing] = Owner[l]}

Standing(x) ==
  \/ x \in Reports /\ status[x] = "PENDING"
  \/ x \in Listings /\ listing[x] = "live"
  \/ x \in Sellers /\ seller[x] = "live"

Outcome(a) ==
  CASE a = "DECLINE" -> "DECLINED"
    [] a = "REMOVE_LISTING" -> "LISTING_REMOVED"
    [] a = "BAN_USER" -> "USER_BANNED"

\* The seller who is banned, and the listing a removal is about, are never left.
Decide(m, r, a) ==
  /\ status[r] = "PENDING"
  /\ \E hit \in SUBSET {x \in Covered(r, a) : Standing(x)} :
       /\ r \in hit
       /\ status' = [q \in Reports |-> IF q \in hit THEN Outcome(a) ELSE status[q]]
       /\ decider' = [q \in Reports |-> IF q \in hit THEN m ELSE decider[q]]
       /\ seenBy' = [q \in Reports |-> IF q \in hit /\ seenBy[q] = Nobody THEN m ELSE seenBy[q]]
       /\ listing' = [l \in Listings |-> IF l \in hit THEN "removed" ELSE listing[l]]
       /\ seller' = [u \in Sellers |-> IF u \in hit THEN "banned" ELSE seller[u]]
       /\ late \subseteq late'
       /\ late' \ late \subseteq Covered(r, a) \ (hit \cup Sellers)
       /\ \A x \in Covered(r, a) \ hit : Standing(x) => x \in late'
       /\ a = "REMOVE_LISTING" => listing'[about[r].listing] = "removed"
       /\ UNCHANGED about

Next ==
  \/ \E l \in Listings : Publish(l)
  \/ \E r \in Reports : File(r)
  \/ \E m \in Moderators, r \in Reports : See(m, r)
  \/ \E m \in Moderators, r \in Reports, a \in {"DECLINE", "REMOVE_LISTING", "BAN_USER"} :
       Decide(m, r, a)

Spec == Init /\ [][Next]_vars
=============================================================================
