----------------------------- MODULE Moderation -----------------------------
(***************************************************************************)
(* Reports on listings and what moderators do about them:                  *)
(* ReportsService.create_report, get_report_detail and moderate_report,    *)
(* with ListingsService.create_listing, which a ban races with.            *)
(*                                                                         *)
(* moderate_report is one transaction of up to four UPDATEs.  Each chooses *)
(* its rows in a snapshot of what is committed when it starts, locks them  *)
(* one by one in no order the code states, waits where another transaction *)
(* holds the lock, tests again what it then finds, and keeps its locks     *)
(* until the commit.  Two moderators can so wait for each other.           *)
(*                                                                         *)
(* Rows are the reports, listings and sellers themselves; mine[m] is what  *)
(* the open transaction of m has updated and therefore locks.              *)
(***************************************************************************)
EXTENDS Naturals, SequencesExt

CONSTANTS
  Sellers, Listings, Reports,   \* rows, by the request that inserts them
  Owner,                        \* Owner[l] : the seller who posts l
  Reporters,
  Moderators,                   \* moderators, with one request each at a time
  NoReport, Nobody

ASSUME ModerationAssumption ==
  /\ Owner \in [Listings -> Sellers]
  /\ Reports \cap Listings = {} /\ Reports \cap Sellers = {} /\ Listings \cap Sellers = {}
  /\ NoReport \notin Reports
  /\ Nobody \notin Moderators

VARIABLES
  seller,   \* seller[u]  : "live", or "banned" (users.deleted_at is set)
  listing,  \* listing[l] : "none", "posting" (the request has begun), "live", "removed"
  about,    \* about[r]   : the listing r is on, and its reporter
  filing,   \* filing[r]  : where the request that files r is
  status,   \* status[r]  : listing_reports.status, "none" when there is no row
  seenBy,   \* seenBy[r]  : listing_reports.seen_by_moderator_id
  decider,  \* decider[r] : listing_reports.moderator_id
  act,      \* act[m]     : what m's request does, "none" between requests
  target,   \* target[m]  : the report it is about
  stage,    \* stage[m]   : the statement m is at
  todo,     \* todo[m]    : rows the statement has chosen and not yet locked
  mine,     \* mine[m]    : rows m's transaction has updated
  known,    \* history: rows there were to act upon when m's request began
  late      \* history: rows that came too late for a decision that covers their kind

rowVars  == <<about, seller, listing, status, seenBy, decider>>
taskVars == <<act, target, stage, todo, mine, known>>
vars     == <<rowVars, filing, taskVars, late>>

Actions == {"DECLINE", "REMOVE_LISTING", "BAN_USER"}
Rows    == Reports \cup Listings \cup Sellers

TypeOK ==
  /\ seller \in [Sellers -> {"live", "banned"}]
  /\ listing \in [Listings -> {"none", "posting", "live", "removed"}]
  /\ about \in [Reports -> [listing : Listings, reporter : Reporters]]
  /\ filing \in [Reports -> {"new", "insert", "done", "refused"}]
  /\ status \in [Reports -> {"none", "PENDING", "DECLINED", "LISTING_REMOVED", "USER_BANNED"}]
  /\ seenBy \in [Reports -> Moderators \cup {Nobody}]
  /\ decider \in [Reports -> Moderators \cup {Nobody}]
  /\ act \in [Moderators -> Actions \cup {"VIEW", "none"}]
  /\ target \in [Moderators -> Reports \cup {NoReport}]
  /\ stage \in [Moderators -> {"idle", "report", "seller", "listings", "siblings"}]
  /\ todo \in [Moderators -> SUBSET Rows]
  /\ mine \in [Moderators -> SUBSET Rows]
  /\ known \in [Moderators -> SUBSET Rows]
  /\ late \subseteq Reports \cup Listings
  /\ \A m, n \in Moderators : m # n => mine[m] \cap mine[n] = {}

Init ==
  /\ seller = [u \in Sellers |-> "live"]
  /\ listing = [l \in Listings |-> "none"]
  /\ about \in [Reports -> [listing : Listings, reporter : Reporters]]
  /\ filing = [r \in Reports |-> "new"]
  /\ status = [r \in Reports |-> "none"]
  /\ seenBy = [r \in Reports |-> Nobody]
  /\ decider = [r \in Reports |-> Nobody]
  /\ act = [m \in Moderators |-> "none"]
  /\ target = [m \in Moderators |-> NoReport]
  /\ stage = [m \in Moderators |-> "idle"]
  /\ todo = [m \in Moderators |-> {}]
  /\ mine = [m \in Moderators |-> {}]
  /\ known = [m \in Moderators |-> {}]
  /\ late = {}

-----------------------------------------------------------------------------
(* create_listing                                                          *)

\* The seller is authenticated when the request begins, and not again.
BeginListing(l) ==
  /\ seller[Owner[l]] = "live"
  /\ listing[l] = "none"
  /\ listing' = [listing EXCEPT ![l] = "posting"]
  /\ UNCHANGED <<about, seller, filing, status, seenBy, decider, taskVars, late>>

CreateListing(l) ==
  /\ listing[l] = "posting"
  /\ listing' = [listing EXCEPT ![l] = "live"]
  /\ UNCHANGED <<about, seller, filing, status, seenBy, decider, taskVars, late>>

-----------------------------------------------------------------------------
(* create_report                                                           *)

\* The PENDING reports on one listing by one reporter
Twins(r) == {q \in Reports : /\ status[q] = "PENDING"
                             /\ about[q].listing = about[r].listing
                             /\ about[q].reporter = about[r].reporter}

Locked(x) == \E m \in Moderators : x \in mine[m]

\* The request reads a listing that is not deleted, and looks for a pending twin.
BeginReport(r) ==
  /\ filing[r] = "new"
  /\ listing[about[r].listing] = "live"
  /\ filing' = [filing EXCEPT ![r] = IF Twins(r) = {} THEN "insert" ELSE "refused"]
  /\ UNCHANGED <<rowVars, taskVars, late>>

\* Mutant of InsertReport: there is no such index.
InsertUnchecked(r) ==
  /\ filing[r] = "insert"
  /\ filing' = [filing EXCEPT ![r] = "done"]
  /\ status' = [status EXCEPT ![r] = "PENDING"]
  /\ UNCHANGED <<about, seller, listing, seenBy, decider, taskVars, late>>

\* The partial unique index uq_listing_reports_listing_reporter_pending: an
\* insertion waits for a transaction that is resolving a twin, and fails with
\* IntegrityError over a twin that stays PENDING.  The listing is not read again.
InsertReport(r) ==
  /\ filing[r] = "insert"
  /\ \A q \in Twins(r) : ~Locked(q)
  /\ IF Twins(r) = {}
       THEN /\ filing' = [filing EXCEPT ![r] = "done"]
            /\ status' = [status EXCEPT ![r] = "PENDING"]
       ELSE /\ filing' = [filing EXCEPT ![r] = "refused"]
            /\ UNCHANGED status
  /\ UNCHANGED <<about, seller, listing, seenBy, decider, taskVars, late>>

-----------------------------------------------------------------------------
(* get_report_detail and moderate_report                                   *)

\* Whether a statement's WHERE clause holds of a row, as it is committed
Standing(x) ==
  \/ x \in Reports /\ status[x] = "PENDING"
  \/ x \in Listings /\ listing[x] = "live"
  \/ x \in Sellers /\ seller[x] = "live"

Eligible(m, x) == IF act[m] = "VIEW" THEN seenBy[x] = Nobody ELSE Standing(x)

TargetListing(m) == about[target[m]].listing
TargetSeller(m)  == Owner[TargetListing(m)]

\* Mutant of Siblings: a removal resolves what a ban resolves.
SiblingsOfSeller(m) ==
  {q \in Reports \ {target[m]} : Owner[about[q].listing] = TargetSeller(m)}

\* The reports resolve_pending_for_listing, or resolve_pending_for_user_listings,
\* ranges over
Siblings(m) ==
  {q \in Reports \ {target[m]} :
     IF act[m] = "REMOVE_LISTING" THEN about[q].listing = TargetListing(m)
                                  ELSE Owner[about[q].listing] = TargetSeller(m)}

\* The rows each statement ranges over
Scope(m, s) ==
  CASE s = "report"   -> {target[m]}
    [] s = "seller"   -> {TargetSeller(m)}
    [] s = "listings" -> IF act[m] = "REMOVE_LISTING"
                           THEN {TargetListing(m)}
                           ELSE {l \in Listings : Owner[l] = TargetSeller(m)}
    [] s = "siblings" -> Siblings(m)

\* Mutant of Statements: a ban forgets the seller's listings.
StatementsWithoutListings(a) ==
  CASE a = "REMOVE_LISTING" -> <<"report", "listings", "siblings">>
    [] a = "BAN_USER"       -> <<"report", "seller", "siblings">>
    [] OTHER                -> <<"report">>

\* The statements of each request, in their order
Statements(a) ==
  CASE a = "REMOVE_LISTING" -> <<"report", "listings", "siblings">>
    [] a = "BAN_USER"       -> <<"report", "seller", "listings", "siblings">>
    [] OTHER                -> <<"report">>

\* get_report_by_id has found the report, whatever its status, and the request
\* starts its first UPDATE: mark_seen when it read an unseen report, or
\* resolve_pending_by_id.
BeginModeration(m, r, a) ==
  /\ stage[m] = "idle"
  /\ status[r] # "none"
  /\ a = "VIEW" => seenBy[r] = Nobody
  /\ act' = [act EXCEPT ![m] = a]
  /\ target' = [target EXCEPT ![m] = r]
  /\ stage' = [stage EXCEPT ![m] = "report"]
  /\ todo' = [todo EXCEPT ![m] = IF a = "VIEW" \/ Standing(r) THEN {r} ELSE {}]
  /\ known' = [known EXCEPT ![m] = {x \in Rows : Standing(x)}]
  /\ UNCHANGED <<rowVars, filing, mine, late>>

\* Nothing is left of the current statement, and the report was PENDING.
StatementDone(m) ==
  /\ stage[m] # "idle"
  /\ todo[m] = {}
  /\ act[m] # "VIEW" => target[m] \in mine[m]

\* The next statement takes its snapshot.
NextStatement(m) ==
  /\ StatementDone(m)
  /\ \E i \in 2..Len(Statements(act[m])) :
       LET s == Statements(act[m])[i] IN
       /\ stage[m] = Statements(act[m])[i - 1]
       /\ stage' = [stage EXCEPT ![m] = s]
       /\ todo' = [todo EXCEPT ![m] = {x \in Scope(m, s) : Standing(x)}]
  /\ UNCHANGED <<rowVars, filing, act, target, mine, known, late>>

\* Mutant of LockRow: what the snapshot showed is taken to hold still.
LockRowUntested(m, x) ==
  /\ x \in todo[m]
  /\ ~Locked(x)
  /\ todo' = [todo EXCEPT ![m] = @ \ {x}]
  /\ mine' = [mine EXCEPT ![m] = @ \cup {x}]
  /\ UNCHANGED <<rowVars, filing, act, target, stage, known, late>>

\* The statement gets a row's lock and tests the row again.
LockRow(m, x) ==
  /\ x \in todo[m]
  /\ ~Locked(x)
  /\ todo' = [todo EXCEPT ![m] = @ \ {x}]
  /\ mine' = [mine EXCEPT ![m] = IF Eligible(m, x) THEN @ \cup {x} ELSE @]
  /\ UNCHANGED <<rowVars, filing, act, target, stage, known, late>>

EndTask(m) ==
  /\ act' = [act EXCEPT ![m] = "none"]
  /\ target' = [target EXCEPT ![m] = NoReport]
  /\ stage' = [stage EXCEPT ![m] = "idle"]
  /\ todo' = [todo EXCEPT ![m] = {}]
  /\ mine' = [mine EXCEPT ![m] = {}]
  /\ known' = [known EXCEPT ![m] = {}]

Outcome(a) ==
  CASE a = "DECLINE" -> "DECLINED"
    [] a = "REMOVE_LISTING" -> "LISTING_REMOVED"
    [] a = "BAN_USER" -> "USER_BANNED"

Finished(m) == StatementDone(m) /\ stage[m] = Last(Statements(act[m]))

\* What a removal or a ban ranges over and cannot have seen: requests that have
\* read what they need and not inserted, and rows inserted since it began.
Unseen(m) ==
  LET covered == (Scope(m, "listings") \cap Listings) \cup Siblings(m) IN
  {x \in covered : \/ x \in Listings /\ listing[x] = "posting"
                   \/ x \in Reports /\ filing[x] = "insert"
                   \/ Standing(x) /\ x \notin known[m] \cup mine[m]}

\* Everything the transaction has updated becomes visible at once.
CommitModeration(m) ==
  LET hit == mine[m] IN
  /\ Finished(m)
  /\ seenBy' = [r \in Reports |-> IF r \in hit /\ seenBy[r] = Nobody THEN m ELSE seenBy[r]]
  /\ IF act[m] = "VIEW"
       THEN UNCHANGED <<seller, listing, status, decider>>
       ELSE /\ status' = [r \in Reports |-> IF r \in hit THEN Outcome(act[m]) ELSE status[r]]
            /\ decider' = [r \in Reports |-> IF r \in hit THEN m ELSE decider[r]]
            /\ listing' = [l \in Listings |-> IF l \in hit THEN "removed" ELSE listing[l]]
            /\ seller' = [u \in Sellers |-> IF u \in hit THEN "banned" ELSE seller[u]]
  /\ late' = IF act[m] \in {"REMOVE_LISTING", "BAN_USER"} THEN late \cup Unseen(m) ELSE late
  /\ EndTask(m)
  /\ UNCHANGED <<about, filing>>

\* The first UPDATE has hit no row: the report was not PENDING any more.
Refused(m) ==
  /\ stage[m] = "report" /\ act[m] # "VIEW"
  /\ todo[m] = {} /\ target[m] \notin mine[m]

\* ListingReportAlreadyResolvedError
RefuseModeration(m) ==
  /\ Refused(m)
  /\ EndTask(m)
  /\ UNCHANGED <<rowVars, filing, late>>

\* Mutant of AbortModeration: the task dies and its transaction stays open.
LeakTransaction(m) ==
  /\ stage[m] # "idle"
  /\ act' = [act EXCEPT ![m] = "none"]
  /\ target' = [target EXCEPT ![m] = NoReport]
  /\ stage' = [stage EXCEPT ![m] = "idle"]
  /\ todo' = [todo EXCEPT ![m] = {}]
  /\ UNCHANGED <<rowVars, filing, mine, known, late>>

\* The task dies, and its transaction is rolled back.
AbortModeration(m) ==
  /\ stage[m] # "idle"
  /\ EndTask(m)
  /\ UNCHANGED <<rowVars, filing, late>>

\* A statement that tries x next waits for the transaction that has updated it.
WaitsFor(m, x, n) == x \in todo[m] /\ x \in mine[n]

\* PostgreSQL ends one of the transactions that wait in a circle, each for the row
\* its statement happens to try.
BreakDeadlock(m) ==
  /\ \E S \in SUBSET Moderators :
       /\ m \in S
       /\ \A n \in S : \E x \in Rows, k \in S \ {n} : WaitsFor(n, x, k)
  /\ EndTask(m)
  /\ UNCHANGED <<rowVars, filing, late>>

-----------------------------------------------------------------------------
Next ==
  \/ \E l \in Listings : BeginListing(l)
  \/ \E l \in Listings : CreateListing(l)
  \/ \E r \in Reports : BeginReport(r)
  \/ \E r \in Reports : InsertReport(r)
  \/ \E m \in Moderators, r \in Reports, a \in Actions \cup {"VIEW"} : BeginModeration(m, r, a)
  \/ \E m \in Moderators : NextStatement(m)
  \/ \E m \in Moderators, x \in Rows : LockRow(m, x)
  \/ \E m \in Moderators : CommitModeration(m)
  \/ \E m \in Moderators : RefuseModeration(m)
  \/ \E m \in Moderators : AbortModeration(m)
  \/ \E m \in Moderators : BreakDeadlock(m)

Spec == Init /\ [][Next]_vars

-----------------------------------------------------------------------------
(* Properties                                                              *)

\* A report's status tells what became of what it reported: LISTING_REMOVED only
\* of a listing that is gone, USER_BANNED only of a seller who is, and a decided
\* report has its decider and has been seen.
StatusTellsTheTruth ==
  \A r \in Reports :
    /\ status[r] = "LISTING_REMOVED" => listing[about[r].listing] = "removed"
    /\ status[r] = "USER_BANNED" => seller[Owner[about[r].listing]] = "banned"
    /\ status[r] \notin {"none", "PENDING"} <=> decider[r] # Nobody
    /\ decider[r] # Nobody => seenBy[r] # Nobody

\* However moderators overlap, a report is decided once: no second decision, no
\* sibling's decision and no rollback changes it, and who saw it first stays.
DecidedOnce ==
  [][\A r \in Reports :
       /\ status[r] \notin {"none", "PENDING"} =>
            status'[r] = status[r] /\ decider'[r] = decider[r]
       /\ seenBy[r] # Nobody => seenBy'[r] = seenBy[r]]_vars

\* A banned seller has no listing, and a removed listing no pending report, but those
\* whose requests had already read what they needed when the decision was committed,
\* or were inserted after it began: nothing that was there is forgotten by any
\* order of two decisions, and nothing that begins later gets through.
LeftoversOnlyWhenRaced ==
  /\ \A l \in Listings : listing[l] = "live" /\ seller[Owner[l]] = "banned" => l \in late
  /\ \A r \in Reports :
       status[r] = "PENDING" /\ listing[about[r].listing] = "removed" => r \in late

\* A reporter never has two pending reports on one listing.
OnePendingPerReporter ==
  \A r \in Reports : status[r] = "PENDING" => Twins(r) = {r}

\* The code has a next step for m's request when its statement tries x: the row's
\* lock, the next statement, the commit or the refusal.
CanGoOn(m, x) ==
  \/ x \in todo[m] /\ ~Locked(x)
  \/ StatementDone(m) /\ \E i \in 2..Len(Statements(act[m])) :
                          stage[m] = Statements(act[m])[i - 1]
  \/ Finished(m)
  \/ Refused(m)

\* While moderators' requests are open, then in whatever order their statements try
\* the rows, one of the requests can go on or some wait in a circle that PostgreSQL
\* breaks: no lock outlives its request, and no request is left where neither the
\* code nor the database has a next step.
SomeoneGoesOn ==
  (\E m \in Moderators : stage[m] # "idle" \/ mine[m] # {}) =>
    \A tries \in [Moderators -> Rows] :
      (\A m \in Moderators : todo[m] # {} => tries[m] \in todo[m]) =>
        \/ \E m \in Moderators : stage[m] # "idle" /\ CanGoOn(m, tries[m])
        \/ \E S \in SUBSET Moderators :
             /\ S # {}
             /\ \A n \in S : \E k \in S \ {n} : WaitsFor(n, tries[n], k)

\* Moderation keeps the promise of Docket: however the statements of moderators
\* overlap, what is committed is a sequence of whole decisions, each about reports
\* that were pending, with the listings and sellers they take down, and what a
\* decision leaves behind is what it cannot have seen.
Published == [l \in Listings |-> IF listing[l] = "posting" THEN "none" ELSE listing[l]]

Book == INSTANCE Docket WITH listing <- Published

KeepsDocket == Book!Spec
=============================================================================
