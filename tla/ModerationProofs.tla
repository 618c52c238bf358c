-------------------------- MODULE ModerationProofs --------------------------
(***************************************************************************)
(* Proofs about Moderation, for any number of moderators, reports,         *)
(* listings and sellers.                                                   *)
(***************************************************************************)
EXTENDS Moderation, TLAPS

\* What a request may be doing at each stage.
TaskInv ==
  \A m \in Moderators :
    /\ stage[m] = "idle" <=> act[m] = "none"
    /\ stage[m] = "idle" => todo[m] = {} /\ mine[m] = {}
    /\ stage[m] # "idle" => target[m] \in Reports
    /\ stage[m] \notin {"idle", "report"} =>
         /\ act[m] \in {"REMOVE_LISTING", "BAN_USER"}
         /\ target[m] \in mine[m]
    /\ act[m] = "REMOVE_LISTING" => stage[m] # "seller"

TypeInv == TypeOK /\ TaskInv

\* A report has a row when its request has inserted it, and is on a listing that
\* exists; moderators' requests are about reports that have rows.
RowInv ==
  /\ \A r \in Reports :
       /\ status[r] # "none" <=> filing[r] = "done"
       /\ filing[r] \in {"insert", "done"} => listing[about[r].listing] \in {"live", "removed"}
  /\ \A m \in Moderators : stage[m] # "idle" => status[target[m]] # "none"

Removal(m) == act[m] = "REMOVE_LISTING"
Ban(m)     == act[m] = "BAN_USER"

\* The listings a removal or a ban ranges over
ScopeListings(m) ==
  {l \in Listings : IF Removal(m) THEN l = TargetListing(m) ELSE Owner[l] = TargetSeller(m)}

\* The rows the request of m may update
Reach(m) ==
  {target[m]}
  \cup (IF Removal(m) \/ Ban(m) THEN Siblings(m) \cup ScopeListings(m) ELSE {})
  \cup (IF Ban(m) THEN {TargetSeller(m)} ELSE {})

\* A request updates rows it is about, and a locked row stays what it was when it
\* was locked: nobody decides on it in between.
LockInv ==
  \A m \in Moderators :
    /\ todo[m] \cup mine[m] \subseteq Reach(m)
    /\ \A x \in mine[m] : Eligible(m, x)

\* What the request of m has yet to take down, or has
TakesDown(m) ==
  /\ Removal(m) /\ stage[m] = "listings" =>
       TargetListing(m) \in todo[m] \cup mine[m] \/ listing[TargetListing(m)] = "removed"
  /\ Removal(m) /\ stage[m] = "siblings" =>
       TargetListing(m) \in mine[m] \/ listing[TargetListing(m)] = "removed"
  /\ Ban(m) /\ stage[m] = "seller" =>
       TargetSeller(m) \in todo[m] \cup mine[m] \/ seller[TargetSeller(m)] = "banned"
  /\ Ban(m) /\ stage[m] \in {"listings", "siblings"} =>
       TargetSeller(m) \in mine[m] \/ seller[TargetSeller(m)] = "banned"

\* A report is resolved together with what it reports, or after it.
TruthInv == StatusTellsTheTruth /\ \A m \in Moderators : TakesDown(m)

\* What was there when the removal or ban of m began is resolved, updated by it, or
\* among what its statement has yet to lock.
Covers(m) ==
  /\ \A l \in known[m] \cap Listings :
       /\ listing[l] \in {"live", "removed"}
       /\ (Removal(m) \/ Ban(m)) /\ l \in ScopeListings(m) =>
            /\ stage[m] = "listings" => l \in todo[m] \cup mine[m] \/ listing[l] = "removed"
            /\ stage[m] = "siblings" => l \in mine[m] \/ listing[l] = "removed"
  /\ \A q \in known[m] \cap Reports :
       /\ status[q] # "none"
       /\ stage[m] = "siblings" /\ q \in Siblings(m) =>
            q \in todo[m] \cup mine[m] \/ status[q] # "PENDING"

CoverInv == \A m \in Moderators : Covers(m)

\* What a decision could not see has been counted late before it is inserted.
LateInv ==
  /\ \A l \in Listings :
       listing[l] \in {"posting", "live"} /\ seller[Owner[l]] = "banned" => l \in late
  /\ \A r \in Reports :
       (status[r] = "PENDING" \/ filing[r] = "insert") /\ listing[about[r].listing] = "removed"
         => r \in late

-----------------------------------------------------------------------------
(* The statements of a request                                             *)

\* A statement with scope S takes its snapshot.
Choosing(m, s, S) ==
  /\ stage' = [stage EXCEPT ![m] = s]
  /\ todo' = [todo EXCEPT ![m] = {x \in S : Standing(x)}]

\* What a report is about exists.
LEMMA TargetType ==
  ASSUME TypeInv, NEW m \in Moderators, stage[m] # "idle"
  PROVE  /\ target[m] \in Reports
         /\ TargetListing(m) \in Listings
         /\ TargetSeller(m) \in Sellers
  BY ModerationAssumption DEF TypeInv, TypeOK, TaskInv, TargetListing, TargetSeller

\* The scope of each statement
LEMMA ScopeOf ==
  ASSUME TypeInv, NEW m \in Moderators, stage[m] # "idle"
  PROVE  /\ Scope(m, "seller") = {TargetSeller(m)}
         /\ Scope(m, "listings") = ScopeListings(m)
         /\ Scope(m, "siblings") = Siblings(m)
         /\ ScopeListings(m) \subseteq Listings
         /\ Siblings(m) \subseteq Reports
  BY TargetType DEF Scope, ScopeListings, Siblings, Removal

\* The statements come in the order of the code.
LEMMA NextOutcome ==
  ASSUME TypeInv, NEW m \in Moderators, NextStatement(m)
  PROVE  /\ StatementDone(m)
         /\ target[m] \in mine[m]
         /\ UNCHANGED <<rowVars, filing, act, target, mine, known, late>>
         /\ \/ /\ Removal(m) /\ stage[m] = "report"
               /\ Choosing(m, "listings", ScopeListings(m))
            \/ /\ Ban(m) /\ stage[m] = "report"
               /\ Choosing(m, "seller", {TargetSeller(m)})
            \/ /\ Ban(m) /\ stage[m] = "seller"
               /\ Choosing(m, "listings", ScopeListings(m))
            \/ /\ Removal(m) \/ Ban(m)
               /\ stage[m] = "listings"
               /\ Choosing(m, "siblings", Siblings(m))
<1>1. /\ StatementDone(m)
      /\ UNCHANGED <<rowVars, filing, act, target, mine, known, late>>
  BY DEF NextStatement
<1>2. stage[m] # "idle"
  BY <1>1 DEF StatementDone
<1>3. PICK i \in 2..Len(Statements(act[m])) :
        /\ stage[m] = Statements(act[m])[i - 1]
        /\ stage' = [stage EXCEPT ![m] = Statements(act[m])[i]]
        /\ todo' = [todo EXCEPT ![m] = {x \in Scope(m, Statements(act[m])[i]) : Standing(x)}]
  BY DEF NextStatement
<1>4. CASE Removal(m)
  <2>1. Statements(act[m]) = <<"report", "listings", "siblings">>
    BY <1>4 DEF Statements, Removal
  <2>2. i \in {2, 3}
    BY <2>1
  <2>3. CASE i = 2
    <3>1. stage[m] = "report" /\ Choosing(m, "listings", Scope(m, "listings"))
      BY <1>3, <2>1, <2>3 DEF Choosing
    <3>2. QED
      BY <1>1, <1>2, <1>4, <3>1, ScopeOf DEF StatementDone, Removal
  <2>4. CASE i = 3
    <3>1. stage[m] = "listings" /\ Choosing(m, "siblings", Scope(m, "siblings"))
      BY <1>3, <2>1, <2>4 DEF Choosing
    <3>2. QED
      BY <1>1, <1>2, <1>4, <3>1, ScopeOf DEF StatementDone, Removal
  <2>5. QED
    BY <2>2, <2>3, <2>4
<1>5. CASE Ban(m)
  <2>1. Statements(act[m]) = <<"report", "seller", "listings", "siblings">>
    BY <1>5 DEF Statements, Ban
  <2>2. i \in {2, 3, 4}
    BY <2>1
  <2>3. CASE i = 2
    <3>1. stage[m] = "report" /\ Choosing(m, "seller", Scope(m, "seller"))
      BY <1>3, <2>1, <2>3 DEF Choosing
    <3>2. QED
      BY <1>1, <1>2, <1>5, <3>1, ScopeOf DEF StatementDone, Ban
  <2>4. CASE i = 3
    <3>1. stage[m] = "seller" /\ Choosing(m, "listings", Scope(m, "listings"))
      BY <1>3, <2>1, <2>4 DEF Choosing
    <3>2. QED
      BY <1>1, <1>2, <1>5, <3>1, ScopeOf DEF StatementDone, Ban
  <2>5. CASE i = 4
    <3>1. stage[m] = "listings" /\ Choosing(m, "siblings", Scope(m, "siblings"))
      BY <1>3, <2>1, <2>5 DEF Choosing
    <3>2. QED
      BY <1>1, <1>2, <1>5, <3>1, ScopeOf DEF StatementDone, Ban
  <2>6. QED
    BY <2>2, <2>3, <2>4, <2>5
<1>6. Removal(m) \/ Ban(m)
  <2>1. CASE act[m] \notin {"REMOVE_LISTING", "BAN_USER"}
    <3>1. Statements(act[m]) = <<"report">>
      BY <2>1 DEF Statements
    <3>2. QED
      BY <1>3, <3>1
  <2>2. QED
    BY <2>1 DEF Removal, Ban
<1>7. QED
  BY <1>4, <1>5, <1>6

\* A statement chooses rows within the request's reach.
LEMMA NextReach ==
  ASSUME TypeInv, NEW m \in Moderators, NextStatement(m)
  PROVE  \E S \in SUBSET Reach(m) : todo' = [todo EXCEPT ![m] = {x \in S : Standing(x)}]
<1>1. /\ Removal(m) \/ Ban(m) =>
           ScopeListings(m) \in SUBSET Reach(m) /\ Siblings(m) \in SUBSET Reach(m)
      /\ Ban(m) => {TargetSeller(m)} \in SUBSET Reach(m)
  BY DEF Reach
<1>2. \E s \in {"seller", "listings", "siblings"}, S \in SUBSET Reach(m) : Choosing(m, s, S)
  BY <1>1, NextOutcome
<1>3. QED
  BY <1>2 DEF Choosing

\* A request commits when its last statement is done.
LEMMA CommitOutcome ==
  ASSUME TypeInv, NEW m \in Moderators, CommitModeration(m)
  PROVE  /\ stage[m] # "idle" /\ todo[m] = {}
         /\ act[m] # "VIEW" => target[m] \in mine[m]
         /\ Removal(m) \/ Ban(m) => stage[m] = "siblings"
<1>1. Finished(m) /\ stage[m] # "idle" /\ todo[m] = {} /\ (act[m] # "VIEW" => target[m] \in mine[m])
  BY DEF CommitModeration, Finished, StatementDone
<1>2. CASE Removal(m)
  <2>1. Statements(act[m]) = <<"report", "listings", "siblings">>
    BY <1>2 DEF Statements, Removal
  <2>2. QED
    BY <1>1, <1>2, <2>1 DEF Finished, Last
<1>3. CASE Ban(m)
  <2>1. Statements(act[m]) = <<"report", "seller", "listings", "siblings">>
    BY <1>3 DEF Statements, Ban
  <2>2. QED
    BY <1>1, <1>3, <2>1 DEF Finished, Last
<1>4. QED
  BY <1>1, <1>2, <1>3

\* A row that is updated belongs to one request, and is standing if that decides.
LEMMA MineStands ==
  ASSUME TypeInv, LockInv, NEW m \in Moderators, NEW x \in mine[m], act[m] # "VIEW"
  PROVE  /\ x \in Reports => status[x] = "PENDING"
         /\ x \in Listings => listing[x] = "live"
         /\ x \in Sellers => seller[x] = "live"
  BY ModerationAssumption DEF LockInv, Eligible, Standing

\* What kinds of rows a request updates
LEMMA MineKinds ==
  ASSUME TypeInv, LockInv, NEW m \in Moderators, NEW x \in todo[m] \cup mine[m]
  PROVE  /\ x \in Reports => x = target[m] \/ (x \in Siblings(m) /\ (Removal(m) \/ Ban(m)))
         /\ x \in Listings => x \in ScopeListings(m) /\ (Removal(m) \/ Ban(m))
         /\ x \in Sellers => x = TargetSeller(m) /\ Ban(m)
<1>1. stage[m] # "idle"
  BY DEF TypeInv, TaskInv
<1>2. x \in Reach(m)
  BY DEF LockInv
<1>3. QED
  BY <1>1, <1>2, TargetType, ScopeOf, ModerationAssumption DEF Reach, Removal, Ban

-----------------------------------------------------------------------------
(* Type correctness                                                        *)

\* Every step keeps the variables' types, and no row is locked by two requests.
LEMMA TypeStep == TypeInv /\ [Next]_vars => TypeInv'
<1> SUFFICES ASSUME TypeInv, [Next]_vars PROVE TypeInv'
  OBVIOUS
<1> USE ModerationAssumption
<1> USE DEF TypeInv, TypeOK, TaskInv, Rows, Actions, rowVars, taskVars
<1>1. ASSUME NEW l \in Listings, BeginListing(l)
      PROVE  TypeInv'
  BY <1>1 DEF BeginListing
<1>2. ASSUME NEW l \in Listings, CreateListing(l)
      PROVE  TypeInv'
  BY <1>2 DEF CreateListing
<1>3. ASSUME NEW r \in Reports, BeginReport(r)
      PROVE  TypeInv'
  BY <1>3 DEF BeginReport
<1>4. ASSUME NEW r \in Reports, InsertReport(r)
      PROVE  TypeInv'
  <2>1. CASE Twins(r) = {}
    <3>1. /\ filing' = [filing EXCEPT ![r] = "done"]
          /\ status' = [status EXCEPT ![r] = "PENDING"]
          /\ UNCHANGED <<about, seller, listing, seenBy, decider, taskVars, late>>
      BY <1>4, <2>1 DEF InsertReport
    <3>2. QED
      BY <3>1
  <2>2. CASE Twins(r) # {}
    BY <1>4, <2>2 DEF InsertReport
  <2>3. QED
    BY <2>1, <2>2
<1>5. ASSUME NEW m \in Moderators, NEW r \in Reports, NEW a \in Actions \cup {"VIEW"}, BeginModeration(m, r, a)
      PROVE  TypeInv'
  BY <1>5 DEF BeginModeration, Standing
<1>6. ASSUME NEW m \in Moderators, NextStatement(m)
      PROVE  TypeInv'
  <2>1. stage[m] # "idle" /\ target[m] \in mine[m] /\ (Removal(m) \/ Ban(m))
    BY <1>6, NextOutcome DEF StatementDone
  <2>2. UNCHANGED <<rowVars, filing, act, target, mine, known, late>>
    BY <1>6, NextOutcome
  <2>3. PICK s \in {"seller", "listings", "siblings"}, T \in SUBSET Rows :
          /\ stage' = [stage EXCEPT ![m] = s]
          /\ todo' = [todo EXCEPT ![m] = T]
          /\ Removal(m) => s # "seller"
    <3>1. ASSUME NEW S \in SUBSET Rows PROVE {x \in S : Standing(x)} \in SUBSET Rows
      OBVIOUS
    <3>2. PICK s \in {"seller", "listings", "siblings"}, S \in SUBSET Rows :
            Choosing(m, s, S) /\ (Removal(m) => s # "seller")
      <4>1. /\ {TargetSeller(m)} \in SUBSET Rows
            /\ ScopeListings(m) \in SUBSET Rows
            /\ Siblings(m) \in SUBSET Rows
        BY <2>1, ScopeOf, TargetType
      <4>2. QED
        BY <1>6, <4>1, NextOutcome DEF Removal, Ban
    <3>3. QED
      BY <3>1, <3>2 DEF Choosing
  <2>4. QED
    BY <2>1, <2>2, <2>3 DEF Removal, Ban
<1>7. ASSUME NEW m \in Moderators, NEW x \in Rows, LockRow(m, x)
      PROVE  TypeInv'
  BY <1>7 DEF LockRow, Locked
<1>8. ASSUME NEW m \in Moderators, CommitModeration(m)
      PROVE  TypeInv'
  <2>1. stage[m] # "idle" /\ Unseen(m) \subseteq Reports \cup Listings
    BY <1>8 DEF CommitModeration, Finished, StatementDone, Unseen, Siblings
  <2>2. act[m] # "VIEW" => Outcome(act[m]) \in {"DECLINED", "LISTING_REMOVED", "USER_BANNED"}
    BY <2>1 DEF Outcome
  <2>3. QED
    BY <1>8, <2>1, <2>2 DEF CommitModeration, EndTask
<1>9. ASSUME NEW m \in Moderators, RefuseModeration(m)
      PROVE  TypeInv'
  BY <1>9 DEF RefuseModeration, EndTask
<1>10. ASSUME NEW m \in Moderators, AbortModeration(m)
      PROVE  TypeInv'
  BY <1>10 DEF AbortModeration, EndTask
<1>11. ASSUME NEW m \in Moderators, BreakDeadlock(m)
      PROVE  TypeInv'
  BY <1>11 DEF BreakDeadlock, EndTask
<1>12. CASE UNCHANGED vars
  BY <1>12 DEF vars
<1>13. QED
  BY <1>1, <1>2, <1>3, <1>4, <1>5, <1>6, <1>7, <1>8, <1>9, <1>10, <1>11, <1>12 DEF Next

\* The variables of Moderation keep their types, and no row is ever updated by two
\* open transactions.
THEOREM ModerationTypeCorrect == Spec => []TypeOK
<1>1. Init => TypeInv
  BY ModerationAssumption DEF Init, TypeInv, TypeOK, TaskInv, Rows, Actions
<1>2. TypeInv => TypeOK
  BY DEF TypeInv
<1>3. QED
  BY <1>1, <1>2, TypeStep, PTL DEF Spec

-----------------------------------------------------------------------------
(* Rows and locks                                                          *)

\* Reports are inserted once, on listings that exist.
LEMMA RowStep == TypeInv /\ RowInv /\ LockInv /\ [Next]_vars => RowInv'
<1> SUFFICES ASSUME TypeInv, RowInv, LockInv, [Next]_vars PROVE RowInv'
  OBVIOUS
<1> USE ModerationAssumption
<1> USE DEF TypeInv, TypeOK, TaskInv, RowInv, Rows, rowVars, taskVars
<1>1. ASSUME NEW l \in Listings, BeginListing(l)
      PROVE  RowInv'
  BY <1>1 DEF BeginListing
<1>2. ASSUME NEW l \in Listings, CreateListing(l)
      PROVE  RowInv'
  BY <1>2 DEF CreateListing
<1>3. ASSUME NEW r \in Reports, BeginReport(r)
      PROVE  RowInv'
  BY <1>3 DEF BeginReport
<1>4. ASSUME NEW r \in Reports, InsertReport(r)
      PROVE  RowInv'
  BY <1>4 DEF InsertReport
<1>5. ASSUME NEW m \in Moderators, NEW r \in Reports, NEW a \in Actions \cup {"VIEW"}, BeginModeration(m, r, a)
      PROVE  RowInv'
  BY <1>5 DEF BeginModeration
<1>6. ASSUME NEW m \in Moderators, NextStatement(m)
      PROVE  RowInv'
  <2>1. stage[m] # "idle" /\ \A n \in Moderators : n # m => stage'[n] = stage[n]
    BY <1>6 DEF NextStatement, StatementDone
  <2>2. QED
    BY <1>6, <2>1 DEF NextStatement
<1>7. ASSUME NEW m \in Moderators, NEW x \in Rows, LockRow(m, x)
      PROVE  RowInv'
  BY <1>7 DEF LockRow
<1>8. ASSUME NEW m \in Moderators, CommitModeration(m)
      PROVE  RowInv'
  <2>1. \A x \in mine[m] \cap Reports : act[m] # "VIEW" => status[x] = "PENDING"
    BY MineStands
  <2>2. act[m] # "VIEW" => Outcome(act[m]) # "none"
    BY <1>8, CommitOutcome DEF Outcome, Actions
  <2>3. \A r \in Reports : status'[r] = "none" <=> status[r] = "none"
    BY <1>8, <2>1, <2>2 DEF CommitModeration
  <2>4. \A r \in Reports : listing[about[r].listing] \in {"live", "removed"} =>
                            listing'[about[r].listing] \in {"live", "removed"}
    BY <1>8 DEF CommitModeration
  <2>5. \A n \in Moderators : stage'[n] # "idle" =>
          stage[n] # "idle" /\ target'[n] = target[n] /\ target[n] \in Reports
    BY <1>8 DEF CommitModeration, EndTask
  <2>6. filing' = filing /\ about' = about
    BY <1>8 DEF CommitModeration
  <2>7. QED
    BY <2>3, <2>4, <2>5, <2>6
<1>9. ASSUME NEW m \in Moderators, RefuseModeration(m)
      PROVE  RowInv'
  BY <1>9 DEF RefuseModeration, EndTask
<1>10. ASSUME NEW m \in Moderators, AbortModeration(m)
      PROVE  RowInv'
  BY <1>10 DEF AbortModeration, EndTask
<1>11. ASSUME NEW m \in Moderators, BreakDeadlock(m)
      PROVE  RowInv'
  BY <1>11 DEF BreakDeadlock, EndTask
<1>12. CASE UNCHANGED vars
  BY <1>12 DEF vars
<1>13. QED
  BY <1>1, <1>2, <1>3, <1>4, <1>5, <1>6, <1>7, <1>8, <1>9, <1>10, <1>11, <1>12 DEF Next

\* A statement chooses rows that the request is about.
LEMMA LockNext ==
  ASSUME TypeInv, LockInv, NEW m \in Moderators, NextStatement(m)
  PROVE  LockInv'
<1>1. UNCHANGED <<rowVars, filing, act, target, mine, known, late>>
  BY NextOutcome
<1>2. PICK S \in SUBSET Reach(m) : todo' = [todo EXCEPT ![m] = {x \in S : Standing(x)}]
  BY NextReach
<1>3. ASSUME NEW n \in Moderators
      PROVE  todo'[n] \cup mine'[n] \subseteq Reach(n)'
  <2>1. Reach(n)' = Reach(n)
    BY <1>1 DEF Reach, Siblings, ScopeListings, TargetListing, TargetSeller, Removal, Ban, rowVars
  <2>2. todo'[n] \subseteq todo[n] \cup Reach(n)
    BY <1>2 DEF TypeInv, TypeOK
  <2>3. QED
    BY <1>1, <2>1, <2>2 DEF LockInv
<1>4. ASSUME NEW n \in Moderators, NEW x \in mine'[n]
      PROVE  Eligible(n, x)'
  BY <1>1 DEF LockInv, Eligible, Standing, rowVars
<1>5. QED
  BY <1>3, <1>4 DEF LockInv

\* Locked rows stay as they were locked, and within what the request is about.
LEMMA LockStep == TypeInv /\ RowInv /\ LockInv /\ [Next]_vars => LockInv'
<1> SUFFICES ASSUME TypeInv, RowInv, LockInv, [Next]_vars PROVE LockInv'
  OBVIOUS
<1> USE ModerationAssumption
<1> USE DEF TypeInv, TypeOK, TaskInv, RowInv, LockInv, Rows, Eligible, Standing, Reach, Siblings, ScopeListings, TargetListing, TargetSeller, Removal, Ban, rowVars, taskVars
<1>1. ASSUME NEW l \in Listings, BeginListing(l)
      PROVE  LockInv'
  BY <1>1 DEF BeginListing
<1>2. ASSUME NEW l \in Listings, CreateListing(l)
      PROVE  LockInv'
  BY <1>2 DEF CreateListing
<1>3. ASSUME NEW r \in Reports, BeginReport(r)
      PROVE  LockInv'
  BY <1>3 DEF BeginReport
<1>4. ASSUME NEW r \in Reports, InsertReport(r)
      PROVE  LockInv'
  BY <1>4 DEF InsertReport
<1>5. ASSUME NEW m \in Moderators, NEW r \in Reports, NEW a \in Actions \cup {"VIEW"}, BeginModeration(m, r, a)
      PROVE  LockInv'
  BY <1>5 DEF BeginModeration
<1>6. ASSUME NEW m \in Moderators, NextStatement(m)
      PROVE  LockInv'
  BY <1>6, LockNext
<1>7. ASSUME NEW m \in Moderators, NEW x \in Rows, LockRow(m, x)
      PROVE  LockInv'
  BY <1>7 DEF LockRow
<1>8. ASSUME NEW m \in Moderators, CommitModeration(m)
      PROVE  LockInv'
  BY <1>8 DEF CommitModeration, EndTask
<1>9. ASSUME NEW m \in Moderators, RefuseModeration(m)
      PROVE  LockInv'
  BY <1>9 DEF RefuseModeration, EndTask
<1>10. ASSUME NEW m \in Moderators, AbortModeration(m)
      PROVE  LockInv'
  BY <1>10 DEF AbortModeration, EndTask
<1>11. ASSUME NEW m \in Moderators, BreakDeadlock(m)
      PROVE  LockInv'
  BY <1>11 DEF BreakDeadlock, EndTask
<1>12. CASE UNCHANGED vars
  BY <1>12 DEF vars
<1>13. QED
  BY <1>1, <1>2, <1>3, <1>4, <1>5, <1>6, <1>7, <1>8, <1>9, <1>10, <1>11, <1>12 DEF Next

-----------------------------------------------------------------------------
(* Decisions                                                               *)

\* An insertion looks at its twins, and a decision adds none.
LEMMA PendingStep == TypeInv /\ RowInv /\ LockInv /\ OnePendingPerReporter /\ [Next]_vars => OnePendingPerReporter'
<1> SUFFICES ASSUME TypeInv, RowInv, LockInv, OnePendingPerReporter, [Next]_vars PROVE OnePendingPerReporter'
  OBVIOUS
<1> USE ModerationAssumption
<1> USE DEF TypeInv, TypeOK, TaskInv, RowInv, OnePendingPerReporter, Twins, rowVars, taskVars
<1>1. ASSUME NEW l \in Listings, BeginListing(l)
      PROVE  OnePendingPerReporter'
  BY <1>1 DEF BeginListing
<1>2. ASSUME NEW l \in Listings, CreateListing(l)
      PROVE  OnePendingPerReporter'
  BY <1>2 DEF CreateListing
<1>3. ASSUME NEW r \in Reports, BeginReport(r)
      PROVE  OnePendingPerReporter'
  BY <1>3 DEF BeginReport
<1>4. ASSUME NEW r \in Reports, InsertReport(r)
      PROVE  OnePendingPerReporter'
  BY <1>4 DEF InsertReport
<1>5. ASSUME NEW m \in Moderators, NEW r \in Reports, NEW a \in Actions \cup {"VIEW"}, BeginModeration(m, r, a)
      PROVE  OnePendingPerReporter'
  BY <1>5 DEF BeginModeration
<1>6. ASSUME NEW m \in Moderators, NextStatement(m)
      PROVE  OnePendingPerReporter'
  BY <1>6 DEF NextStatement
<1>7. ASSUME NEW m \in Moderators, NEW x \in Rows, LockRow(m, x)
      PROVE  OnePendingPerReporter'
  BY <1>7 DEF LockRow
<1>8. ASSUME NEW m \in Moderators, CommitModeration(m)
      PROVE  OnePendingPerReporter'
  <2>1. \A q \in Reports : status'[q] = "PENDING" => status[q] = "PENDING"
    BY <1>8, CommitOutcome DEF CommitModeration, Outcome, Actions
  <2>2. about' = about
    BY <1>8 DEF CommitModeration
  <2>3. QED
    BY <2>1, <2>2
<1>9. ASSUME NEW m \in Moderators, RefuseModeration(m)
      PROVE  OnePendingPerReporter'
  BY <1>9 DEF RefuseModeration, EndTask
<1>10. ASSUME NEW m \in Moderators, AbortModeration(m)
      PROVE  OnePendingPerReporter'
  BY <1>10 DEF AbortModeration, EndTask
<1>11. ASSUME NEW m \in Moderators, BreakDeadlock(m)
      PROVE  OnePendingPerReporter'
  BY <1>11 DEF BreakDeadlock, EndTask
<1>12. CASE UNCHANGED vars
  BY <1>12 DEF vars
<1>13. QED
  BY <1>1, <1>2, <1>3, <1>4, <1>5, <1>6, <1>7, <1>8, <1>9, <1>10, <1>11, <1>12 DEF Next

\* The next statement of a decision finds what it is to take down, or it is gone.
LEMMA NextTakesDown ==
  ASSUME TypeInv, RowInv, LockInv, TruthInv, NEW m \in Moderators, NextStatement(m)
  PROVE  TakesDown(m)'
<1>1. /\ StatementDone(m) /\ stage[m] # "idle" /\ todo[m] = {} /\ target[m] \in mine[m]
      /\ UNCHANGED <<rowVars, filing, act, target, mine, known, late>>
  BY NextOutcome DEF StatementDone
<1>2. target[m] \in Reports /\ TargetListing(m) \in Listings /\ TargetSeller(m) \in Sellers
  BY <1>1, TargetType
<1>3. Removal(m) \/ Ban(m) => listing[TargetListing(m)] \in {"live", "removed"}
  BY <1>1, <1>2, MineStands DEF RowInv, TargetListing, TypeInv, TypeOK, Removal, Ban
<1>4. /\ TargetListing(m)' = TargetListing(m) /\ TargetSeller(m)' = TargetSeller(m)
      /\ Removal(m)' = Removal(m) /\ Ban(m)' = Ban(m)
      /\ ~(Removal(m) /\ Ban(m))
  BY <1>1 DEF TargetListing, TargetSeller, Removal, Ban, rowVars
<1>5. CASE Removal(m) /\ Choosing(m, "listings", ScopeListings(m))
  <2>1. /\ stage'[m] = "listings" 
        /\ todo'[m] = {x \in ScopeListings(m) : Standing(x)}
    BY <1>5 DEF Choosing, TypeInv, TypeOK
  <2>2. TargetListing(m) \in ScopeListings(m)
    BY <1>2, <1>5 DEF ScopeListings
  <2>3. TargetListing(m) \in todo'[m] \/ listing[TargetListing(m)] = "removed"
    BY <1>2, <1>3, <1>5, <2>1, <2>2 DEF Standing
  <2>4. QED
    BY <1>1, <1>4, <1>5, <2>1, <2>3 DEF TakesDown, rowVars
<1>6. CASE Ban(m) /\ Choosing(m, "seller", {TargetSeller(m)})
  <2>1. /\ stage'[m] = "seller"
        /\ todo'[m] = {x \in {TargetSeller(m)} : Standing(x)}
    BY <1>6 DEF Choosing, TypeInv, TypeOK
  <2>2. TargetSeller(m) \in todo'[m] \/ seller[TargetSeller(m)] = "banned"
    BY <1>2, <2>1 DEF Standing, TypeInv, TypeOK
  <2>3. QED
    BY <1>1, <1>4, <1>6, <2>1, <2>2 DEF TakesDown, rowVars
<1>7. CASE /\ Ban(m) /\ stage[m] = "seller"
           /\ Choosing(m, "listings", ScopeListings(m))
  <2>1. stage'[m] = "listings"
    BY <1>7 DEF Choosing, TypeInv, TypeOK
  <2>2. QED
    BY <1>1, <1>4, <1>7, <2>1 DEF TruthInv, TakesDown, rowVars
<1>8. CASE /\ stage[m] = "listings"
           /\ Choosing(m, "siblings", Siblings(m))
  <2>1. stage'[m] = "siblings"
    BY <1>8 DEF Choosing, TypeInv, TypeOK
  <2>2. QED
    BY <1>1, <1>4, <1>8, <2>1 DEF TruthInv, TakesDown, rowVars
<1>9. QED
  BY <1>5, <1>6, <1>7, <1>8, NextOutcome

\* What a statement locks and finds gone need not be taken down.
LEMMA LockTakesDown ==
  ASSUME TypeInv, RowInv, LockInv, TruthInv, NEW m \in Moderators, NEW x \in Rows, LockRow(m, x),
         NEW n \in Moderators
  PROVE  TakesDown(n)'
<1>1. /\ UNCHANGED <<rowVars, filing, act, target, stage, known, late>>
      /\ x \in todo[m] /\ stage[m] # "idle"
      /\ todo' = [todo EXCEPT ![m] = @ \ {x}]
      /\ mine' = [mine EXCEPT ![m] = IF Eligible(m, x) THEN @ \cup {x} ELSE @]
  BY DEF LockRow, TypeInv, TaskInv
<1>2. /\ TargetListing(n)' = TargetListing(n) /\ TargetSeller(n)' = TargetSeller(n)
      /\ Removal(n)' = Removal(n) /\ Ban(n)' = Ban(n)
  BY <1>1 DEF TargetListing, TargetSeller, Removal, Ban, rowVars
<1>3. CASE n # m
  <2>1. todo'[n] = todo[n] /\ mine'[n] = mine[n]
    BY <1>1, <1>3 DEF TypeInv, TypeOK
  <2>2. QED
    BY <1>1, <1>2, <2>1 DEF TruthInv, TakesDown, rowVars
<1>4. CASE n = m
  <2>1. /\ todo'[m] = todo[m] \ {x}
        /\ mine'[m] = IF Eligible(m, x) THEN mine[m] \cup {x} ELSE mine[m]
    BY <1>1 DEF TypeInv, TypeOK
  <2>2. (Removal(m) \/ Ban(m)) /\ ~Eligible(m, x) =>
          /\ x = TargetListing(m) => listing[x] # "live"
          /\ x = TargetSeller(m) => seller[x] = "banned"
    BY <1>1, TargetType DEF Eligible, Standing, Removal, Ban, TypeInv, TypeOK
  <2>3. (Removal(m) \/ Ban(m)) /\ stage[m] # "report" => listing[TargetListing(m)] \in {"live", "removed"}
    BY <1>1, TargetType, MineStands DEF RowInv, TargetListing, TypeInv, TypeOK, TaskInv, Removal, Ban
  <2>4. stage[m] # "report" => stage[m] \in {"seller", "listings", "siblings"}
    BY <1>1 DEF TypeInv, TypeOK
  <2>5. QED
    BY <1>1, <1>2, <1>4, <2>1, <2>2, <2>3, <2>4 DEF TruthInv, TakesDown, rowVars
<1>5. QED
  BY <1>3, <1>4

\* A decision resolves reports on what it takes down, or was down before.
LEMMA CommitTellsTheTruth ==
  ASSUME TypeInv, RowInv, LockInv, TruthInv, NEW m \in Moderators, CommitModeration(m)
  PROVE  StatusTellsTheTruth'
<1>1. /\ stage[m] # "idle" /\ todo[m] = {}
      /\ act[m] # "VIEW" => target[m] \in mine[m]
      /\ Removal(m) \/ Ban(m) => stage[m] = "siblings"
  BY CommitOutcome
<1>2. target[m] \in Reports /\ TargetListing(m) \in Listings /\ TargetSeller(m) \in Sellers
  BY <1>1, TargetType
<1>3. about' = about /\ TypeOK'
  BY TypeStep DEF CommitModeration, Next, TypeInv
<1>4. CASE act[m] = "VIEW"
  BY <1>3, <1>4 DEF CommitModeration, TruthInv, StatusTellsTheTruth, TypeInv, TypeOK
<1>5. CASE act[m] # "VIEW"
  <2>1. \A r \in Reports : status'[r] = IF r \in mine[m] THEN Outcome(act[m]) ELSE status[r]
    BY <1>5 DEF CommitModeration
  <2>a. \A r \in Reports : decider'[r] = IF r \in mine[m] THEN m ELSE decider[r]
    BY <1>5 DEF CommitModeration
  <2>b. \A r \in Reports : seenBy'[r] = IF r \in mine[m] /\ seenBy[r] = Nobody THEN m ELSE seenBy[r]
    BY DEF CommitModeration
  <2>2. /\ \A l \in Listings : listing'[l] = IF l \in mine[m] THEN "removed" ELSE listing[l]
        /\ \A u \in Sellers : seller'[u] = IF u \in mine[m] THEN "banned" ELSE seller[u]
    BY <1>5 DEF CommitModeration
  <2>3. ASSUME NEW r \in Reports, r \notin mine[m]
        PROVE  /\ status'[r] = "LISTING_REMOVED" => listing'[about[r].listing] = "removed"
               /\ status'[r] = "USER_BANNED" => seller'[Owner[about[r].listing]] = "banned"
               /\ status'[r] \notin {"none", "PENDING"} <=> decider'[r] # Nobody
               /\ decider'[r] # Nobody => seenBy'[r] # Nobody
    <3>1. about[r].listing \in Listings /\ Owner[about[r].listing] \in Sellers
      BY ModerationAssumption DEF TypeInv, TypeOK
    <3>2. status'[r] = status[r] /\ decider'[r] = decider[r] /\ seenBy'[r] = seenBy[r]
      BY <2>1, <2>a, <2>b, <2>3
    <3>3. QED
      BY <2>2, <3>1, <3>2 DEF TruthInv, StatusTellsTheTruth
  <2>4. ASSUME NEW r \in Reports, r \in mine[m]
        PROVE  /\ status'[r] = "LISTING_REMOVED" => listing'[about[r].listing] = "removed"
               /\ status'[r] = "USER_BANNED" => seller'[Owner[about[r].listing]] = "banned"
               /\ status'[r] \notin {"none", "PENDING"} <=> decider'[r] # Nobody
               /\ decider'[r] # Nobody => seenBy'[r] # Nobody
    <3>1. act[m] \in Actions
      BY <1>1, <1>5 DEF TypeInv, TypeOK, TaskInv
    <3>2. /\ status'[r] \in {"DECLINED", "LISTING_REMOVED", "USER_BANNED"}
          /\ status'[r] = "LISTING_REMOVED" => Removal(m)
          /\ status'[r] = "USER_BANNED" => Ban(m)
      BY <2>1, <2>4, <3>1 DEF Outcome, Actions, Removal, Ban
    <3>3. decider'[r] = m /\ m # Nobody /\ seenBy'[r] # Nobody
      BY <2>a, <2>b, <2>4, ModerationAssumption
    <3>4. r = target[m] \/ (r \in Siblings(m) /\ (Removal(m) \/ Ban(m)))
      BY <2>4, MineKinds
    <3>5. /\ Removal(m) => about[r].listing = TargetListing(m)
          /\ Ban(m) => Owner[about[r].listing] = TargetSeller(m)
      BY <3>4 DEF Siblings, Removal, Ban, TargetListing, TargetSeller
    <3>6. /\ Removal(m) => TargetListing(m) \in mine[m] \/ listing[TargetListing(m)] = "removed"
          /\ Ban(m) => TargetSeller(m) \in mine[m] \/ seller[TargetSeller(m)] = "banned"
      BY <1>1 DEF TruthInv, TakesDown
    <3>7. QED
      BY <1>2, <2>2, <3>2, <3>3, <3>5, <3>6
  <2>5. QED
    BY <1>3, <2>3, <2>4 DEF StatusTellsTheTruth
<1>6. QED
  BY <1>4, <1>5

\* A report is resolved by a request that has taken down what it reports.
LEMMA TruthStep == TypeInv /\ RowInv /\ LockInv /\ TruthInv /\ [Next]_vars => TruthInv'
<1> SUFFICES ASSUME TypeInv, RowInv, LockInv, TruthInv, [Next]_vars PROVE TruthInv'
  OBVIOUS
<1> USE ModerationAssumption
<1> USE DEF TypeInv, TypeOK, TaskInv, RowInv, TruthInv, TakesDown, StatusTellsTheTruth, TargetListing, TargetSeller, Removal, Ban, rowVars, taskVars
<1>1. ASSUME NEW l \in Listings, BeginListing(l)
      PROVE  TruthInv'
  BY <1>1 DEF BeginListing
<1>2. ASSUME NEW l \in Listings, CreateListing(l)
      PROVE  TruthInv'
  BY <1>2 DEF CreateListing
<1>3. ASSUME NEW r \in Reports, BeginReport(r)
      PROVE  TruthInv'
  BY <1>3 DEF BeginReport
<1>4. ASSUME NEW r \in Reports, InsertReport(r)
      PROVE  TruthInv'
  BY <1>4 DEF InsertReport
<1>5. ASSUME NEW m \in Moderators, NEW r \in Reports, NEW a \in Actions \cup {"VIEW"}, BeginModeration(m, r, a)
      PROVE  TruthInv'
  BY <1>5 DEF BeginModeration
<1>6. ASSUME NEW m \in Moderators, NextStatement(m)
      PROVE  TruthInv'
  <2>1. /\ StatementDone(m) /\ stage[m] # "idle" /\ todo[m] = {} /\ target[m] \in mine[m]
        /\ UNCHANGED <<rowVars, filing, act, target, mine, known, late>>
    BY <1>6, NextOutcome DEF StatementDone
  <2>2. StatusTellsTheTruth'
    BY <2>1
  <2>3. ASSUME NEW n \in Moderators, n # m PROVE TakesDown(n)'
    <3>1. stage'[n] = stage[n] /\ todo'[n] = todo[n]
      BY <1>6, <2>3, NextOutcome DEF Choosing
    <3>2. QED
      BY <2>1, <2>3, <3>1
  <2>4. TakesDown(m)'
    BY <1>6, NextTakesDown
  <2>5. QED
    BY <2>2, <2>3, <2>4
<1>7. ASSUME NEW m \in Moderators, NEW x \in Rows, LockRow(m, x)
      PROVE  TruthInv'
  <2>1. UNCHANGED <<rowVars, filing, act, target, stage, known, late>>
    BY <1>7 DEF LockRow
  <2>2. StatusTellsTheTruth'
    BY <2>1
  <2>3. ASSUME NEW n \in Moderators PROVE TakesDown(n)'
    BY <1>7, <2>1, <2>3, LockTakesDown
  <2>4. QED
    BY <2>2, <2>3
<1>8. ASSUME NEW m \in Moderators, CommitModeration(m)
      PROVE  TruthInv'
  <2>1. StatusTellsTheTruth'
    BY <1>8, CommitTellsTheTruth
  <2>2. ASSUME NEW n \in Moderators, n # m PROVE TakesDown(n)'
    BY <1>8, <2>2 DEF CommitModeration, EndTask
  <2>3. TakesDown(m)'
    BY <1>8 DEF CommitModeration, EndTask
  <2>4. QED
    BY <2>1, <2>2, <2>3
<1>9. ASSUME NEW m \in Moderators, RefuseModeration(m)
      PROVE  TruthInv'
  BY <1>9 DEF RefuseModeration, EndTask
<1>10. ASSUME NEW m \in Moderators, AbortModeration(m)
      PROVE  TruthInv'
  BY <1>10 DEF AbortModeration, EndTask
<1>11. ASSUME NEW m \in Moderators, BreakDeadlock(m)
      PROVE  TruthInv'
  BY <1>11 DEF BreakDeadlock, EndTask
<1>12. CASE UNCHANGED vars
  BY <1>12 DEF vars
<1>13. QED
  BY <1>1, <1>2, <1>3, <1>4, <1>5, <1>6, <1>7, <1>8, <1>9, <1>10, <1>11, <1>12 DEF Next

\* A statement chooses all of what there was that is still standing.
LEMMA NextCovers ==
  ASSUME TypeInv, CoverInv, NEW m \in Moderators, NextStatement(m)
  PROVE  Covers(m)'
<1>1. /\ StatementDone(m) /\ stage[m] # "idle" /\ todo[m] = {}
      /\ UNCHANGED <<rowVars, filing, act, target, mine, known, late>>
  BY NextOutcome DEF StatementDone
<1>2. /\ ScopeListings(m)' = ScopeListings(m) /\ Siblings(m)' = Siblings(m)
      /\ Removal(m)' = Removal(m) /\ Ban(m)' = Ban(m)
  BY <1>1 DEF ScopeListings, Siblings, TargetListing, TargetSeller, Removal, Ban, rowVars
<1>3. /\ \A l \in known[m] \cap Listings : listing[l] \in {"live", "removed"}
      /\ \A q \in known[m] \cap Reports : status[q] # "none"
  BY DEF CoverInv, Covers
<1>4. CASE Choosing(m, "listings", ScopeListings(m))
  <2>1. stage'[m] = "listings" /\ todo'[m] = {x \in ScopeListings(m) : Standing(x)}
    BY <1>4 DEF Choosing, TypeInv, TypeOK
  <2>2. \A l \in known[m] \cap Listings : l \in ScopeListings(m) => l \in todo'[m] \/ listing[l] = "removed"
    BY <1>3, <2>1 DEF Standing
  <2>3. QED
    BY <1>1, <1>2, <1>3, <2>1, <2>2 DEF Covers, rowVars
<1>5. CASE Choosing(m, "seller", {TargetSeller(m)})
  <2>1. stage'[m] = "seller"
    BY <1>5 DEF Choosing, TypeInv, TypeOK
  <2>2. QED
    BY <1>1, <1>2, <1>3, <2>1 DEF Covers, rowVars
<1>6. CASE stage[m] = "listings" /\ Choosing(m, "siblings", Siblings(m))
  <2>1. stage'[m] = "siblings" /\ todo'[m] = {x \in Siblings(m) : Standing(x)}
    BY <1>6 DEF Choosing, TypeInv, TypeOK
  <2>2. \A q \in known[m] \cap Reports : q \in Siblings(m) => q \in todo'[m] \/ status[q] # "PENDING"
    BY <2>1 DEF Standing
  <2>3. \A l \in known[m] \cap Listings :
          (Removal(m) \/ Ban(m)) /\ l \in ScopeListings(m) => l \in mine[m] \/ listing[l] = "removed"
    BY <1>1, <1>6 DEF CoverInv, Covers
  <2>4. QED
    BY <1>1, <1>2, <1>3, <2>1, <2>2, <2>3 DEF Covers, rowVars
<1>7. QED
  BY <1>4, <1>5, <1>6, NextOutcome

\* What a statement locks and does not update is resolved.
LEMMA LockCovers ==
  ASSUME TypeInv, CoverInv, NEW m \in Moderators, NEW x \in Rows, LockRow(m, x), NEW n \in Moderators
  PROVE  Covers(n)'
<1>1. /\ UNCHANGED <<rowVars, filing, act, target, stage, known, late>>
      /\ x \in todo[m] /\ stage[m] # "idle"
      /\ todo' = [todo EXCEPT ![m] = @ \ {x}]
      /\ mine' = [mine EXCEPT ![m] = IF Eligible(m, x) THEN @ \cup {x} ELSE @]
  BY DEF LockRow, TypeInv, TaskInv
<1>2. /\ ScopeListings(n)' = ScopeListings(n) /\ Siblings(n)' = Siblings(n)
      /\ Removal(n)' = Removal(n) /\ Ban(n)' = Ban(n)
  BY <1>1 DEF ScopeListings, Siblings, TargetListing, TargetSeller, Removal, Ban, rowVars
<1>3. CASE n # m
  <2>1. todo'[n] = todo[n] /\ mine'[n] = mine[n]
    BY <1>1, <1>3 DEF TypeInv, TypeOK
  <2>2. QED
    BY <1>1, <1>2, <2>1 DEF CoverInv, Covers, rowVars
<1>4. CASE n = m
  <2>1. /\ todo'[m] = todo[m] \ {x}
        /\ mine'[m] = IF Eligible(m, x) THEN mine[m] \cup {x} ELSE mine[m]
    BY <1>1 DEF TypeInv, TypeOK
  <2>2. ~Eligible(m, x) /\ stage[m] # "report" =>
          /\ x \in Listings => listing[x] # "live"
          /\ x \in Reports => status[x] # "PENDING"
    BY <1>1 DEF Eligible, Standing, TypeInv, TaskInv
  <2>3. QED
    BY <1>1, <1>2, <1>4, <2>1, <2>2 DEF CoverInv, Covers, rowVars
<1>5. QED
  BY <1>3, <1>4

\* A decision of another moderator only resolves.
LEMMA CommitCovers ==
  ASSUME TypeInv, LockInv, CoverInv, NEW m \in Moderators, CommitModeration(m),
         NEW n \in Moderators, n # m
  PROVE  Covers(n)'
<1>1. /\ about' = about
      /\ act'[n] = act[n] /\ target'[n] = target[n] /\ stage'[n] = stage[n]
      /\ todo'[n] = todo[n] /\ mine'[n] = mine[n] /\ known'[n] = known[n]
  BY DEF CommitModeration, EndTask, TypeInv, TypeOK
<1>2. /\ ScopeListings(n)' = ScopeListings(n) /\ Siblings(n)' = Siblings(n)
      /\ Removal(n)' = Removal(n) /\ Ban(n)' = Ban(n)
  BY <1>1 DEF ScopeListings, Siblings, TargetListing, TargetSeller, Removal, Ban
<1>3. \A l \in Listings : listing'[l] = listing[l] \/ listing'[l] = "removed"
  BY DEF CommitModeration, TypeInv, TypeOK
<1>4. \A q \in Reports : status'[q] = status[q] \/ status'[q] \notin {"none", "PENDING"}
  BY CommitOutcome DEF CommitModeration, Outcome, TypeInv, TypeOK, TaskInv, Actions
<1>5. QED
  BY <1>1, <1>2, <1>3, <1>4 DEF CoverInv, Covers

\* A removal or a ban loses nothing that was there when it began.
LEMMA CoverStep == TypeInv /\ RowInv /\ LockInv /\ CoverInv /\ [Next]_vars => CoverInv'
<1> SUFFICES ASSUME TypeInv, RowInv, LockInv, CoverInv, [Next]_vars PROVE CoverInv'
  OBVIOUS
<1> USE ModerationAssumption
<1> USE DEF TypeInv, TypeOK, TaskInv, RowInv, CoverInv, Covers, Rows, Siblings, ScopeListings, TargetListing, TargetSeller, Removal, Ban, rowVars, taskVars
<1>1. ASSUME NEW l \in Listings, BeginListing(l)
      PROVE  CoverInv'
  BY <1>1 DEF BeginListing
<1>2. ASSUME NEW l \in Listings, CreateListing(l)
      PROVE  CoverInv'
  BY <1>2 DEF CreateListing
<1>3. ASSUME NEW r \in Reports, BeginReport(r)
      PROVE  CoverInv'
  BY <1>3 DEF BeginReport
<1>4. ASSUME NEW r \in Reports, InsertReport(r)
      PROVE  CoverInv'
  BY <1>4 DEF InsertReport
<1>5. ASSUME NEW m \in Moderators, NEW r \in Reports, NEW a \in Actions \cup {"VIEW"}, BeginModeration(m, r, a)
      PROVE  CoverInv'
  BY <1>5 DEF BeginModeration, Standing
<1>6. ASSUME NEW m \in Moderators, NextStatement(m)
      PROVE  CoverInv'
  <2>1. UNCHANGED <<rowVars, filing, act, target, mine, known, late>>
    BY <1>6, NextOutcome
  <2>2. ASSUME NEW n \in Moderators, n # m PROVE Covers(n)'
    <3>1. stage'[n] = stage[n] /\ todo'[n] = todo[n]
      BY <1>6, <2>2, NextOutcome DEF Choosing
    <3>2. QED
      BY <2>1, <2>2, <3>1
  <2>3. Covers(m)'
    BY <1>6, NextCovers
  <2>4. QED
    BY <2>2, <2>3
<1>7. ASSUME NEW m \in Moderators, NEW x \in Rows, LockRow(m, x)
      PROVE  CoverInv'
  BY <1>7, LockCovers
<1>8. ASSUME NEW m \in Moderators, CommitModeration(m)
      PROVE  CoverInv'
  <2>1. ASSUME NEW n \in Moderators, n # m PROVE Covers(n)'
    BY <1>8, <2>1, CommitCovers
  <2>2. Covers(m)'
    BY <1>8 DEF CommitModeration, EndTask
  <2>3. QED
    BY <2>1, <2>2
<1>9. ASSUME NEW m \in Moderators, RefuseModeration(m)
      PROVE  CoverInv'
  BY <1>9 DEF RefuseModeration, EndTask
<1>10. ASSUME NEW m \in Moderators, AbortModeration(m)
      PROVE  CoverInv'
  BY <1>10 DEF AbortModeration, EndTask
<1>11. ASSUME NEW m \in Moderators, BreakDeadlock(m)
      PROVE  CoverInv'
  BY <1>11 DEF BreakDeadlock, EndTask
<1>12. CASE UNCHANGED vars
  BY <1>12 DEF vars
<1>13. QED
  BY <1>1, <1>2, <1>3, <1>4, <1>5, <1>6, <1>7, <1>8, <1>9, <1>10, <1>11, <1>12 DEF Next

\* A removal or a ban counts as late what it leaves.
LEMMA CommitLate ==
  ASSUME TypeInv, RowInv, LockInv, CoverInv, LateInv, NEW m \in Moderators, CommitModeration(m)
  PROVE  LateInv'
<1>1. /\ stage[m] # "idle" /\ todo[m] = {}
      /\ act[m] # "VIEW" => target[m] \in mine[m]
      /\ Removal(m) \/ Ban(m) => stage[m] = "siblings"
  BY CommitOutcome
<1>2. target[m] \in Reports /\ TargetListing(m) \in Listings /\ TargetSeller(m) \in Sellers
  BY <1>1, TargetType
<1>3. about' = about /\ filing' = filing /\ late \subseteq late'
  BY DEF CommitModeration
<1>4. CASE ~(Removal(m) \/ Ban(m))
  <2>1. mine[m] \cap (Listings \cup Sellers) = {}
    BY <1>4, MineKinds
  <2>2. /\ \A l \in Listings : listing'[l] = listing[l]
        /\ \A u \in Sellers : seller'[u] = seller[u]
    BY <2>1 DEF CommitModeration, TypeInv, TypeOK
  <2>3. \A r \in Reports : status'[r] = "PENDING" => status[r] = "PENDING"
    BY <1>1, <1>4 DEF CommitModeration, Outcome, TypeInv, TypeOK, TaskInv, Actions, Removal, Ban
  <2>4. \A r \in Reports : about[r].listing \in Listings
    BY DEF TypeInv, TypeOK
  <2>5. \A l \in Listings : Owner[l] \in Sellers
    BY ModerationAssumption
  <2>6. QED
    BY <1>3, <2>2, <2>3, <2>4, <2>5 DEF LateInv
<1>5. CASE Removal(m) \/ Ban(m)
  <2>1. act[m] \in {"REMOVE_LISTING", "BAN_USER"} /\ stage[m] = "siblings"
    BY <1>1, <1>5 DEF Removal, Ban
  <2>2. late' = late \cup Unseen(m)
    BY <2>1 DEF CommitModeration
  <2>3. /\ \A l \in Listings : listing'[l] = IF l \in mine[m] THEN "removed" ELSE listing[l]
        /\ \A u \in Sellers : seller'[u] = IF u \in mine[m] THEN "banned" ELSE seller[u]
    BY <2>1 DEF CommitModeration
  <2>4. \A r \in Reports : status'[r] = "PENDING" => status[r] = "PENDING" /\ r \notin mine[m]
    BY <2>1 DEF CommitModeration, Outcome
  <2>5. Unseen(m) = {x \in ScopeListings(m) \cup Siblings(m) :
                       \/ x \in Listings /\ listing[x] = "posting"
                       \/ x \in Reports /\ filing[x] = "insert"
                       \/ Standing(x) /\ x \notin known[m] \cup mine[m]}
    BY <1>1, ScopeOf DEF Unseen
  <2>6. ASSUME NEW l \in Listings, listing'[l] \in {"posting", "live"}, seller'[Owner[l]] = "banned"
        PROVE  l \in late'
    <3>1. l \notin mine[m] /\ listing[l] \in {"posting", "live"} /\ Owner[l] \in Sellers
      BY <2>3, <2>6, ModerationAssumption
    <3>2. CASE seller[Owner[l]] = "banned"
      BY <2>2, <3>1, <3>2 DEF LateInv
    <3>3. CASE seller[Owner[l]] # "banned"
      <4>1. Owner[l] = TargetSeller(m) /\ Ban(m)
        BY <2>3, <2>6, <3>1, <3>3, MineKinds
      <4>2. l \in ScopeListings(m)
        BY <4>1 DEF ScopeListings, Removal, Ban
      <4>3. listing[l] = "posting" \/ l \notin known[m]
        BY <2>1, <3>1, <4>1, <4>2 DEF CoverInv, Covers
      <4>4. QED
        BY <2>2, <2>5, <3>1, <4>2, <4>3 DEF Standing
    <3>4. QED
      BY <3>2, <3>3
  <2>7. ASSUME NEW r \in Reports, status'[r] = "PENDING" \/ filing'[r] = "insert",
               listing'[about[r].listing] = "removed"
        PROVE  r \in late'
    <3>1. about[r].listing \in Listings
      BY DEF TypeInv, TypeOK
    <3>2. (status[r] = "PENDING" /\ r \notin mine[m]) \/ filing[r] = "insert"
      BY <1>3, <2>4, <2>7
    <3>3. CASE listing[about[r].listing] = "removed"
      BY <2>2, <3>2, <3>3 DEF LateInv
    <3>4. CASE listing[about[r].listing] # "removed"
      <4>1. about[r].listing \in ScopeListings(m)
        BY <2>3, <2>7, <3>1, <3>4, MineKinds
      <4>2. r # target[m]
        <5>1. status[target[m]] = "PENDING"
          BY <1>1, <1>2, <2>1, MineStands
        <5>2. filing[target[m]] # "insert"
          BY <1>2, <5>1 DEF RowInv
        <5>3. QED
          BY <1>1, <2>1, <3>2, <5>2
      <4>3. r \in Siblings(m)
        BY <1>5, <3>1, <4>1, <4>2 DEF Siblings, ScopeListings, Removal, Ban
      <4>4. filing[r] = "insert" \/ (status[r] = "PENDING" /\ r \notin known[m] \cup mine[m])
        BY <1>1, <2>1, <3>2, <4>3 DEF CoverInv, Covers
      <4>5. QED
        BY <2>2, <2>5, <4>3, <4>4 DEF Standing
    <3>5. QED
      BY <3>3, <3>4
  <2>8. QED
    BY <1>3, <2>6, <2>7 DEF LateInv
<1>6. QED
  BY <1>4, <1>5

\* What a decision leaves behind it has counted as late.
LEMMA LateStep == TypeInv /\ RowInv /\ LockInv /\ CoverInv /\ LateInv /\ [Next]_vars => LateInv'
<1> SUFFICES ASSUME TypeInv, RowInv, LockInv, CoverInv, LateInv, [Next]_vars PROVE LateInv'
  OBVIOUS
<1> USE ModerationAssumption
<1> USE DEF TypeInv, TypeOK, TaskInv, RowInv, LateInv, rowVars, taskVars
<1>1. ASSUME NEW l \in Listings, BeginListing(l)
      PROVE  LateInv'
  BY <1>1 DEF BeginListing
<1>2. ASSUME NEW l \in Listings, CreateListing(l)
      PROVE  LateInv'
  BY <1>2 DEF CreateListing
<1>3. ASSUME NEW r \in Reports, BeginReport(r)
      PROVE  LateInv'
  BY <1>3 DEF BeginReport
<1>4. ASSUME NEW r \in Reports, InsertReport(r)
      PROVE  LateInv'
  BY <1>4 DEF InsertReport
<1>5. ASSUME NEW m \in Moderators, NEW r \in Reports, NEW a \in Actions \cup {"VIEW"}, BeginModeration(m, r, a)
      PROVE  LateInv'
  BY <1>5 DEF BeginModeration
<1>6. ASSUME NEW m \in Moderators, NextStatement(m)
      PROVE  LateInv'
  BY <1>6 DEF NextStatement
<1>7. ASSUME NEW m \in Moderators, NEW x \in Rows, LockRow(m, x)
      PROVE  LateInv'
  BY <1>7 DEF LockRow
<1>8. ASSUME NEW m \in Moderators, CommitModeration(m)
      PROVE  LateInv'
  BY <1>8, CommitLate
<1>9. ASSUME NEW m \in Moderators, RefuseModeration(m)
      PROVE  LateInv'
  BY <1>9 DEF RefuseModeration, EndTask
<1>10. ASSUME NEW m \in Moderators, AbortModeration(m)
      PROVE  LateInv'
  BY <1>10 DEF AbortModeration, EndTask
<1>11. ASSUME NEW m \in Moderators, BreakDeadlock(m)
      PROVE  LateInv'
  BY <1>11 DEF BreakDeadlock, EndTask
<1>12. CASE UNCHANGED vars
  BY <1>12 DEF vars
<1>13. QED
  BY <1>1, <1>2, <1>3, <1>4, <1>5, <1>6, <1>7, <1>8, <1>9, <1>10, <1>11, <1>12 DEF Next

-----------------------------------------------------------------------------
(* Waiting                                                                 *)

\* A statement chooses rows its request has not updated yet, because no two
\* statements of a request range over one row: so nobody waits for itself.
OwnInv ==
  \A m \in Moderators :
    /\ todo[m] \cap mine[m] = {}
    /\ stage[m] = "report" => todo[m] \cup mine[m] \subseteq {target[m]}
    /\ stage[m] = "seller" => (todo[m] \cup mine[m]) \cap Listings = {}
    /\ stage[m] \in {"seller", "listings"} => (todo[m] \cup mine[m]) \cap Reports \subseteq {target[m]}

\* The rows a statement chooses are of a kind the request has not touched, or
\* reports other than its own.
LEMMA OwnNext ==
  ASSUME TypeInv, OwnInv, NEW m \in Moderators, NextStatement(m)
  PROVE  OwnInv'
<1>1. /\ StatementDone(m) /\ todo[m] = {}
      /\ UNCHANGED <<target, mine>>
      /\ target[m] \in Reports
      /\ ScopeListings(m) \subseteq Listings
      /\ Siblings(m) \subseteq Reports \ {target[m]}
      /\ TargetSeller(m) \in Sellers
  <2>1. StatementDone(m) /\ stage[m] # "idle" /\ todo[m] = {}
    BY NextOutcome DEF StatementDone
  <2>2. target[m] \in Reports /\ TargetSeller(m) \in Sellers
    BY <2>1, TargetType
  <2>3. ScopeListings(m) \subseteq Listings /\ Siblings(m) \subseteq Reports \ {target[m]}
    BY DEF ScopeListings, Siblings
  <2>. QED
    BY <2>1, <2>2, <2>3, NextOutcome
<1>2. ASSUME NEW s \in {"seller", "listings", "siblings"}, NEW S, Choosing(m, s, S),
             S \cap mine[m] = {},
             s = "seller" => (S \cup mine[m]) \cap Listings = {},
             s \in {"seller", "listings"} => (S \cup mine[m]) \cap Reports \subseteq {target[m]}
      PROVE  OwnInv'
  <2>. SUFFICES ASSUME NEW n \in Moderators PROVE OwnInv!(n)'
    BY DEF OwnInv
  <2>1. CASE n = m
    <3>1. stage'[n] = s /\ todo'[n] \subseteq S /\ mine'[n] = mine[m] /\ target'[n] = target[m]
      BY <1>1, <1>2, <2>1 DEF Choosing, TypeInv, TypeOK
    <3>. QED
      BY <1>2, <3>1
  <2>2. CASE n # m
    <3>1. stage'[n] = stage[n] /\ todo'[n] = todo[n] /\ mine'[n] = mine[n] /\ target'[n] = target[n]
      BY <1>1, <1>2, <2>2 DEF Choosing, TypeInv, TypeOK
    <3>. QED
      BY <3>1 DEF OwnInv
  <2>. QED
    BY <2>1, <2>2
<1>3. /\ target[m] \notin Listings /\ target[m] \notin Sellers
      /\ stage[m] = "report" => mine[m] \subseteq {target[m]}
      /\ stage[m] = "seller" => mine[m] \cap Listings = {}
      /\ stage[m] \in {"seller", "listings"} => mine[m] \cap Reports \subseteq {target[m]}
  BY <1>1, ModerationAssumption DEF OwnInv
<1>4. CASE stage[m] = "report" /\ Choosing(m, "listings", ScopeListings(m))
  <2>1. /\ ScopeListings(m) \cap mine[m] = {}
        /\ (ScopeListings(m) \cup mine[m]) \cap Reports \subseteq {target[m]}
    BY <1>1, <1>3, <1>4, ModerationAssumption
  <2>. QED
    BY <1>2, <1>4, <2>1
<1>5. CASE stage[m] = "report" /\ Choosing(m, "seller", {TargetSeller(m)})
  <2>1. /\ {TargetSeller(m)} \cap mine[m] = {}
        /\ ({TargetSeller(m)} \cup mine[m]) \cap Listings = {}
        /\ ({TargetSeller(m)} \cup mine[m]) \cap Reports \subseteq {target[m]}
    BY <1>1, <1>3, <1>5, ModerationAssumption
  <2>. QED
    BY <1>2, <1>5, <2>1
<1>6. CASE stage[m] = "seller" /\ Choosing(m, "listings", ScopeListings(m))
  <2>1. /\ ScopeListings(m) \cap mine[m] = {}
        /\ (ScopeListings(m) \cup mine[m]) \cap Reports \subseteq {target[m]}
    BY <1>1, <1>3, <1>6, ModerationAssumption
  <2>. QED
    BY <1>2, <1>6, <2>1
<1>7. CASE stage[m] = "listings" /\ Choosing(m, "siblings", Siblings(m))
  <2>1. Siblings(m) \cap mine[m] = {}
    BY <1>1, <1>3, <1>7, ModerationAssumption
  <2>. QED
    BY <1>2, <1>7, <2>1
<1>. QED
  BY <1>4, <1>5, <1>6, <1>7, NextOutcome

\* So no statement chooses what its request has updated already.
LEMMA OwnStep == TypeInv /\ OwnInv /\ [Next]_vars => OwnInv'
<1>. SUFFICES ASSUME TypeInv, OwnInv, [Next]_vars PROVE OwnInv'
  OBVIOUS
<1>. USE DEF TypeInv, TypeOK, TaskInv, OwnInv, taskVars
<1>1. CASE UNCHANGED taskVars
  BY <1>1
<1>2. ASSUME NEW m \in Moderators, NEW r \in Reports, NEW a \in Actions \cup {"VIEW"},
             BeginModeration(m, r, a)
      PROVE  OwnInv'
  BY <1>2 DEF BeginModeration
<1>3. ASSUME NEW m \in Moderators, NEW x \in Rows, LockRow(m, x)
      PROVE  OwnInv'
  BY <1>3 DEF LockRow
<1>4. ASSUME NEW m \in Moderators, EndTask(m)
      PROVE  OwnInv'
  BY <1>4 DEF EndTask
<1>5. Next => \/ UNCHANGED taskVars
              \/ \E m \in Moderators, r \in Reports, a \in Actions \cup {"VIEW"} :
                   BeginModeration(m, r, a)
              \/ \E m \in Moderators : NextStatement(m) \/ EndTask(m)
              \/ \E m \in Moderators, x \in Rows : LockRow(m, x)
  BY DEF Next, BeginListing, CreateListing, BeginReport, InsertReport, CommitModeration,
         RefuseModeration, AbortModeration, BreakDeadlock
<1>. QED
  BY <1>1, <1>2, <1>3, <1>4, <1>5, OwnNext DEF vars

\* A request whose statement has nothing left to lock has a next step.
LEMMA StatementLeadsOn ==
  ASSUME TypeInv, NEW m \in Moderators, stage[m] # "idle", todo[m] = {}, NEW x
  PROVE  CanGoOn(m, x)
<1>. USE DEF TypeInv, TypeOK, TaskInv
<1>1. CASE act[m] # "VIEW" /\ target[m] \notin mine[m]
  BY <1>1 DEF CanGoOn, Refused
<1>2. CASE act[m] = "VIEW" \/ target[m] \in mine[m]
  <2>1. StatementDone(m)
    BY <1>2 DEF StatementDone
  <2>2. CASE act[m] \in {"VIEW", "DECLINE"}
    <3>1. Statements(act[m]) = <<"report">> /\ stage[m] = "report"
      BY <2>2 DEF Statements
    <3>. QED
      BY <2>1, <3>1 DEF CanGoOn, Finished, Last
  <2>3. CASE act[m] = "REMOVE_LISTING"
    <3>1. Statements(act[m]) = <<"report", "listings", "siblings">>
      BY <2>3 DEF Statements
    <3>2. stage[m] \in {"report", "listings", "siblings"}
      BY <2>3
    <3>3. CASE stage[m] = "siblings"
      BY <2>1, <3>1, <3>3 DEF CanGoOn, Finished, Last
    <3>4. CASE stage[m] \in {"report", "listings"}
      <4>1. \E i \in 2..3 : stage[m] = (<<"report", "listings", "siblings">>)[i - 1]
        <5>1. CASE stage[m] = "report"
          BY <5>1, 2 \in 2..3
        <5>2. CASE stage[m] = "listings"
          BY <5>2, 3 \in 2..3
        <5>. QED
          BY <3>4, <5>1, <5>2
      <4>. QED
        BY <2>1, <3>1, <4>1 DEF CanGoOn
    <3>. QED
      BY <3>2, <3>3, <3>4
  <2>4. CASE act[m] = "BAN_USER"
    <3>1. Statements(act[m]) = <<"report", "seller", "listings", "siblings">>
      BY <2>4 DEF Statements
    <3>2. stage[m] \in {"report", "seller", "listings", "siblings"}
      OBVIOUS
    <3>3. CASE stage[m] = "siblings"
      BY <2>1, <3>1, <3>3 DEF CanGoOn, Finished, Last
    <3>4. CASE stage[m] \in {"report", "seller", "listings"}
      <4>1. \E i \in 2..4 : stage[m] = (<<"report", "seller", "listings", "siblings">>)[i - 1]
        <5>1. CASE stage[m] = "report"
          BY <5>1, 2 \in 2..4
        <5>2. CASE stage[m] = "seller"
          BY <5>2, 3 \in 2..4
        <5>3. CASE stage[m] = "listings"
          BY <5>3, 4 \in 2..4
        <5>. QED
          BY <3>4, <5>1, <5>2, <5>3
      <4>. QED
        BY <2>1, <3>1, <4>1 DEF CanGoOn
    <3>. QED
      BY <3>2, <3>3, <3>4
  <2>. QED
    BY <2>2, <2>3, <2>4 DEF Actions
<1>. QED
  BY <1>1, <1>2

-----------------------------------------------------------------------------
(* Theorems                                                                *)

\* The inductive invariant: its parts are kept together.
ModerationInv ==
  TypeInv /\ RowInv /\ LockInv /\ OnePendingPerReporter /\ TruthInv /\ CoverInv /\ LateInv

\* Before the first request every part holds.
LEMMA ModerationInit == Init => ModerationInv
<1> SUFFICES ASSUME Init PROVE ModerationInv
  OBVIOUS
<1>1. TypeInv
  BY ModerationAssumption DEF Init, TypeInv, TypeOK, TaskInv, Rows, Actions
<1>2. RowInv /\ LockInv /\ OnePendingPerReporter
  BY DEF Init, RowInv, LockInv, OnePendingPerReporter
<1>3. StatusTellsTheTruth /\ \A m \in Moderators : TakesDown(m)
  BY DEF Init, StatusTellsTheTruth, TakesDown, Removal, Ban
<1>4. CoverInv
  BY DEF Init, CoverInv, Covers
<1>5. LateInv
  BY ModerationAssumption DEF Init, LateInv
<1>6. QED
  BY <1>1, <1>2, <1>3, <1>4, <1>5 DEF ModerationInv, TruthInv

\* Every behaviour keeps the inductive invariant.
LEMMA ModerationInvariant == Spec => []ModerationInv
<1>1. ModerationInv /\ [Next]_vars => ModerationInv'
  BY TypeStep, RowStep, LockStep, PendingStep, TruthStep, CoverStep, LateStep DEF ModerationInv
<1>2. QED
  BY <1>1, ModerationInit, PTL DEF Spec

\* However moderators overlap, a report that says its listing was removed or its
\* seller banned says the truth, and every decision has its decider.
THEOREM StatusIsTrue == Spec => []StatusTellsTheTruth
<1>1. ModerationInv => StatusTellsTheTruth
  BY DEF ModerationInv, TruthInv
<1>2. QED
  BY <1>1, ModerationInvariant, PTL

\* A reporter has at most one pending report on a listing.
THEOREM OnePending == Spec => []OnePendingPerReporter
<1>1. ModerationInv => OnePendingPerReporter
  BY DEF ModerationInv
<1>2. QED
  BY <1>1, ModerationInvariant, PTL

\* What a removal or a ban leaves standing came too late for it.
THEOREM LeftoversRaced == Spec => []LeftoversOnlyWhenRaced
<1>1. ModerationInv => LeftoversOnlyWhenRaced
  BY DEF ModerationInv, LateInv, LeftoversOnlyWhenRaced
<1>2. QED
  BY <1>1, ModerationInvariant, PTL

\* The step of a decision changes only reports nobody has decided on.
LEMMA DecisionStep ==
  ModerationInv /\ [Next]_vars =>
    [\A r \in Reports :
       /\ status[r] \notin {"none", "PENDING"} =>
            status'[r] = status[r] /\ decider'[r] = decider[r]
       /\ seenBy[r] # Nobody => seenBy'[r] = seenBy[r]]_vars
<1> SUFFICES ASSUME ModerationInv, Next, NEW r \in Reports
             PROVE  /\ status[r] \notin {"none", "PENDING"} =>
                         status'[r] = status[r] /\ decider'[r] = decider[r]
                    /\ seenBy[r] # Nobody => seenBy'[r] = seenBy[r]
  BY DEF vars
<1>1. CASE UNCHANGED <<status, decider, seenBy>>
  BY <1>1
<1>2. ASSUME NEW q \in Reports, InsertReport(q)
      PROVE  status[q] = "none" /\ (r # q => status'[r] = status[r]) /\ UNCHANGED <<decider, seenBy>>
  BY <1>2 DEF InsertReport, ModerationInv, RowInv, TypeInv, TypeOK
<1>3. ASSUME NEW m \in Moderators, CommitModeration(m)
      PROVE  /\ status[r] \notin {"none", "PENDING"} =>
                  status'[r] = status[r] /\ decider'[r] = decider[r]
             /\ seenBy[r] # Nobody => seenBy'[r] = seenBy[r]
  <2>1. act[m] # "VIEW" /\ r \in mine[m] => status[r] = "PENDING"
    BY MineStands DEF ModerationInv
  <2>2. QED
    BY <1>3, <2>1 DEF CommitModeration
<1>4. ASSUME NEW l \in Listings, BeginListing(l) \/ CreateListing(l)
      PROVE  UNCHANGED <<status, decider, seenBy>>
  BY <1>4 DEF BeginListing, CreateListing
<1>5. ASSUME NEW q \in Reports, BeginReport(q)
      PROVE  UNCHANGED <<status, decider, seenBy>>
  BY <1>5 DEF BeginReport, rowVars
<1>6. ASSUME NEW m \in Moderators, NEW q \in Reports, NEW a \in Actions \cup {"VIEW"},
             BeginModeration(m, q, a)
      PROVE  UNCHANGED <<status, decider, seenBy>>
  BY <1>6 DEF BeginModeration, rowVars
<1>7. ASSUME NEW m \in Moderators, NEW x \in Rows, NextStatement(m) \/ LockRow(m, x)
      PROVE  UNCHANGED <<status, decider, seenBy>>
  BY <1>7 DEF NextStatement, LockRow, rowVars
<1>8. ASSUME NEW m \in Moderators, RefuseModeration(m) \/ AbortModeration(m) \/ BreakDeadlock(m)
      PROVE  UNCHANGED <<status, decider, seenBy>>
  BY <1>8 DEF RefuseModeration, AbortModeration, BreakDeadlock, rowVars
<1>9. ASSUME NEW m \in Moderators, NextStatement(m)
      PROVE  UNCHANGED <<status, decider, seenBy>>
  BY <1>9 DEF NextStatement, rowVars
<1>10. QED
  BY <1>1, <1>2, <1>3, <1>4, <1>5, <1>6, <1>7, <1>8, <1>9 DEF Next

\* A report is decided once, and who saw it first stays.
THEOREM DecisionsStand == Spec => DecidedOnce
<1>1. ModerationInv /\ [Next]_vars =>
        [\A r \in Reports :
           /\ status[r] \notin {"none", "PENDING"} =>
                status'[r] = status[r] /\ decider'[r] = decider[r]
           /\ seenBy[r] # Nobody => seenBy'[r] = seenBy[r]]_vars
  BY DecisionStep
<1>2. QED
  BY <1>1, ModerationInvariant, PTL DEF Spec, DecidedOnce

\* In whatever order the statements of any number of requests try their rows, one of
\* the requests can go on, or all of them wait for one another: every request that
\* cannot go on waits for another that holds a lock and is open as well.
THEOREM SomebodyGoesOn == Spec => []SomeoneGoesOn
<1>1. Init => OwnInv
  BY DEF Init, OwnInv
<1>2. TypeInv /\ OwnInv => SomeoneGoesOn
  <2>. SUFFICES ASSUME TypeInv, OwnInv,
                       NEW m \in Moderators, stage[m] # "idle" \/ mine[m] # {},
                       NEW tries \in [Moderators -> Rows],
                       \A n \in Moderators : todo[n] # {} => tries[n] \in todo[n],
                       \A n \in Moderators : stage[n] # "idle" => ~CanGoOn(n, tries[n])
                PROVE  \E S \in SUBSET Moderators :
                         /\ S # {}
                         /\ \A n \in S : \E k \in S \ {n} : WaitsFor(n, tries[n], k)
    BY DEF SomeoneGoesOn
  <2>. DEFINE Open == {n \in Moderators : stage[n] # "idle"}
  <2>1. m \in Open
    BY DEF TypeInv, TaskInv
  <2>2. ASSUME NEW n \in Open
        PROVE  \E k \in Open \ {n} : WaitsFor(n, tries[n], k)
    <3>1. todo[n] # {}
      BY StatementLeadsOn
    <3>2. tries[n] \in todo[n] /\ Locked(tries[n])
      BY <3>1 DEF CanGoOn
    <3>3. PICK k \in Moderators : tries[n] \in mine[k]
      BY <3>2 DEF Locked
    <3>4. k # n /\ stage[k] # "idle"
      BY <3>2, <3>3 DEF OwnInv, TypeInv, TaskInv
    <3>. QED
      BY <3>2, <3>3, <3>4 DEF WaitsFor
  <2>. QED
    BY <2>1, <2>2
<1>. QED
  BY <1>1, <1>2, OwnStep, ModerationInvariant, PTL DEF Spec, ModerationInv

-----------------------------------------------------------------------------
(* Moderation implements Docket                                            *)

\* The published listings tell live and removed ones as the rows do, so that a row
\* stands for Docket as it does for the statements.
LEMMA StandsInBook ==
  /\ \A l \in Listings : Published[l] = "live" <=> listing[l] = "live"
  /\ \A l \in Listings : Published[l] = "removed" <=> listing[l] = "removed"
  /\ \A x : Book!Standing(x) <=> Standing(x)
<1>1. \A l \in Listings : Published[l] = IF listing[l] = "posting" THEN "none" ELSE listing[l]
  BY DEF Published
<1>2. QED
  BY <1>1 DEF Book!Standing, Standing

\* A decision covers for Docket what its request may update.
LEMMA ReachIsCovered ==
  ASSUME TypeInv, NEW m \in Moderators, stage[m] # "idle", act[m] # "VIEW"
  PROVE  Reach(m) = Book!Covered(target[m], act[m])
<1>1. target[m] \in Reports /\ act[m] \in Actions
  BY DEF TypeInv, TypeOK, TaskInv
<1>2. CASE act[m] = "DECLINE"
  BY <1>2 DEF Reach, Removal, Ban, Book!Covered
<1>3. CASE act[m] = "REMOVE_LISTING"
  BY <1>1, <1>3, TargetType
  DEF Reach, Removal, Ban, Siblings, ScopeListings, TargetListing, Book!Covered
<1>4. CASE act[m] = "BAN_USER"
  BY <1>1, <1>4, TargetType
  DEF Reach, Removal, Ban, Siblings, ScopeListings, TargetListing, TargetSeller, Book!Covered
<1>5. QED
  BY <1>1, <1>2, <1>3, <1>4 DEF Actions

\* What a decision leaves standing of all that it covers came too late for it; the
\* seller of a ban and the listing of a removal do not.
LEMMA DecisionLeaves ==
  ASSUME ModerationInv, NEW m \in Moderators, CommitModeration(m), act[m] # "VIEW"
  PROVE  /\ late \subseteq late'
         /\ late' \ late \subseteq Reach(m) \ (mine[m] \cup Sellers)
         /\ \A x \in Reach(m) \ mine[m] : Standing(x) => x \in late'
         /\ Removal(m) => TargetListing(m) \in mine[m] \/ listing[TargetListing(m)] = "removed"
<1> USE DEF ModerationInv
<1>1. /\ stage[m] # "idle" /\ todo[m] = {} /\ target[m] \in mine[m]
      /\ Removal(m) \/ Ban(m) => stage[m] = "siblings"
  BY CommitOutcome
<1>2. target[m] \in Reports /\ TargetListing(m) \in Listings /\ TargetSeller(m) \in Sellers
  BY <1>1, TargetType
<1>3. CASE ~(Removal(m) \/ Ban(m))
  <2>1. late' = late
    BY <1>3 DEF CommitModeration, Removal, Ban
  <2>2. Reach(m) = {target[m]}
    BY <1>3 DEF Reach
  <2>3. QED
    BY <1>1, <1>3, <2>1, <2>2
<1>4. CASE Removal(m) \/ Ban(m)
  <2>1. late' = late \cup Unseen(m)
    BY <1>4 DEF CommitModeration, Removal, Ban
  <2>2. Unseen(m) = {x \in ScopeListings(m) \cup Siblings(m) :
                       \/ x \in Listings /\ listing[x] = "posting"
                       \/ x \in Reports /\ filing[x] = "insert"
                       \/ Standing(x) /\ x \notin known[m] \cup mine[m]}
    BY <1>1, ScopeOf DEF Unseen
  <2>3. \A x \in Unseen(m) : x \notin mine[m] \cup Sellers
    BY <1>1, <2>2, MineStands, ScopeOf, ModerationAssumption DEF RowInv
  <2>4. ScopeListings(m) \cup Siblings(m) \subseteq Reach(m)
    BY <1>4 DEF Reach
  <2>5. Ban(m) => TargetSeller(m) \in mine[m] \/ seller[TargetSeller(m)] = "banned"
    BY <1>1 DEF TruthInv, TakesDown
  <2>6. Removal(m) => TargetListing(m) \in mine[m] \/ listing[TargetListing(m)] = "removed"
    BY <1>1 DEF TruthInv, TakesDown
  <2>7. ASSUME NEW x \in Reach(m) \ mine[m], Standing(x)
        PROVE  x \in Unseen(m)
    <3>1. x \in ScopeListings(m) \cup Siblings(m)
      <4>1. x = TargetSeller(m) => ~Ban(m)
        BY <1>2, <2>5, <2>7, ModerationAssumption DEF Standing
      <4>2. QED
        BY <1>1, <1>4, <2>7, <4>1 DEF Reach
    <3>2. CASE x \in ScopeListings(m)
      <4>1. x \in Listings /\ listing[x] = "live"
        BY <1>1, <2>7, <3>2, ScopeOf, ModerationAssumption DEF Standing
      <4>2. x \notin known[m]
        BY <1>1, <1>4, <2>7, <3>2, <4>1 DEF CoverInv, Covers
      <4>3. QED
        BY <2>2, <2>7, <3>2, <4>2
    <3>3. CASE x \in Siblings(m)
      <4>1. x \in Reports /\ status[x] = "PENDING"
        BY <1>1, <2>7, <3>3, ScopeOf, ModerationAssumption DEF Standing
      <4>2. x \notin known[m]
        BY <1>1, <1>4, <2>7, <3>3, <4>1 DEF CoverInv, Covers
      <4>3. QED
        BY <2>2, <2>7, <3>3, <4>2
    <3>4. QED
      BY <3>1, <3>2, <3>3
  <2>8. QED
    BY <2>1, <2>2, <2>3, <2>4, <2>6, <2>7
<1>5. QED
  BY <1>3, <1>4

\* The commit of a decision is a decision of Docket.
LEMMA CommitDecides ==
  ASSUME ModerationInv, NEW m \in Moderators, CommitModeration(m), act[m] # "VIEW"
  PROVE  target[m] \in Reports /\ act[m] \in Actions /\ Book!Decide(m, target[m], act[m])
<1> USE DEF ModerationInv
<1>1. stage[m] # "idle" /\ target[m] \in mine[m]
  BY CommitOutcome
<1>2. /\ target[m] \in Reports /\ act[m] \in Actions
      /\ TargetListing(m) \in Listings
  BY <1>1, TargetType DEF TypeInv, TypeOK, TaskInv
<1>3. Reach(m) = Book!Covered(target[m], act[m])
  BY <1>1, ReachIsCovered
<1>4. /\ mine[m] \subseteq {x \in Reach(m) : Standing(x)}
      /\ status[target[m]] = "PENDING"
  BY <1>1, <1>2, MineStands DEF LockInv, Eligible
<1>5. mine[m] \in SUBSET {x \in Book!Covered(target[m], act[m]) : Book!Standing(x)}
  BY <1>3, <1>4, StandsInBook
<1>6. /\ status' = [q \in Reports |-> IF q \in mine[m] THEN Outcome(act[m]) ELSE status[q]]
      /\ decider' = [q \in Reports |-> IF q \in mine[m] THEN m ELSE decider[q]]
      /\ seenBy' = [q \in Reports |->
                      IF q \in mine[m] /\ seenBy[q] = Nobody THEN m ELSE seenBy[q]]
      /\ listing' = [l \in Listings |-> IF l \in mine[m] THEN "removed" ELSE listing[l]]
      /\ seller' = [u \in Sellers |-> IF u \in mine[m] THEN "banned" ELSE seller[u]]
      /\ about' = about
  BY DEF CommitModeration
<1>7. Published' = [l \in Listings |-> IF l \in mine[m] THEN "removed" ELSE Published[l]]
  BY <1>6 DEF Published
<1>8. Outcome(act[m]) = Book!Outcome(act[m])
  BY <1>2 DEF Outcome, Book!Outcome, Actions
<1>9. /\ late \subseteq late'
      /\ late' \ late \subseteq Book!Covered(target[m], act[m]) \ (mine[m] \cup Sellers)
      /\ \A x \in Book!Covered(target[m], act[m]) \ mine[m] : Book!Standing(x) => x \in late'
  BY <1>3, DecisionLeaves, StandsInBook
<1>10. act[m] = "REMOVE_LISTING" => Published'[about[target[m]].listing] = "removed"
  BY <1>2, <1>7, DecisionLeaves, StandsInBook DEF Removal, TargetListing
<1>11. QED
  BY <1>1, <1>2, <1>4, <1>5, <1>6, <1>7, <1>8, <1>9, <1>10 DEF Book!Decide

\* A commit that only marks a report as seen is that of Docket, or changes nothing.
LEMMA CommitSees ==
  ASSUME ModerationInv, NEW m \in Moderators, CommitModeration(m), act[m] = "VIEW"
  PROVE  (\E r \in Reports : Book!See(m, r)) \/ UNCHANGED Book!vars
<1> USE DEF ModerationInv
<1>1. /\ stage[m] # "idle" /\ target[m] \in Reports
      /\ mine[m] \cap Reports \subseteq {target[m]}
  BY CommitOutcome, TargetType, MineKinds DEF Removal, Ban
<1>2. /\ seenBy' = [r \in Reports |->
                      IF r \in mine[m] /\ seenBy[r] = Nobody THEN m ELSE seenBy[r]]
      /\ UNCHANGED <<about, seller, listing, status, decider, late>>
  BY DEF CommitModeration
<1>3. Published' = Published
  BY <1>2 DEF Published
<1>4. CASE target[m] \in mine[m] /\ seenBy[target[m]] = Nobody
  <2>1. seenBy' = [seenBy EXCEPT ![target[m]] = m]
    <3>1. \A r \in Reports : r \in mine[m] /\ seenBy[r] = Nobody <=> r = target[m]
      BY <1>1, <1>4
    <3>2. seenBy \in [Reports -> Moderators \cup {Nobody}]
      BY DEF TypeInv, TypeOK
    <3>3. QED
      BY <1>2, <3>1, <3>2
  <2>2. status[target[m]] # "none"
    BY <1>1 DEF RowInv
  <2>3. QED
    BY <1>1, <1>2, <1>3, <1>4, <2>1, <2>2 DEF Book!See
<1>5. CASE ~(target[m] \in mine[m] /\ seenBy[target[m]] = Nobody)
  <2>1. seenBy' = seenBy
    BY <1>1, <1>2, <1>5 DEF TypeInv, TypeOK
  <2>2. QED
    BY <1>2, <1>3, <2>1 DEF Book!vars
<1>6. QED
  BY <1>4, <1>5

\* Every step of Moderation is a step of Docket or leaves it as it is.
LEMMA DocketStep ==
  ASSUME ModerationInv, [Next]_vars
  PROVE  [Book!Next]_(Book!vars)
<1>1. ASSUME NEW m \in Moderators, CommitModeration(m)
      PROVE  Book!Next \/ UNCHANGED Book!vars
  <2>1. CASE act[m] = "VIEW"
    <3>1. (\E r \in Reports : Book!See(m, r)) \/ UNCHANGED Book!vars
      BY <1>1, <2>1, CommitSees
    <3>2. QED
      BY <3>1 DEF Book!Next
  <2>2. CASE act[m] # "VIEW"
    <3>1. target[m] \in Reports /\ act[m] \in Actions /\ Book!Decide(m, target[m], act[m])
      BY <1>1, <2>2, CommitDecides
    <3>2. QED
      BY <3>1 DEF Book!Next, Actions
  <2>3. QED
    BY <2>1, <2>2
<1> USE DEF ModerationInv, TypeInv, TypeOK, Book!vars, rowVars, taskVars
<1>2. ASSUME NEW l \in Listings, BeginListing(l)
      PROVE  UNCHANGED Book!vars
  BY <1>2 DEF BeginListing, Published
<1>3. ASSUME NEW l \in Listings, CreateListing(l)
      PROVE  Book!Publish(l)
  <2>1. Published' = [Published EXCEPT ![l] = "live"] /\ Published[l] = "none"
    BY <1>3 DEF CreateListing, Published
  <2>2. seller[Owner[l]] = "banned" => l \in late
    BY <1>3 DEF CreateListing, LateInv
  <2>3. QED
    BY <1>3, <2>1, <2>2 DEF CreateListing, Book!Publish
<1>4. ASSUME NEW r \in Reports, BeginReport(r)
      PROVE  UNCHANGED Book!vars
  BY <1>4 DEF BeginReport, Published
<1>5. ASSUME NEW r \in Reports, InsertReport(r)
      PROVE  Book!File(r) \/ UNCHANGED Book!vars
  <2>1. Published' = Published /\ about[r].listing \in Listings
    BY <1>5 DEF InsertReport, Published
  <2>2. CASE Twins(r) # {}
    BY <1>5, <2>1, <2>2 DEF InsertReport
  <2>3. CASE Twins(r) = {}
    <3>1. status[r] = "none" /\ status' = [status EXCEPT ![r] = "PENDING"]
      BY <1>5, <2>3 DEF InsertReport, RowInv
    <3>2. \A q \in Reports : status[q] = "PENDING" => about[q] # about[r]
      BY <2>3 DEF Twins
    <3>3. Published[about[r].listing] # "none"
      BY <1>5, <2>1 DEF InsertReport, RowInv, Published
    <3>4. Published[about[r].listing] = "removed" => r \in late
      BY <1>5, <2>1, StandsInBook DEF InsertReport, LateInv
    <3>5. QED
      BY <1>5, <2>1, <3>1, <3>2, <3>3, <3>4 DEF InsertReport, Book!File
  <2>4. QED
    BY <2>2, <2>3
<1>6. ASSUME NEW m \in Moderators, NEW r \in Reports, NEW a \in Actions \cup {"VIEW"},
             BeginModeration(m, r, a)
      PROVE  UNCHANGED Book!vars
  BY <1>6 DEF BeginModeration, Published
<1>7. ASSUME NEW m \in Moderators, NextStatement(m)
      PROVE  UNCHANGED Book!vars
  BY <1>7 DEF NextStatement, Published
<1>8. ASSUME NEW m \in Moderators, NEW x \in Rows, LockRow(m, x)
      PROVE  UNCHANGED Book!vars
  BY <1>8 DEF LockRow, Published
<1>9. ASSUME NEW m \in Moderators, RefuseModeration(m) \/ AbortModeration(m) \/ BreakDeadlock(m)
      PROVE  UNCHANGED Book!vars
  BY <1>9 DEF RefuseModeration, AbortModeration, BreakDeadlock, Published
<1>10. CASE UNCHANGED vars
  BY <1>10 DEF vars, Published
<1>11. QED
  BY <1>1, <1>2, <1>3, <1>4, <1>5, <1>6, <1>7, <1>8, <1>9, <1>10 DEF Next, Book!Next

\* However the statements of any number of moderators overlap, what they commit is
\* a sequence of whole decisions on pending reports, and what a decision leaves
\* behind it cannot have seen.
THEOREM DocketIsKept == Spec => KeepsDocket
<1>1. Init => Book!Init
  BY DEF Init, Book!Init, Published
<1>2. ModerationInv /\ [Next]_vars => [Book!Next]_(Book!vars)
  BY DocketStep
<1>3. QED
  BY <1>1, <1>2, ModerationInvariant, PTL DEF Spec, KeepsDocket, Book!Spec

-----------------------------------------------------------------------------
(* What Docket is worth                                                    *)

\* What a reader of Docket can rely on
DocketInv ==
  /\ about \in [Reports -> [listing : Listings, reporter : Reporters]]
  /\ seller \in [Sellers -> {"live", "banned"}]
  /\ Published \in [Listings -> {"none", "live", "removed"}]
  /\ status \in [Reports -> {"none", "PENDING", "DECLINED", "LISTING_REMOVED", "USER_BANNED"}]
  /\ seenBy \in [Reports -> Moderators \cup {Nobody}]
  /\ decider \in [Reports -> Moderators \cup {Nobody}]
  /\ late \subseteq Reports \cup Listings
  /\ StatusTellsTheTruth /\ LeftoversOnlyWhenRaced /\ OnePendingPerReporter

\* What decision a of m on r makes of the rows when it hits some of those it covers
Decided(m, r, a, hit) ==
  /\ \A q \in hit \cap Reports : q \in Book!Covered(r, a) /\ status[q] = "PENDING"
  /\ hit \cap (Listings \cup Sellers) \subseteq Book!Covered(r, a)
  /\ \A x \in Book!Covered(r, a) \ hit : Standing(x) => x \in late' /\ x \notin Sellers
  /\ status' = [q \in Reports |-> IF q \in hit THEN Outcome(a) ELSE status[q]]
  /\ decider' = [q \in Reports |-> IF q \in hit THEN m ELSE decider[q]]
  /\ seenBy' = [q \in Reports |->
                  IF q \in hit /\ seenBy[q] = Nobody THEN m ELSE seenBy[q]]
  /\ Published' = [l \in Listings |-> IF l \in hit THEN "removed" ELSE Published[l]]
  /\ seller' = [u \in Sellers |-> IF u \in hit THEN "banned" ELSE seller[u]]
  /\ late \subseteq late' /\ late' \subseteq Reports \cup Listings
  /\ a = "REMOVE_LISTING" => Published'[about[r].listing] = "removed"
  /\ about' = about

\* A decision of Docket hits such rows.
LEMMA DecideOutcome ==
  ASSUME DocketInv, NEW m \in Moderators, NEW r \in Reports, NEW a \in Actions, Book!Decide(m, r, a)
  PROVE  \E hit \in SUBSET (Reports \cup Listings \cup Sellers) : Decided(m, r, a, hit)
<1>1. PICK hit \in SUBSET {x \in Book!Covered(r, a) : Book!Standing(x)} :
        /\ r \in hit
        /\ status' = [q \in Reports |-> IF q \in hit THEN Book!Outcome(a) ELSE status[q]]
        /\ decider' = [q \in Reports |-> IF q \in hit THEN m ELSE decider[q]]
        /\ seenBy' = [q \in Reports |->
                        IF q \in hit /\ seenBy[q] = Nobody THEN m ELSE seenBy[q]]
        /\ Published' = [l \in Listings |-> IF l \in hit THEN "removed" ELSE Published[l]]
        /\ seller' = [u \in Sellers |-> IF u \in hit THEN "banned" ELSE seller[u]]
        /\ late \subseteq late'
        /\ late' \ late \subseteq Book!Covered(r, a) \ (hit \cup Sellers)
        /\ \A x \in Book!Covered(r, a) \ hit : Book!Standing(x) => x \in late'
        /\ a = "REMOVE_LISTING" => Published'[about[r].listing] = "removed"
        /\ UNCHANGED about
  BY DEF Book!Decide
<1>2. about[r].listing \in Listings /\ Owner[about[r].listing] \in Sellers
  BY ModerationAssumption DEF DocketInv
<1>3. Book!Covered(r, a) \subseteq Reports \cup Listings \cup Sellers
  BY <1>2 DEF Book!Covered, Actions
<1>4. Book!Outcome(a) = Outcome(a)
  BY DEF Book!Outcome, Outcome, Actions
<1>5. \A x : Book!Standing(x) <=> Standing(x)
  BY StandsInBook
<1>6. \A q \in hit \cap Reports : status[q] = "PENDING"
  BY <1>1, <1>5, ModerationAssumption DEF Standing
<1>7. late' \subseteq Reports \cup Listings /\ late' \cap Sellers = {}
  BY <1>1, <1>3, ModerationAssumption DEF DocketInv
<1>8. QED
  BY <1>1, <1>3, <1>4, <1>5, <1>6, <1>7 DEF Decided

\* A decision keeps what Docket promises: its reports are decided with what they
\* report, and what it covers and leaves is late.
LEMMA DecideKeeps ==
  ASSUME DocketInv, NEW m \in Moderators, NEW r \in Reports, NEW a \in Actions, Book!Decide(m, r, a)
  PROVE  DocketInv'
<1>1. PICK hit \in SUBSET (Reports \cup Listings \cup Sellers) : Decided(m, r, a, hit)
  BY DecideOutcome
<1>2. Outcome(a) \in {"DECLINED", "LISTING_REMOVED", "USER_BANNED"}
  BY DEF Outcome, Actions
<1>3. /\ \A q \in Reports : about[q].listing \in Listings /\ Owner[about[q].listing] \in Sellers
      /\ \A l \in Listings : Owner[l] \in Sellers
      /\ Reports \cap Listings = {} /\ Reports \cap Sellers = {} /\ Listings \cap Sellers = {}
      /\ Nobody \notin Moderators
  BY ModerationAssumption DEF DocketInv
<1>4. \A l \in Listings : /\ listing[l] = "live" <=> Published[l] = "live"
                          /\ listing[l] = "removed" <=> Published[l] = "removed"
                          /\ listing'[l] = "live" <=> Published'[l] = "live"
                          /\ listing'[l] = "removed" <=> Published'[l] = "removed"
  BY DEF Published
<1>5. /\ about' \in [Reports -> [listing : Listings, reporter : Reporters]]
      /\ seller' \in [Sellers -> {"live", "banned"}]
      /\ Published' \in [Listings -> {"none", "live", "removed"}]
      /\ status' \in [Reports -> {"none", "PENDING", "DECLINED", "LISTING_REMOVED", "USER_BANNED"}]
      /\ seenBy' \in [Reports -> Moderators \cup {Nobody}]
      /\ decider' \in [Reports -> Moderators \cup {Nobody}]
      /\ late' \subseteq Reports \cup Listings
  BY <1>1, <1>2 DEF Decided, DocketInv
<1>6. ASSUME NEW q \in Reports
      PROVE  /\ status'[q] = "LISTING_REMOVED" => listing'[about[q].listing] = "removed"
             /\ status'[q] = "USER_BANNED" => seller'[Owner[about[q].listing]] = "banned"
             /\ status'[q] \notin {"none", "PENDING"} <=> decider'[q] # Nobody
             /\ decider'[q] # Nobody => seenBy'[q] # Nobody
  <2>1. CASE q \notin hit
    BY <1>1, <1>3, <1>4, <2>1 DEF Decided, DocketInv, StatusTellsTheTruth
  <2>2. CASE q \in hit
    <3>1. q \in Book!Covered(r, a) /\ status'[q] = Outcome(a) /\ decider'[q] = m
      BY <1>1, <2>2 DEF Decided
    <3>2. seenBy'[q] # Nobody
      BY <1>1, <1>3, <2>2 DEF Decided
    <3>3. CASE a = "DECLINE"
      BY <1>2, <1>3, <3>1, <3>2, <3>3 DEF Outcome
    <3>4. CASE a = "REMOVE_LISTING"
      <4>1. about[q].listing = about[r].listing
        BY <1>3, <3>1, <3>4 DEF Book!Covered
      <4>2. QED
        BY <1>1, <1>3, <1>4, <3>1, <3>2, <3>4, <4>1 DEF Decided, Outcome
    <3>5. CASE a = "BAN_USER"
      <4>1. Owner[about[q].listing] = Owner[about[r].listing]
        BY <1>3, <3>1, <3>5 DEF Book!Covered
      <4>2. Owner[about[r].listing] \in Book!Covered(r, a)
        BY <3>5 DEF Book!Covered
      <4>3. seller'[Owner[about[r].listing]] = "banned"
        BY <1>1, <1>3, <4>2 DEF Decided, Standing, DocketInv
      <4>4. QED
        BY <1>3, <3>1, <3>2, <3>5, <4>1, <4>3 DEF Outcome
    <3>6. QED
      BY <3>3, <3>4, <3>5 DEF Actions
  <2>3. QED
    BY <2>1, <2>2
<1>7. ASSUME NEW l \in Listings, listing'[l] = "live", seller'[Owner[l]] = "banned"
      PROVE  l \in late'
  <2>1. l \notin hit /\ listing[l] = "live"
    BY <1>1, <1>4, <1>7 DEF Decided
  <2>2. CASE seller[Owner[l]] = "banned"
    BY <1>1, <2>1, <2>2 DEF Decided, DocketInv, LeftoversOnlyWhenRaced
  <2>3. CASE seller[Owner[l]] # "banned"
    <3>1. Owner[l] \in Book!Covered(r, a)
      BY <1>1, <1>3, <1>7, <2>3 DEF Decided
    <3>2. l \in Book!Covered(r, a)
      BY <1>3, <3>1 DEF Book!Covered, Actions
    <3>3. QED
      BY <1>1, <2>1, <3>2 DEF Decided, Standing
  <2>4. QED
    BY <2>2, <2>3
<1>8. ASSUME NEW q \in Reports, status'[q] = "PENDING", listing'[about[q].listing] = "removed"
      PROVE  q \in late'
  <2>1. q \notin hit /\ status[q] = "PENDING"
    BY <1>1, <1>2, <1>8 DEF Decided
  <2>2. CASE listing[about[q].listing] = "removed"
    BY <1>1, <2>1, <2>2 DEF Decided, DocketInv, LeftoversOnlyWhenRaced
  <2>3. CASE listing[about[q].listing] # "removed"
    <3>1. about[q].listing \in Book!Covered(r, a)
      BY <1>1, <1>3, <1>4, <1>8, <2>3 DEF Decided
    <3>2. q \in Book!Covered(r, a)
      BY <1>3, <3>1 DEF Book!Covered, Actions
    <3>3. QED
      BY <1>1, <2>1, <3>2 DEF Decided, Standing
  <2>4. QED
    BY <2>2, <2>3
<1>9. OnePendingPerReporter'
  <2>1. \A q \in Reports : status'[q] = "PENDING" => status[q] = "PENDING"
    BY <1>1, <1>2 DEF Decided
  <2>2. QED
    BY <1>1, <2>1 DEF Decided, DocketInv, OnePendingPerReporter, Twins
<1>10. QED
  BY <1>1, <1>5, <1>6, <1>7, <1>8, <1>9 DEF Decided, DocketInv, StatusTellsTheTruth, LeftoversOnlyWhenRaced

\* So does every step.
LEMMA DocketKeeps == DocketInv /\ [Book!Next]_(Book!vars) => DocketInv'
<1> SUFFICES ASSUME DocketInv, [Book!Next]_(Book!vars) PROVE DocketInv'
  OBVIOUS
<1>1. \A l \in Listings : /\ listing[l] = "live" <=> Published[l] = "live"
                          /\ listing[l] = "removed" <=> Published[l] = "removed"
                          /\ listing'[l] = "live" <=> Published'[l] = "live"
                          /\ listing'[l] = "removed" <=> Published'[l] = "removed"
  BY DEF Published
<1>2. /\ \A q \in Reports : about[q].listing \in Listings /\ Owner[about[q].listing] \in Sellers
      /\ \A l \in Listings : Owner[l] \in Sellers
  BY ModerationAssumption DEF DocketInv
<1>3. ASSUME NEW l \in Listings, Book!Publish(l)
      PROVE  DocketInv'
  BY <1>1, <1>2, <1>3
  DEF Book!Publish, DocketInv, StatusTellsTheTruth, LeftoversOnlyWhenRaced,
      OnePendingPerReporter, Twins
<1>4. ASSUME NEW r \in Reports, Book!File(r)
      PROVE  DocketInv'
  <2>1. /\ status[r] = "none" /\ status' = [status EXCEPT ![r] = "PENDING"]
        /\ \A q \in Reports : status[q] = "PENDING" => about[q] # about[r]
        /\ Published[about[r].listing] = "removed" => r \in late
        /\ UNCHANGED <<about, seller, Published, seenBy, decider, late>>
    BY <1>4 DEF Book!File
  <2>2. OnePendingPerReporter'
    <3>1. \A q \in Reports :
            about[q].listing = about[r].listing /\ about[q].reporter = about[r].reporter
              => about[q] = about[r]
      BY DEF DocketInv
    <3>2. \A q \in Reports : status'[q] = "PENDING" <=> status[q] = "PENDING" \/ q = r
      BY <2>1 DEF DocketInv
    <3>3. \A q, p \in Reports :
            /\ status[q] = "PENDING" /\ status[p] = "PENDING"
            /\ about[q].listing = about[p].listing /\ about[q].reporter = about[p].reporter
            => q = p
      BY DEF DocketInv, OnePendingPerReporter, Twins
    <3>4. QED
      BY <2>1, <3>1, <3>2, <3>3 DEF OnePendingPerReporter, Twins
  <2>3. QED
    BY <1>1, <1>2, <2>1, <2>2 DEF DocketInv, StatusTellsTheTruth, LeftoversOnlyWhenRaced
<1>5. ASSUME NEW m \in Moderators, NEW r \in Reports, Book!See(m, r)
      PROVE  DocketInv'
  <2>1. /\ seenBy' = [seenBy EXCEPT ![r] = m]
        /\ UNCHANGED <<about, seller, Published, status, decider, late>>
    BY <1>5 DEF Book!See
  <2>2. seenBy' \in [Reports -> Moderators \cup {Nobody}]
    BY <2>1 DEF DocketInv
  <2>3. \A q \in Reports : seenBy[q] # Nobody => seenBy'[q] # Nobody
    BY <2>1, ModerationAssumption DEF DocketInv
  <2>4. StatusTellsTheTruth'
    BY <1>1, <1>2, <2>1, <2>3 DEF DocketInv, StatusTellsTheTruth
  <2>5. LeftoversOnlyWhenRaced'
    BY <1>1, <1>2, <2>1 DEF DocketInv, LeftoversOnlyWhenRaced
  <2>6. OnePendingPerReporter'
    BY <2>1 DEF DocketInv, OnePendingPerReporter, Twins
  <2>7. QED
    BY <2>1, <2>2, <2>4, <2>5, <2>6 DEF DocketInv
<1>6. CASE UNCHANGED Book!vars
  BY <1>1, <1>2, <1>6
  DEF Book!vars, DocketInv, StatusTellsTheTruth, LeftoversOnlyWhenRaced,
      OnePendingPerReporter, Twins
<1>7. QED
  BY <1>3, <1>4, <1>5, <1>6, DecideKeeps DEF Book!Next, Actions

\* Whoever reads Docket alone knows that every status is true, that what is left
\* standing came too late, and that a reporter has one pending report on a listing:
\* with DocketIsKept these hold of Moderation, and nothing in Docket is idle.
THEOREM DocketSuffices ==
  KeepsDocket => [](StatusTellsTheTruth /\ LeftoversOnlyWhenRaced /\ OnePendingPerReporter)
<1>1. Book!Init => DocketInv
  <2> SUFFICES ASSUME Book!Init PROVE DocketInv
    OBVIOUS
  <2>1. \A l \in Listings : listing[l] # "live" /\ listing[l] # "removed"
    BY StandsInBook DEF Book!Init
  <2>2. QED
    BY <2>1 DEF Book!Init, DocketInv, StatusTellsTheTruth, LeftoversOnlyWhenRaced,
                OnePendingPerReporter, Twins
<1>2. DocketInv => StatusTellsTheTruth /\ LeftoversOnlyWhenRaced /\ OnePendingPerReporter
  BY DEF DocketInv
<1>3. QED
  BY <1>1, <1>2, DocketKeeps, PTL DEF KeepsDocket, Book!Spec
=============================================================================
