----------------------------- MODULE Identities -----------------------------
(***************************************************************************)
(* Who owns which e-mail address, username, phone number and Google        *)
(* identity: AuthService.register and google_login, UsersService           *)
(* .set_username and update_profile, and bans.                             *)
(*                                                                         *)
(* A request reads whether a value is free in queries of its own, which do *)
(* not see banned (soft-deleted) users, and then writes in one step: its   *)
(* statements up to the commit, which block on a row or index entry of     *)
(* another transaction until that one ends.  The unique constraints, which *)
(* do see banned users, have the last word: the driver's IntegrityError,   *)
(* which only set_username catches.                                        *)
(*                                                                         *)
(* A Google login first gets its token verified: GoogleKeys.               *)
(* The account that request r creates is called r too.                     *)
(***************************************************************************)
EXTENDS GoogleKeys

CONSTANTS
  Initial,   \* accounts there are at first
  Emails, Usernames, Phones,
  Subs,      \* Google's "sub" of a person
  Nothing    \* NULL

Requests == Callers
Accounts == Initial \cup Requests

ASSUME IdentitiesAssumption ==
  /\ Initial \cap Requests = {}
  /\ Nothing \notin Emails \cup Usernames \cup Phones \cup Subs \cup Accounts
  /\ Cardinality(Emails) > 1 /\ Cardinality(Initial) < Cardinality(Emails)

VARIABLES
  rows,     \* the accounts
  row,      \* row[a] : the account's unique columns
  linked,   \* the Google identities: <<sub, account>>
  banned,   \* accounts with a deleted_at
  pc,
  want,     \* want[r] : the values r asks for
  user,     \* user[r] : the account r works on
  barred,   \* history: barred[r], the accounts that were banned when r began
  beside    \* history: pairs of requests of which one began while the other ran

tables   == <<rows, row, linked, banned>>
requests == <<want, user, barred, beside>>
accVars  == <<tables, pc, requests>>
vars     == <<keyVars, accVars>>

Columns  == [email : Emails \cup {Nothing}, name : Usernames \cup {Nothing},
             phone : Phones \cup {Nothing}]
Values   == [email : Emails \cup {Nothing}, name : Usernames \cup {Nothing},
             phone : Phones \cup {Nothing}, sub : Subs \cup {Nothing}]
NoValues == [email |-> Nothing, name |-> Nothing, phone |-> Nothing, sub |-> Nothing]
Running  == {"verify", "identity", "user", "email", "name", "phone",
             "create", "link", "touch", "update"}

TypeOK ==
  /\ KeysTypeOK
  /\ rows \subseteq Accounts /\ Initial \subseteq rows /\ banned \subseteq rows
  /\ row \in [Accounts -> Columns]
  /\ linked \subseteq Subs \X rows
  /\ pc \in [Requests -> Running \cup {"new", "done", "refused", "failed", "died"}]
  /\ want \in [Requests -> Values]
  /\ user \in [Requests -> Accounts \cup {Nothing}]
  /\ barred \in [Requests -> SUBSET Accounts]
  /\ beside \subseteq SUBSET Requests

\* The accounts there are have an e-mail address each and nothing else.
Init ==
  /\ KeysInit
  /\ rows = Initial
  /\ row \in {f \in [Accounts -> Columns] :
                /\ \A a \in Accounts : f[a].name = Nothing /\ f[a].phone = Nothing
                /\ \A a \in Accounts : f[a].email = Nothing <=> a \notin Initial
                /\ \A a, b \in Initial : f[a].email = f[b].email => a = b}
  /\ linked = {} /\ banned = {}
  /\ pc = [r \in Requests |-> "new"]
  /\ want = [r \in Requests |-> NoValues]
  /\ user = [r \in Requests |-> Nothing]
  /\ barred = [r \in Requests |-> {}]
  /\ beside = {}

-----------------------------------------------------------------------------
(* The tables                                                              *)

\* get_by_email, get_by_username, get_by_phone, get_by_id: not banned
Alive == rows \ banned

Owners(column, value) == {a \in Alive : row[a][column] = value}

\* The unique constraints of users, which bans do not lift
Taken(a, new) ==
  \E b \in rows \ {a} : \E column \in {"email", "name", "phone"} :
    new[column] # Nothing /\ row[b][column] = new[column]

\* Mutant: one identity for each account.
LinkTakenByUser(s, a) == \E link \in linked : link[2] = a

\* The unique constraints of oauth_identities
LinkTaken(s, a) == \E link \in linked : link[1] = s \/ link[2] = a

-----------------------------------------------------------------------------
(* The requests begin                                                      *)

Begin(r, values, step) ==
  /\ pc[r] = "new"
  /\ pc' = [pc EXCEPT ![r] = step]
  /\ want' = [want EXCEPT ![r] = values]
  /\ barred' = [barred EXCEPT ![r] = banned]
  /\ beside' = beside \cup {{r, q} : q \in {q \in Requests : pc[q] \in Running}}
  /\ UNCHANGED tables

\* register
BeginRegister(r, e, n) ==
  /\ Begin(r, [NoValues EXCEPT !.email = e, !.name = n], "email")
  /\ user' = [user EXCEPT ![r] = r]
  /\ UNCHANGED keyVars

\* google_login
BeginLogin(r, e, s, k) ==
  /\ Begin(r, [NoValues EXCEPT !.email = e, !.sub = s], "verify")
  /\ Ask(r, k)
  /\ UNCHANGED user

\* Mutant: does not look whether there is a username.
BeginSetAnyUsername(r, a, n) ==
  /\ a \in Alive
  /\ Begin(r, [NoValues EXCEPT !.name = n], "name")
  /\ user' = [user EXCEPT ![r] = a]
  /\ UNCHANGED keyVars

\* set_username, with the user that get_current_user has loaded
BeginSetUsername(r, a, n) ==
  /\ a \in Alive /\ row[a].name = Nothing
  /\ Begin(r, [NoValues EXCEPT !.name = n], "name")
  /\ user' = [user EXCEPT ![r] = a]
  /\ UNCHANGED keyVars

\* update_profile.  A phone of null is written without a look.
BeginUpdateProfile(r, a, p) ==
  /\ a \in Alive
  /\ Begin(r, [NoValues EXCEPT !.phone = p], IF p = Nothing THEN "update" ELSE "phone")
  /\ user' = [user EXCEPT ![r] = a]
  /\ UNCHANGED keyVars

-----------------------------------------------------------------------------
(* Reads                                                                   *)

At(r, step) == pc[r] = step /\ UNCHANGED <<keyVars, tables, want, barred, beside>>

Goto(r, step) == pc' = [pc EXCEPT ![r] = step]

\* verify_google_id_token returns: signature, audience, issuer and claims are the token's
\* own affair, so that it may be turned away with the right key too.
Verified(r) ==
  /\ At(r, "verify")
  /\ stage[r] \in Ended
  /\ \/ stage[r] = "key" /\ Goto(r, "identity")
     \/ Goto(r, "refused")
  /\ UNCHANGED user

\* get_by_provider_sub
ReadIdentity(r) ==
  /\ At(r, "identity")
  /\ \/ \E a \in rows : /\ <<want[r].sub, a>> \in linked
                        /\ user' = [user EXCEPT ![r] = a]
                        /\ Goto(r, "user")
     \/ /\ \A a \in rows : <<want[r].sub, a>> \notin linked
        /\ Goto(r, "email")
        /\ UNCHANGED user

\* Mutant: finds banned users too.
ReadAnyUser(r) == At(r, "user") /\ Goto(r, "touch") /\ UNCHANGED user

\* The identity's user
ReadUser(r) ==
  /\ At(r, "user")
  /\ Goto(r, IF user[r] \in Alive THEN "touch" ELSE "refused")
  /\ UNCHANGED user

\* Mutant: does not look for the username.
ReadEmailOnly(r) ==
  /\ want[r].sub = Nothing
  /\ At(r, "email")
  /\ Goto(r, IF Owners("email", want[r].email) = {} THEN "create" ELSE "refused")
  /\ UNCHANGED user

\* get_by_email, for a registration
ReadEmail(r) ==
  /\ want[r].sub = Nothing
  /\ At(r, "email")
  /\ Goto(r, IF Owners("email", want[r].email) = {} THEN "name" ELSE "refused")
  /\ UNCHANGED user

\* get_by_email, for a Google login: the account to link, or a new one
ReadEmailToLink(r) ==
  /\ want[r].sub # Nothing
  /\ At(r, "email")
  /\ \/ /\ Owners("email", want[r].email) = {}
        /\ user' = [user EXCEPT ![r] = r]
        /\ Goto(r, "create")
     \/ \E a \in Owners("email", want[r].email) :
          /\ user' = [user EXCEPT ![r] = a]
          /\ Goto(r, "link")

\* get_by_username.  A registration's own account is not there yet.
ReadUsername(r) ==
  /\ At(r, "name")
  /\ Goto(r, IF Owners("name", want[r].name) \ {user[r]} # {} THEN "refused"
             ELSE IF user[r] = r THEN "create" ELSE "update")
  /\ UNCHANGED user

\* get_by_phone
ReadPhone(r) ==
  /\ At(r, "phone")
  /\ Goto(r, IF Owners("phone", want[r].phone) \ {user[r]} = {} THEN "update" ELSE "refused")
  /\ UNCHANGED user

-----------------------------------------------------------------------------
(* Writes                                                                  *)

\* The new user, and for a Google login its identity
CreateAccount(r) ==
  /\ pc[r] = "create"
  /\ \/ /\ Taken(r, want[r]) \/ LinkTaken(want[r].sub, r)
        /\ Goto(r, "failed")
        /\ UNCHANGED tables
     \/ /\ ~Taken(r, want[r]) /\ ~LinkTaken(want[r].sub, r)
        /\ rows' = rows \cup {r}
        /\ row' = [row EXCEPT ![r] = [c \in {"email", "name", "phone"} |-> want[r][c]]]
        /\ linked' = linked \cup {<<s, r>> : s \in {want[r].sub} \ {Nothing}}
        /\ Goto(r, "done")
        /\ UNCHANGED banned
  /\ UNCHANGED <<keyVars, requests>>

\* The identity of a Google login, for the account that has its e-mail address
LinkIdentity(r) ==
  /\ pc[r] = "link"
  /\ \/ /\ LinkTaken(want[r].sub, user[r])
        /\ Goto(r, "failed")
        /\ UNCHANGED linked
     \/ /\ ~LinkTaken(want[r].sub, user[r])
        /\ linked' = linked \cup {<<want[r].sub, user[r]>>}
        /\ Goto(r, "done")
  /\ UNCHANGED <<keyVars, rows, row, banned, requests>>

\* touch_last_login
TouchIdentity(r) ==
  /\ pc[r] = "touch"
  /\ Goto(r, "done")
  /\ UNCHANGED <<keyVars, tables, requests>>

\* The column that set_username or update_profile writes
Updated(r) ==
  IF want[r].name # Nothing THEN [row[user[r]] EXCEPT !.name = want[r].name]
                            ELSE [row[user[r]] EXCEPT !.phone = want[r].phone]

\* UsersRepository.update writes to a user who has been banned meanwhile too, and then does
\* not find the user to answer with.
UpdateUser(r) ==
  /\ pc[r] = "update"
  /\ \/ /\ Taken(user[r], want[r])
        /\ Goto(r, IF want[r].name # Nothing THEN "refused" ELSE "failed")
        /\ UNCHANGED row
     \/ /\ ~Taken(user[r], want[r])
        /\ row' = [row EXCEPT ![user[r]] = Updated(r)]
        /\ Goto(r, IF user[r] \in Alive THEN "done" ELSE "failed")
  /\ UNCHANGED <<keyVars, rows, linked, banned, requests>>

\* Another error, or a death: rolled back
Fail(r) ==
  /\ pc[r] \in Running \ {"verify"}
  /\ Goto(r, "died")
  /\ UNCHANGED <<keyVars, tables, requests>>

\* soft_delete_by_id, by a moderator
Ban(a) ==
  /\ a \in Alive
  /\ banned' = banned \cup {a}
  /\ UNCHANGED <<keyVars, rows, row, linked, pc, requests>>

-----------------------------------------------------------------------------
Step(r) ==
  \/ Verified(r)
  \/ ReadIdentity(r)
  \/ ReadUser(r)
  \/ ReadEmail(r)
  \/ ReadEmailToLink(r)
  \/ ReadUsername(r)
  \/ ReadPhone(r)
  \/ CreateAccount(r)
  \/ LinkIdentity(r)
  \/ TouchIdentity(r)
  \/ UpdateUser(r)
  \/ Fail(r)

Next ==
  \/ \E r \in Requests, e \in Emails, n \in Usernames : BeginRegister(r, e, n)
  \/ \E r \in Requests, e \in Emails, s \in Subs, k \in Kids : BeginLogin(r, e, s, k)
  \/ \E r \in Requests, a \in Accounts, n \in Usernames : BeginSetUsername(r, a, n)
  \/ \E r \in Requests, a \in Accounts, p \in Phones \cup {Nothing} : BeginUpdateProfile(r, a, p)
  \/ \E r \in Requests : Step(r)
  \/ \E a \in Accounts : Ban(a)
  \/ \E r \in Requests : CallerStep(r) /\ UNCHANGED accVars
  \/ \E new \in SUBSET Kids : Rotate(new) /\ UNCHANGED accVars
  \/ Tick /\ UNCHANGED accVars

Spec == Init /\ [][Next]_vars

-----------------------------------------------------------------------------
(* Properties                                                              *)

\* Two requests of which neither had ended when the other began
Raced(r, q) == r # q /\ {r, q} \in beside

\* They ask for a value in common.
Rivals(r, q) == \E v \in DOMAIN NoValues : want[r][v] # Nothing /\ want[r][v] = want[q][v]

\* A request fails with an error nothing handles only because a request that raced got what
\* it asks for, because a banned account has it or is the user's own, or because the account
\* with the e-mail address of a Google login belongs to another Google identity.
FailsOnlyWhenRaced ==
  [][\A r \in Requests :
       pc[r] # "failed" /\ pc'[r] = "failed" =>
         \/ \E q \in Requests : Raced(r, q) /\ pc[q] = "done" /\ Rivals(r, q)
         \/ user[r] \in banned
         \/ \E a \in banned, c \in {"email", "name", "phone"} :
              want[r][c] # Nothing /\ row[a][c] = want[r][c]
         \/ \E link \in linked : link[2] = user[r] /\ link[1] # want[r].sub]_vars

\* A username that is set stays, unless two requests of its user to set one raced.
NameStandsUnlessRaced ==
  [][\A a \in Accounts :
       row[a].name # Nothing /\ row'[a].name # row[a].name =>
         \E r, q \in Requests :
           /\ Raced(r, q) /\ want[r].name # Nothing /\ want[q].name # Nothing
           /\ user[r] = a /\ user[q] = a]_vars

\* Whoever logs in with one Google identity gets to one account, whatever e-mail addresses
\* the tokens name and however the logins race.
OneAccountPerIdentity ==
  \A r, q \in Requests :
    /\ pc[r] = "done" /\ pc[q] = "done"
    /\ want[r].sub # Nothing /\ want[r].sub = want[q].sub
    => user[r] = user[q]

\* No Google login that began after a ban gets into the banned account: neither through its
\* identity nor through its e-mail address.
BannedStaysOut ==
  \A r \in Requests : pc[r] = "done" /\ want[r].sub # Nothing => user[r] \notin barred[r]
=============================================================================
