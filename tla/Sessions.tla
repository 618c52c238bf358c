------------------------------ MODULE Sessions ------------------------------
(***************************************************************************)
(* Refresh-token sessions of one account: AuthService.login, google_login, *)
(* refresh, logout, revoke_session, revoke_all_sessions, change_password   *)
(* and set_password.  Requests of other accounts touch other rows.         *)
(*                                                                         *)
(* PostgreSQL runs each request's transaction at READ COMMITTED.  An       *)
(* UPDATE ... WHERE chooses its rows in the snapshot of the moment it      *)
(* starts; a row that another transaction has locked is waited for and     *)
(* tested again, and a row committed after the snapshot is not seen.  So a *)
(* revoking statement is two steps: it takes a snapshot, and later it      *)
(* revokes what is still active of it.  Locks on session rows are held     *)
(* from there to the commit with nothing else to wait for, so this second  *)
(* step, the insertion of the new session and the commit are one.  Two     *)
(* locks are held across the snapshot of a later statement and are kept in *)
(* a variable: a password change updates the user's row first, and a       *)
(* Google login the last_login_at of the account's oauth_identities row.   *)
(*                                                                         *)
(* The session that request r creates is called r.                         *)
(***************************************************************************)
EXTENDS Naturals, FiniteSets

CONSTANTS
  Requests,   \* requests, and the sessions they create
  Devices,    \* device ids
  Initial,    \* the password the account was registered with
  None        \* no request, no session, no password

ASSUME SessionsAssumption ==
  /\ Initial \notin Requests
  /\ None \notin Requests \cup Devices \cup {Initial}

VARIABLES
  session,    \* session[r] : is_revoked of the row that r inserted, "none" without one
  password,   \* users.password_hash : who set it, or None (a Google account)
  lock,       \* lock[x] : the request whose open transaction has updated row x
  kind,       \* kind[r] : the endpoint r calls, "none" before it begins
  device,     \* device[r] : the device_id r logs in or refreshes for
  token,      \* token[r] : the session whose refresh token, or id, r presents
  pc,         \* pc[r] : what r does next
  snap,       \* snap[r] : the sessions chosen by the revoking statement of r
  began       \* history: began[r], the sessions there were when r began

vars == <<session, password, lock, kind, device, token, pc, snap, began>>

LoginKinds    == {"login", "google"}
PasswordKinds == {"change", "set"}
LockingKinds  == PasswordKinds \cup {"google"}
Kinds == LoginKinds \cup PasswordKinds \cup {"refresh", "logout", "revoke", "revokeAll"}

\* The row that the unit of work of a LockingKinds request updates first
LockedRow(k) == IF k = "google" THEN "identity" ELSE "user"

TypeOK ==
  /\ session \in [Requests -> {"none", "active", "revoked"}]
  /\ password \in Requests \cup {Initial, None}
  /\ lock \in [{"user", "identity"} -> Requests \cup {None}]
  /\ kind \in [Requests -> Kinds \cup {"none"}]
  /\ device \in [Requests -> Devices \cup {None}]
  /\ token \in [Requests -> Requests \cup {None}]
  /\ pc \in [Requests -> {"new", "write", "choose", "commit", "done", "failed"}]
  /\ \A r \in Requests, x \in {"user", "identity"} :
       lock[x] = r <=> /\ kind[r] \in LockingKinds
                       /\ LockedRow(kind[r]) = x
                       /\ pc[r] \in {"choose", "commit"}
  /\ snap \in [Requests -> SUBSET Requests]
  /\ began \in [Requests -> SUBSET Requests]

Init ==
  /\ session = [r \in Requests |-> "none"]
  /\ password \in {Initial, None}
  /\ lock = [x \in {"user", "identity"} |-> None]
  /\ kind = [r \in Requests |-> "none"]
  /\ device = [r \in Requests |-> None]
  /\ token = [r \in Requests |-> None]
  /\ pc = [r \in Requests |-> "new"]
  /\ snap = [r \in Requests |-> {}]
  /\ began = [r \in Requests |-> {}]

-----------------------------------------------------------------------------
(* Statements                                                              *)

Rows   == {r \in Requests : session[r] # "none"}
Active == {r \in Requests : session[r] = "active"}

Goto(r, from, to) ==
  /\ pc[r] = from
  /\ pc' = [pc EXCEPT ![r] = to]

\* What a request is, and what it read, before its first write.
Begin(r, k, d, s, next) ==
  /\ Goto(r, "new", next)
  /\ kind' = [kind EXCEPT ![r] = k]
  /\ device' = [device EXCEPT ![r] = d]
  /\ token' = [token EXCEPT ![r] = s]
  /\ began' = [began EXCEPT ![r] = Rows]

\* UPDATE sessions SET is_revoked = true: the rows of S that are still active
Revoked(S) == [s \in Requests |-> IF s \in S /\ session[s] = "active" THEN "revoked" ELSE session[s]]

\* The same, and _issue_token_pair inserts the session of r.
RevokedAndIssued(S, r) == [Revoked(S) EXCEPT ![r] = "active"]

-----------------------------------------------------------------------------
(* The reads that come before the unit of work                             *)

\* The password presented matches the one that is stored; for Google there is
\* none to match.
BeginLogin(r, k, d) ==
  /\ k = "login" => password # None
  /\ Begin(r, k, d, None, IF k = "google" THEN "write" ELSE "choose")
  /\ UNCHANGED <<session, password, lock, snap>>

\* Mutant of BeginRefresh: any token that was once issued will do.
RefreshAnyToken(r, s) ==
  /\ session[s] # "none"
  /\ Begin(r, "refresh", device[s], s, "commit")
  /\ UNCHANGED <<session, password, lock, snap>>

\* get_active_by_token_and_device: the token is that of an active session, on
\* the session's own device.
BeginRefresh(r, s) ==
  /\ session[s] = "active"
  /\ Begin(r, "refresh", device[s], s, "commit")
  /\ UNCHANGED <<session, password, lock, snap>>

BeginRevokeAll(r) ==
  /\ Begin(r, "revokeAll", None, None, "choose")
  /\ UNCHANGED <<session, password, lock, snap>>

\* change_password wants a stored password (that matches), set_password wants
\* none; both look at current_user, read when the request began.
BeginPassword(r, k, d) ==
  /\ k = "change" <=> password # None
  /\ Begin(r, k, d, None, "write")
  /\ UNCHANGED <<session, password, lock, snap>>

-----------------------------------------------------------------------------
(* Units of work                                                           *)

\* Mutant of UpdateRow: what the statement locks does not stop another request.
UpdateUnlocked(r) ==
  /\ Goto(r, "write", "choose")
  /\ lock' = [lock EXCEPT ![LockedRow(kind[r])] = r]
  /\ UNCHANGED <<session, password, kind, device, token, snap, began>>

\* users_repo.update, or touch_last_login of a Google login: waits for another
\* transaction that has updated the row.
UpdateRow(r) ==
  /\ lock[LockedRow(kind[r])] = None
  /\ Goto(r, "write", "choose")
  /\ lock' = [lock EXCEPT ![LockedRow(kind[r])] = r]
  /\ UNCHANGED <<session, password, kind, device, token, snap, began>>

\* Commit and rollback release what the transaction has locked.
Unlocked(r) == [x \in DOMAIN lock |-> IF lock[x] = r THEN None ELSE lock[x]]

\* Mutant of Choose: every request ends the sessions of its own device only.
ChooseOwnDevice(r) ==
  /\ Goto(r, "choose", "commit")
  /\ snap' = [snap EXCEPT ![r] = {s \in Active : device[s] = device[r]}]
  /\ UNCHANGED <<session, password, lock, kind, device, token, began>>

\* The snapshot of revoke_active_for_device or revoke_all_by_user_id
Choose(r) ==
  /\ Goto(r, "choose", "commit")
  /\ snap' = [snap EXCEPT ![r] =
                {s \in Active : kind[r] \in LoginKinds => device[s] = device[r]}]
  /\ UNCHANGED <<session, password, lock, kind, device, token, began>>

\* revoke_active_for_device loads the rows it revoked with scalar_one_or_none:
\* it raises when they are two, and the request fails with nothing done.
CommitLogin(r) ==
  LET hit == snap[r] \cap Active IN
  /\ kind[r] \in LoginKinds
  /\ IF Cardinality(hit) <= 1
       THEN /\ Goto(r, "commit", "done")
            /\ session' = RevokedAndIssued(hit, r)
       ELSE /\ Goto(r, "commit", "failed")
            /\ UNCHANGED session
  /\ lock' = Unlocked(r)
  /\ UNCHANGED <<password, kind, device, token, snap, began>>

\* revoke_by_id, whose answer refresh does not look at, and the new session
CommitRefresh(r) ==
  /\ kind[r] = "refresh"
  /\ Goto(r, "commit", "done")
  /\ session' = RevokedAndIssued({token[r]}, r)
  /\ UNCHANGED <<password, lock, kind, device, token, snap, began>>

CommitRevokeAll(r) ==
  /\ kind[r] = "revokeAll"
  /\ Goto(r, "commit", "done")
  /\ session' = Revoked(snap[r])
  /\ UNCHANGED <<password, lock, kind, device, token, snap, began>>

CommitPassword(r) ==
  /\ kind[r] \in PasswordKinds
  /\ Goto(r, "commit", "done")
  /\ session' = RevokedAndIssued(snap[r], r)
  /\ password' = r
  /\ lock' = Unlocked(r)
  /\ UNCHANGED <<kind, device, token, snap, began>>

\* logout looks its row up inside the unit of work and revokes it by id;
\* revoke_session is one conditional UPDATE.  Either may find nothing to do.
RevokeOne(r, k, s) ==
  /\ session[s] # "none"
  /\ Begin(r, k, None, s, "done")
  /\ session' = Revoked({s})
  /\ UNCHANGED <<password, lock, snap>>

\* The task dies or the database refuses: the transaction is rolled back.
Abort(r) ==
  /\ pc[r] \in {"write", "choose", "commit"}
  /\ pc' = [pc EXCEPT ![r] = "failed"]
  /\ lock' = Unlocked(r)
  /\ UNCHANGED <<session, password, kind, device, token, snap, began>>

-----------------------------------------------------------------------------
Next ==
  \/ \E r \in Requests, k \in LoginKinds, d \in Devices : BeginLogin(r, k, d)
  \/ \E r, s \in Requests : BeginRefresh(r, s)
  \/ \E r \in Requests : BeginRevokeAll(r)
  \/ \E r \in Requests, k \in PasswordKinds, d \in Devices : BeginPassword(r, k, d)
  \/ \E r \in Requests : UpdateRow(r)
  \/ \E r \in Requests : Choose(r)
  \/ \E r \in Requests : CommitLogin(r)
  \/ \E r \in Requests : CommitRefresh(r)
  \/ \E r \in Requests : CommitRevokeAll(r)
  \/ \E r \in Requests : CommitPassword(r)
  \/ \E r, s \in Requests, k \in {"logout", "revoke"} : RevokeOne(r, k, s)
  \/ \E r \in Requests : Abort(r)

Spec == Init /\ [][Next]_vars

-----------------------------------------------------------------------------
(* Properties                                                              *)

Done(r) == pc[r] = "done"

\* What revoking promises is kept whatever runs beside it: a finished login has
\* ended every session its device had when it began, and a finished password
\* change, or "log out everywhere", every session there was; none comes back.
RevocationCoversEarlier ==
  \A r \in Requests : \A s \in began[r] :
    Done(r) =>
      /\ kind[r] \in PasswordKinds \cup {"revokeAll"} => session[s] = "revoked"
      /\ kind[r] \in LoginKinds /\ device[s] = device[r] => session[s] = "revoked"

\* A session that was opened by setting a password lives only as long as that
\* password stands: of two changes that race, the one that loses its password
\* loses its session too.
SessionDiesWithPassword ==
  \A r \in Requests :
    kind[r] \in PasswordKinds /\ session[r] = "active" => password = r

\* A refresh token presented after it was exchanged is refused: a token is
\* exchanged twice only by requests that both read it before either finished.
TokenReuseOnlyWhenRaced ==
  \A r, q \in Requests :
    /\ r # q
    /\ kind[r] = "refresh" /\ kind[q] = "refresh" /\ token[r] = token[q]
    /\ Done(r) /\ Done(q)
    => r \notin began[q] /\ q \notin began[r]

\* A refresh of a session that a password change ended is refused once the change is
\* through: the session of a refresh outlives the password it was opened under only
\* if the refresh had read its token before.
RefreshStopsAtRevocation ==
  \A r, q \in Requests :
    /\ kind[r] \in PasswordKinds /\ kind[q] = "refresh"
    /\ Done(r) /\ Done(q)
    /\ token[q] \in began[r]
    => r \notin began[q]

\* Logging in, refreshing and setting a password all end what the device had.  Two
\* sessions of one device are active together only after two requests that opened
\* sessions there ran at once, neither seeing the other's: requests that come one
\* after the other never lead to the login that finds two.
Raced(a, b) == a # b /\ a \notin began[b] /\ b \notin began[a]

TwoSessionsOnlyWhenRaced ==
  \A r, q \in Active :
    r # q /\ device[r] = device[q] =>
      \E a, b \in Rows : device[a] = device[r] /\ device[b] = device[r] /\ Raced(a, b)

\* service.py's comment on login: "Don't show error if there is active session,
\* just revoke it and issue new tokens".  A login whose password was right is
\* not refused.
LoginNeverRefused ==
  \A r \in Requests :
    kind[r] \in LoginKinds /\ pc[r] = "commit" => Cardinality(snap[r] \cap Active) <= 1
=============================================================================
