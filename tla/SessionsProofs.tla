--------------------------- MODULE SessionsProofs ---------------------------
(***************************************************************************)
(* Proofs about Sessions, for any number of requests and devices.          *)
(***************************************************************************)
EXTENDS Sessions, TLAPS

\* What TypeOK needs to be inductive: only a request that locks a row gets to
\* the statement that locks it, and nothing is locked by a fresh request.
TypeInv ==
  /\ TypeOK
  /\ \A r \in Requests : pc[r] = "write" => kind[r] \in LockingKinds

\* Rows are inserted when a login, a refresh or a password change finishes and are
\* never deleted.
RowInv ==
  \A r \in Requests :
    /\ session[r] # "none" =>
         pc[r] = "done" /\ kind[r] \in LoginKinds \cup PasswordKinds \cup {"refresh"}
    /\ began[r] \subseteq Rows

\* A request about to commit has chosen all that it promises to revoke, and what
\* it has not chosen is revoked already.
CoverInv ==
  \A r \in Requests : \A s \in began[r] :
    pc[r] \in {"commit", "done"} =>
      \/ session[s] = "revoked"
      \/ s \in snap[r] /\ pc[r] = "commit"
      \/ kind[r] \notin LoginKinds \cup PasswordKinds \cup {"revokeAll"}
      \/ kind[r] \in LoginKinds /\ device[s] # device[r]

\* The lock on the user's row keeps sessions opened by another password change
\* from appearing between the snapshot of a change and its commit.
PasswordInv ==
  /\ SessionDiesWithPassword
  /\ \A q, r \in Requests :
       /\ kind[q] \in PasswordKinds /\ pc[q] = "commit"
       /\ kind[r] \in PasswordKinds /\ session[r] = "active"
       => r \in snap[q]

\* A token that was exchanged is that of a revoked session.
TokenInv ==
  /\ \A r \in Requests :
       kind[r] = "refresh" =>
         /\ token[r] \in Requests
         /\ session[token[r]] # "none"
         /\ pc[r] = "done" => session[token[r]] = "revoked"
  /\ \A r, q \in Requests :
       kind[r] = "refresh" /\ kind[q] = "refresh" /\ token[r] = token[q] => r \notin began[q]

\* No refresh that began after a password change has got past it with a session
\* that the change covers.
RefreshInv ==
  \A r, q \in Requests :
    /\ kind[r] \in PasswordKinds /\ kind[q] = "refresh"
    /\ token[q] \in began[r]
    => r \notin began[q]

\* Two requests that opened sessions on device d raced.
RacedOn(d) == \E a, b \in Rows : device[a] = d /\ device[b] = d /\ Raced(a, b)

\* A refresh ends one session, not all that its device had when it began: another
\* one was left by a race.
DeviceInv ==
  \A r \in Requests : \A q \in began[r] :
    /\ kind[r] = "refresh" /\ session[q] = "active"
    /\ q # token[r] /\ device[q] = device[r]
    => RacedOn(device[r])

-----------------------------------------------------------------------------
(* Type correctness                                                        *)

\* A login that gets to its commit either ends the sessions it has chosen and
\* opens its own, or fails and leaves the sessions alone.
LEMMA LoginOutcome ==
  ASSUME NEW r \in Requests, CommitLogin(r)
  PROVE  /\ pc[r] = "commit" /\ kind[r] \in LoginKinds
         /\ lock' = Unlocked(r)
         /\ UNCHANGED <<password, kind, device, token, snap, began>>
         /\ \/ /\ pc' = [pc EXCEPT ![r] = "done"]
               /\ session' = RevokedAndIssued(snap[r] \cap Active, r)
            \/ /\ pc' = [pc EXCEPT ![r] = "failed"]
               /\ session' = session
  BY DEF CommitLogin, Goto

\* Every step keeps the variables' types and the bookkeeping of the locks.
LEMMA TypeStep == TypeInv /\ [Next]_vars => TypeInv'
<1> USE SessionsAssumption
<1> SUFFICES ASSUME TypeInv, [Next]_vars PROVE TypeInv'
  OBVIOUS
<1> USE DEF TypeInv, TypeOK, Goto, LoginKinds, PasswordKinds, LockingKinds, Kinds,
            LockedRow, Rows, Active
<1>1. ASSUME NEW r \in Requests, NEW k \in LoginKinds, NEW d \in Devices, BeginLogin(r, k, d)
      PROVE  TypeInv'
  BY <1>1 DEF BeginLogin, Begin
<1>2. ASSUME NEW r \in Requests, NEW s \in Requests, BeginRefresh(r, s)
      PROVE  TypeInv'
  BY <1>2 DEF BeginRefresh, Begin
<1>3. ASSUME NEW r \in Requests, BeginRevokeAll(r)
      PROVE  TypeInv'
  BY <1>3 DEF BeginRevokeAll, Begin
<1>4. ASSUME NEW r \in Requests, NEW k \in PasswordKinds, NEW d \in Devices, BeginPassword(r, k, d)
      PROVE  TypeInv'
  BY <1>4 DEF BeginPassword, Begin
<1>5. ASSUME NEW r \in Requests, UpdateRow(r)
      PROVE  TypeInv'
  BY <1>5 DEF UpdateRow
<1>6. ASSUME NEW r \in Requests, Choose(r)
      PROVE  TypeInv'
  BY <1>6 DEF Choose
<1>7. ASSUME NEW r \in Requests, CommitLogin(r)
      PROVE  TypeInv'
  <2>1. /\ pc[r] = "commit" /\ kind[r] \in LoginKinds
        /\ lock' = Unlocked(r)
        /\ UNCHANGED <<password, kind, device, token, snap, began>>
    BY <1>7, LoginOutcome
  <2>2. CASE pc' = [pc EXCEPT ![r] = "done"] /\ session' = RevokedAndIssued(snap[r] \cap Active, r)
    BY <2>1, <2>2 DEF RevokedAndIssued, Revoked, Unlocked
  <2>3. CASE pc' = [pc EXCEPT ![r] = "failed"] /\ session' = session
    BY <2>1, <2>3 DEF RevokedAndIssued, Revoked, Unlocked
  <2>4. QED
    BY <1>7, LoginOutcome, <2>2, <2>3
<1>8. ASSUME NEW r \in Requests, CommitRefresh(r)
      PROVE  TypeInv'
  BY <1>8 DEF CommitRefresh, RevokedAndIssued, Revoked
<1>9. ASSUME NEW r \in Requests, CommitRevokeAll(r)
      PROVE  TypeInv'
  BY <1>9 DEF CommitRevokeAll, Revoked
<1>10. ASSUME NEW r \in Requests, CommitPassword(r)
       PROVE  TypeInv'
  BY <1>10 DEF CommitPassword, RevokedAndIssued, Revoked, Unlocked
<1>11. ASSUME NEW r \in Requests, NEW s \in Requests, NEW k \in {"logout", "revoke"}, RevokeOne(r, k, s)
       PROVE  TypeInv'
  BY <1>11 DEF RevokeOne, Begin, Revoked
<1>12. ASSUME NEW r \in Requests, Abort(r)
       PROVE  TypeInv'
  BY <1>12 DEF Abort, Unlocked
<1>13. CASE UNCHANGED vars
  BY <1>13 DEF vars
<1>14. QED
  BY <1>1, <1>2, <1>3, <1>4, <1>5, <1>6, <1>7, <1>8, <1>9, <1>10, <1>11, <1>12, <1>13 DEF Next

\* The account starts with no session, no request and no lock.
LEMMA TypeInit == Init => TypeInv
  BY SessionsAssumption DEF Init, TypeInv, TypeOK, LockingKinds, PasswordKinds, LockedRow

\* The variables of Sessions keep their types, and a row is locked by exactly the
\* request whose open transaction has updated it.
THEOREM SessionsTypeCorrect == Spec => []TypeOK
<1>1. Spec => []TypeInv
  BY TypeInit, TypeStep, PTL DEF Spec
<1>2. TypeInv => TypeOK
  BY DEF TypeInv
<1>3. QED
  BY <1>1, <1>2, PTL

-----------------------------------------------------------------------------
(* Revocation                                                              *)

\* Rows stay, and only a finished request has one.
LEMMA RowStep == TypeInv /\ RowInv /\ [Next]_vars => RowInv'
<1> SUFFICES ASSUME TypeInv, RowInv, [Next]_vars PROVE RowInv'
  OBVIOUS
<1> USE DEF TypeInv, TypeOK, RowInv, Rows, Active, Goto
<1>1. ASSUME NEW r \in Requests, NEW k \in LoginKinds, NEW d \in Devices, BeginLogin(r, k, d)
      PROVE  RowInv'
  BY <1>1 DEF BeginLogin, Begin
<1>2. ASSUME NEW r \in Requests, NEW s \in Requests, BeginRefresh(r, s)
      PROVE  RowInv'
  BY <1>2 DEF BeginRefresh, Begin
<1>3. ASSUME NEW r \in Requests, BeginRevokeAll(r)
      PROVE  RowInv'
  BY <1>3 DEF BeginRevokeAll, Begin
<1>4. ASSUME NEW r \in Requests, NEW k \in PasswordKinds, NEW d \in Devices, BeginPassword(r, k, d)
      PROVE  RowInv'
  BY <1>4 DEF BeginPassword, Begin
<1>5. ASSUME NEW r \in Requests, UpdateRow(r)
      PROVE  RowInv'
  BY <1>5 DEF UpdateRow
<1>6. ASSUME NEW r \in Requests, Choose(r)
      PROVE  RowInv'
  BY <1>6 DEF Choose
<1>7. ASSUME NEW r \in Requests, CommitLogin(r)
      PROVE  RowInv'
  <2>1. /\ pc[r] = "commit" /\ kind[r] \in LoginKinds
        /\ lock' = Unlocked(r)
        /\ UNCHANGED <<password, kind, device, token, snap, began>>
    BY <1>7, LoginOutcome
  <2>2. CASE pc' = [pc EXCEPT ![r] = "done"] /\ session' = RevokedAndIssued(snap[r] \cap Active, r)
    BY <2>1, <2>2 DEF RevokedAndIssued, Revoked
  <2>3. CASE pc' = [pc EXCEPT ![r] = "failed"] /\ session' = session
    BY <2>1, <2>3 DEF RevokedAndIssued, Revoked
  <2>4. QED
    BY <1>7, LoginOutcome, <2>2, <2>3
<1>8. ASSUME NEW r \in Requests, CommitRefresh(r)
      PROVE  RowInv'
  BY <1>8 DEF CommitRefresh, RevokedAndIssued, Revoked
<1>9. ASSUME NEW r \in Requests, CommitRevokeAll(r)
      PROVE  RowInv'
  BY <1>9 DEF CommitRevokeAll, Revoked
<1>10. ASSUME NEW r \in Requests, CommitPassword(r)
       PROVE  RowInv'
  BY <1>10 DEF CommitPassword, RevokedAndIssued, Revoked
<1>11. ASSUME NEW r \in Requests, NEW s \in Requests, NEW k \in {"logout", "revoke"}, RevokeOne(r, k, s)
       PROVE  RowInv'
  BY <1>11 DEF RevokeOne, Begin, Revoked
<1>12. ASSUME NEW r \in Requests, Abort(r)
       PROVE  RowInv'
  BY <1>12 DEF Abort
<1>13. CASE UNCHANGED vars
  BY <1>13 DEF vars
<1>14. QED
  BY <1>1, <1>2, <1>3, <1>4, <1>5, <1>6, <1>7, <1>8, <1>9, <1>10, <1>11, <1>12, <1>13 DEF Next

\* What a request has yet to revoke is among the rows it has chosen.
LEMMA CoverStep == TypeInv /\ RowInv /\ CoverInv /\ [Next]_vars => CoverInv'
<1> SUFFICES ASSUME TypeInv, RowInv, CoverInv, [Next]_vars PROVE CoverInv'
  OBVIOUS
<1> USE DEF TypeInv, TypeOK, RowInv, CoverInv, Rows, Active, Goto, LoginKinds,
            PasswordKinds, Kinds, LockingKinds
<1>1. ASSUME NEW r \in Requests, NEW k \in LoginKinds, NEW d \in Devices, BeginLogin(r, k, d)
      PROVE  CoverInv'
  BY <1>1 DEF BeginLogin, Begin
<1>2. ASSUME NEW r \in Requests, NEW s \in Requests, BeginRefresh(r, s)
      PROVE  CoverInv'
  BY <1>2 DEF BeginRefresh, Begin
<1>3. ASSUME NEW r \in Requests, BeginRevokeAll(r)
      PROVE  CoverInv'
  BY <1>3 DEF BeginRevokeAll, Begin
<1>4. ASSUME NEW r \in Requests, NEW k \in PasswordKinds, NEW d \in Devices, BeginPassword(r, k, d)
      PROVE  CoverInv'
  BY <1>4 DEF BeginPassword, Begin
<1>5. ASSUME NEW r \in Requests, UpdateRow(r)
      PROVE  CoverInv'
  BY <1>5 DEF UpdateRow
<1>6. ASSUME NEW r \in Requests, Choose(r)
      PROVE  CoverInv'
  BY <1>6 DEF Choose
<1>7. ASSUME NEW r \in Requests, CommitLogin(r)
      PROVE  CoverInv'
  <2>1. /\ pc[r] = "commit" /\ kind[r] \in LoginKinds
        /\ lock' = Unlocked(r)
        /\ UNCHANGED <<password, kind, device, token, snap, began>>
    BY <1>7, LoginOutcome
  <2>2. CASE pc' = [pc EXCEPT ![r] = "done"] /\ session' = RevokedAndIssued(snap[r] \cap Active, r)
    BY <2>1, <2>2 DEF RevokedAndIssued, Revoked
  <2>3. CASE pc' = [pc EXCEPT ![r] = "failed"] /\ session' = session
    BY <2>1, <2>3 DEF RevokedAndIssued, Revoked
  <2>4. QED
    BY <1>7, LoginOutcome, <2>2, <2>3
<1>8. ASSUME NEW r \in Requests, CommitRefresh(r)
      PROVE  CoverInv'
  BY <1>8 DEF CommitRefresh, RevokedAndIssued, Revoked
<1>9. ASSUME NEW r \in Requests, CommitRevokeAll(r)
      PROVE  CoverInv'
  BY <1>9 DEF CommitRevokeAll, Revoked
<1>10. ASSUME NEW r \in Requests, CommitPassword(r)
       PROVE  CoverInv'
  BY <1>10 DEF CommitPassword, RevokedAndIssued, Revoked
<1>11. ASSUME NEW r \in Requests, NEW s \in Requests, NEW k \in {"logout", "revoke"}, RevokeOne(r, k, s)
       PROVE  CoverInv'
  BY <1>11 DEF RevokeOne, Begin, Revoked
<1>12. ASSUME NEW r \in Requests, Abort(r)
       PROVE  CoverInv'
  BY <1>12 DEF Abort
<1>13. CASE UNCHANGED vars
  BY <1>13 DEF vars
<1>14. QED
  BY <1>1, <1>2, <1>3, <1>4, <1>5, <1>6, <1>7, <1>8, <1>9, <1>10, <1>11, <1>12, <1>13 DEF Next

\* At most one session opened by a password change is active, its last setter's.
LEMMA PasswordStep == TypeInv /\ RowInv /\ PasswordInv /\ [Next]_vars => PasswordInv'
<1> SUFFICES ASSUME TypeInv, RowInv, PasswordInv, [Next]_vars PROVE PasswordInv'
  OBVIOUS
<1> USE DEF TypeInv, TypeOK, RowInv, PasswordInv, SessionDiesWithPassword, Rows, Active,
            Goto, LoginKinds, PasswordKinds, LockingKinds, LockedRow
<1>1. ASSUME NEW r \in Requests, NEW k \in LoginKinds, NEW d \in Devices, BeginLogin(r, k, d)
      PROVE  PasswordInv'
  BY <1>1 DEF BeginLogin, Begin
<1>2. ASSUME NEW r \in Requests, NEW s \in Requests, BeginRefresh(r, s)
      PROVE  PasswordInv'
  BY <1>2 DEF BeginRefresh, Begin
<1>3. ASSUME NEW r \in Requests, BeginRevokeAll(r)
      PROVE  PasswordInv'
  BY <1>3 DEF BeginRevokeAll, Begin
<1>4. ASSUME NEW r \in Requests, NEW k \in PasswordKinds, NEW d \in Devices, BeginPassword(r, k, d)
      PROVE  PasswordInv'
  BY <1>4 DEF BeginPassword, Begin
<1>5. ASSUME NEW r \in Requests, UpdateRow(r)
      PROVE  PasswordInv'
  BY <1>5 DEF UpdateRow
<1>6. ASSUME NEW r \in Requests, Choose(r)
      PROVE  PasswordInv'
  BY <1>6 DEF Choose
<1>7. ASSUME NEW r \in Requests, CommitLogin(r)
      PROVE  PasswordInv'
  <2>1. /\ pc[r] = "commit" /\ kind[r] \in LoginKinds
        /\ lock' = Unlocked(r)
        /\ UNCHANGED <<password, kind, device, token, snap, began>>
    BY <1>7, LoginOutcome
  <2>2. CASE pc' = [pc EXCEPT ![r] = "done"] /\ session' = RevokedAndIssued(snap[r] \cap Active, r)
    BY <2>1, <2>2 DEF RevokedAndIssued, Revoked
  <2>3. CASE pc' = [pc EXCEPT ![r] = "failed"] /\ session' = session
    BY <2>1, <2>3 DEF RevokedAndIssued, Revoked
  <2>4. QED
    BY <1>7, LoginOutcome, <2>2, <2>3
<1>8. ASSUME NEW r \in Requests, CommitRefresh(r)
      PROVE  PasswordInv'
  BY <1>8 DEF CommitRefresh, RevokedAndIssued, Revoked
<1>9. ASSUME NEW r \in Requests, CommitRevokeAll(r)
      PROVE  PasswordInv'
  BY <1>9 DEF CommitRevokeAll, Revoked
<1>10. ASSUME NEW r \in Requests, CommitPassword(r)
       PROVE  PasswordInv'
  BY <1>10 DEF CommitPassword, RevokedAndIssued, Revoked
<1>11. ASSUME NEW r \in Requests, NEW s \in Requests, NEW k \in {"logout", "revoke"}, RevokeOne(r, k, s)
       PROVE  PasswordInv'
  BY <1>11 DEF RevokeOne, Begin, Revoked
<1>12. ASSUME NEW r \in Requests, Abort(r)
       PROVE  PasswordInv'
  BY <1>12 DEF Abort
<1>13. CASE UNCHANGED vars
  BY <1>13 DEF vars
<1>14. QED
  BY <1>1, <1>2, <1>3, <1>4, <1>5, <1>6, <1>7, <1>8, <1>9, <1>10, <1>11, <1>12, <1>13 DEF Next

\* A finished refresh has revoked the session it was given.
LEMMA TokenStep == TypeInv /\ RowInv /\ TokenInv /\ [Next]_vars => TokenInv'
<1> SUFFICES ASSUME TypeInv, RowInv, TokenInv, [Next]_vars PROVE TokenInv'
  OBVIOUS
<1> USE DEF TypeInv, TypeOK, RowInv, TokenInv, Rows, Active, Goto, LoginKinds,
            PasswordKinds
<1>1. ASSUME NEW r \in Requests, NEW k \in LoginKinds, NEW d \in Devices, BeginLogin(r, k, d)
      PROVE  TokenInv'
  BY <1>1 DEF BeginLogin, Begin
<1>2. ASSUME NEW r \in Requests, NEW s \in Requests, BeginRefresh(r, s)
      PROVE  TokenInv'
  BY <1>2 DEF BeginRefresh, Begin
<1>3. ASSUME NEW r \in Requests, BeginRevokeAll(r)
      PROVE  TokenInv'
  BY <1>3 DEF BeginRevokeAll, Begin
<1>4. ASSUME NEW r \in Requests, NEW k \in PasswordKinds, NEW d \in Devices, BeginPassword(r, k, d)
      PROVE  TokenInv'
  BY <1>4 DEF BeginPassword, Begin
<1>5. ASSUME NEW r \in Requests, UpdateRow(r)
      PROVE  TokenInv'
  BY <1>5 DEF UpdateRow
<1>6. ASSUME NEW r \in Requests, Choose(r)
      PROVE  TokenInv'
  BY <1>6 DEF Choose
<1>7. ASSUME NEW r \in Requests, CommitLogin(r)
      PROVE  TokenInv'
  <2>1. /\ pc[r] = "commit" /\ kind[r] \in LoginKinds
        /\ lock' = Unlocked(r)
        /\ UNCHANGED <<password, kind, device, token, snap, began>>
    BY <1>7, LoginOutcome
  <2>2. CASE pc' = [pc EXCEPT ![r] = "done"] /\ session' = RevokedAndIssued(snap[r] \cap Active, r)
    BY <2>1, <2>2 DEF RevokedAndIssued, Revoked
  <2>3. CASE pc' = [pc EXCEPT ![r] = "failed"] /\ session' = session
    BY <2>1, <2>3 DEF RevokedAndIssued, Revoked
  <2>4. QED
    BY <1>7, LoginOutcome, <2>2, <2>3
<1>8. ASSUME NEW r \in Requests, CommitRefresh(r)
      PROVE  TokenInv'
  BY <1>8 DEF CommitRefresh, RevokedAndIssued, Revoked
<1>9. ASSUME NEW r \in Requests, CommitRevokeAll(r)
      PROVE  TokenInv'
  BY <1>9 DEF CommitRevokeAll, Revoked
<1>10. ASSUME NEW r \in Requests, CommitPassword(r)
       PROVE  TokenInv'
  BY <1>10 DEF CommitPassword, RevokedAndIssued, Revoked
<1>11. ASSUME NEW r \in Requests, NEW s \in Requests, NEW k \in {"logout", "revoke"}, RevokeOne(r, k, s)
       PROVE  TokenInv'
  BY <1>11 DEF RevokeOne, Begin, Revoked
<1>12. ASSUME NEW r \in Requests, Abort(r)
       PROVE  TokenInv'
  BY <1>12 DEF Abort
<1>13. CASE UNCHANGED vars
  BY <1>13 DEF vars
<1>14. QED
  BY <1>1, <1>2, <1>3, <1>4, <1>5, <1>6, <1>7, <1>8, <1>9, <1>10, <1>11, <1>12, <1>13 DEF Next

\* A refresh that begins after a password change finds the old sessions revoked.
LEMMA RefreshStep == TypeInv /\ RowInv /\ CoverInv /\ RefreshInv /\ [Next]_vars => RefreshInv'
<1> SUFFICES ASSUME TypeInv, RowInv, CoverInv, RefreshInv, [Next]_vars PROVE RefreshInv'
  OBVIOUS
<1> USE DEF TypeInv, TypeOK, RowInv, RefreshInv, Rows, Active, Goto, LoginKinds,
            PasswordKinds
<1>1. ASSUME NEW r \in Requests, NEW k \in LoginKinds, NEW d \in Devices, BeginLogin(r, k, d)
      PROVE  RefreshInv'
  BY <1>1 DEF BeginLogin, Begin
<1>2. ASSUME NEW r \in Requests, NEW s \in Requests, BeginRefresh(r, s)
      PROVE  RefreshInv'
  BY <1>2 DEF BeginRefresh, Begin, CoverInv
<1>3. ASSUME NEW r \in Requests, BeginRevokeAll(r)
      PROVE  RefreshInv'
  BY <1>3 DEF BeginRevokeAll, Begin
<1>4. ASSUME NEW r \in Requests, NEW k \in PasswordKinds, NEW d \in Devices, BeginPassword(r, k, d)
      PROVE  RefreshInv'
  BY <1>4 DEF BeginPassword, Begin
<1>5. ASSUME NEW r \in Requests, UpdateRow(r)
      PROVE  RefreshInv'
  BY <1>5 DEF UpdateRow
<1>6. ASSUME NEW r \in Requests, Choose(r)
      PROVE  RefreshInv'
  BY <1>6 DEF Choose
<1>7. ASSUME NEW r \in Requests, CommitLogin(r)
      PROVE  RefreshInv'
  <2>1. /\ pc[r] = "commit" /\ kind[r] \in LoginKinds
        /\ lock' = Unlocked(r)
        /\ UNCHANGED <<password, kind, device, token, snap, began>>
    BY <1>7, LoginOutcome
  <2>2. CASE pc' = [pc EXCEPT ![r] = "done"] /\ session' = RevokedAndIssued(snap[r] \cap Active, r)
    BY <2>1, <2>2 DEF RevokedAndIssued, Revoked
  <2>3. CASE pc' = [pc EXCEPT ![r] = "failed"] /\ session' = session
    BY <2>1, <2>3 DEF RevokedAndIssued, Revoked
  <2>4. QED
    BY <1>7, LoginOutcome, <2>2, <2>3
<1>8. ASSUME NEW r \in Requests, CommitRefresh(r)
      PROVE  RefreshInv'
  BY <1>8 DEF CommitRefresh, RevokedAndIssued, Revoked
<1>9. ASSUME NEW r \in Requests, CommitRevokeAll(r)
      PROVE  RefreshInv'
  BY <1>9 DEF CommitRevokeAll, Revoked
<1>10. ASSUME NEW r \in Requests, CommitPassword(r)
       PROVE  RefreshInv'
  BY <1>10 DEF CommitPassword, RevokedAndIssued, Revoked
<1>11. ASSUME NEW r \in Requests, NEW s \in Requests, NEW k \in {"logout", "revoke"}, RevokeOne(r, k, s)
       PROVE  RefreshInv'
  BY <1>11 DEF RevokeOne, Begin, Revoked
<1>12. ASSUME NEW r \in Requests, Abort(r)
       PROVE  RefreshInv'
  BY <1>12 DEF Abort
<1>13. CASE UNCHANGED vars
  BY <1>13 DEF vars
<1>14. QED
  BY <1>1, <1>2, <1>3, <1>4, <1>5, <1>6, <1>7, <1>8, <1>9, <1>10, <1>11, <1>12, <1>13 DEF Next

-----------------------------------------------------------------------------
(* Two sessions on one device                                              *)

\* What a request x is, and what it has seen, is as it was before the step.
Same(x) ==
  /\ kind'[x] = kind[x] /\ device'[x] = device[x]
  /\ token'[x] = token[x] /\ began'[x] = began[x]

\* A request is what it was when it began; rows stay and are not made active again.
RecordStands ==
  \A x \in Requests :
    /\ Same(x) \/ kind'[x] # "refresh" \/ \E s \in Requests : BeginRefresh(x, s)
    /\ pc[x] = "done" => Same(x)
    /\ session[x] # "none" =>
         session'[x] # "none" /\ (session'[x] = "active" => session[x] = "active")

\* It is so in every step.
LEMMA RecordKept == TypeInv /\ RowInv /\ [Next]_vars => RecordStands
<1> SUFFICES ASSUME TypeInv, RowInv, [Next]_vars PROVE RecordStands
  OBVIOUS
<1> USE DEF TypeInv, TypeOK, RowInv, RecordStands, Same, Rows, Active, Goto, LoginKinds,
            PasswordKinds
<1>1. ASSUME NEW r \in Requests, NEW k \in LoginKinds, NEW d \in Devices, BeginLogin(r, k, d)
      PROVE  RecordStands
  BY <1>1 DEF BeginLogin, Begin
<1>2. ASSUME NEW r \in Requests, NEW s \in Requests, BeginRefresh(r, s)
      PROVE  RecordStands
  <2>1. \A x \in Requests \ {r} : Same(x)
    BY <1>2 DEF BeginRefresh, Begin
  <2>2. pc[r] = "new" /\ session' = session
    BY <1>2 DEF BeginRefresh, Begin
  <2>3. QED
    BY <1>2, <2>1, <2>2
<1>3. ASSUME NEW r \in Requests, BeginRevokeAll(r)
      PROVE  RecordStands
  BY <1>3 DEF BeginRevokeAll, Begin
<1>4. ASSUME NEW r \in Requests, NEW k \in PasswordKinds, NEW d \in Devices, BeginPassword(r, k, d)
      PROVE  RecordStands
  BY <1>4 DEF BeginPassword, Begin
<1>5. ASSUME NEW r \in Requests, UpdateRow(r)
      PROVE  RecordStands
  BY <1>5 DEF UpdateRow
<1>6. ASSUME NEW r \in Requests, Choose(r)
      PROVE  RecordStands
  BY <1>6 DEF Choose
<1>7. ASSUME NEW r \in Requests, CommitLogin(r)
      PROVE  RecordStands
  <2>1. /\ pc[r] = "commit"
        /\ UNCHANGED <<password, kind, device, token, snap, began>>
    BY <1>7, LoginOutcome
  <2>2. CASE session' = RevokedAndIssued(snap[r] \cap Active, r)
    BY <2>1, <2>2 DEF RevokedAndIssued, Revoked
  <2>3. CASE session' = session
    BY <2>1, <2>3
  <2>4. QED
    BY <1>7, LoginOutcome, <2>2, <2>3
<1>8. ASSUME NEW r \in Requests, CommitRefresh(r)
      PROVE  RecordStands
  BY <1>8 DEF CommitRefresh, RevokedAndIssued, Revoked
<1>9. ASSUME NEW r \in Requests, CommitRevokeAll(r)
      PROVE  RecordStands
  BY <1>9 DEF CommitRevokeAll, Revoked
<1>10. ASSUME NEW r \in Requests, CommitPassword(r)
       PROVE  RecordStands
  BY <1>10 DEF CommitPassword, RevokedAndIssued, Revoked
<1>11. ASSUME NEW r \in Requests, NEW s \in Requests, NEW k \in {"logout", "revoke"}, RevokeOne(r, k, s)
       PROVE  RecordStands
  BY <1>11 DEF RevokeOne, Begin, Revoked
<1>12. ASSUME NEW r \in Requests, Abort(r)
       PROVE  RecordStands
  BY <1>12 DEF Abort
<1>13. CASE UNCHANGED vars
  BY <1>13 DEF vars
<1>14. QED
  BY <1>1, <1>2, <1>3, <1>4, <1>5, <1>6, <1>7, <1>8, <1>9, <1>10, <1>11, <1>12, <1>13 DEF Next

\* A race on device d is on record after the step.
RacedThen(d) ==
  \E a, b \in Rows' : device'[a] = d /\ device'[b] = d /\ Raced(a, b)'

\* So a race that has left its two rows is on record for good.
LEMMA RaceStays ==
  ASSUME TypeInv, RowInv, RecordStands, NEW d, RacedOn(d)
  PROVE  RacedThen(d)
<1>1. PICK a \in Rows, b \in Rows : device[a] = d /\ device[b] = d /\ Raced(a, b)
  BY DEF RacedOn
<1>2. /\ a \in Rows' /\ b \in Rows'
      /\ Same(a) /\ Same(b)
  BY <1>1 DEF Rows, RowInv, RecordStands
<1>3. QED
  BY <1>1, <1>2 DEF RacedThen, Raced, Same

\* Of two sessions active on one device neither had ended when the other request
\* was through.  If that one saw it, it was a refresh of another session, and the
\* device had been raced for before.
LEMMA TwoAfterRace ==
  ASSUME TypeInv, RowInv, CoverInv, TokenInv, DeviceInv,
         NEW r \in Active, NEW q \in Active, r # q, device[r] = device[q]
  PROVE  RacedOn(device[r])
<1>1. /\ r \in Requests /\ q \in Requests /\ pc[r] = "done" /\ pc[q] = "done"
      /\ session[r] = "active" /\ session[q] = "active"
      /\ r \in Rows /\ q \in Rows
  BY DEF Active, Rows, RowInv
<1>2. ASSUME NEW x \in {r, q}, NEW y \in {r, q}, x # y, y \in began[x]
      PROVE  RacedOn(device[r])
  <2>1. kind[x] \notin LoginKinds \cup PasswordKinds \cup {"revokeAll"}
    BY <1>1, <1>2 DEF CoverInv
  <2>2. kind[x] = "refresh"
    BY <1>1, <1>2, <2>1 DEF RowInv
  <2>3. y # token[x]
    BY <1>1, <1>2, <2>2 DEF TokenInv
  <2>4. QED
    BY <1>1, <1>2, <2>2, <2>3 DEF DeviceInv
<1>3. CASE r \notin began[q] /\ q \notin began[r]
  BY <1>1, <1>3 DEF RacedOn, Raced
<1>4. QED
  BY <1>2, <1>3

\* A refresh finds a second session on its device only after a race.
LEMMA DeviceStep ==
  TypeInv /\ RowInv /\ CoverInv /\ TokenInv /\ DeviceInv /\ [Next]_vars => DeviceInv'
<1> SUFFICES ASSUME TypeInv, RowInv, CoverInv, TokenInv, DeviceInv, [Next]_vars,
                    NEW r \in Requests, NEW q \in began'[r],
                    kind'[r] = "refresh", session'[q] = "active",
                    q # token'[r], device'[q] = device'[r]
             PROVE  RacedThen(device'[r])
  BY DEF DeviceInv, RacedOn, RacedThen
<1>1. RecordStands
  BY RecordKept
<1>2. CASE Same(r)
  <2>1. q \in Requests /\ session[q] = "active" /\ Same(q)
    BY <1>1, <1>2 DEF Same, RowInv, Rows, RecordStands
  <2>2. RacedOn(device[r])
    BY <1>2, <2>1 DEF Same, DeviceInv
  <2>3. QED
    BY <1>1, <1>2, <2>2, RaceStays DEF Same
<1>3. ASSUME NEW s \in Requests, BeginRefresh(r, s)
      PROVE  RacedThen(device'[r])
  <2>1. /\ session[s] = "active" /\ pc[r] = "new"
        /\ began' = [began EXCEPT ![r] = Rows] /\ token' = [token EXCEPT ![r] = s]
        /\ device' = [device EXCEPT ![r] = device[s]] /\ session' = session
    BY <1>3 DEF BeginRefresh, Begin, Goto
  <2>2. /\ q \in Active /\ s \in Active /\ q # s
        /\ device'[r] = device[s] /\ device[q] = device[s]
    BY <2>1 DEF Active, Rows, RowInv, TypeInv, TypeOK
  <2>3. RacedOn(device[s])
    BY <2>2, TwoAfterRace
  <2>4. QED
    BY <1>1, <2>2, <2>3, RaceStays
<1>4. QED
  BY <1>1, <1>2, <1>3 DEF RecordStands

-----------------------------------------------------------------------------
(* Theorems                                                                *)

\* The inductive invariant: its parts are kept together.
SessionsInv ==
  TypeInv /\ RowInv /\ CoverInv /\ PasswordInv /\ TokenInv /\ RefreshInv /\ DeviceInv

\* An account without requests satisfies every part.
LEMMA SessionsInit == Init => SessionsInv
<1> SUFFICES ASSUME Init PROVE SessionsInv
  OBVIOUS
<1>1. TypeInv
  BY TypeInit
<1>2. RowInv /\ CoverInv /\ PasswordInv /\ TokenInv /\ RefreshInv /\ DeviceInv
  BY DEF Init, RowInv, CoverInv, PasswordInv, SessionDiesWithPassword, TokenInv,
         RefreshInv, DeviceInv, PasswordKinds, Rows
<1>3. QED
  BY <1>1, <1>2 DEF SessionsInv

\* Every behaviour keeps the inductive invariant.
LEMMA SessionsInvariant == Spec => []SessionsInv
<1>1. SessionsInv /\ [Next]_vars => SessionsInv'
  BY TypeStep, RowStep, CoverStep, PasswordStep, TokenStep, RefreshStep, DeviceStep DEF SessionsInv
<1>2. QED
  BY <1>1, SessionsInit, PTL DEF Spec

\* Whatever runs beside it, a finished login has ended every session its device
\* had when it began, and a finished password change or "log out everywhere" every
\* session of the account, for good.
THEOREM RevocationCovers == Spec => []RevocationCoversEarlier
<1>1. SessionsInv => RevocationCoversEarlier
  <2> SUFFICES ASSUME SessionsInv, NEW r \in Requests, NEW s \in began[r], Done(r)
               PROVE  /\ kind[r] \in PasswordKinds \cup {"revokeAll"} => session[s] = "revoked"
                      /\ kind[r] \in LoginKinds /\ device[s] = device[r] => session[s] = "revoked"
    BY DEF RevocationCoversEarlier
  <2>1. \/ session[s] = "revoked"
        \/ kind[r] \notin LoginKinds \cup PasswordKinds \cup {"revokeAll"}
        \/ kind[r] \in LoginKinds /\ device[s] # device[r]
    BY DEF SessionsInv, CoverInv, Done
  <2>2. QED
    BY <2>1 DEF LoginKinds, PasswordKinds
<1>2. QED
  BY <1>1, SessionsInvariant, PTL

\* Of two password changes that race, only the session opened by the one whose
\* password stands is active.
THEOREM SessionFollowsPassword == Spec => []SessionDiesWithPassword
<1>1. SessionsInv => SessionDiesWithPassword
  BY DEF SessionsInv, PasswordInv
<1>2. QED
  BY <1>1, SessionsInvariant, PTL

\* A refresh token is exchanged twice only by requests that raced.
THEOREM TokenReuseRaced == Spec => []TokenReuseOnlyWhenRaced
<1>1. SessionsInv => TokenReuseOnlyWhenRaced
  BY DEF SessionsInv, TokenInv, TokenReuseOnlyWhenRaced
<1>2. QED
  BY <1>1, SessionsInvariant, PTL

\* A refresh of a session that a password change covers is over before the change
\* or had read its token before the change was through.
THEOREM RefreshStops == Spec => []RefreshStopsAtRevocation
<1>1. SessionsInv => RefreshStopsAtRevocation
  BY DEF SessionsInv, RefreshInv, RefreshStopsAtRevocation
<1>2. QED
  BY <1>1, SessionsInvariant, PTL

\* Two sessions are active on one device only after two of the requests that opened
\* sessions there ran at once: the login of a device whose requests never overlap
\* finds one session at most.
THEOREM TwoSessionsRaced == Spec => []TwoSessionsOnlyWhenRaced
<1>1. SessionsInv => TwoSessionsOnlyWhenRaced
  BY TwoAfterRace DEF SessionsInv, TwoSessionsOnlyWhenRaced, RacedOn
<1>2. QED
  BY <1>1, SessionsInvariant, PTL
=============================================================================
