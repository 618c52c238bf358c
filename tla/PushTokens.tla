----------------------------- MODULE PushTokens -----------------------------
(***************************************************************************)
(* One user's FCM tokens: NotificationTokenService.register_token, the     *)
(* deletions of AuthService.logout, and the worker's send_fcm_push.        *)
(*                                                                         *)
(* FCM gives the app of a device a token, and takes it back for good when  *)
(* the app is removed.  The app sends its token with an access token that  *)
(* names the device, which works until it expires, whatever has become of  *)
(* the session.  Sessions has the races of logins and revocations; here a  *)
(* login is one step.  The session that request q opens, and the row that  *)
(* it inserts, are called q too.                                           *)
(***************************************************************************)
EXTENDS FiniteSets

CONSTANTS
  Calls,     \* requests
  Pushes,    \* tasks of the worker
  Devices,
  FcmTokens,
  Home,      \* Home[f] : the device FCM gave f to
  NoRow

ASSUME PushTokensAssumption == Home \in [FcmTokens -> Devices] /\ NoRow \notin Calls

VARIABLES
  session,   \* session[q] : "none", "active" or "revoked"
  where,     \* where[q]   : the device of the session q opens or ends
  call,      \* call[q]    : where the request q is
  ends,      \* ends[q]    : the session that the logout q read
  token,     \* token[f]   : the id of f's row
  erased,    \* erased[q]  : the tokens that the open transaction of q has deleted
  disowned,  \* tokens that FCM does not know any more
  task,      \* task[p]    : "new", "sending" or "done"
  batch,     \* batch[p]   : the rows that p has read, <<token, id>>
  tried,     \* tried[p]   : those it has sent to
  dead,      \* dead[p]    : those FCM called unregistered
  renewed,   \* history: renewed[q], tokens registered since the logout q began
  quiet,     \* history: tokens of devices that logged out, and not registered since it began
  upheld,    \* history: tokens registered while no logout of their device was under way,
             \*          and none from a session that stood has begun since
  hushed,    \* history: hushed[p], the tokens that were quiet when p began
  told       \* history: told[p], the tokens p got through to

authVars == <<session, where, call, ends>>
taskVars == <<task, batch, tried, dead>>
past     == <<renewed, quiet, upheld, hushed, told>>
pushVars == <<authVars, token, erased, disowned, taskVars, past>>

PushTypeOK ==
  /\ session \in [Calls -> {"none", "active", "revoked"}]
  /\ where \in [Calls -> Devices]
  /\ call \in [Calls -> {"new", "delete", "commit", "done", "died"}]
  /\ ends \in [Calls -> Calls]
  /\ token \in [FcmTokens -> Calls \cup {NoRow}]
  /\ erased \in [Calls -> SUBSET FcmTokens]
  /\ disowned \subseteq FcmTokens
  /\ task \in [Pushes -> {"new", "sending", "done"}]
  /\ batch \in [Pushes -> SUBSET (FcmTokens \X Calls)]
  /\ tried \in [Pushes -> SUBSET (FcmTokens \X Calls)]
  /\ dead \in [Pushes -> SUBSET (FcmTokens \X Calls)]
  /\ renewed \in [Calls -> SUBSET FcmTokens]
  /\ quiet \subseteq FcmTokens /\ upheld \subseteq FcmTokens
  /\ hushed \in [Pushes -> SUBSET FcmTokens]
  /\ told \in [Pushes -> SUBSET FcmTokens]

PushInit ==
  /\ session = [q \in Calls |-> "none"]
  /\ where \in [Calls -> Devices]
  /\ call = [q \in Calls |-> "new"]
  /\ ends = [q \in Calls |-> q]
  /\ token = [f \in FcmTokens |-> NoRow]
  /\ erased = [q \in Calls |-> {}]
  /\ disowned = {}
  /\ task = [p \in Pushes |-> "new"]
  /\ batch = [p \in Pushes |-> {}]
  /\ tried = [p \in Pushes |-> {}]
  /\ dead = [p \in Pushes |-> {}]
  /\ renewed = [q \in Calls |-> {}]
  /\ quiet = {} /\ upheld = {}
  /\ hushed = [p \in Pushes |-> {}]
  /\ told = [p \in Pushes |-> {}]

-----------------------------------------------------------------------------
(* Requests                                                                *)

OfDevice(d) == {f \in FcmTokens : Home[f] = d}

\* A logout of d has read its session and is not through.
LoggingOut(d) == \E q \in Calls : call[q] \in {"delete", "commit"} /\ where[q] = d

\* login or refresh: what the device had is revoked
LogIn(q) ==
  /\ call[q] = "new"
  /\ call' = [call EXCEPT ![q] = "done"]
  /\ session' = [s \in Calls |-> IF s = q THEN "active"
                                 ELSE IF session[s] = "active" /\ where[s] = where[q] THEN "revoked"
                                 ELSE session[s]]
  /\ UNCHANGED <<where, ends, token, erased, disowned, taskVars, past>>

\* revoke_session, revoke_all_sessions or a password change: the tokens stay.
EndSession(s) ==
  /\ session[s] = "active"
  /\ session' = [session EXCEPT ![s] = "revoked"]
  /\ UNCHANGED <<where, call, ends, token, erased, disowned, taskVars, past>>

\* Mutant: the session may be revoked.
BeginAnyLogout(q, s) ==
  /\ call[q] = "new" /\ session[s] # "none"
  /\ where[s] = where[q]
  /\ ends' = [ends EXCEPT ![q] = s]
  /\ call' = [call EXCEPT ![q] = "delete"]
  /\ upheld' = IF session[s] = "active" THEN upheld \ OfDevice(where[q]) ELSE upheld
  /\ UNCHANGED <<session, where, token, erased, disowned, taskVars, renewed, quiet, hushed, told>>

\* logout finds the session of its refresh token, and does nothing about a revoked one.
BeginLogout(q, s) ==
  /\ call[q] = "new" /\ session[s] # "none"
  /\ where[s] = where[q]
  /\ ends' = [ends EXCEPT ![q] = s]
  /\ call' = [call EXCEPT ![q] = IF session[s] = "active" THEN "delete" ELSE "done"]
  /\ upheld' = IF session[s] = "active" THEN upheld \ OfDevice(where[q]) ELSE upheld
  /\ UNCHANGED <<session, where, token, erased, disowned, taskVars, renewed, quiet, hushed, told>>

\* Another transaction has deleted f's row and is open.
Held(f) == \E q \in Calls : f \in erased[q]

\* delete_by_user_and_device.  The tokens of the device are its own.
DeleteTokens(q) ==
  LET mine == {f \in OfDevice(where[q]) : token[f] # NoRow} IN
  /\ call[q] = "delete"
  /\ \A f \in mine : ~Held(f)
  /\ call' = [call EXCEPT ![q] = "commit"]
  /\ erased' = [erased EXCEPT ![q] = mine]
  /\ UNCHANGED <<session, where, ends, token, disowned, taskVars, past>>

\* The session is revoked, unless it has been meanwhile, and all is committed.
CommitLogout(q) ==
  /\ call[q] = "commit"
  /\ call' = [call EXCEPT ![q] = "done"]
  /\ session' = [session EXCEPT ![ends[q]] = "revoked"]
  /\ token' = [f \in FcmTokens |-> IF f \in erased[q] THEN NoRow ELSE token[f]]
  /\ erased' = [erased EXCEPT ![q] = {}]
  /\ quiet' = quiet \cup (OfDevice(where[q]) \ renewed[q])
  /\ UNCHANGED <<where, ends, disowned, taskVars, renewed, upheld, hushed, told>>

\* The logout dies, and is rolled back.
AbortLogout(q) ==
  /\ call[q] \in {"delete", "commit"}
  /\ call' = [call EXCEPT ![q] = "died"]
  /\ erased' = [erased EXCEPT ![q] = {}]
  /\ UNCHANGED <<session, where, ends, token, disowned, taskVars, past>>

\* register_token: an upsert, which waits for the end of a transaction that has deleted the
\* row.  A row that is there keeps its id.
Register(q, f) ==
  /\ call[q] = "new" /\ f \notin disowned
  /\ \E s \in Calls : session[s] # "none" /\ where[s] = Home[f]
  /\ ~Held(f)
  /\ call' = [call EXCEPT ![q] = "done"]
  /\ token' = [token EXCEPT ![f] = IF @ = NoRow THEN q ELSE @]
  /\ renewed' = [r \in Calls |-> IF call[r] \in {"delete", "commit"} THEN renewed[r] \cup {f} ELSE renewed[r]]
  /\ quiet' = quiet \ {f}
  /\ upheld' = IF LoggingOut(Home[f]) THEN upheld ELSE upheld \cup {f}
  /\ UNCHANGED <<session, where, ends, erased, disowned, taskVars, hushed, told>>

-----------------------------------------------------------------------------
(* send_fcm_push and FCM                                                   *)

Disown(f) ==
  /\ f \notin disowned
  /\ disowned' = disowned \cup {f}
  /\ UNCHANGED <<authVars, token, erased, taskVars, past>>

\* get_tokens_for_user
BeginPush(p) ==
  /\ task[p] = "new"
  /\ task' = [task EXCEPT ![p] = "sending"]
  /\ batch' = [batch EXCEPT ![p] = {<<f, token[f]>> : f \in {f \in FcmTokens : token[f] # NoRow}}]
  /\ tried' = [tried EXCEPT ![p] = {}]
  /\ dead' = [dead EXCEPT ![p] = {}]
  /\ hushed' = [hushed EXCEPT ![p] = quiet]
  /\ told' = [told EXCEPT ![p] = {}]
  /\ UNCHANGED <<authVars, token, erased, disowned, renewed, quiet, upheld>>

\* messaging.send: FCM delivers, or calls the token unregistered; or another error is logged.
Send(p, r) ==
  /\ task[p] = "sending" /\ r \in batch[p] \ tried[p]
  /\ tried' = [tried EXCEPT ![p] = @ \cup {r}]
  /\ \/ r[1] \notin disowned /\ told' = [told EXCEPT ![p] = @ \cup {r[1]}] /\ UNCHANGED dead
     \/ r[1] \in disowned /\ dead' = [dead EXCEPT ![p] = @ \cup {r}] /\ UNCHANGED told
     \/ UNCHANGED <<dead, told>>
  /\ UNCHANGED <<authVars, token, erased, disowned, task, batch, renewed, quiet, upheld, hushed>>

\* The dead rows are deleted by id, and all is committed.
FinishPush(p) ==
  /\ task[p] = "sending" /\ tried[p] = batch[p]
  /\ \A r \in dead[p] : token[r[1]] = r[2] => ~Held(r[1])
  /\ task' = [task EXCEPT ![p] = "done"]
  /\ token' = [f \in FcmTokens |-> IF <<f, token[f]>> \in dead[p] THEN NoRow ELSE token[f]]
  /\ UNCHANGED <<authVars, erased, disowned, batch, tried, dead, past>>

\* The worker dies, and streaq runs the task again from the start.
RestartPush(p) ==
  /\ task[p] = "sending"
  /\ task' = [task EXCEPT ![p] = "new"]
  /\ UNCHANGED <<authVars, token, erased, disowned, batch, tried, dead, past>>

-----------------------------------------------------------------------------
PushNext ==
  \/ \E q \in Calls : LogIn(q)
  \/ \E s \in Calls : EndSession(s)
  \/ \E q, s \in Calls : BeginLogout(q, s)
  \/ \E q \in Calls : DeleteTokens(q)
  \/ \E q \in Calls : CommitLogout(q)
  \/ \E q \in Calls : AbortLogout(q)
  \/ \E q \in Calls, f \in FcmTokens : Register(q, f)
  \/ \E f \in FcmTokens : Disown(f)
  \/ \E p \in Pushes : BeginPush(p)
  \/ \E p \in Pushes, r \in FcmTokens \X Calls : Send(p, r)
  \/ \E p \in Pushes : FinishPush(p)
  \/ \E p \in Pushes : RestartPush(p)

PushSpec == PushInit /\ [][PushNext]_pushVars

-----------------------------------------------------------------------------
(* Properties                                                              *)

\* A push that begins after a device has logged out does not get through to a token the
\* device had, unless the device has registered it again; and a token that was registered
\* while no logout of its device was under way stays, until a logout from a session that
\* stands or FCM's word: neither a repeated or late logout from an older session nor a push
\* that fails takes it away.
PushesFollowLogins ==
  /\ \A p \in Pushes : told[p] \cap hushed[p] = {}
  /\ \A f \in upheld \ disowned : token[f] # NoRow
=============================================================================
