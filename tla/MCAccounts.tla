----------------------------- MODULE MCAccounts -----------------------------
(***************************************************************************)
(* A small instance of Identities, with GoogleKeys, for TLC.  The two meet *)
(* in one place, where a login is told what became of its key; so the run  *)
(* explores two slices of their product instead of all of it.  PushTokens  *)
(* shares no state with them: slice says which of them moves.              *)
(***************************************************************************)
EXTENDS Identities, PushTokens, TLC

CONSTANTS d1, d2, f1, f2, q4

VARIABLE slice

MCSymmetry ==
  Permutations(Callers) \cup Permutations(Kids) \cup Permutations(Emails)
    \cup Permutations(Usernames) \cup Permutations(Subs)

MCHome == f1 :> d1 @@ f2 :> d2

\* Each begins as it may while the other is at one of its first states.
MCInit ==
  /\ Init /\ PushInit
  /\ slice \in {"keys", "accounts", "tokens", "pushes"}
  /\ \A q \in Calls : where[q] = d1 \/ (slice = "pushes" /\ q # q4)
  /\ slice # "keys" => Cardinality(published) = 1

\* keys: everybody logs in with one Google account, and waits for its key.
KeysSlice ==
  /\ \A r \in Requests : pc'[r] \in {"new", "verify"}
  /\ \A r, q \in Requests : want'[r] # NoValues /\ want'[q] # NoValues => want'[r] = want'[q]
  /\ UNCHANGED banned

\* accounts: two requests of any kind, with one key that Google keeps.
AccountsSlice ==
  /\ UNCHANGED <<google, clock>>
  /\ \A c, d \in Callers : kid'[c] # NoKid /\ kid'[d] # NoKid => kid'[c] = kid'[d]
  /\ answer'.lifetime \in {0, LongestLifetime}
  /\ Cardinality({r \in Requests : pc'[r] # "new"}) <= 2

\* tokens: requests from one device.  pushes: three requests, from one device or two,
\* beside a push.
TokensSlice == \A p \in Pushes : task'[p] = "new"
PushesSlice == call'[q4] = "new"

MCNext ==
  /\ UNCHANGED slice
  /\ \/ slice = "keys" /\ Next /\ KeysSlice /\ UNCHANGED pushVars
     \/ slice = "accounts" /\ Next /\ AccountsSlice /\ UNCHANGED pushVars
     \/ slice = "tokens" /\ PushNext /\ TokensSlice /\ UNCHANGED vars
     \/ slice = "pushes" /\ PushNext /\ PushesSlice /\ UNCHANGED vars

MCSpec == MCInit /\ [][MCNext]_<<vars, pushVars, slice>>
=============================================================================
