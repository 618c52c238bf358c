----------------------------- MODULE GoogleKeys -----------------------------
(***************************************************************************)
(* The cache of the keys Google signs ID tokens with, and the logins that  *)
(* ask it for one: _GoogleJwksCache and verify_google_id_token.            *)
(*                                                                         *)
(* The process fetches the key set when the cache is stale or lacks the    *)
(* token's key, one fetch at a time: the others queue for an asyncio.Lock, *)
(* which serves them in order.  Google replaces its keys at any time.      *)
(*                                                                         *)
(* A caller may be turned away for what else its token says before it asks *)
(* for the key, or after it has got it: see Identities.                    *)
(***************************************************************************)
EXTENDS Integers, Sequences, FiniteSets

CONSTANTS
  Callers,       \* the logins
  Kids,          \* key ids
  Lifetimes,     \* max-age of Google's answers, with the fallback
  FetchTimeout,  \* the fetch gives up after it
  MaxTime,       \* bound on the clock
  MaxRotations,  \* bound on the changes of Google's keys
  NoKid          \* a caller that has not asked

ASSUME GoogleKeysAssumption ==
  /\ Lifetimes \subseteq Nat
  /\ FetchTimeout \in Nat /\ MaxTime \in Nat /\ MaxRotations \in Nat
  /\ \E n \in Lifetimes : \A o \in Lifetimes : o <= n

VARIABLES
  published,  \* Google's keys
  rotations,  \* how often they changed
  clock,
  keys,       \* _keys_by_kid
  expires,    \* _expires_at
  holder,     \* who holds the lock, or none: the set has at most one caller
  waiting,    \* the callers in the lock's queue
  stage,      \* stage[c] : where the call of c is
  kid,        \* kid[c]   : the key it asks for
  since,      \* when the fetch in flight began
  answer,     \* what Google has answered to it
  asOf,       \* history: when Google gave the keys in the cache
  withdrawn,  \* history: withdrawn[k], when Google last withdrew k
  lacked      \* history: callers whose key Google did not have at some point of the call

cache    == <<keys, expires, asOf>>
lock     == <<holder, waiting>>
fetch    == <<since, answer>>
google   == <<published, rotations, withdrawn>>
keyVars  == <<google, clock, cache, lock, stage, kid, fetch, lacked>>

NoAnswer == [keys |-> {}, lifetime |-> 0, at |-> 0]
Answers  == [keys : SUBSET Kids, lifetime : Lifetimes, at : 0..MaxTime]
Ended    == {"key", "rejected", "error"}

KeysTypeOK ==
  /\ published \in (SUBSET Kids) \ {{}}
  /\ rotations \in 0..MaxRotations /\ clock \in 0..MaxTime
  /\ keys \subseteq Kids /\ expires \in Nat /\ asOf \in 0..MaxTime
  /\ holder \subseteq Callers /\ Cardinality(holder) <= 1
  /\ waiting \in Seq(Callers)
  /\ stage \in [Callers -> {"new", "queued", "fetching", "answered"} \cup Ended]
  /\ kid \in [Callers -> Kids \cup {NoKid}]
  /\ since \in 0..MaxTime /\ answer \in Answers \cup {NoAnswer}
  /\ withdrawn \in [Kids -> 0..MaxTime]
  /\ lacked \subseteq Callers

KeysInit ==
  /\ published \in (SUBSET Kids) \ {{}}
  /\ rotations = 0 /\ clock = 0 /\ keys = {} /\ expires = 0 /\ asOf = 0
  /\ holder = {} /\ waiting = <<>>
  /\ stage = [c \in Callers |-> "new"]
  /\ kid = [c \in Callers |-> NoKid]
  /\ since = 0 /\ answer = NoAnswer
  /\ withdrawn = [k \in Kids |-> 0]
  /\ lacked = {}

-----------------------------------------------------------------------------
(* Google                                                                  *)

\* Google signs with other keys.
Rotate(new) ==
  /\ new # published /\ new # {}
  /\ rotations < MaxRotations
  /\ rotations' = rotations + 1
  /\ published' = new
  /\ withdrawn' = [k \in Kids |-> IF k \in published \ new THEN clock ELSE withdrawn[k]]
  /\ lacked' = lacked \cup {c \in Callers : stage[c] \notin {"new"} \cup Ended /\ kid[c] \notin new}
  /\ UNCHANGED <<clock, cache, lock, stage, kid, fetch>>

\* Google answers the fetch in flight, with a max-age or none.
GoogleAnswers(c, lifetime) ==
  /\ stage[c] = "fetching"
  /\ stage' = [stage EXCEPT ![c] = "answered"]
  /\ answer' = [keys |-> published, lifetime |-> lifetime, at |-> clock]
  /\ UNCHANGED <<google, clock, cache, lock, kid, since, lacked>>

\* Time passes, but no fetch outlives its timeout.
Tick ==
  /\ clock < MaxTime
  /\ holder # {} => clock < since + FetchTimeout
  /\ clock' = clock + 1
  /\ UNCHANGED <<google, cache, lock, stage, kid, fetch, lacked>>

-----------------------------------------------------------------------------
(* The cache                                                               *)

\* Mutant: an empty cache is the only stale one.
FreshForEver == keys # {}

\* _is_fresh
Fresh == clock < expires /\ keys # {}

\* c has the lock and sends a request to Google.
StartFetch(c) ==
  /\ holder' = {c}
  /\ stage' = [stage EXCEPT ![c] = "fetching"]
  /\ since' = clock
  /\ answer' = NoAnswer
  /\ UNCHANGED cache

\* get_key up to the lock.  A lock that is free and has no queue is taken at once.
Ask(c, k) ==
  /\ stage[c] = "new"
  /\ kid' = [kid EXCEPT ![c] = k]
  /\ lacked' = IF k \in published THEN lacked ELSE lacked \cup {c}
  /\ \/ /\ Fresh /\ k \in keys
        /\ stage' = [stage EXCEPT ![c] = "key"]
        /\ UNCHANGED <<cache, lock, fetch>>
     \/ /\ ~(Fresh /\ k \in keys)
        /\ holder = {} /\ waiting = <<>>
        /\ StartFetch(c)
        /\ UNCHANGED waiting
     \/ /\ ~(Fresh /\ k \in keys)
        /\ holder # {} \/ waiting # <<>>
        /\ waiting' = Append(waiting, c)
        /\ stage' = [stage EXCEPT ![c] = "queued"]
        /\ UNCHANGED <<cache, holder, fetch>>
  /\ UNCHANGED <<google, clock>>

\* Mutant: trusts a cache that somebody has just filled.
AcquireTrusting(c) ==
  /\ holder = {} /\ waiting # <<>> /\ c = Head(waiting)
  /\ waiting' = Tail(waiting)
  /\ IF Fresh
     THEN /\ stage' = [stage EXCEPT ![c] = IF kid[c] \in keys THEN "key" ELSE "rejected"]
          /\ UNCHANGED <<cache, holder, fetch>>
     ELSE StartFetch(c)
  /\ UNCHANGED <<google, clock, kid, lacked>>

\* The first in the queue gets the lock and looks again: somebody may have filled the cache.
Acquire(c) ==
  /\ holder = {} /\ waiting # <<>> /\ c = Head(waiting)
  /\ waiting' = Tail(waiting)
  /\ IF Fresh /\ kid[c] \in keys
     THEN /\ stage' = [stage EXCEPT ![c] = "key"]
          /\ UNCHANGED <<cache, holder, fetch>>
     ELSE StartFetch(c)
  /\ UNCHANGED <<google, clock, kid, lacked>>

\* _refresh ends: the answer replaces the cache, and the lock is released.
Arrive(c) ==
  /\ stage[c] = "answered"
  /\ keys' = answer.keys
  /\ expires' = clock + answer.lifetime
  /\ asOf' = answer.at
  /\ stage' = [stage EXCEPT ![c] = IF kid[c] \in answer.keys THEN "key" ELSE "rejected"]
  /\ holder' = {}
  /\ UNCHANGED <<google, clock, waiting, kid, fetch, lacked>>

\* Mutant: an error keeps the lock.
FetchFailsLocked(c) ==
  /\ stage[c] \in {"fetching", "answered"}
  /\ stage' = [stage EXCEPT ![c] = "error"]
  /\ UNCHANGED <<google, clock, cache, lock, kid, fetch, lacked>>

\* The request to Google fails, times out or is answered with no keys: the cache stays.
FetchFails(c) ==
  /\ stage[c] \in {"fetching", "answered"}
  /\ stage' = [stage EXCEPT ![c] = "error"]
  /\ holder' = {}
  /\ UNCHANGED <<google, clock, cache, waiting, kid, fetch, lacked>>

-----------------------------------------------------------------------------
\* What happens after a caller has asked
CallerStep(c) ==
  \/ Acquire(c)
  \/ \E lifetime \in Lifetimes : GoogleAnswers(c, lifetime)
  \/ Arrive(c)
  \/ FetchFails(c)

KeysNext ==
  \/ \E c \in Callers, k \in Kids : Ask(c, k)
  \/ \E c \in Callers : CallerStep(c)
  \/ \E new \in SUBSET Kids : Rotate(new)
  \/ Tick

KeysSpec == KeysInit /\ [][KeysNext]_keyVars

-----------------------------------------------------------------------------
(* Properties                                                              *)

LongestLifetime == CHOOSE n \in Lifetimes : \A o \in Lifetimes : o <= n

\* A key that get_key hands out of the cache is one that Google publishes, or withdrew
\* less than the longest max-age and one fetch ago.
KeysAreRecent ==
  Fresh => \A k \in keys :
             k \in published \/ clock < withdrawn[k] + LongestLifetime + FetchTimeout

\* A slow answer never replaces the keys of a later one.
CacheNeverGoesBack == [][asOf' >= asOf]_keyVars

\* A login is turned away for its key only if Google lacked that key at some point while
\* it ran: neither a cache filled before a rotation nor somebody else's fetch decides.
RejectedOnlyIfMissing == \A c \in Callers : stage[c] = "rejected" => c \in lacked

\* Nobody is left in the queue: while somebody waits, the lock is free for the first in it,
\* or is held by a login whose fetch is still to end, however the fetches before have ended.
QueueMoves == \A c \in holder : stage[c] \in {"fetching", "answered"}
=============================================================================
