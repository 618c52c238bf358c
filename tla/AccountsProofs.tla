--------------------------- MODULE AccountsProofs ---------------------------
(***************************************************************************)
(* Proofs about GoogleKeys, Identities and PushTokens, for any accounts,   *)
(* requests, values, devices and calls, any keys, any max-age with a bound *)
(* and any timeout.                                                        *)
(***************************************************************************)
EXTENDS Identities, PushTokens, TLAPS, FiniteSetTheorems

-----------------------------------------------------------------------------
(* The keys of Google                                                      *)

Fetching(c) == stage[c] \in {"fetching", "answered"}

\* The lock is held by the login whose fetch is in flight, and by no other.
LockInv ==
  /\ \A c \in Callers : Fetching(c) <=> holder = {c}
  /\ holder = {} \/ \E c \in Callers : holder = {c}
  /\ \A c \in Callers : stage[c] # "new" => kid[c] \in Kids

\* Who is in the queue waits there, once.
QueueInv ==
  /\ \A i \in 1..Len(waiting) : stage[waiting[i]] = "queued"
  /\ \A i, j \in 1..Len(waiting) : waiting[i] = waiting[j] => i = j

\* The answer in flight, and what is cached, were given when they say, and no fetch
\* outlives its timeout.
TimeInv ==
  /\ asOf <= clock
  /\ expires <= asOf + LongestLifetime + FetchTimeout
  /\ \A c \in Callers : Fetching(c) => asOf <= since /\ since <= clock /\ clock <= since + FetchTimeout
  /\ \A c \in Callers : stage[c] = "answered" =>
       answer \in Answers /\ since <= answer.at /\ answer.at <= clock

\* A key Google gave and does not publish any more was withdrawn after it was given.
WithdrawnInv ==
  /\ \A k \in keys : k \in published \/ asOf <= withdrawn[k]
  /\ \A c \in Callers : stage[c] = "answered" =>
       \A k \in answer.keys : k \in published \/ answer.at <= withdrawn[k]

\* A login whose key Google lacks is counted as such before anybody tells it so.
LackedInv ==
  /\ \A c \in Callers : stage[c] \in {"queued", "fetching", "answered"} =>
       kid[c] \in published \/ c \in lacked
  /\ \A c \in Callers : stage[c] = "answered" /\ kid[c] \notin answer.keys => c \in lacked
  /\ RejectedOnlyIfMissing

KeysInv == KeysTypeOK /\ LockInv /\ QueueInv /\ TimeInv /\ WithdrawnInv /\ LackedInv

-----------------------------------------------------------------------------
\* No answer of Google's lives longer than LongestLifetime, a natural number.
LEMMA LongestLifetimeType ==
  LongestLifetime \in Nat /\ \A n \in Lifetimes : n <= LongestLifetime
  BY GoogleKeysAssumption DEF LongestLifetime

\* The steps, with the two that start a fetch seen as the queue, the lock and the fetch.
Steps ==
  \/ \E c \in Callers, k \in Kids : Ask(c, k)
  \/ \E c \in Callers : Acquire(c)
  \/ \E c \in Callers, n \in Lifetimes : GoogleAnswers(c, n)
  \/ \E c \in Callers : Arrive(c)
  \/ \E c \in Callers : FetchFails(c)
  \/ \E new \in SUBSET Kids : Rotate(new)
  \/ Tick

\* Every step is a step of one caller, or time passing, or Google changing its keys.
LEMMA NextIsSteps == KeysNext => Steps
  BY DEF KeysNext, CallerStep, Steps

\* The empty cache satisfies the invariant.
LEMMA InitInv == KeysInit => KeysInv
<1> SUFFICES ASSUME KeysInit PROVE KeysInv
  OBVIOUS
<1> USE GoogleKeysAssumption, LongestLifetimeType DEF KeysInit
<1>1. KeysTypeOK
  BY FS_EmptySet DEF KeysTypeOK
<1>2. LockInv
  BY DEF LockInv, Fetching
<1>6. QueueInv
  BY DEF QueueInv
<1>3. TimeInv
  BY DEF TimeInv, Fetching
<1>4. WithdrawnInv
  BY DEF WithdrawnInv
<1>5. LackedInv
  BY DEF LackedInv, RejectedOnlyIfMissing
<1>. QED
  BY <1>1, <1>2, <1>3, <1>4, <1>5, <1>6 DEF KeysInv

-----------------------------------------------------------------------------
(* Types                                                                   *)

\* One caller is a set of at most one caller: what the lock is held by.
LEMMA Singleton == \A c \in Callers : {c} \subseteq Callers /\ Cardinality({c}) <= 1
<1> TAKE c \in Callers
<1>. QED
  BY FS_Singleton

\* Every step keeps the types of the cache.
LEMMA TypeStep == KeysTypeOK /\ [KeysNext]_keyVars => KeysTypeOK'
<1> SUFFICES ASSUME KeysTypeOK, [KeysNext]_keyVars PROVE KeysTypeOK'
  OBVIOUS
<1> USE GoogleKeysAssumption DEF KeysTypeOK, cache, lock, google, fetch
<1>1. ASSUME NEW c \in Callers, NEW k \in Kids, Ask(c, k)
      PROVE  KeysTypeOK'
  <2>1. CASE Fresh /\ k \in keys /\ stage' = [stage EXCEPT ![c] = "key"]
               /\ UNCHANGED <<cache, lock, fetch>>
    BY <1>1, <2>1 DEF Ask, Ended
  <2>2. CASE StartFetch(c) /\ UNCHANGED waiting
    BY <1>1, <2>2, Singleton DEF Ask, StartFetch
  <2>3. CASE waiting' = Append(waiting, c) /\ stage' = [stage EXCEPT ![c] = "queued"]
               /\ UNCHANGED <<cache, holder, fetch>>
    BY <1>1, <2>3 DEF Ask
  <2>. QED
    BY <1>1, <2>1, <2>2, <2>3 DEF Ask
<1>2. ASSUME NEW c \in Callers, Acquire(c)
      PROVE  KeysTypeOK'
  <2>0. Tail(waiting) \in Seq(Callers)
    BY <1>2 DEF Acquire
  <2>1. CASE stage' = [stage EXCEPT ![c] = "key"] /\ UNCHANGED <<cache, holder, fetch>>
    BY <1>2, <2>0, <2>1 DEF Acquire, Ended
  <2>2. CASE StartFetch(c)
    BY <1>2, <2>0, <2>2, Singleton DEF Acquire, StartFetch
  <2>. QED
    BY <1>2, <2>1, <2>2 DEF Acquire
<1>3. ASSUME NEW c \in Callers, NEW n \in Lifetimes, GoogleAnswers(c, n)
      PROVE  KeysTypeOK'
  <2>1. [keys |-> published, lifetime |-> n, at |-> clock] \in Answers
    BY DEF Answers
  <2>. QED
    BY <1>3, <2>1 DEF GoogleAnswers
<1>4. ASSUME NEW c \in Callers, Arrive(c)
      PROVE  KeysTypeOK'
  <2>1. answer.keys \subseteq Kids /\ answer.lifetime \in Nat /\ answer.at \in 0..MaxTime
    <3>1. CASE answer \in Answers
      BY <3>1 DEF Answers
    <3>2. CASE answer = NoAnswer
      BY <3>2 DEF NoAnswer
    <3>. QED
      BY <3>1, <3>2
  <2>2. Cardinality({}) <= 1 /\ {} \subseteq Callers
    BY FS_EmptySet
  <2>3. keys' \subseteq Kids /\ expires' \in Nat /\ asOf' \in 0..MaxTime
    BY <1>4, <2>1 DEF Arrive
  <2>4. stage' \in [Callers -> {"new", "queued", "fetching", "answered"} \cup Ended]
    BY <1>4 DEF Arrive, Ended
  <2>5. holder' \subseteq Callers /\ Cardinality(holder') <= 1
    BY <1>4, <2>2 DEF Arrive
  <2>6. UNCHANGED <<google, clock, waiting, kid, fetch, lacked>>
    BY <1>4 DEF Arrive
  <2>. QED
    BY <2>3, <2>4, <2>5, <2>6
<1>5. ASSUME NEW c \in Callers, FetchFails(c)
      PROVE  KeysTypeOK'
  BY <1>5, FS_EmptySet DEF FetchFails, Ended
<1>6. ASSUME NEW new \in SUBSET Kids, Rotate(new)
      PROVE  KeysTypeOK'
  <2>1. published' \in (SUBSET Kids) \ {{}} /\ rotations' \in 0..MaxRotations
    BY <1>6 DEF Rotate
  <2>2. withdrawn' \in [Kids -> 0..MaxTime]
    BY <1>6 DEF Rotate
  <2>3. lacked' \subseteq Callers
    BY <1>6 DEF Rotate
  <2>. QED
    BY <1>6, <2>1, <2>2, <2>3 DEF Rotate
<1>7. CASE Tick
  BY <1>7 DEF Tick
<1>8. CASE UNCHANGED keyVars
  BY <1>8 DEF keyVars
<1>. QED
  BY <1>1, <1>2, <1>3, <1>4, <1>5, <1>6, <1>7, <1>8, NextIsSteps DEF Steps
-----------------------------------------------------------------------------
(* The parts of the invariant                                              *)

\* The first in the queue is a caller that waits for the lock.
LEMMA HeadQueued ==
  ASSUME KeysTypeOK, QueueInv, waiting # <<>>
  PROVE  Head(waiting) \in Callers /\ stage[Head(waiting)] = "queued"
<1>1. 1 \in 1..Len(waiting) /\ Head(waiting) = waiting[1] /\ waiting[1] \in Callers
  BY DEF KeysTypeOK
<1>. QED
  BY <1>1 DEF QueueInv

\* What is given during a fetch expires at most its lifetime and the timeout after it was given.
LEMMA ExpiryBound ==
  ASSUME NEW now \in Nat, NEW began \in Nat, NEW given \in Nat, NEW life \in Nat,
         NEW long \in Nat, NEW timeout \in Nat,
         life <= long, now <= began + timeout, began <= given
  PROVE  now + life <= given + long + timeout
  OBVIOUS

\* The queue grows by a login that is new and shrinks by the one that is served.
LEMMA QueueStep == KeysTypeOK /\ LockInv /\ QueueInv /\ [KeysNext]_keyVars => QueueInv'
<1> SUFFICES ASSUME KeysTypeOK, LockInv, QueueInv, [KeysNext]_keyVars PROVE QueueInv'
  OBVIOUS
<1>0. \A i \in 1..Len(waiting) : waiting[i] \in Callers
  BY DEF KeysTypeOK
<1>1. ASSUME NEW c \in Callers, NEW k \in Kids, Ask(c, k)
      PROVE  QueueInv'
  <2>1. /\ stage[c] = "new"
        /\ \A d \in Callers \ {c} : stage'[d] = stage[d]
    BY <1>1 DEF Ask, StartFetch, KeysTypeOK
  <2>2. CASE waiting' = waiting
    BY <1>0, <2>1, <2>2 DEF QueueInv
  <2>3. CASE waiting' = Append(waiting, c) /\ stage' = [stage EXCEPT ![c] = "queued"]
    <3>1. /\ Len(waiting) \in Nat /\ Len(waiting') = Len(waiting) + 1
          /\ \A i \in 1..Len(waiting) : waiting'[i] = waiting[i]
          /\ waiting'[Len(waiting) + 1] = c
      BY <2>3 DEF KeysTypeOK
    <3>2. stage'[c] = "queued"
      BY <2>3 DEF KeysTypeOK
    <3>3. \A i \in 1..Len(waiting) : waiting[i] # c
      BY <2>1 DEF QueueInv
    <3>4. \A i \in 1..Len(waiting') : i \in 1..Len(waiting) \/ i = Len(waiting) + 1
      BY <3>1
    <3>. QED
      BY <1>0, <2>1, <3>1, <3>2, <3>3, <3>4 DEF QueueInv
  <2>. QED
    BY <1>1, <2>2, <2>3 DEF Ask, lock
<1>2. ASSUME NEW c \in Callers, Acquire(c)
      PROVE  QueueInv'
  <2>1. /\ Len(waiting) \in Nat /\ Len(waiting') = Len(waiting) - 1
        /\ \A i \in 1..Len(waiting') : i + 1 \in 1..Len(waiting) /\ waiting'[i] = waiting[i + 1]
        /\ c = waiting[1] /\ 1 \in 1..Len(waiting)
    BY <1>2 DEF Acquire, KeysTypeOK
  <2>2. \A d \in Callers \ {c} : stage'[d] = stage[d]
    BY <1>2 DEF Acquire, StartFetch, KeysTypeOK
  <2>3. ASSUME NEW i \in 1..Len(waiting')
        PROVE  waiting'[i] \in Callers \ {c}
    <3>1. i + 1 \in 1..Len(waiting) /\ i + 1 # 1 /\ waiting'[i] = waiting[i + 1]
      BY <2>1
    <3>2. waiting[i + 1] # waiting[1]
      BY <2>1, <3>1 DEF QueueInv
    <3>. QED
      BY <1>0, <2>1, <3>1, <3>2
  <2>4. \A i \in 1..Len(waiting') : stage'[waiting'[i]] = "queued"
    BY <2>1, <2>2, <2>3 DEF QueueInv
  <2>5. \A i, j \in 1..Len(waiting') : waiting'[i] = waiting'[j] => i = j
    BY <2>1 DEF QueueInv
  <2>. QED
    BY <2>4, <2>5 DEF QueueInv
<1>3. ASSUME NEW c \in Callers, Fetching(c), waiting' = waiting,
             \A d \in Callers \ {c} : stage'[d] = stage[d]
      PROVE  QueueInv'
  BY <1>0, <1>3 DEF QueueInv, Fetching
<1>4. ASSUME NEW c \in Callers, NEW n \in Lifetimes, GoogleAnswers(c, n)
      PROVE  QueueInv'
  BY <1>3, <1>4 DEF GoogleAnswers, Fetching, lock, KeysTypeOK
<1>5. ASSUME NEW c \in Callers, Arrive(c)
      PROVE  QueueInv'
  BY <1>3, <1>5 DEF Arrive, Fetching, KeysTypeOK
<1>6. ASSUME NEW c \in Callers, FetchFails(c)
      PROVE  QueueInv'
  BY <1>3, <1>6 DEF FetchFails, Fetching, KeysTypeOK
<1>7. ASSUME NEW new \in SUBSET Kids, Rotate(new)
      PROVE  QueueInv'
  BY <1>7 DEF Rotate, QueueInv, lock
<1>8. CASE Tick
  BY <1>8 DEF Tick, QueueInv, lock
<1>9. CASE UNCHANGED keyVars
  BY <1>9 DEF keyVars, QueueInv, lock
<1>. QED
  BY <1>1, <1>2, <1>4, <1>5, <1>6, <1>7, <1>8, <1>9, NextIsSteps DEF Steps

\* A fetch takes the lock when it is free and gives it back when it ends.
LEMMA LockStep == KeysTypeOK /\ LockInv /\ QueueInv /\ [KeysNext]_keyVars => LockInv'
<1> SUFFICES ASSUME KeysTypeOK, LockInv, QueueInv, [KeysNext]_keyVars PROVE LockInv'
  OBVIOUS
<1> USE GoogleKeysAssumption DEF KeysTypeOK, LockInv, Fetching, Ended, cache, lock, google, fetch
<1>1. ASSUME NEW c \in Callers, NEW k \in Kids, Ask(c, k)
      PROVE  LockInv'
  BY <1>1 DEF Ask, StartFetch
<1>2. ASSUME NEW c \in Callers, Acquire(c)
      PROVE  LockInv'
  <2>1. CASE Fresh /\ kid[c] \in keys /\ stage' = [stage EXCEPT ![c] = "key"]
               /\ UNCHANGED <<cache, holder, fetch>>
    BY <1>2, <2>1 DEF Acquire
  <2>2. CASE holder = {} /\ StartFetch(c)
    <3>1. stage[c] = "queued"
      BY <1>2, HeadQueued DEF Acquire
    <3>. QED
      BY <1>2, <2>2, <3>1 DEF Acquire, StartFetch
  <2>. QED
    BY <1>2, <2>1, <2>2 DEF Acquire
<1>3. ASSUME NEW c \in Callers, NEW n \in Lifetimes, GoogleAnswers(c, n)
      PROVE  LockInv'
  BY <1>3 DEF GoogleAnswers
<1>4. ASSUME NEW c \in Callers, Arrive(c)
      PROVE  LockInv'
  BY <1>4 DEF Arrive
<1>5. ASSUME NEW c \in Callers, FetchFails(c)
      PROVE  LockInv'
  BY <1>5 DEF FetchFails
<1>6. ASSUME NEW new \in SUBSET Kids, Rotate(new)
      PROVE  LockInv'
  BY <1>6 DEF Rotate
<1>7. ASSUME Tick
      PROVE  LockInv'
  BY <1>7 DEF Tick
<1>8. CASE UNCHANGED keyVars
  BY <1>8 DEF keyVars
<1>. QED
  BY <1>1, <1>2, <1>3, <1>4, <1>5, <1>6, <1>7, <1>8, NextIsSteps DEF Steps

\* The answer comes while the fetch runs, which the clock does not outrun.
LEMMA TimeStep == KeysTypeOK /\ LockInv /\ TimeInv /\ [KeysNext]_keyVars => TimeInv'
<1> SUFFICES ASSUME KeysTypeOK, LockInv, TimeInv, [KeysNext]_keyVars PROVE TimeInv'
  OBVIOUS
<1> USE GoogleKeysAssumption DEF KeysTypeOK, LockInv, TimeInv, Fetching, Ended, Answers, cache, lock, google, fetch
<1>1. ASSUME NEW c \in Callers, NEW k \in Kids, Ask(c, k)
      PROVE  TimeInv'
  <2>1. CASE Fresh /\ k \in keys /\ stage' = [stage EXCEPT ![c] = "key"]
               /\ UNCHANGED <<cache, lock, fetch>>
    BY <1>1, <2>1 DEF Ask
  <2>2. CASE holder = {} /\ StartFetch(c) /\ UNCHANGED waiting
    BY <1>1, <2>2 DEF Ask, StartFetch
  <2>3. CASE waiting' = Append(waiting, c) /\ stage' = [stage EXCEPT ![c] = "queued"]
               /\ UNCHANGED <<cache, holder, fetch>>
    BY <1>1, <2>3 DEF Ask
  <2>. QED
    BY <1>1, <2>1, <2>2, <2>3 DEF Ask
<1>2. ASSUME NEW c \in Callers, Acquire(c)
      PROVE  TimeInv'
  BY <1>2 DEF Acquire, StartFetch
<1>3. ASSUME NEW c \in Callers, NEW n \in Lifetimes, GoogleAnswers(c, n)
      PROVE  TimeInv'
  BY <1>3 DEF GoogleAnswers
<1>4. ASSUME NEW c \in Callers, Arrive(c)
      PROVE  TimeInv'
  <2>1. /\ asOf' = answer.at /\ answer.at \in Nat /\ answer.lifetime \in Lifetimes
        /\ asOf <= since /\ since <= answer.at /\ answer.at <= clock
        /\ clock <= since + FetchTimeout
    BY <1>4 DEF Arrive
  <2>2. expires' <= asOf' + LongestLifetime + FetchTimeout
    <3>1. answer.lifetime \in Nat /\ answer.lifetime <= LongestLifetime /\ LongestLifetime \in Nat
      BY <2>1, LongestLifetimeType
    <3>2. expires' = clock + answer.lifetime
      BY <1>4 DEF Arrive
    <3>3. clock \in Nat /\ since \in Nat /\ FetchTimeout \in Nat
      OBVIOUS
    <3>. QED
      BY <2>1, <3>1, <3>2, <3>3, ExpiryBound
  <2>3. \A d \in Callers : ~Fetching(d)'
    BY <1>4 DEF Arrive
  <2>. QED
    BY <1>4, <2>1, <2>2, <2>3 DEF Arrive
<1>5. ASSUME NEW c \in Callers, FetchFails(c)
      PROVE  TimeInv'
  BY <1>5 DEF FetchFails
<1>6. ASSUME NEW new \in SUBSET Kids, Rotate(new)
      PROVE  TimeInv'
  BY <1>6 DEF Rotate
<1>7. ASSUME Tick
      PROVE  TimeInv'
  <2>1. /\ clock' = clock + 1 /\ clock \in Nat /\ since \in Nat /\ FetchTimeout \in Nat
        /\ holder # {} => clock < since + FetchTimeout
        /\ UNCHANGED <<cache, stage, fetch>>
    BY <1>7 DEF Tick
  <2>2. \A c \in Callers : Fetching(c)' => Fetching(c) /\ holder # {}
    BY <2>1
  <2>3. \A c \in Callers : Fetching(c)' => asOf' <= since' /\ since' <= clock' /\ clock' <= since' + FetchTimeout
    BY <2>1, <2>2
  <2>4. \A c \in Callers : stage'[c] = "answered" =>
          answer' \in Answers /\ since' <= answer'.at /\ answer'.at <= clock'
    BY <2>1
  <2>5. asOf' <= clock' /\ expires' <= asOf' + LongestLifetime + FetchTimeout
    BY <2>1
  <2>. QED
    BY <2>3, <2>4, <2>5
<1>8. CASE UNCHANGED keyVars
  BY <1>8 DEF keyVars
<1>. QED
  BY <1>1, <1>2, <1>3, <1>4, <1>5, <1>6, <1>7, <1>8, NextIsSteps DEF Steps

\* What Google withdraws is withdrawn now, after everything it gave.
LEMMA WithdrawnStep == KeysTypeOK /\ LockInv /\ TimeInv /\ WithdrawnInv /\ [KeysNext]_keyVars => WithdrawnInv'
<1> SUFFICES ASSUME KeysTypeOK, LockInv, TimeInv, WithdrawnInv, [KeysNext]_keyVars PROVE WithdrawnInv'
  OBVIOUS
<1> USE GoogleKeysAssumption DEF KeysTypeOK, LockInv, TimeInv, WithdrawnInv, Fetching, Ended, Answers, cache, lock, google, fetch
<1>1. ASSUME NEW c \in Callers, NEW k \in Kids, Ask(c, k)
      PROVE  WithdrawnInv'
  <2>1. CASE Fresh /\ k \in keys /\ stage' = [stage EXCEPT ![c] = "key"]
               /\ UNCHANGED <<cache, lock, fetch>>
    BY <1>1, <2>1 DEF Ask
  <2>2. CASE holder = {} /\ StartFetch(c) /\ UNCHANGED waiting
    BY <1>1, <2>2 DEF Ask, StartFetch
  <2>3. CASE waiting' = Append(waiting, c) /\ stage' = [stage EXCEPT ![c] = "queued"]
               /\ UNCHANGED <<cache, holder, fetch>>
    BY <1>1, <2>3 DEF Ask
  <2>. QED
    BY <1>1, <2>1, <2>2, <2>3 DEF Ask
<1>2. ASSUME NEW c \in Callers, Acquire(c)
      PROVE  WithdrawnInv'
  BY <1>2 DEF Acquire, StartFetch
<1>3. ASSUME NEW c \in Callers, NEW n \in Lifetimes, GoogleAnswers(c, n)
      PROVE  WithdrawnInv'
  BY <1>3 DEF GoogleAnswers
<1>4. ASSUME NEW c \in Callers, Arrive(c)
      PROVE  WithdrawnInv'
  BY <1>4 DEF Arrive
<1>5. ASSUME NEW c \in Callers, FetchFails(c)
      PROVE  WithdrawnInv'
  BY <1>5 DEF FetchFails
<1>6. ASSUME NEW new \in SUBSET Kids, Rotate(new)
      PROVE  WithdrawnInv'
  BY <1>6 DEF Rotate
<1>7. ASSUME Tick
      PROVE  WithdrawnInv'
  BY <1>7 DEF Tick
<1>8. CASE UNCHANGED keyVars
  BY <1>8 DEF keyVars
<1>. QED
  BY <1>1, <1>2, <1>3, <1>4, <1>5, <1>6, <1>7, <1>8, NextIsSteps DEF Steps

\* Nobody else's answer decides: a rejected login's own fetch found the key missing.
LEMMA LackedStep == KeysTypeOK /\ LockInv /\ QueueInv /\ LackedInv /\ [KeysNext]_keyVars => LackedInv'
<1> SUFFICES ASSUME KeysTypeOK, LockInv, QueueInv, LackedInv, [KeysNext]_keyVars PROVE LackedInv'
  OBVIOUS
<1> USE GoogleKeysAssumption DEF KeysTypeOK, LockInv, LackedInv, RejectedOnlyIfMissing, Fetching, Ended, cache, lock, google, fetch
<1>1. ASSUME NEW c \in Callers, NEW k \in Kids, Ask(c, k)
      PROVE  LackedInv'
  <2>1. CASE Fresh /\ k \in keys /\ stage' = [stage EXCEPT ![c] = "key"]
               /\ UNCHANGED <<cache, lock, fetch>>
    BY <1>1, <2>1 DEF Ask
  <2>2. CASE holder = {} /\ StartFetch(c) /\ UNCHANGED waiting
    BY <1>1, <2>2 DEF Ask, StartFetch
  <2>3. CASE waiting' = Append(waiting, c) /\ stage' = [stage EXCEPT ![c] = "queued"]
               /\ UNCHANGED <<cache, holder, fetch>>
    BY <1>1, <2>3 DEF Ask
  <2>. QED
    BY <1>1, <2>1, <2>2, <2>3 DEF Ask
<1>2. ASSUME NEW c \in Callers, Acquire(c)
      PROVE  LackedInv'
  <2>1. CASE Fresh /\ kid[c] \in keys /\ stage' = [stage EXCEPT ![c] = "key"]
               /\ UNCHANGED <<cache, holder, fetch>>
    BY <1>2, <2>1 DEF Acquire
  <2>2. CASE holder = {} /\ StartFetch(c)
    <3>1. stage[c] = "queued"
      BY <1>2, HeadQueued DEF Acquire
    <3>. QED
      BY <1>2, <2>2, <3>1 DEF Acquire, StartFetch
  <2>. QED
    BY <1>2, <2>1, <2>2 DEF Acquire
<1>3. ASSUME NEW c \in Callers, NEW n \in Lifetimes, GoogleAnswers(c, n)
      PROVE  LackedInv'
  <2>1. \A d \in Callers : stage'[d] = "answered" => d = c
    BY <1>3 DEF GoogleAnswers
  <2>2. answer'.keys = published
    BY <1>3 DEF GoogleAnswers
  <2>. QED
    BY <1>3, <2>1, <2>2 DEF GoogleAnswers
<1>4. ASSUME NEW c \in Callers, Arrive(c)
      PROVE  LackedInv'
  BY <1>4 DEF Arrive
<1>5. ASSUME NEW c \in Callers, FetchFails(c)
      PROVE  LackedInv'
  BY <1>5 DEF FetchFails
<1>6. ASSUME NEW new \in SUBSET Kids, Rotate(new)
      PROVE  LackedInv'
  BY <1>6 DEF Rotate
<1>7. ASSUME Tick
      PROVE  LackedInv'
  BY <1>7 DEF Tick
<1>8. CASE UNCHANGED keyVars
  BY <1>8 DEF keyVars
<1>. QED
  BY <1>1, <1>2, <1>3, <1>4, <1>5, <1>6, <1>7, <1>8, NextIsSteps DEF Steps

-----------------------------------------------------------------------------
(* The theorems                                                            *)

\* The invariant holds in every state of the cache on its own.
LEMMA KeysInvariant == KeysSpec => []KeysInv
<1>1. KeysInit => KeysInv
  BY InitInv
<1>2. KeysInv /\ [KeysNext]_keyVars => KeysInv'
  BY TypeStep, LockStep, QueueStep, TimeStep, WithdrawnStep, LackedStep DEF KeysInv
<1>. QED
  BY <1>1, <1>2, PTL DEF KeysSpec

\* The invariant gives the properties the runs check.
LEMMA InvImplies == KeysInv => KeysTypeOK /\ RejectedOnlyIfMissing /\ QueueMoves /\ KeysAreRecent
<1> SUFFICES ASSUME KeysInv
             PROVE  KeysTypeOK /\ RejectedOnlyIfMissing /\ QueueMoves /\ KeysAreRecent
  OBVIOUS
<1>1. KeysTypeOK /\ RejectedOnlyIfMissing
  BY DEF KeysInv, LackedInv
<1>2. QueueMoves
  BY DEF KeysInv, LockInv, QueueMoves, Fetching
<1>3. ASSUME Fresh, NEW k \in keys, k \notin published
      PROVE  clock < withdrawn[k] + LongestLifetime + FetchTimeout
  <2>1. /\ clock \in Nat /\ expires \in Nat /\ asOf \in Nat /\ withdrawn[k] \in Nat
        /\ FetchTimeout \in Nat /\ LongestLifetime \in Nat
    BY GoogleKeysAssumption, LongestLifetimeType DEF KeysInv, KeysTypeOK
  <2>2. clock < expires
    BY <1>3 DEF Fresh
  <2>3. expires <= asOf + LongestLifetime + FetchTimeout /\ asOf <= withdrawn[k]
    BY <1>3 DEF KeysInv, TimeInv, WithdrawnInv
  <2>. QED
    BY <2>1, <2>2, <2>3
<1>. QED
  BY <1>1, <1>2, <1>3 DEF KeysAreRecent

\* The cache never goes back to an older answer.
LEMMA CacheStep == KeysInv /\ [KeysNext]_keyVars => [asOf' >= asOf]_keyVars
<1> SUFFICES ASSUME KeysInv, [KeysNext]_keyVars, ~UNCHANGED keyVars PROVE asOf' >= asOf
  OBVIOUS
<1>0. asOf \in Nat
  BY GoogleKeysAssumption DEF KeysInv, KeysTypeOK
<1>1. ASSUME NEW c \in Callers, Arrive(c)
      PROVE  asOf' >= asOf
  <2>1. asOf <= since /\ since <= answer.at /\ answer.at \in Nat /\ since \in Nat
    BY <1>1 DEF KeysInv, TimeInv, Arrive, Fetching, Answers, KeysTypeOK
  <2>. QED
    BY <1>0, <1>1, <2>1 DEF Arrive
<1>2. CASE UNCHANGED asOf
  BY <1>0, <1>2
<1>. QED
  BY <1>1, <1>2, NextIsSteps
  DEF Steps, Ask, Acquire, StartFetch, GoogleAnswers, FetchFails, Rotate, Tick, cache

\* The cache and the calls keep their types.
THEOREM KeysTypeCorrect == KeysSpec => []KeysTypeOK
  BY KeysInvariant, InvImplies, PTL

\* Whatever Google's max-ages and however slow its answers, get_key hands out no key that
\* was withdrawn longer ago than the longest max-age and one fetch.
THEOREM KeysStayRecent == KeysSpec => []KeysAreRecent
  BY KeysInvariant, InvImplies, PTL

\* A login is turned away for its key only if Google lacked the key while it ran.
THEOREM RejectionIsDeserved == KeysSpec => []RejectedOnlyIfMissing
  BY KeysInvariant, InvImplies, PTL

\* The lock is never held by a login whose fetch is over.
THEOREM LockIsReleased == KeysSpec => []QueueMoves
  BY KeysInvariant, InvImplies, PTL

\* What the cache holds is never replaced by keys that Google gave earlier.
THEOREM CacheGoesForward == KeysSpec => CacheNeverGoesBack
<1>1. KeysInv /\ [KeysNext]_keyVars => [asOf' >= asOf]_keyVars
  BY CacheStep
<1>. QED
  BY <1>1, KeysInvariant, PTL DEF KeysSpec, CacheNeverGoesBack

-----------------------------------------------------------------------------
(* Accounts                                                                *)

Login(r) == want[r].sub # Nothing

\* Where a request works on which account
Work(r) ==
  /\ pc[r] = "new" => want[r] = NoValues
  /\ pc[r] \in {"verify", "identity", "user", "touch", "link"} => Login(r)
  /\ pc[r] \in {"name", "phone", "update"} => ~Login(r)
  /\ pc[r] \in {"user", "touch", "link", "phone", "update"} => user[r] \in rows
  /\ pc[r] = "name" /\ user[r] # r => user[r] \in rows
  /\ pc[r] = "name" => user[r] \in Accounts
  /\ pc[r] = "email" /\ ~Login(r) => user[r] = r
  /\ pc[r] = "create" => user[r] = r
  /\ r \in rows => pc[r] = "done"

WorkInv == \A r \in Requests : Work(r)

TypeInv == TypeOK /\ WorkInv

\* A Google identity belongs to one account, and a login that has found or made it works
\* on that account.
OneOwner ==
  \A sub \in Subs : \A a, b \in rows : <<sub, a>> \in linked /\ <<sub, b>> \in linked => a = b

Linked(r) ==
  Login(r) /\ pc[r] \in {"user", "touch", "done"} => <<want[r].sub, user[r]>> \in linked

LinkInv == OneOwner /\ \A r \in Requests : Linked(r)

\* A login does not get past its reads into an account that was banned when it began.
Outside(r) ==
  /\ barred[r] \subseteq banned
  /\ Login(r) /\ pc[r] \in {"touch", "link", "create", "done"} => user[r] \notin barred[r]

BanInv == \A r \in Requests : Outside(r)

-----------------------------------------------------------------------------
(* The cache of Google's keys                                              *)

\* Beside the accounts the cache takes its own steps.
LEMMA StepIsKeysStep == [Next]_vars => [KeysNext]_keyVars
<1> SUFFICES ASSUME [Next]_vars PROVE KeysNext \/ UNCHANGED keyVars
  OBVIOUS
<1>1. ASSUME NEW r \in Requests, NEW e \in Emails, NEW s \in Subs, NEW k \in Kids, BeginLogin(r, e, s, k)
      PROVE  KeysNext
  BY <1>1 DEF BeginLogin, KeysNext, Requests
<1>2. ASSUME NEW r \in Requests, Step(r)
      PROVE  UNCHANGED keyVars
  BY <1>2 DEF Step, Verified, ReadIdentity, ReadUser, ReadEmail, ReadEmailToLink, ReadUsername,
              ReadPhone, CreateAccount, LinkIdentity, TouchIdentity, UpdateUser, Fail, At
<1>3. ASSUME NEW r \in Requests, CallerStep(r)
      PROVE  KeysNext
  BY <1>3 DEF KeysNext, Requests
<1>4. ASSUME NEW new \in SUBSET Kids, Rotate(new)
      PROVE  KeysNext
  BY <1>4 DEF KeysNext
<1>5. CASE Tick
  BY <1>5 DEF KeysNext
<1>6. CASE UNCHANGED vars
  BY <1>6 DEF vars
<1>7. ASSUME NEW r \in Requests, NEW e \in Emails, NEW n \in Usernames, BeginRegister(r, e, n)
      PROVE  UNCHANGED keyVars
  BY <1>7 DEF BeginRegister
<1>8. ASSUME NEW r \in Requests, NEW a \in Accounts, NEW n \in Usernames, BeginSetUsername(r, a, n)
      PROVE  UNCHANGED keyVars
  BY <1>8 DEF BeginSetUsername
<1>9. ASSUME NEW r \in Requests, NEW a \in Accounts, NEW p \in Phones \cup {Nothing},
             BeginUpdateProfile(r, a, p)
      PROVE  UNCHANGED keyVars
  BY <1>9 DEF BeginUpdateProfile
<1>10. ASSUME NEW a \in Accounts, Ban(a)
       PROVE  UNCHANGED keyVars
  BY <1>10 DEF Ban
<1>. QED
  BY <1>1, <1>2, <1>3, <1>4, <1>5, <1>6, <1>7, <1>8, <1>9, <1>10 DEF Next

\* Identities implements the cache it extends.
THEOREM IdentitiesKeepKeys == Spec => KeysSpec
<1>1. Init => KeysInit
  BY DEF Init
<1>. QED
  BY <1>1, StepIsKeysStep, PTL DEF Spec, KeysSpec

-----------------------------------------------------------------------------
(* Types                                                                   *)

\* The initial states have the right types, and no request has asked for anything.
LEMMA InitTypeInv == Init => TypeInv
<1> SUFFICES ASSUME Init PROVE TypeInv
  OBVIOUS
<1> USE IdentitiesAssumption DEF Init, Accounts
<1>1. KeysTypeOK
  BY InitInv DEF KeysInv
<1>2. NoValues \in Values
  BY DEF NoValues, Values
<1>3. TypeOK
  BY <1>1, <1>2 DEF TypeOK
<1>4. WorkInv
  BY DEF WorkInv, Work, Login, NoValues
<1>. QED
  BY <1>3, <1>4 DEF TypeInv

\* The part of the type invariant that is not the cache's
AccTypeOK ==
  /\ rows \subseteq Accounts /\ Initial \subseteq rows /\ banned \subseteq rows
  /\ row \in [Accounts -> Columns]
  /\ linked \subseteq Subs \X rows
  /\ pc \in [Requests -> Running \cup {"new", "done", "refused", "failed", "died"}]
  /\ want \in [Requests -> Values]
  /\ user \in [Requests -> Accounts \cup {Nothing}]
  /\ barred \in [Requests -> SUBSET Accounts]
  /\ beside \subseteq SUBSET Requests

\* What the four kinds of request ask for
LEMMA Wanted ==
  /\ \A e \in Emails, n \in Usernames : [NoValues EXCEPT !.email = e, !.name = n] \in Values
  /\ \A e \in Emails, s \in Subs : [NoValues EXCEPT !.email = e, !.sub = s] \in Values
  /\ \A n \in Usernames : [NoValues EXCEPT !.name = n] \in Values
  /\ \A v \in Phones \cup {Nothing} : [NoValues EXCEPT !.phone = v] \in Values
  BY DEF NoValues, Values

\* Of the values a request may come with, those of a login alone name a Google identity.
LEMMA NotLogins ==
  /\ \A e \in Emails, n \in Usernames : [NoValues EXCEPT !.email = e, !.name = n].sub = Nothing
  /\ \A e \in Emails, s \in Subs : [NoValues EXCEPT !.email = e, !.sub = s].sub = s
  /\ \A n \in Usernames : [NoValues EXCEPT !.name = n].sub = Nothing
  /\ \A v \in Phones \cup {Nothing} : [NoValues EXCEPT !.phone = v].sub = Nothing
  BY DEF NoValues

\* How a request begins: the types of what Begin writes
LEMMA BeginTypes ==
  ASSUME AccTypeOK, NEW r \in Requests, NEW values \in Values, NEW step \in Running,
         Begin(r, values, step), user' \in [Requests -> Accounts \cup {Nothing}]
  PROVE  AccTypeOK'
<1>1. /\ UNCHANGED <<rows, row, linked, banned>>
      /\ pc' = [pc EXCEPT ![r] = step]
      /\ want' = [want EXCEPT ![r] = values]
      /\ barred' = [barred EXCEPT ![r] = banned]
      /\ beside' = beside \cup {{r, q} : q \in {q \in Requests : pc[q] \in Running}}
  BY DEF Begin, tables
<1>2. pc' \in [Requests -> Running \cup {"new", "done", "refused", "failed", "died"}]
  BY <1>1 DEF AccTypeOK
<1>3. want' \in [Requests -> Values]
  BY <1>1 DEF AccTypeOK
<1>4. barred' \in [Requests -> SUBSET Accounts]
  BY <1>1 DEF AccTypeOK
<1>5. beside' \subseteq SUBSET Requests
  <2>1. \A q \in Requests : {r, q} \in SUBSET Requests
    OBVIOUS
  <2>. QED
    BY <1>1, <2>1 DEF AccTypeOK
<1>. QED
  BY <1>1, <1>2, <1>3, <1>4, <1>5 DEF AccTypeOK

\* Every step keeps the types.
LEMMA AccTypeStep == AccTypeOK /\ WorkInv /\ [Next]_vars => AccTypeOK'
<1> SUFFICES ASSUME AccTypeOK, WorkInv, [Next]_vars PROVE AccTypeOK'
  OBVIOUS
<1>1. ASSUME NEW r \in Requests, NEW e \in Emails, NEW n \in Usernames, BeginRegister(r, e, n)
      PROVE  AccTypeOK'
  <2> DEFINE values == [NoValues EXCEPT !.email = e, !.name = n]
  <2>1. Begin(r, values, "email") /\ user' = [user EXCEPT ![r] = r]
    BY <1>1 DEF BeginRegister
  <2>2. user' \in [Requests -> Accounts \cup {Nothing}]
    BY <2>1 DEF AccTypeOK, Accounts
  <2>3. "email" \in Running
    BY DEF Running
  <2>4. values \in Values
    BY Wanted
  <2> HIDE DEF values
  <2>. QED
    BY <2>1, <2>2, <2>3, <2>4, BeginTypes
<1>2. ASSUME NEW r \in Requests, NEW e \in Emails, NEW s \in Subs, NEW k \in Kids, BeginLogin(r, e, s, k)
      PROVE  AccTypeOK'
  <2> DEFINE values == [NoValues EXCEPT !.email = e, !.sub = s]
  <2>1. Begin(r, values, "verify") /\ user' = user
    BY <1>2 DEF BeginLogin
  <2>2. user' \in [Requests -> Accounts \cup {Nothing}]
    BY <2>1 DEF AccTypeOK
  <2>3. "verify" \in Running
    BY DEF Running
  <2>4. values \in Values
    BY Wanted
  <2> HIDE DEF values
  <2>. QED
    BY <2>1, <2>2, <2>3, <2>4, BeginTypes
<1>3. ASSUME NEW r \in Requests, NEW a \in Accounts, NEW n \in Usernames, BeginSetUsername(r, a, n)
      PROVE  AccTypeOK'
  <2> DEFINE values == [NoValues EXCEPT !.name = n]
  <2>1. Begin(r, values, "name") /\ user' = [user EXCEPT ![r] = a]
    BY <1>3 DEF BeginSetUsername
  <2>2. user' \in [Requests -> Accounts \cup {Nothing}]
    BY <2>1 DEF AccTypeOK
  <2>3. "name" \in Running
    BY DEF Running
  <2>4. values \in Values
    BY Wanted
  <2> HIDE DEF values
  <2>. QED
    BY <2>1, <2>2, <2>3, <2>4, BeginTypes
<1>4. ASSUME NEW r \in Requests, NEW a \in Accounts, NEW v \in Phones \cup {Nothing},
             BeginUpdateProfile(r, a, v)
      PROVE  AccTypeOK'
  <2> DEFINE values == [NoValues EXCEPT !.phone = v]
  <2>1. PICK step \in {"phone", "update"} :
          Begin(r, values, step) /\ user' = [user EXCEPT ![r] = a]
    BY <1>4 DEF BeginUpdateProfile
  <2>2. user' \in [Requests -> Accounts \cup {Nothing}]
    BY <2>1 DEF AccTypeOK
  <2>3. step \in Running
    BY DEF Running
  <2>4. values \in Values
    BY Wanted
  <2> HIDE DEF values
  <2>. QED
    BY <2>1, <2>2, <2>3, <2>4, BeginTypes
<1>5. ASSUME NEW r \in Requests, Verified(r)
      PROVE  AccTypeOK'
  BY <1>5 DEF Verified, At, Goto, AccTypeOK, Accounts, Running, tables
<1>6. ASSUME NEW r \in Requests, ReadIdentity(r)
      PROVE  AccTypeOK'
  <2>1. pc' \in [Requests -> Running \cup {"new", "done", "refused", "failed", "died"}]
    BY <1>6 DEF ReadIdentity, Goto, AccTypeOK, Running
  <2>2. user' \in [Requests -> Accounts \cup {Nothing}]
    BY <1>6 DEF ReadIdentity, AccTypeOK
  <2>. QED
    BY <1>6, <2>1, <2>2 DEF ReadIdentity, At, AccTypeOK, tables
<1>7. ASSUME NEW r \in Requests, ReadUser(r)
      PROVE  AccTypeOK'
  BY <1>7 DEF ReadUser, At, Goto, AccTypeOK, Accounts, Running, tables, Alive
<1>8. ASSUME NEW r \in Requests, ReadEmail(r)
      PROVE  AccTypeOK'
  BY <1>8 DEF ReadEmail, At, Goto, AccTypeOK, Accounts, Running, tables
<1>9. ASSUME NEW r \in Requests, ReadEmailToLink(r)
      PROVE  AccTypeOK'
  BY <1>9 DEF ReadEmailToLink, At, Goto, AccTypeOK, Accounts, Running, tables, Owners, Alive
<1>10. ASSUME NEW r \in Requests, ReadUsername(r)
      PROVE  AccTypeOK'
  BY <1>10 DEF ReadUsername, At, Goto, AccTypeOK, Accounts, Running, tables
<1>11. ASSUME NEW r \in Requests, ReadPhone(r)
      PROVE  AccTypeOK'
  BY <1>11 DEF ReadPhone, At, Goto, AccTypeOK, Accounts, Running, tables
<1>12. ASSUME NEW r \in Requests, CreateAccount(r)
       PROVE  AccTypeOK'
  <2>1. pc' \in [Requests -> Running \cup {"new", "done", "refused", "failed", "died"}]
    BY <1>12 DEF CreateAccount, Goto, AccTypeOK
  <2>2. CASE UNCHANGED tables
    BY <1>12, <2>1, <2>2 DEF CreateAccount, requests, tables, AccTypeOK
  <2>3. CASE /\ rows' = rows \cup {r}
             /\ row' = [row EXCEPT ![r] = [c \in {"email", "name", "phone"} |-> want[r][c]]]
             /\ linked' = linked \cup {<<s, r>> : s \in {want[r].sub} \ {Nothing}}
             /\ UNCHANGED banned
    <3>1. want[r] \in Values
      BY DEF AccTypeOK
    <3>2. [c \in {"email", "name", "phone"} |-> want[r][c]] \in Columns
      BY <3>1 DEF Values, Columns
    <3>3. row' \in [Accounts -> Columns]
      BY <2>3, <3>2 DEF AccTypeOK
    <3>4. linked' \subseteq Subs \X rows'
      BY <2>3, <3>1 DEF AccTypeOK, Values
    <3>5. rows' \subseteq Accounts
      BY <2>3 DEF AccTypeOK, Accounts
    <3>. QED
      BY <1>12, <2>1, <2>3, <3>3, <3>4, <3>5 DEF CreateAccount, requests, AccTypeOK
  <2>. QED
    BY <1>12, <2>2, <2>3 DEF CreateAccount
<1>13. ASSUME NEW r \in Requests, LinkIdentity(r)
       PROVE  AccTypeOK'
  <2>1. pc' \in [Requests -> Running \cup {"new", "done", "refused", "failed", "died"}]
    BY <1>13 DEF LinkIdentity, Goto, AccTypeOK
  <2>2. want[r] \in Values /\ want[r].sub # Nothing /\ user[r] \in rows
    BY <1>13 DEF LinkIdentity, AccTypeOK, WorkInv, Work, Login
  <2>3. want[r].sub \in Subs
    BY <2>2 DEF Values
  <2>4. linked' \subseteq Subs \X rows'
    BY <1>13, <2>2, <2>3 DEF LinkIdentity, AccTypeOK
  <2>. QED
    BY <1>13, <2>1, <2>4 DEF LinkIdentity, requests, AccTypeOK
<1>14. ASSUME NEW r \in Requests, TouchIdentity(r)
       PROVE  AccTypeOK'
  BY <1>14 DEF TouchIdentity, Goto, AccTypeOK, tables, requests
<1>15. ASSUME NEW r \in Requests, UpdateUser(r)
       PROVE  AccTypeOK'
  <2>1. pc' \in [Requests -> Running \cup {"new", "done", "refused", "failed", "died"}]
    BY <1>15 DEF UpdateUser, Goto, AccTypeOK
  <2>2. want[r] \in Values /\ user[r] \in Accounts
    BY <1>15 DEF UpdateUser, AccTypeOK, WorkInv, Work
  <2>3. row[user[r]] \in Columns
    BY <2>2 DEF AccTypeOK
  <2>4. Updated(r) \in Columns
    BY <2>2, <2>3 DEF Updated, Columns, Values
  <2>5. row' \in [Accounts -> Columns]
    BY <1>15, <2>4 DEF UpdateUser, AccTypeOK
  <2>. QED
    BY <1>15, <2>1, <2>5 DEF UpdateUser, requests, AccTypeOK
<1>16. ASSUME NEW r \in Requests, Fail(r)
       PROVE  AccTypeOK'
  BY <1>16 DEF Fail, Goto, AccTypeOK, tables, requests
<1>17. ASSUME NEW a \in Accounts, Ban(a)
       PROVE  AccTypeOK'
  BY <1>17 DEF Ban, Alive, AccTypeOK, requests
<1>18. CASE UNCHANGED accVars
  BY <1>18 DEF accVars, AccTypeOK, tables, requests
<1>19. CASE UNCHANGED vars
  BY <1>18, <1>19 DEF vars
<1>. QED
  BY <1>1, <1>2, <1>3, <1>4, <1>5, <1>6, <1>7, <1>8, <1>9, <1>10, <1>11, <1>12, <1>13, <1>14,
     <1>15, <1>16, <1>17, <1>18, <1>19
  DEF Next, Step

-----------------------------------------------------------------------------
(* Where requests work                                                     *)

\* The steps of request r
Own(r) ==
  \/ \E values, step :
       Begin(r, values, step) /\ (UNCHANGED user \/ \E a : user' = [user EXCEPT ![r] = a])
  \/ Step(r)

\* A step of one request is none of another's.
LEMMA OthersStand ==
  ASSUME AccTypeOK, NEW r \in Requests, NEW q \in Requests \ {r}, Own(r)
  PROVE  /\ pc'[q] = pc[q] /\ want'[q] = want[q] /\ user'[q] = user[q]
         /\ barred'[q] = barred[q]
         /\ q \in rows' => q \in rows
         /\ rows \subseteq rows' /\ linked \subseteq linked' /\ banned' = banned
<1>1. CASE \E values, step :
             Begin(r, values, step) /\ (UNCHANGED user \/ \E a : user' = [user EXCEPT ![r] = a])
  BY <1>1 DEF Begin, AccTypeOK, tables
<1>2. CASE Verified(r)
  BY <1>2 DEF Verified, At, Goto, AccTypeOK, tables
<1>3. CASE ReadIdentity(r)
  BY <1>3 DEF ReadIdentity, At, Goto, AccTypeOK, tables
<1>4. CASE ReadUser(r)
  BY <1>4 DEF ReadUser, At, Goto, AccTypeOK, tables
<1>5. CASE ReadEmail(r)
  BY <1>5 DEF ReadEmail, At, Goto, AccTypeOK, tables
<1>6. CASE ReadEmailToLink(r)
  BY <1>6 DEF ReadEmailToLink, At, Goto, AccTypeOK, tables
<1>7. CASE ReadUsername(r)
  BY <1>7 DEF ReadUsername, At, Goto, AccTypeOK, tables
<1>8. CASE ReadPhone(r)
  BY <1>8 DEF ReadPhone, At, Goto, AccTypeOK, tables
<1>9. CASE CreateAccount(r)
  BY <1>9 DEF CreateAccount, Goto, AccTypeOK, tables, requests
<1>10. CASE LinkIdentity(r)
  BY <1>10 DEF LinkIdentity, Goto, AccTypeOK, requests
<1>11. CASE TouchIdentity(r)
  BY <1>11 DEF TouchIdentity, Goto, AccTypeOK, tables, requests
<1>12. CASE UpdateUser(r)
  BY <1>12 DEF UpdateUser, Goto, AccTypeOK, requests
<1>13. CASE Fail(r)
  BY <1>13 DEF Fail, Goto, AccTypeOK, tables, requests
<1>. QED
  BY <1>1, <1>2, <1>3, <1>4, <1>5, <1>6, <1>7, <1>8, <1>9, <1>10, <1>11, <1>12, <1>13 DEF Step, Own

\* What stands of a request keeps it where it works.
LEMMA WorkStands ==
  ASSUME NEW q \in Requests, Work(q),
         pc'[q] = pc[q], want'[q] = want[q], user'[q] = user[q],
         q \in rows' => q \in rows, rows \subseteq rows'
  PROVE  Work(q)'
  BY DEF Work, Login

\* Every step keeps the requests on their paths.
LEMMA WorkStep == AccTypeOK /\ WorkInv /\ [Next]_vars => WorkInv'
<1> SUFFICES ASSUME AccTypeOK, WorkInv, [Next]_vars PROVE WorkInv'
  OBVIOUS
<1>0. ASSUME NEW r \in Requests, Own(r), Work(r)'
      PROVE  WorkInv'
  BY <1>0, OthersStand, WorkStands DEF WorkInv
<1>1. ASSUME NEW r \in Requests, NEW e \in Emails, NEW n \in Usernames, BeginRegister(r, e, n)
      PROVE  WorkInv'
  <2> DEFINE values == [NoValues EXCEPT !.email = e, !.name = n]
  <2>1. Begin(r, values, "email") /\ user' = [user EXCEPT ![r] = r]
    BY <1>1 DEF BeginRegister
  <2>2. values.sub = Nothing
    BY NotLogins, IdentitiesAssumption
  <2> HIDE DEF values
  <2>3. pc'[r] = "email" /\ want'[r] = values /\ rows' = rows /\ r \notin rows
    BY <2>1 DEF Begin, AccTypeOK, tables, WorkInv, Work
  <2>4. user'[r] = r
    BY <2>1 DEF AccTypeOK
  <2>5. Work(r)'
    BY <2>2, <2>3, <2>1, <2>4 DEF Work, Login, Accounts
  <2>. QED
    BY <1>0, <2>1, <2>5 DEF Own
<1>2. ASSUME NEW r \in Requests, NEW e \in Emails, NEW s \in Subs, NEW k \in Kids, BeginLogin(r, e, s, k)
      PROVE  WorkInv'
  <2> DEFINE values == [NoValues EXCEPT !.email = e, !.sub = s]
  <2>1. Begin(r, values, "verify") /\ user' = user
    BY <1>2 DEF BeginLogin
  <2>2. values.sub # Nothing
    BY NotLogins, IdentitiesAssumption
  <2> HIDE DEF values
  <2>3. pc'[r] = "verify" /\ want'[r] = values /\ rows' = rows /\ r \notin rows
    BY <2>1 DEF Begin, AccTypeOK, tables, WorkInv, Work
  <2>5. Work(r)'
    BY <2>2, <2>3 DEF Work, Login, Accounts
  <2>. QED
    BY <1>0, <2>1, <2>5 DEF Own
<1>3. ASSUME NEW r \in Requests, NEW a \in Accounts, NEW n \in Usernames, BeginSetUsername(r, a, n)
      PROVE  WorkInv'
  <2> DEFINE values == [NoValues EXCEPT !.name = n]
  <2>1. Begin(r, values, "name") /\ a \in rows /\ user' = [user EXCEPT ![r] = a]
    BY <1>3 DEF BeginSetUsername, Alive
  <2>2. values.sub = Nothing
    BY NotLogins, IdentitiesAssumption
  <2> HIDE DEF values
  <2>3. pc'[r] = "name" /\ want'[r] = values /\ rows' = rows /\ r \notin rows
    BY <2>1 DEF Begin, AccTypeOK, tables, WorkInv, Work
  <2>4. user'[r] = a
    BY <2>1 DEF AccTypeOK
  <2>5. Work(r)'
    BY <2>2, <2>3, <2>1, <2>4 DEF Work, Login, Accounts
  <2>. QED
    BY <1>0, <2>1, <2>5 DEF Own
<1>4. ASSUME NEW r \in Requests, NEW a \in Accounts, NEW v \in Phones \cup {Nothing}, BeginUpdateProfile(r, a, v)
      PROVE  WorkInv'
  <2> DEFINE values == [NoValues EXCEPT !.phone = v]
  <2>1. PICK step \in {"phone", "update"} : Begin(r, values, step) /\ user' = [user EXCEPT ![r] = a] /\ a \in rows
    BY <1>4 DEF BeginUpdateProfile, Alive
  <2>2. values.sub = Nothing
    BY NotLogins, IdentitiesAssumption
  <2> HIDE DEF values
  <2>3. pc'[r] = step /\ want'[r] = values /\ rows' = rows /\ r \notin rows
    BY <2>1 DEF Begin, AccTypeOK, tables, WorkInv, Work
  <2>4. user'[r] = a
    BY <2>1 DEF AccTypeOK
  <2>5. Work(r)'
    BY <2>2, <2>3, <2>1, <2>4 DEF Work, Login, Accounts
  <2>. QED
    BY <1>0, <2>1, <2>5 DEF Own
<1>5. ASSUME NEW r \in Requests, Verified(r)
      PROVE  WorkInv'
  <2>1. Work(r)'
    BY <1>5 DEF Verified, At, Goto, AccTypeOK, WorkInv, Work, Login, tables
  <2>. QED
    BY <1>0, <1>5, <2>1 DEF Step, Own
<1>6. ASSUME NEW r \in Requests, ReadIdentity(r)
      PROVE  WorkInv'
  <2>2. pc[r] = "identity" /\ Work(r) /\ UNCHANGED <<rows, want>>
    BY <1>6 DEF ReadIdentity, At, tables, WorkInv
  <2>3. \/ pc'[r] = "user" /\ user'[r] \in rows
        \/ pc'[r] = "email"
    BY <1>6 DEF ReadIdentity, Goto, AccTypeOK
  <2>1. Work(r)'
    BY <2>2, <2>3 DEF Work, Login
  <2>. QED
    BY <1>0, <1>6, <2>1 DEF Step, Own
<1>7. ASSUME NEW r \in Requests, ReadUser(r)
      PROVE  WorkInv'
  <2>1. Work(r)'
    BY <1>7 DEF ReadUser, At, Goto, AccTypeOK, WorkInv, Work, Login, tables, Alive
  <2>. QED
    BY <1>0, <1>7, <2>1 DEF Step, Own
<1>8. ASSUME NEW r \in Requests, ReadEmail(r)
      PROVE  WorkInv'
  <2>1. Work(r)'
    BY <1>8 DEF ReadEmail, At, Goto, AccTypeOK, WorkInv, Work, Login, tables, Accounts
  <2>. QED
    BY <1>0, <1>8, <2>1 DEF Step, Own
<1>9. ASSUME NEW r \in Requests, ReadEmailToLink(r)
      PROVE  WorkInv'
  <2>1. Work(r)'
    BY <1>9 DEF ReadEmailToLink, At, Goto, AccTypeOK, WorkInv, Work, Login, tables, Owners, Alive
  <2>. QED
    BY <1>0, <1>9, <2>1 DEF Step, Own
<1>10. ASSUME NEW r \in Requests, ReadUsername(r)
       PROVE  WorkInv'
  <2>1. Work(r)'
    BY <1>10 DEF ReadUsername, At, Goto, AccTypeOK, WorkInv, Work, Login, tables
  <2>. QED
    BY <1>0, <1>10, <2>1 DEF Step, Own
<1>11. ASSUME NEW r \in Requests, ReadPhone(r)
       PROVE  WorkInv'
  <2>1. Work(r)'
    BY <1>11 DEF ReadPhone, At, Goto, AccTypeOK, WorkInv, Work, Login, tables
  <2>. QED
    BY <1>0, <1>11, <2>1 DEF Step, Own
<1>12. ASSUME NEW r \in Requests, CreateAccount(r)
       PROVE  WorkInv'
  <2>1. Work(r)'
    BY <1>12 DEF CreateAccount, Goto, AccTypeOK, WorkInv, Work, Login, tables, requests
  <2>. QED
    BY <1>0, <1>12, <2>1 DEF Step, Own
<1>13. ASSUME NEW r \in Requests, LinkIdentity(r)
       PROVE  WorkInv'
  <2>1. Work(r)'
    BY <1>13 DEF LinkIdentity, Goto, AccTypeOK, WorkInv, Work, Login, tables, requests
  <2>. QED
    BY <1>0, <1>13, <2>1 DEF Step, Own
<1>14. ASSUME NEW r \in Requests, TouchIdentity(r)
       PROVE  WorkInv'
  <2>1. Work(r)'
    BY <1>14 DEF TouchIdentity, Goto, AccTypeOK, WorkInv, Work, Login, tables, requests
  <2>. QED
    BY <1>0, <1>14, <2>1 DEF Step, Own
<1>15. ASSUME NEW r \in Requests, UpdateUser(r)
       PROVE  WorkInv'
  <2>1. Work(r)'
    BY <1>15 DEF UpdateUser, Goto, AccTypeOK, WorkInv, Work, Login, tables, requests
  <2>. QED
    BY <1>0, <1>15, <2>1 DEF Step, Own
<1>16. ASSUME NEW r \in Requests, Fail(r)
       PROVE  WorkInv'
  <2>1. Work(r)'
    BY <1>16 DEF Fail, Goto, AccTypeOK, WorkInv, Work, Login, tables, requests, Running
  <2>. QED
    BY <1>0, <1>16, <2>1 DEF Step, Own
<1>17. ASSUME NEW a \in Accounts, Ban(a)
       PROVE  WorkInv'
  BY <1>17, WorkStands DEF Ban, requests, WorkInv
<1>18. CASE UNCHANGED accVars
  BY <1>18, WorkStands DEF accVars, tables, requests, WorkInv
<1>19. CASE UNCHANGED vars
  BY <1>18, <1>19 DEF vars
<1>. QED
  BY <1>1, <1>2, <1>3, <1>4, <1>5, <1>6, <1>7, <1>8, <1>9, <1>10, <1>11, <1>12, <1>13, <1>14,
     <1>15, <1>16, <1>17, <1>18, <1>19
  DEF Next, Step

-----------------------------------------------------------------------------
(* Google identities and bans                                              *)

\* What a login has found linked stays linked while it does not move: links are only added.
LEMMA LinkStands ==
  ASSUME NEW q \in Requests, Linked(q), linked \subseteq linked',
         pc'[q] = pc[q], want'[q] = want[q], user'[q] = user[q]
  PROVE  Linked(q)'
  BY DEF Linked, Login

\* What a login knows of the bans stays true while it does not move: bans are only added.
LEMMA BanStands ==
  ASSUME NEW q \in Requests, Outside(q), banned \subseteq banned', barred'[q] = barred[q],
         pc'[q] = pc[q], want'[q] = want[q], user'[q] = user[q]
  PROVE  Outside(q)'
  BY DEF Outside, Login

\* Identities stay where they are.
LEMMA LinkStep == AccTypeOK /\ WorkInv /\ LinkInv /\ [Next]_vars => LinkInv'
<1> SUFFICES ASSUME AccTypeOK, WorkInv, LinkInv, [Next]_vars PROVE LinkInv'
  OBVIOUS
<1>0. ASSUME NEW r \in Requests, Own(r), Linked(r)', OneOwner'
      PROVE  LinkInv'
  BY <1>0, OthersStand, LinkStands DEF LinkInv
<1>a. ASSUME NEW r \in Requests, NEW values, NEW step \in {"email", "verify", "name", "phone", "update"},
             Begin(r, values, step), UNCHANGED user \/ \E b : user' = [user EXCEPT ![r] = b]
      PROVE  LinkInv'
  <2>1. pc'[r] = step /\ barred'[r] = banned /\ linked' = linked /\ rows' = rows /\ banned' = banned
    BY <1>a DEF Begin, AccTypeOK, tables
  <2>2. Linked(r)'
    BY <2>1 DEF Linked, LinkInv, OneOwner
  <2>3. OneOwner'
    BY <2>1 DEF LinkInv, OneOwner
  <2>. QED
    BY <1>0, <1>a, <2>2, <2>3 DEF Own
<1>1. ASSUME NEW r \in Requests, NEW e \in Emails, NEW n \in Usernames, BeginRegister(r, e, n)
      PROVE  LinkInv'
  <2>1. \E values : \E step \in {"email", "verify", "name", "phone", "update"} :
           Begin(r, values, step) /\ (UNCHANGED user \/ \E b : user' = [user EXCEPT ![r] = b])
    BY <1>1 DEF BeginRegister
  <2>. QED
    BY <2>1, <1>a
<1>2. ASSUME NEW r \in Requests, NEW e \in Emails, NEW s \in Subs, NEW k \in Kids, BeginLogin(r, e, s, k)
      PROVE  LinkInv'
  <2>1. \E values : \E step \in {"email", "verify", "name", "phone", "update"} :
           Begin(r, values, step) /\ (UNCHANGED user \/ \E b : user' = [user EXCEPT ![r] = b])
    BY <1>2 DEF BeginLogin
  <2>. QED
    BY <2>1, <1>a
<1>3. ASSUME NEW r \in Requests, NEW a \in Accounts, NEW n \in Usernames, BeginSetUsername(r, a, n)
      PROVE  LinkInv'
  <2>1. \E values : \E step \in {"email", "verify", "name", "phone", "update"} :
           Begin(r, values, step) /\ (UNCHANGED user \/ \E b : user' = [user EXCEPT ![r] = b])
    BY <1>3 DEF BeginSetUsername
  <2>. QED
    BY <2>1, <1>a
<1>4. ASSUME NEW r \in Requests, NEW a \in Accounts, NEW v \in Phones \cup {Nothing}, BeginUpdateProfile(r, a, v)
      PROVE  LinkInv'
  <2>1. \E values : \E step \in {"email", "verify", "name", "phone", "update"} :
           Begin(r, values, step) /\ (UNCHANGED user \/ \E b : user' = [user EXCEPT ![r] = b])
    BY <1>4 DEF BeginUpdateProfile
  <2>. QED
    BY <2>1, <1>a
<1>5. ASSUME NEW r \in Requests, Verified(r)
      PROVE  LinkInv'
  <2>1. Linked(r)' /\ OneOwner'
    BY <1>5 DEF Verified, At, Goto, AccTypeOK, LinkInv, Linked, WorkInv, Work, Login, tables, OneOwner
  <2>. QED
    BY <1>0, <1>5, <2>1 DEF Step, Own
<1>6. ASSUME NEW r \in Requests, ReadIdentity(r)
      PROVE  LinkInv'
  <2>2. UNCHANGED <<rows, linked, want>>
    BY <1>6 DEF ReadIdentity, At, tables
  <2>3. \/ pc'[r] = "user" /\ <<want[r].sub, user'[r]>> \in linked
        \/ pc'[r] = "email"
    BY <1>6 DEF ReadIdentity, Goto, AccTypeOK
  <2>1. Linked(r)' /\ OneOwner'
    BY <2>2, <2>3 DEF Linked, LinkInv, OneOwner
  <2>. QED
    BY <1>0, <1>6, <2>1 DEF Step, Own
<1>7. ASSUME NEW r \in Requests, ReadUser(r)
      PROVE  LinkInv'
  <2>1. Linked(r)' /\ OneOwner'
    BY <1>7 DEF ReadUser, At, Goto, AccTypeOK, LinkInv, Linked, WorkInv, Work, Login, tables, Alive, OneOwner
  <2>. QED
    BY <1>0, <1>7, <2>1 DEF Step, Own
<1>8. ASSUME NEW r \in Requests, ReadEmail(r)
      PROVE  LinkInv'
  <2>1. Linked(r)' /\ OneOwner'
    BY <1>8 DEF ReadEmail, At, Goto, AccTypeOK, LinkInv, Linked, WorkInv, Work, Login, tables, OneOwner
  <2>. QED
    BY <1>0, <1>8, <2>1 DEF Step, Own
<1>9. ASSUME NEW r \in Requests, ReadEmailToLink(r)
      PROVE  LinkInv'
  <2>1. Linked(r)' /\ OneOwner'
    BY <1>9 DEF ReadEmailToLink, At, Goto, AccTypeOK, LinkInv, Linked, WorkInv, Work, Login, tables, Owners, Alive, OneOwner
  <2>. QED
    BY <1>0, <1>9, <2>1 DEF Step, Own
<1>10. ASSUME NEW r \in Requests, ReadUsername(r)
       PROVE  LinkInv'
  <2>1. Linked(r)' /\ OneOwner'
    BY <1>10 DEF ReadUsername, At, Goto, AccTypeOK, LinkInv, Linked, WorkInv, Work, Login, tables, OneOwner
  <2>. QED
    BY <1>0, <1>10, <2>1 DEF Step, Own
<1>11. ASSUME NEW r \in Requests, ReadPhone(r)
       PROVE  LinkInv'
  <2>1. Linked(r)' /\ OneOwner'
    BY <1>11 DEF ReadPhone, At, Goto, AccTypeOK, LinkInv, Linked, WorkInv, Work, Login, tables, OneOwner
  <2>. QED
    BY <1>0, <1>11, <2>1 DEF Step, Own
<1>12. ASSUME NEW r \in Requests, CreateAccount(r)
       PROVE  LinkInv'
  <2>1. CASE linked' = linked /\ rows' = rows /\ pc'[r] = "failed"
    <3>1. Linked(r)' /\ OneOwner'
      BY <2>1 DEF Linked, LinkInv, OneOwner
    <3>. QED
      BY <1>0, <1>12, <3>1 DEF Step, Own
  <2>2. CASE /\ ~LinkTaken(want[r].sub, r) /\ rows' = rows \cup {r}
             /\ linked' = linked \cup {<<sub, r>> : sub \in {want[r].sub} \ {Nothing}}
    <3>1. user[r] = r /\ user' = user /\ want' = want
      BY <1>12 DEF CreateAccount, WorkInv, Work, requests
    <3>2. Linked(r)'
      BY <2>2, <3>1 DEF Linked, Login
    <3>3. \A link \in linked : link[1] # want[r].sub
      BY <2>2 DEF LinkTaken
    <3>4. \A sub \in Subs, a \in rows' :
            <<sub, a>> \in linked' =>
              \/ <<sub, a>> \in linked /\ a \in rows /\ sub # want[r].sub
              \/ sub = want[r].sub /\ a = r
      <4> SUFFICES ASSUME NEW sub \in Subs, NEW a \in rows', <<sub, a>> \in linked'
                   PROVE  \/ <<sub, a>> \in linked /\ a \in rows /\ sub # want[r].sub
                          \/ sub = want[r].sub /\ a = r
        OBVIOUS
      <4>1. CASE <<sub, a>> \in linked
        <5>1. a \in rows
          BY <4>1 DEF AccTypeOK
        <5>2. <<sub, a>>[1] # want[r].sub
          BY <3>3, <4>1
        <5>. QED
          BY <4>1, <5>1, <5>2
      <4>. QED
        BY <2>2, <4>1
    <3>5. OneOwner'
      BY <3>4 DEF LinkInv, OneOwner
    <3>. QED
      BY <1>0, <1>12, <3>2, <3>5 DEF Step, Own
  <2>. QED
    BY <1>12, <2>1, <2>2 DEF CreateAccount, Goto, tables, AccTypeOK
<1>13. ASSUME NEW r \in Requests, LinkIdentity(r)
       PROVE  LinkInv'
  <2>1. CASE linked' = linked /\ rows' = rows /\ pc'[r] = "failed"
    <3>1. Linked(r)' /\ OneOwner'
      BY <2>1 DEF Linked, LinkInv, OneOwner
    <3>. QED
      BY <1>0, <1>13, <3>1 DEF Step, Own
  <2>2. CASE /\ ~LinkTaken(want[r].sub, user[r]) /\ rows' = rows
             /\ linked' = linked \cup {<<sub, user[r]>> : sub \in {want[r].sub} \ {Nothing}}
    <3>1. user' = user /\ want' = want
      BY <1>13 DEF LinkIdentity, requests
    <3>2. Linked(r)'
      BY <2>2, <3>1 DEF Linked, Login
    <3>3. \A link \in linked : link[1] # want[r].sub
      BY <2>2 DEF LinkTaken
    <3>4. \A sub \in Subs, a \in rows' :
            <<sub, a>> \in linked' =>
              \/ <<sub, a>> \in linked /\ a \in rows /\ sub # want[r].sub
              \/ sub = want[r].sub /\ a = user[r]
      <4> SUFFICES ASSUME NEW sub \in Subs, NEW a \in rows', <<sub, a>> \in linked'
                   PROVE  \/ <<sub, a>> \in linked /\ a \in rows /\ sub # want[r].sub
                          \/ sub = want[r].sub /\ a = user[r]
        OBVIOUS
      <4>1. CASE <<sub, a>> \in linked
        <5>1. a \in rows
          BY <4>1 DEF AccTypeOK
        <5>2. <<sub, a>>[1] # want[r].sub
          BY <3>3, <4>1
        <5>. QED
          BY <4>1, <5>1, <5>2
      <4>. QED
        BY <2>2, <4>1
    <3>5. OneOwner'
      BY <3>4 DEF LinkInv, OneOwner
    <3>. QED
      BY <1>0, <1>13, <3>2, <3>5 DEF Step, Own
  <2>. QED
    BY <1>13, <2>1, <2>2 DEF LinkIdentity, Goto, tables, AccTypeOK, WorkInv, Work, Login
<1>14. ASSUME NEW r \in Requests, TouchIdentity(r)
       PROVE  LinkInv'
  <2>1. Linked(r)' /\ OneOwner'
    BY <1>14 DEF TouchIdentity, Goto, AccTypeOK, LinkInv, Linked, WorkInv, Work, Login, tables, requests, OneOwner
  <2>. QED
    BY <1>0, <1>14, <2>1 DEF Step, Own
<1>15. ASSUME NEW r \in Requests, UpdateUser(r)
       PROVE  LinkInv'
  <2>1. Linked(r)' /\ OneOwner'
    BY <1>15 DEF UpdateUser, Goto, AccTypeOK, LinkInv, Linked, WorkInv, Work, Login, tables, requests, OneOwner
  <2>. QED
    BY <1>0, <1>15, <2>1 DEF Step, Own
<1>16. ASSUME NEW r \in Requests, Fail(r)
       PROVE  LinkInv'
  <2>1. Linked(r)' /\ OneOwner'
    BY <1>16 DEF Fail, Goto, AccTypeOK, LinkInv, Linked, WorkInv, Work, Login, tables, requests, Running, OneOwner
  <2>. QED
    BY <1>0, <1>16, <2>1 DEF Step, Own
<1>17. ASSUME NEW a \in Accounts, Ban(a)
       PROVE  LinkInv'
  BY <1>17 DEF Ban, requests, LinkInv, Linked, Login, OneOwner
<1>18. CASE UNCHANGED accVars
  BY <1>18 DEF accVars, tables, requests, LinkInv, Linked, Login, OneOwner
<1>19. CASE UNCHANGED vars
  BY <1>18, <1>19 DEF vars
<1>. QED
  BY <1>1, <1>2, <1>3, <1>4, <1>5, <1>6, <1>7, <1>8, <1>9, <1>10, <1>11, <1>12, <1>13, <1>14,
     <1>15, <1>16, <1>17, <1>18, <1>19
  DEF Next, Step

\* No login gets past a ban.
LEMMA BanStep == AccTypeOK /\ WorkInv /\ BanInv /\ [Next]_vars => BanInv'
<1> SUFFICES ASSUME AccTypeOK, WorkInv, BanInv, [Next]_vars PROVE BanInv'
  OBVIOUS
<1>0. ASSUME NEW r \in Requests, Own(r), Outside(r)'
      PROVE  BanInv'
  BY <1>0, OthersStand, BanStands DEF BanInv
<1>a. ASSUME NEW r \in Requests, NEW values, NEW step \in {"email", "verify", "name", "phone", "update"},
             Begin(r, values, step), UNCHANGED user \/ \E b : user' = [user EXCEPT ![r] = b]
      PROVE  BanInv'
  <2>1. pc'[r] = step /\ barred'[r] = banned /\ linked' = linked /\ rows' = rows /\ banned' = banned
    BY <1>a DEF Begin, AccTypeOK, tables
  <2>2. Outside(r)'
    BY <2>1 DEF Outside, BanInv
  <2>. QED
    BY <1>0, <1>a, <2>2 DEF Own
<1>1. ASSUME NEW r \in Requests, NEW e \in Emails, NEW n \in Usernames, BeginRegister(r, e, n)
      PROVE  BanInv'
  <2>1. \E values : \E step \in {"email", "verify", "name", "phone", "update"} :
           Begin(r, values, step) /\ (UNCHANGED user \/ \E b : user' = [user EXCEPT ![r] = b])
    BY <1>1 DEF BeginRegister
  <2>. QED
    BY <2>1, <1>a
<1>2. ASSUME NEW r \in Requests, NEW e \in Emails, NEW s \in Subs, NEW k \in Kids, BeginLogin(r, e, s, k)
      PROVE  BanInv'
  <2>1. \E values : \E step \in {"email", "verify", "name", "phone", "update"} :
           Begin(r, values, step) /\ (UNCHANGED user \/ \E b : user' = [user EXCEPT ![r] = b])
    BY <1>2 DEF BeginLogin
  <2>. QED
    BY <2>1, <1>a
<1>3. ASSUME NEW r \in Requests, NEW a \in Accounts, NEW n \in Usernames, BeginSetUsername(r, a, n)
      PROVE  BanInv'
  <2>1. \E values : \E step \in {"email", "verify", "name", "phone", "update"} :
           Begin(r, values, step) /\ (UNCHANGED user \/ \E b : user' = [user EXCEPT ![r] = b])
    BY <1>3 DEF BeginSetUsername
  <2>. QED
    BY <2>1, <1>a
<1>4. ASSUME NEW r \in Requests, NEW a \in Accounts, NEW v \in Phones \cup {Nothing}, BeginUpdateProfile(r, a, v)
      PROVE  BanInv'
  <2>1. \E values : \E step \in {"email", "verify", "name", "phone", "update"} :
           Begin(r, values, step) /\ (UNCHANGED user \/ \E b : user' = [user EXCEPT ![r] = b])
    BY <1>4 DEF BeginUpdateProfile
  <2>. QED
    BY <2>1, <1>a
<1>5. ASSUME NEW r \in Requests, Verified(r)
      PROVE  BanInv'
  <2>1. Outside(r)'
    BY <1>5 DEF Verified, At, Goto, AccTypeOK, BanInv, Outside, WorkInv, Work, Login, tables
  <2>. QED
    BY <1>0, <1>5, <2>1 DEF Step, Own
<1>6. ASSUME NEW r \in Requests, ReadIdentity(r)
      PROVE  BanInv'
  <2>2. pc'[r] \in {"user", "email"} /\ UNCHANGED <<banned, barred>> /\ Outside(r)
    BY <1>6 DEF ReadIdentity, At, Goto, AccTypeOK, BanInv, tables
  <2>1. Outside(r)'
    BY <2>2 DEF Outside
  <2>. QED
    BY <1>0, <1>6, <2>1 DEF Step, Own
<1>7. ASSUME NEW r \in Requests, ReadUser(r)
      PROVE  BanInv'
  <2>1. Outside(r)'
    BY <1>7 DEF ReadUser, At, Goto, AccTypeOK, BanInv, Outside, WorkInv, Work, Login, tables, Alive
  <2>. QED
    BY <1>0, <1>7, <2>1 DEF Step, Own
<1>8. ASSUME NEW r \in Requests, ReadEmail(r)
      PROVE  BanInv'
  <2>1. Outside(r)'
    BY <1>8 DEF ReadEmail, At, Goto, AccTypeOK, BanInv, Outside, WorkInv, Work, Login, tables
  <2>. QED
    BY <1>0, <1>8, <2>1 DEF Step, Own
<1>9. ASSUME NEW r \in Requests, ReadEmailToLink(r)
      PROVE  BanInv'
  <2>1. Outside(r)'
    BY <1>9 DEF ReadEmailToLink, At, Goto, AccTypeOK, BanInv, Outside, WorkInv, Work, Login, tables, Owners, Alive
  <2>. QED
    BY <1>0, <1>9, <2>1 DEF Step, Own
<1>10. ASSUME NEW r \in Requests, ReadUsername(r)
       PROVE  BanInv'
  <2>1. Outside(r)'
    BY <1>10 DEF ReadUsername, At, Goto, AccTypeOK, BanInv, Outside, WorkInv, Work, Login, tables
  <2>. QED
    BY <1>0, <1>10, <2>1 DEF Step, Own
<1>11. ASSUME NEW r \in Requests, ReadPhone(r)
       PROVE  BanInv'
  <2>1. Outside(r)'
    BY <1>11 DEF ReadPhone, At, Goto, AccTypeOK, BanInv, Outside, WorkInv, Work, Login, tables
  <2>. QED
    BY <1>0, <1>11, <2>1 DEF Step, Own
<1>12. ASSUME NEW r \in Requests, CreateAccount(r)
       PROVE  BanInv'
  <2>1. Outside(r)'
    BY <1>12 DEF CreateAccount, Goto, AccTypeOK, BanInv, Outside, WorkInv, Work, Login, tables, requests
  <2>. QED
    BY <1>0, <1>12, <2>1 DEF Step, Own
<1>13. ASSUME NEW r \in Requests, LinkIdentity(r)
       PROVE  BanInv'
  <2>1. Outside(r)'
    BY <1>13 DEF LinkIdentity, Goto, AccTypeOK, BanInv, Outside, WorkInv, Work, Login, tables, requests
  <2>. QED
    BY <1>0, <1>13, <2>1 DEF Step, Own
<1>14. ASSUME NEW r \in Requests, TouchIdentity(r)
       PROVE  BanInv'
  <2>1. Outside(r)'
    BY <1>14 DEF TouchIdentity, Goto, AccTypeOK, BanInv, Outside, WorkInv, Work, Login, tables, requests
  <2>. QED
    BY <1>0, <1>14, <2>1 DEF Step, Own
<1>15. ASSUME NEW r \in Requests, UpdateUser(r)
       PROVE  BanInv'
  <2>1. Outside(r)'
    BY <1>15 DEF UpdateUser, Goto, AccTypeOK, BanInv, Outside, WorkInv, Work, Login, tables, requests
  <2>. QED
    BY <1>0, <1>15, <2>1 DEF Step, Own
<1>16. ASSUME NEW r \in Requests, Fail(r)
       PROVE  BanInv'
  <2>1. Outside(r)'
    BY <1>16 DEF Fail, Goto, AccTypeOK, BanInv, Outside, WorkInv, Work, Login, tables, requests, Running
  <2>. QED
    BY <1>0, <1>16, <2>1 DEF Step, Own
<1>17. ASSUME NEW a \in Accounts, Ban(a)
       PROVE  BanInv'
  BY <1>17 DEF Ban, requests, BanInv, Outside, Login
<1>18. CASE UNCHANGED accVars
  BY <1>18 DEF accVars, tables, requests, BanInv, Outside, Login
<1>19. CASE UNCHANGED vars
  BY <1>18, <1>19 DEF vars
<1>. QED
  BY <1>1, <1>2, <1>3, <1>4, <1>5, <1>6, <1>7, <1>8, <1>9, <1>10, <1>11, <1>12, <1>13, <1>14,
     <1>15, <1>16, <1>17, <1>18, <1>19
  DEF Next, Step

-----------------------------------------------------------------------------
(* The theorems                                                            *)

AccInv == KeysTypeOK /\ AccTypeOK /\ WorkInv /\ LinkInv /\ BanInv

\* The initial states satisfy the accounts' invariant.
LEMMA InitAccInv == Init => AccInv
<1> SUFFICES ASSUME Init PROVE AccInv
  OBVIOUS
<1>1. TypeOK /\ WorkInv
  BY InitTypeInv DEF TypeInv
<1>2. AccTypeOK /\ KeysTypeOK
  BY <1>1 DEF TypeOK, AccTypeOK
<1>3. \A r \in Requests : want[r].sub = Nothing
  BY DEF Init, NoValues
<1>4. LinkInv
  BY <1>3 DEF Init, LinkInv, Linked, OneOwner, Login
<1>5. BanInv
  BY <1>3 DEF Init, BanInv, Outside, Login
<1>. QED
  BY <1>1, <1>2, <1>4, <1>5 DEF AccInv

\* The accounts' invariant holds in every state.
LEMMA AccInvAlways == Spec => []AccInv
<1>1. Spec => []KeysTypeOK
  BY IdentitiesKeepKeys, KeysTypeCorrect, PTL
<1>2. Init => AccTypeOK /\ WorkInv /\ LinkInv /\ BanInv
  BY InitAccInv DEF AccInv
<1>3. AccTypeOK /\ WorkInv /\ LinkInv /\ BanInv /\ [Next]_vars => (AccTypeOK /\ WorkInv /\ LinkInv /\ BanInv)'
  BY AccTypeStep, WorkStep, LinkStep, BanStep
<1>. QED
  BY <1>1, <1>2, <1>3, PTL DEF Spec, AccInv

\* Every state of the accounts and of the cache has its type.
THEOREM IdentitiesTypeCorrect == Spec => []TypeOK
<1>1. AccInv => TypeOK
  BY DEF AccInv, AccTypeOK, TypeOK
<1>. QED
  BY <1>1, AccInvAlways, PTL

\* Logins with one Google identity get to one account, in any number and however they race.
THEOREM OneAccount == Spec => []OneAccountPerIdentity
<1>1. AccInv => OneAccountPerIdentity
  <2> SUFFICES ASSUME AccInv, NEW r \in Requests, NEW q \in Requests,
                      pc[r] = "done", pc[q] = "done",
                      want[r].sub # Nothing, want[r].sub = want[q].sub
               PROVE  user[r] = user[q]
    BY DEF OneAccountPerIdentity
  <2>1. <<want[r].sub, user[r]>> \in linked /\ <<want[r].sub, user[q]>> \in linked
    BY DEF AccInv, LinkInv, Linked, Login
  <2>2. want[r].sub \in Subs /\ user[r] \in rows /\ user[q] \in rows
    BY <2>1 DEF AccInv, AccTypeOK
  <2>. QED
    BY <2>1, <2>2 DEF AccInv, LinkInv, OneOwner
<1>. QED
  BY <1>1, AccInvAlways, PTL

\* No Google login that began after a ban gets into the banned account.
THEOREM BannedOut == Spec => []BannedStaysOut
<1>1. AccInv => BannedStaysOut
  BY DEF AccInv, BanInv, Outside, Login, BannedStaysOut
<1>. QED
  BY <1>1, AccInvAlways, PTL

-----------------------------------------------------------------------------
(* Requests that get in one another's way                                  *)

UserColumns == {"email", "name", "phone"}

OverlapInv ==
  \A r, q \in Requests : r # q /\ pc[r] \in Running /\ pc[q] \in Running => {r, q} \in beside

\* An account that is not there has no name.
Blank == \A a \in Accounts \ rows : row[a].name = Nothing

\* What a request asks for, as far as its steps depend on it
Asks(r) ==
  /\ pc[r] = "name" => want[r].name # Nothing
  /\ pc[r] = "email" /\ ~Login(r) => want[r].name # Nothing
  /\ pc[r] = "phone" => want[r].phone # Nothing
  /\ want[r].phone # Nothing => want[r].name = Nothing /\ want[r].email = Nothing /\ ~Login(r)
  /\ Login(r) => want[r].name = Nothing

\* q, beside r, has got the value that r asks for too.
Won(q, r, c) == Raced(r, q) /\ pc[q] = "done" /\ want[q][c] = want[r][c]

\* Whoever has the value that r asks for is banned, or has raced with r.
Clear(r, c) ==
  want[r][c] # Nothing =>
    \A b \in rows \ {user[r]} :
      row[b][c] = want[r][c] => b \in banned \/ \E q \in Requests : Won(q, r, c)

\* From its read of a column to the write this holds of that column.
ColumnsClear(r) ==
  /\ pc[r] \in {"name", "create", "update"} => Clear(r, "email")
  /\ pc[r] \in {"create", "update"} => Clear(r, "name") /\ Clear(r, "phone")

LinkClear(r) ==
  Login(r) /\ pc[r] \in {"email", "link", "create"} =>
    \A a \in rows : <<want[r].sub, a>> \in linked => \E q \in Requests : Won(q, r, "sub")

\* A request that is going to give an account a name over one that is there has raced with
\* the one that gave it.
Named(r) ==
  pc[r] \in {"name", "update"} /\ want[r].name # Nothing /\ row[user[r]].name # Nothing =>
    \E q \in Requests :
      /\ Raced(r, q) /\ pc[q] \in {"done", "failed"}
      /\ want[q].name # Nothing /\ user[q] = user[r]

Contention(r) == Asks(r) /\ ColumnsClear(r) /\ LinkClear(r) /\ Named(r)

ContentionInv == OverlapInv /\ Blank /\ \A r \in Requests : Contention(r)

\* What a step of r may write
Effect(r) ==
  /\ \A b \in rows', c \in UserColumns :
       \/ b \in rows /\ row'[b][c] = row[b][c]
       \/ b \in banned
       \/ row'[b][c] = Nothing
       \/ pc'[r] = "done" /\ row'[b][c] = want[r][c]
  /\ \A link \in linked' : link \in linked \/ (pc'[r] = "done" /\ link[1] = want[r].sub)
  /\ \A a \in Accounts :
       \/ row'[a].name = row[a].name
       \/ a = user[r] /\ want[r].name # Nothing /\ pc'[r] \in {"done", "failed"}

\* A step that leaves the tables alone writes nothing.
LEMMA NoEffect ==
  ASSUME UNCHANGED tables, NEW r
  PROVE  Effect(r) /\ (Blank => Blank')
  BY DEF tables, Effect, Blank

\* Creating an account writes no more than Effect allows, and names no account that is not there.
LEMMA CreateEffect ==
  ASSUME AccTypeOK, WorkInv, Blank, NEW r \in Requests, CreateAccount(r)
  PROVE  Effect(r) /\ Blank'
<1>1. user[r] = r /\ r \notin rows /\ r \in Accounts
  BY DEF CreateAccount, WorkInv, Work, Accounts
<1>2. CASE UNCHANGED tables
  BY <1>2, NoEffect
<1>3. CASE /\ rows' = rows \cup {r}
           /\ row' = [row EXCEPT ![r] = [c \in {"email", "name", "phone"} |-> want[r][c]]]
           /\ linked' = linked \cup {<<s, r>> : s \in {want[r].sub} \ {Nothing}}
           /\ Goto(r, "done")
  <2>1. pc'[r] = "done"
    BY <1>3 DEF Goto, AccTypeOK
  <2>2. /\ \A b \in rows : row'[b] = row[b]
        /\ \A b \in Accounts \ {r} : row'[b] = row[b]
        /\ \A c \in UserColumns : row'[r][c] = want[r][c]
    BY <1>1, <1>3 DEF AccTypeOK, UserColumns
  <2>3. \A link \in linked' : link \in linked \/ link[1] = want[r].sub
    BY <1>3
  <2>4. row'[r].name = want[r].name
    BY <2>2 DEF UserColumns
  <2>5. row[r].name = Nothing
    BY <1>1 DEF Blank
  <2>6. Effect(r)
    BY <1>1, <1>3, <2>1, <2>2, <2>3, <2>4, <2>5 DEF Effect
  <2>7. Blank'
    BY <1>3, <2>2 DEF Blank, Accounts
  <2>. QED
    BY <2>6, <2>7
<1>. QED
  BY <1>2, <1>3 DEF CreateAccount

\* Updating an account writes no more than Effect allows, and names no account that is not there.
LEMMA UpdateEffect ==
  ASSUME AccTypeOK, WorkInv, Blank, NEW r \in Requests, UpdateUser(r)
  PROVE  Effect(r) /\ Blank'
<1>1. user[r] \in rows /\ user[r] \in Accounts /\ UNCHANGED <<rows, linked, banned>>
  BY DEF UpdateUser, WorkInv, Work, AccTypeOK
<1>2. CASE UNCHANGED row
  BY <1>1, <1>2, NoEffect DEF tables
<1>3. CASE /\ row' = [row EXCEPT ![user[r]] = Updated(r)]
           /\ Goto(r, IF user[r] \in Alive THEN "done" ELSE "failed")
  <2>1. pc'[r] = IF user[r] \in banned THEN "failed" ELSE "done"
    BY <1>1, <1>3 DEF Goto, AccTypeOK, Alive
  <2>2. /\ \A b \in Accounts \ {user[r]} : row'[b] = row[b]
        /\ row'[user[r]] = Updated(r)
    BY <1>1, <1>3 DEF AccTypeOK
  <2>3. row[user[r]] \in Columns
    BY <1>1 DEF AccTypeOK
  <2>4. CASE want[r].name # Nothing
    <3>1. /\ row'[user[r]].name = want[r].name
          /\ row'[user[r]].email = row[user[r]].email
          /\ row'[user[r]].phone = row[user[r]].phone
      BY <2>2, <2>3, <2>4 DEF Updated, Columns
    <3>2. \A c \in UserColumns : row'[user[r]][c] \in {row[user[r]][c], want[r][c]}
      BY <3>1 DEF UserColumns
    <3>. QED
      BY <1>1, <2>1, <2>2, <2>4, <3>2 DEF Effect, Blank, AccTypeOK
  <2>5. CASE want[r].name = Nothing
    <3>1. /\ row'[user[r]].name = row[user[r]].name
          /\ row'[user[r]].email = row[user[r]].email
          /\ row'[user[r]].phone = want[r].phone
      BY <2>2, <2>3, <2>5 DEF Updated, Columns
    <3>2. \A c \in UserColumns : row'[user[r]][c] \in {row[user[r]][c], want[r][c]}
      BY <3>1 DEF UserColumns
    <3>. QED
      BY <1>1, <2>1, <2>2, <3>1, <3>2 DEF Effect, Blank, AccTypeOK
  <2>. QED
    BY <2>4, <2>5
<1>. QED
  BY <1>2, <1>3 DEF UpdateUser

\* A request that goes on keeps what it asks for, and one that begins writes nothing.
LEMMA OwnEffect ==
  ASSUME AccTypeOK, WorkInv, Blank, NEW r \in Requests, Own(r)
  PROVE  /\ Effect(r) /\ Blank'
         /\ beside \subseteq beside'
         /\ \/ pc[r] = "new" /\ UNCHANGED tables
            \/ pc[r] \in Running /\ UNCHANGED <<want, beside>>
<1>1. CASE \E values, step :
             Begin(r, values, step) /\ (UNCHANGED user \/ \E a : user' = [user EXCEPT ![r] = a])
  <2>1. pc[r] = "new" /\ UNCHANGED tables /\ beside \subseteq beside'
    BY <1>1 DEF Begin
  <2>. QED
    BY <2>1, NoEffect
<1>2. CASE \/ Verified(r) \/ ReadIdentity(r) \/ ReadUser(r) \/ ReadEmail(r)
           \/ ReadEmailToLink(r) \/ ReadUsername(r) \/ ReadPhone(r)
  <2>1. UNCHANGED <<tables, want, beside>> /\ pc[r] \in Running
    BY <1>2 DEF Verified, ReadIdentity, ReadUser, ReadEmail, ReadEmailToLink, ReadUsername, ReadPhone,
                At, Running
  <2>. QED
    BY <2>1, NoEffect
<1>3. CASE TouchIdentity(r) \/ Fail(r)
  <2>1. UNCHANGED <<tables, want, beside>> /\ pc[r] \in Running
    BY <1>3 DEF TouchIdentity, Fail, requests, Running
  <2>. QED
    BY <2>1, NoEffect
<1>4. CASE CreateAccount(r)
  BY <1>4, CreateEffect DEF CreateAccount, requests, Running
<1>5. CASE UpdateUser(r)
  BY <1>5, UpdateEffect DEF UpdateUser, requests, Running
<1>6. CASE LinkIdentity(r)
  <2>1. UNCHANGED <<want, beside, rows, row, banned>> /\ pc[r] \in Running
    BY <1>6 DEF LinkIdentity, requests, Running
  <2>2. CASE UNCHANGED linked
    BY <2>1, <2>2, NoEffect DEF tables
  <2>3. CASE linked' = linked \cup {<<want[r].sub, user[r]>>} /\ Goto(r, "done")
    <3>1. pc'[r] = "done"
      BY <2>3 DEF Goto, AccTypeOK
    <3>. QED
      BY <2>1, <2>3, <3>1 DEF Effect, Blank
  <2>. QED
    BY <1>6, <2>1, <2>2, <2>3 DEF LinkIdentity
<1>. QED
  BY <1>1, <1>2, <1>3, <1>4, <1>5, <1>6 DEF Own, Step

\* A step that takes no request back and lifts no ban keeps what a request may rely on, as
\* long as whoever writes has raced with it.
LEMMA ContentionStands ==
  ASSUME AccTypeOK, NEW q \in Requests, Contention(q), WorkInv,
         pc'[q] = pc[q], want'[q] = want[q], user'[q] = user[q],
         banned \subseteq banned', beside \subseteq beside',
         \A o \in Requests : pc[o] \in {"done", "failed"} =>
           pc'[o] = pc[o] /\ want'[o] = want[o] /\ user'[o] = user[o],
         NEW r \in Requests, Effect(r), pc[q] \in Running => UNCHANGED tables \/ Raced(q, r)',
         want'[r] = want[r] \/ UNCHANGED tables, user'[r] = user[r] \/ UNCHANGED <<rows, row>>
  PROVE  Contention(q)'
<1>1. Asks(q)'
  BY DEF Contention, Asks, Login
<1>2. ASSUME NEW o \in Requests, NEW c, Won(o, q, c)
      PROVE  Won(o, q, c)'
  BY <1>2 DEF Won, Raced
<1>3. ASSUME NEW c \in UserColumns, pc[q] \in Running, Clear(q, c)
      PROVE  Clear(q, c)'
  <2> SUFFICES ASSUME want[q][c] # Nothing, NEW b \in rows' \ {user[q]}, row'[b][c] = want[q][c]
               PROVE  b \in banned' \/ (\E o \in Requests : Won(o, q, c))'
    BY DEF Clear
  <2>1. CASE b \in rows /\ row'[b][c] = row[b][c]
    <3>1. b \in banned \/ \E o \in Requests : Won(o, q, c)
      BY <1>3, <2>1 DEF Clear
    <3>. QED
      BY <1>2, <3>1
  <2>2. CASE b \in banned
    BY <2>2
  <2>3. CASE pc'[r] = "done" /\ row'[b][c] = want[r][c] /\ ~UNCHANGED tables
    <3>1. Won(r, q, c)'
      BY <1>3, <2>3 DEF Won
    <3>. QED
      BY <3>1
  <2>4. CASE UNCHANGED tables
    BY <2>1, <2>4 DEF tables
  <2>. QED
    BY <2>1, <2>2, <2>3, <2>4 DEF Effect
<1>4. ColumnsClear(q)'
  <2>1. {"name", "create", "update"} \subseteq Running /\ UserColumns = {"email", "name", "phone"}
    BY DEF Running, UserColumns
  <2>. QED
    BY <1>3, <2>1 DEF Contention, ColumnsClear
<1>5. LinkClear(q)'
  <2> SUFFICES ASSUME Login(q), pc[q] \in {"email", "link", "create"},
                      NEW a, <<want[q].sub, a>> \in linked'
               PROVE  (\E o \in Requests : Won(o, q, "sub"))'
    BY DEF LinkClear, Login
  <2>1. CASE <<want[q].sub, a>> \in linked
    <3>1. a \in rows
      BY <2>1 DEF AccTypeOK
    <3>2. \E o \in Requests : Won(o, q, "sub")
      BY <2>1, <3>1 DEF Contention, LinkClear
    <3>. QED
      BY <1>2, <3>2
  <2>2. CASE pc'[r] = "done" /\ want[q].sub = want[r].sub /\ ~UNCHANGED tables
    <3>1. Won(r, q, "sub")'
      BY <2>2 DEF Won, Running
    <3>. QED
      BY <3>1
  <2>. QED
    BY <2>1, <2>2 DEF Effect, tables
<1>6. Named(q)'
  <2> SUFFICES ASSUME pc[q] \in {"name", "update"}, want[q].name # Nothing, row'[user[q]].name # Nothing
               PROVE  (\E o \in Requests :
                         /\ Raced(q, o) /\ pc[o] \in {"done", "failed"}
                         /\ want[o].name # Nothing /\ user[o] = user[q])'
    BY DEF Named
  <2>1. CASE row[user[q]].name # Nothing
    <3>1. PICK o \in Requests :
            /\ Raced(q, o) /\ pc[o] \in {"done", "failed"}
            /\ want[o].name # Nothing /\ user[o] = user[q]
      BY <2>1 DEF Contention, Named
    <3>. QED
      BY <3>1 DEF Raced
  <2>2. CASE row'[user[q]].name # row[user[q]].name
    <3>1. user[q] \in Accounts
      BY DEF WorkInv, Work, AccTypeOK
    <3>2. user[q] = user[r] /\ want[r].name # Nothing /\ pc'[r] \in {"done", "failed"}
      BY <2>2, <3>1 DEF Effect
    <3>3. ~UNCHANGED tables /\ user'[r] = user[r] /\ want'[r] = want[r]
      BY <2>2 DEF tables
    <3>4. Raced(q, r)'
      BY <3>3 DEF Running
    <3>. QED
      BY <3>2, <3>3, <3>4
  <2>. QED
    BY <2>1, <2>2
<1>. QED
  BY <1>1, <1>4, <1>5, <1>6 DEF Contention

\* The requests other than the one that takes a step
LEMMA OthersContend ==
  ASSUME AccTypeOK, WorkInv, ContentionInv, NEW r \in Requests, Own(r), NEW q \in Requests \ {r},
         user'[r] = user[r] \/ UNCHANGED <<rows, row>>
  PROVE  Contention(q)'
<1>1. /\ pc'[q] = pc[q] /\ want'[q] = want[q] /\ user'[q] = user[q] /\ banned' = banned
  BY OthersStand
<1>2. /\ Effect(r) /\ beside \subseteq beside'
      /\ \/ pc[r] = "new" /\ UNCHANGED tables
         \/ pc[r] \in Running /\ UNCHANGED <<want, beside>>
  BY OwnEffect DEF ContentionInv
<1>3. \A o \in Requests : pc[o] \in {"done", "failed"} =>
        pc'[o] = pc[o] /\ want'[o] = want[o] /\ user'[o] = user[o]
  BY <1>2, OthersStand DEF Running
<1>4. pc[q] \in Running => UNCHANGED tables \/ Raced(q, r)'
  BY <1>2 DEF ContentionInv, OverlapInv, Raced
<1>. QED
  BY <1>1, <1>2, <1>3, <1>4, ContentionStands DEF ContentionInv

\* A request whose read of a column found no owner but itself
LEMMA ReadClears ==
  ASSUME NEW r \in Requests, NEW c, Owners(c, want[r][c]) \ {user[r]} = {}
  PROVE  Clear(r, c)
  BY DEF Clear, Owners, Alive

\* Two requests that are both running are recorded as having run beside one another.
LEMMA OverlapStep == AccTypeOK /\ OverlapInv /\ [Next]_vars => OverlapInv'
<1> SUFFICES ASSUME AccTypeOK, OverlapInv, [Next]_vars PROVE OverlapInv'
  OBVIOUS
<1>1. ASSUME NEW r \in Requests, NEW values, NEW step, Begin(r, values, step)
      PROVE  OverlapInv'
  <2>1. /\ pc' = [pc EXCEPT ![r] = step]
        /\ beside' = beside \cup {{r, q} : q \in {q \in Requests : pc[q] \in Running}}
    BY <1>1 DEF Begin
  <2>2. ASSUME NEW o \in Requests, NEW p \in Requests, o # p, pc'[o] \in Running, pc'[p] \in Running
        PROVE  {o, p} \in beside'
    <3>1. CASE o # r /\ p # r
      BY <2>1, <2>2, <3>1 DEF AccTypeOK, OverlapInv
    <3>2. CASE o = r
      BY <2>1, <2>2, <3>2 DEF AccTypeOK
    <3>3. CASE p = r
      <4>1. {r, o} \in beside'
        BY <2>1, <2>2, <3>3 DEF AccTypeOK
      <4>2. {r, o} = {o, p}
        BY <3>3
      <4>. QED
        BY <4>1, <4>2
    <3>. QED
      BY <3>1, <3>2, <3>3
  <2>. QED
    BY <2>2 DEF OverlapInv
<1>2. ASSUME NEW r \in Requests, pc[r] \in Running, NEW step, Goto(r, step), UNCHANGED beside
      PROVE  OverlapInv'
  BY <1>2 DEF Goto, AccTypeOK, OverlapInv
<1>3. ASSUME NEW r \in Requests, Step(r)
      PROVE  OverlapInv'
  <2>1. /\ pc[r] \in Running /\ UNCHANGED beside
        /\ \E step : Goto(r, step)
    BY <1>3 DEF Step, Verified, ReadIdentity, ReadUser, ReadEmail, ReadEmailToLink, ReadUsername,
                ReadPhone, CreateAccount, LinkIdentity, TouchIdentity, UpdateUser, Fail, At, Running, requests
  <2>. QED
    BY <1>2, <2>1
<1>4. CASE UNCHANGED <<pc, beside>>
  BY <1>4 DEF OverlapInv
<1>5. ASSUME NEW r \in Requests, NEW e \in Emails, NEW n \in Usernames, BeginRegister(r, e, n)
      PROVE  OverlapInv'
  BY <1>1, <1>5 DEF BeginRegister
<1>6. ASSUME NEW r \in Requests, NEW e \in Emails, NEW s \in Subs, NEW k \in Kids, BeginLogin(r, e, s, k)
      PROVE  OverlapInv'
  BY <1>1, <1>6 DEF BeginLogin
<1>7. ASSUME NEW r \in Requests, NEW a \in Accounts, NEW n \in Usernames, BeginSetUsername(r, a, n)
      PROVE  OverlapInv'
  BY <1>1, <1>7 DEF BeginSetUsername
<1>8. ASSUME NEW r \in Requests, NEW a \in Accounts, NEW v \in Phones \cup {Nothing}, BeginUpdateProfile(r, a, v)
      PROVE  OverlapInv'
  BY <1>1, <1>8 DEF BeginUpdateProfile
<1>9. ASSUME NEW a \in Accounts, Ban(a)
      PROVE  OverlapInv'
  BY <1>4, <1>9 DEF Ban, requests
<1>10. CASE UNCHANGED accVars
  BY <1>4, <1>10 DEF accVars, requests
<1>11. CASE UNCHANGED vars
  BY <1>10, <1>11 DEF vars
<1>. QED
  BY <1>3, <1>5, <1>6, <1>7, <1>8, <1>9, <1>10, <1>11 DEF Next

\* A request that ends has nothing more to rely on.
LEMMA EndedContends ==
  ASSUME AccTypeOK, NEW r \in Requests, Contention(r), NEW step \in {"done", "refused", "failed", "died"},
         Goto(r, step), UNCHANGED want
  PROVE  Contention(r)'
<1>1. pc'[r] = step
  BY DEF Goto, AccTypeOK
<1>. QED
  BY <1>1 DEF Contention, Asks, ColumnsClear, LinkClear, Named, Login

\* Every step keeps what the requests know of the columns and links they contend for.
LEMMA ContentionStep == AccTypeOK /\ WorkInv /\ ContentionInv /\ [Next]_vars => ContentionInv'
<1> SUFFICES ASSUME AccTypeOK, WorkInv, ContentionInv, [Next]_vars PROVE ContentionInv'
  OBVIOUS
<1>o. OverlapInv'
  BY OverlapStep DEF ContentionInv
<1>0. ASSUME NEW r \in Requests, Own(r), user'[r] = user[r] \/ UNCHANGED <<rows, row>>, Contention(r)'
      PROVE  ContentionInv'
  BY <1>o, <1>0, OwnEffect, OthersContend DEF ContentionInv
<1>a. ASSUME NEW r \in Requests, NEW values, NEW step, Begin(r, values, step)
      PROVE  /\ pc'[r] = step /\ want'[r] = values /\ UNCHANGED <<rows, row, linked, banned>>
             /\ r \notin rows
  BY <1>a DEF Begin, tables, AccTypeOK, WorkInv, Work
<1>b. Nothing \notin Emails \cup Usernames \cup Phones \cup Subs
  BY IdentitiesAssumption
<1>1. ASSUME NEW r \in Requests, NEW e \in Emails, NEW n \in Usernames, BeginRegister(r, e, n)
      PROVE  ContentionInv'
  <2> DEFINE values == [NoValues EXCEPT !.email = e, !.name = n]
  <2>1. Begin(r, values, "email") /\ user' = [user EXCEPT ![r] = r]
    BY <1>1 DEF BeginRegister
  <2>2. values.name = n /\ values.phone = Nothing /\ values.sub = Nothing
    BY DEF NoValues
  <2> HIDE DEF values
  <2>3. Contention(r)'
    BY <1>a, <1>b, <2>1, <2>2 DEF Contention, Asks, ColumnsClear, LinkClear, Named, Login
  <2>. QED
    BY <1>0, <1>a, <2>1, <2>3 DEF Own
<1>2. ASSUME NEW r \in Requests, NEW e \in Emails, NEW s \in Subs, NEW k \in Kids, BeginLogin(r, e, s, k)
      PROVE  ContentionInv'
  <2> DEFINE values == [NoValues EXCEPT !.email = e, !.sub = s]
  <2>1. Begin(r, values, "verify") /\ user' = user
    BY <1>2 DEF BeginLogin
  <2>2. values.name = Nothing /\ values.phone = Nothing
    BY DEF NoValues
  <2> HIDE DEF values
  <2>3. Contention(r)'
    BY <1>a, <1>b, <2>1, <2>2 DEF Contention, Asks, ColumnsClear, LinkClear, Named, Login
  <2>. QED
    BY <1>0, <1>a, <2>1, <2>3 DEF Own
<1>3. ASSUME NEW r \in Requests, NEW a \in Accounts, NEW n \in Usernames, BeginSetUsername(r, a, n)
      PROVE  ContentionInv'
  <2> DEFINE values == [NoValues EXCEPT !.name = n]
  <2>1. Begin(r, values, "name") /\ user' = [user EXCEPT ![r] = a] /\ row[a].name = Nothing
    BY <1>3 DEF BeginSetUsername
  <2>2. values.name = n /\ values.phone = Nothing /\ values.email = Nothing /\ values.sub = Nothing
    BY DEF NoValues
  <2> HIDE DEF values
  <2>3. /\ pc'[r] = "name" /\ want'[r] = values /\ row' = row /\ user'[r] = a
    BY <1>a, <2>1 DEF AccTypeOK
  <2>4. Clear(r, "email")'
    BY <2>2, <2>3 DEF Clear
  <2>5. Contention(r)'
    BY <1>b, <2>1, <2>2, <2>3, <2>4 DEF Contention, Asks, ColumnsClear, LinkClear, Named, Login
  <2>. QED
    BY <1>0, <1>a, <2>1, <2>5 DEF Own
<1>4. ASSUME NEW r \in Requests, NEW a \in Accounts, NEW v \in Phones \cup {Nothing}, BeginUpdateProfile(r, a, v)
      PROVE  ContentionInv'
  <2> DEFINE values == [NoValues EXCEPT !.phone = v]
             step == IF v = Nothing THEN "update" ELSE "phone"
  <2>1. Begin(r, values, step) /\ user' = [user EXCEPT ![r] = a]
    BY <1>4 DEF BeginUpdateProfile
  <2>2. values.name = Nothing /\ values.phone = v /\ values.email = Nothing /\ values.sub = Nothing
    BY DEF NoValues
  <2>3. step = "phone" => v # Nothing
    OBVIOUS
  <2>4. step = "update" => v = Nothing
    OBVIOUS
  <2>5. step \in {"update", "phone"}
    OBVIOUS
  <2> HIDE DEF values, step
  <2>6. pc'[r] = step /\ want'[r] = values
    BY <1>a, <2>1
  <2>7. step = "update" => Clear(r, "email")' /\ Clear(r, "name")' /\ Clear(r, "phone")'
    BY <2>2, <2>4, <2>6 DEF Clear
  <2>8. Contention(r)'
    BY <2>2, <2>3, <2>5, <2>6, <2>7 DEF Contention, Asks, ColumnsClear, LinkClear, Named, Login
  <2>. QED
    BY <1>0, <1>a, <2>1, <2>8 DEF Own
\* The reads
<1>c. ASSUME NEW r \in Requests, NEW place, At(r, place), NEW step, Goto(r, step)
      PROVE  /\ pc[r] = place /\ pc'[r] = step /\ want'[r] = want[r]
             /\ UNCHANGED <<rows, row, linked, banned, want, beside>>
             /\ \A o \in Requests \ {r} : pc'[o] = pc[o]
             /\ Contention(r)
  BY <1>c DEF At, Goto, tables, AccTypeOK, ContentionInv
\* What r has won by its reads so far it keeps when it goes on.
<1>d. ASSUME NEW r \in Requests, NEW place, At(r, place), NEW step, Goto(r, step), place \in Running
      PROVE  \A o \in Requests : \A c : Won(o, r, c) => Won(o, r, c)'
  BY <1>c, <1>d DEF Won, Raced, Running
<1>e. ASSUME NEW r \in Requests, NEW place, At(r, place), NEW step, Goto(r, step), place \in Running
      PROVE  /\ \A c : Clear(r, c) /\ user'[r] = user[r] => Clear(r, c)'
             /\ LinkClear(r) /\ place = "email" /\ step \in {"create", "link"} => LinkClear(r)'
  <2>1. \A o \in Requests : \A c : Won(o, r, c) => Won(o, r, c)'
    BY <1>d, <1>e
  <2>2. /\ pc[r] = place /\ pc'[r] = step /\ want'[r] = want[r]
        /\ UNCHANGED <<rows, row, linked, banned>>
    BY <1>c, <1>e
  <2>3. ASSUME NEW c, Clear(r, c), user'[r] = user[r]
        PROVE  Clear(r, c)'
    BY <2>1, <2>2, <2>3 DEF Clear
  <2>4. LinkClear(r) /\ place = "email" /\ step \in {"create", "link"} => LinkClear(r)'
    BY <2>1, <2>2 DEF LinkClear, Login
  <2>. QED
    BY <2>3, <2>4
<1>f. ASSUME NEW r \in Requests, NEW place, At(r, place), NEW step, Goto(r, step),
             step \in {"verify", "identity", "user", "touch", "done", "refused", "failed", "died"}
      PROVE  Contention(r)'
  BY <1>c, <1>f DEF Contention, Asks, ColumnsClear, LinkClear, Named, Login
<1>5. ASSUME NEW r \in Requests, Verified(r)
      PROVE  ContentionInv'
  BY <1>0, <1>5, <1>f DEF Verified, Own, Step
<1>6. ASSUME NEW r \in Requests, ReadIdentity(r)
      PROVE  ContentionInv'
  <2>1. UNCHANGED <<rows, row>> /\ At(r, "identity") /\ Own(r)
    BY <1>6 DEF ReadIdentity, At, tables, Own, Step
  <2>2. CASE Goto(r, "user")
    BY <1>0, <1>f, <2>1, <2>2
  <2>3. CASE Goto(r, "email") /\ \A a \in rows : <<want[r].sub, a>> \notin linked
    <3>1. Login(r)
      BY <2>1 DEF At, WorkInv, Work
    <3>2. Contention(r)'
      BY <1>c, <2>1, <2>3, <3>1 DEF Contention, Asks, ColumnsClear, LinkClear, Named, Login
    <3>. QED
      BY <1>0, <2>1, <3>2
  <2>. QED
    BY <1>6, <2>2, <2>3 DEF ReadIdentity
<1>7. ASSUME NEW r \in Requests, ReadUser(r)
      PROVE  ContentionInv'
  BY <1>0, <1>7, <1>f DEF ReadUser, Own, Step
<1>8. ASSUME NEW r \in Requests, ReadEmail(r)
      PROVE  ContentionInv'
  <2>1. At(r, "email") /\ user'[r] = user[r] /\ Own(r) /\ ~Login(r)
    BY <1>8 DEF ReadEmail, Own, Step, Login
  <2>2. CASE Goto(r, "refused")
    BY <1>0, <1>f, <2>1, <2>2
  <2>3. CASE Goto(r, "name") /\ Owners("email", want[r].email) = {}
    <3>1. Clear(r, "email")'
      BY <1>e, <2>1, <2>3, ReadClears DEF Running
    <3>2. /\ pc[r] = "email" /\ pc'[r] = "name" /\ want'[r] = want[r] /\ row' = row /\ Asks(r)
      BY <1>c, <2>1, <2>3 DEF Contention
    <3>3. user[r] = r /\ r \notin rows /\ r \in Accounts
      BY <2>1, <3>2 DEF WorkInv, Work, Accounts
    <3>4. row[r].name = Nothing
      BY <3>3 DEF ContentionInv, Blank
    <3>5. Contention(r)'
      BY <2>1, <3>1, <3>2, <3>3, <3>4 DEF Contention, Asks, ColumnsClear, LinkClear, Named, Login
    <3>. QED
      BY <1>0, <2>1, <3>5
  <2>. QED
    BY <1>8, <2>2, <2>3 DEF ReadEmail
<1>9. ASSUME NEW r \in Requests, ReadEmailToLink(r)
      PROVE  ContentionInv'
  <2>1. At(r, "email") /\ Own(r) /\ Login(r) /\ UNCHANGED <<rows, row>>
    BY <1>9 DEF ReadEmailToLink, Own, Step, Login, At, tables
  <2>2. Asks(r) /\ LinkClear(r)
    BY <1>c, <1>9 DEF ReadEmailToLink, Contention
  <2>3. ASSUME NEW step \in {"create", "link"}, Goto(r, step), step = "create" => Clear(r, "email")'
        PROVE  ContentionInv'
    <3>1. LinkClear(r)'
      BY <1>e, <2>1, <2>2, <2>3 DEF Running
    <3>2. /\ pc'[r] = step /\ want'[r] = want[r]
      BY <1>c, <2>1, <2>3
    <3>3. want[r].name = Nothing /\ want[r].phone = Nothing
      BY <2>1, <2>2 DEF Asks
    <3>4. Clear(r, "name")' /\ Clear(r, "phone")'
      BY <3>2, <3>3 DEF Clear
    <3>5. Contention(r)'
      BY <2>1, <2>2, <2>3, <3>1, <3>2, <3>3, <3>4 DEF Contention, Asks, ColumnsClear, Named, Login
    <3>. QED
      BY <1>0, <2>1, <3>5
  <2>4. CASE Owners("email", want[r].email) = {} /\ Goto(r, "create")
    <3>1. UNCHANGED <<rows, row, banned>> /\ want'[r] = want[r]
      BY <1>c, <2>1, <2>4
    <3>2. Clear(r, "email")'
      BY <2>4, <3>1 DEF Clear, Owners, Alive
    <3>. QED
      BY <2>3, <2>4, <3>2
  <2>5. CASE Goto(r, "link")
    BY <2>3, <2>5
  <2>. QED
    BY <1>9, <2>4, <2>5 DEF ReadEmailToLink
<1>10. ASSUME NEW r \in Requests, ReadUsername(r)
       PROVE  ContentionInv'
  <2>1. At(r, "name") /\ user'[r] = user[r] /\ Own(r)
    BY <1>10 DEF ReadUsername, Own, Step
  <2>2. CASE Goto(r, "refused")
    BY <1>0, <1>f, <2>1, <2>2
  <2>3. ASSUME NEW step, Goto(r, step), Owners("name", want[r].name) \ {user[r]} = {},
               step \in {"create", "update"}
        PROVE  ContentionInv'
    <3>1. /\ pc[r] = "name" /\ pc'[r] = step /\ want'[r] = want[r] /\ row' = row /\ Contention(r)
      BY <1>c, <2>1, <2>3
    <3>2. Clear(r, "name")' /\ Clear(r, "email")'
      BY <1>e, <2>1, <2>3, <3>1, ReadClears DEF Running, Contention, ColumnsClear
    <3>3. want[r].phone = Nothing /\ ~Login(r)
      BY <3>1 DEF Contention, Asks, WorkInv, Work
    <3>4. Clear(r, "phone")'
      BY <3>1, <3>3 DEF Clear
    <3>5. Named(r)'
      <4> SUFFICES ASSUME want[r].name # Nothing, row[user[r]].name # Nothing
                   PROVE  (\E q \in Requests :
                             /\ Raced(r, q) /\ pc[q] \in {"done", "failed"}
                             /\ want[q].name # Nothing /\ user[q] = user[r])'
        BY <2>1, <3>1 DEF Named
      <4>1. PICK q \in Requests : /\ Raced(r, q) /\ pc[q] \in {"done", "failed"}
                                  /\ want[q].name # Nothing /\ user[q] = user[r]
        BY <3>1 DEF Contention, Named
      <4>2. UNCHANGED <<want, user, beside>> /\ pc'[q] = pc[q]
        BY <1>10, <1>c, <2>1, <2>3, <4>1 DEF ReadUsername, Raced
      <4>. QED
        BY <4>1, <4>2 DEF Raced
    <3>6. Contention(r)'
      BY <2>3, <3>1, <3>2, <3>3, <3>4, <3>5 DEF Contention, Asks, ColumnsClear, LinkClear, Login
    <3>. QED
      BY <1>0, <2>1, <3>6
  <2>4. CASE Owners("name", want[r].name) \ {user[r]} # {}
    BY <1>10, <2>2, <2>4 DEF ReadUsername
  <2>5. CASE Owners("name", want[r].name) \ {user[r]} = {}
    BY <1>10, <2>3, <2>5 DEF ReadUsername
  <2>. QED
    BY <2>4, <2>5
<1>11. ASSUME NEW r \in Requests, ReadPhone(r)
       PROVE  ContentionInv'
  <2>1. At(r, "phone") /\ user'[r] = user[r] /\ Own(r)
    BY <1>11 DEF ReadPhone, Own, Step
  <2>2. CASE Goto(r, "refused")
    BY <1>0, <1>f, <2>1, <2>2
  <2>3. CASE Goto(r, "update") /\ Owners("phone", want[r].phone) \ {user[r]} = {}
    <3>1. /\ pc[r] = "phone" /\ pc'[r] = "update" /\ want'[r] = want[r] /\ Asks(r)
      BY <1>c, <2>1, <2>3 DEF Contention
    <3>2. Clear(r, "phone")'
      BY <1>e, <2>1, <2>3, ReadClears DEF Running
    <3>3. want[r].name = Nothing /\ want[r].email = Nothing /\ ~Login(r)
      BY <3>1 DEF Asks
    <3>4. Clear(r, "name")' /\ Clear(r, "email")'
      BY <3>1, <3>3 DEF Clear
    <3>5. Contention(r)'
      BY <3>1, <3>2, <3>3, <3>4 DEF Contention, Asks, ColumnsClear, LinkClear, Named, Login
    <3>. QED
      BY <1>0, <2>1, <3>5
  <2>. QED
    BY <1>11, <2>2, <2>3 DEF ReadPhone
\* The writes
<1>12. ASSUME NEW r \in Requests,
              \/ CreateAccount(r) \/ LinkIdentity(r) \/ TouchIdentity(r) \/ UpdateUser(r) \/ Fail(r)
       PROVE  ContentionInv'
  <2>1. /\ UNCHANGED <<want, user>> /\ Own(r)
        /\ \E step \in {"done", "refused", "failed", "died"} : Goto(r, step)
    BY <1>12 DEF CreateAccount, LinkIdentity, TouchIdentity, UpdateUser, Fail, requests, Own, Step
  <2>. QED
    BY <1>0, <2>1, EndedContends DEF ContentionInv
<1>13. ASSUME UNCHANGED <<rows, row, linked, pc, want, user, beside>>, banned \subseteq banned'
       PROVE  ContentionInv'
  <2>1. Blank'
    BY <1>13 DEF ContentionInv, Blank
  <2>2. ASSUME NEW q \in Requests
        PROVE  Contention(q)'
    <3>1. \A o \in Requests : \A c : Won(o, q, c) => Won(o, q, c)'
      BY <1>13 DEF Won, Raced
    <3>2. \A c : Clear(q, c) => Clear(q, c)'
      BY <1>13, <3>1 DEF Clear
    <3>3. Asks(q)' /\ ColumnsClear(q)' /\ LinkClear(q)' /\ Named(q)'
      BY <1>13, <3>1, <3>2 DEF ContentionInv, Contention, Asks, ColumnsClear, LinkClear, Named, Login, Raced
    <3>. QED
      BY <3>3 DEF Contention
  <2>. QED
    BY <1>o, <2>1, <2>2 DEF ContentionInv
<1>14. ASSUME NEW a \in Accounts, Ban(a)
       PROVE  ContentionInv'
  BY <1>13, <1>14 DEF Ban, requests
<1>15. CASE UNCHANGED accVars
  BY <1>13, <1>15 DEF accVars, tables, requests
<1>16. CASE UNCHANGED vars
  BY <1>15, <1>16 DEF vars
<1>. QED
  BY <1>1, <1>2, <1>3, <1>4, <1>5, <1>6, <1>7, <1>8, <1>9, <1>10, <1>11, <1>12, <1>14, <1>15, <1>16
     DEF Next, Step

\* At the start no request contends for anything.
LEMMA InitContention == Init => ContentionInv
<1> SUFFICES ASSUME Init PROVE ContentionInv
  OBVIOUS
<1>1. \A r \in Requests : pc[r] = "new" /\ want[r] = NoValues
  BY DEF Init
<1>2. OverlapInv
  BY <1>1 DEF OverlapInv, Running
<1>3. Blank
  BY DEF Init, Blank
<1>4. ASSUME NEW r \in Requests
      PROVE  Contention(r)
  BY <1>1 DEF Contention, Asks, ColumnsClear, LinkClear, Named, Login, NoValues
<1>. QED
  BY <1>2, <1>3, <1>4 DEF ContentionInv

\* The invariant behind the unique columns holds in every state.
LEMMA ContentionAlways == Spec => [](AccInv /\ ContentionInv)
<1>1. AccInv /\ ContentionInv /\ [Next]_vars => ContentionInv'
  BY ContentionStep DEF AccInv
<1>. QED
  BY <1>1, InitContention, AccInvAlways, PTL DEF Spec

\* The errors that nothing handles
LEMMA Failing ==
  ASSUME AccTypeOK, [Next]_vars, NEW r \in Requests, pc[r] # "failed", pc'[r] = "failed"
  PROVE  \/ pc[r] = "create" /\ (Taken(r, want[r]) \/ LinkTaken(want[r].sub, r))
         \/ pc[r] = "link" /\ LinkTaken(want[r].sub, user[r])
         \/ pc[r] = "update" /\ (Taken(user[r], want[r]) \/ user[r] \notin Alive)
<1>1. ASSUME NEW q \in Requests, NEW step, pc' = [pc EXCEPT ![q] = step]
      PROVE  q = r /\ step = "failed"
  BY <1>1 DEF AccTypeOK
<1>2. ASSUME NEW q \in Requests, NEW values, NEW step, Begin(q, values, step)
      PROVE  step = "failed"
  BY <1>1, <1>2 DEF Begin
<1>3. ASSUME NEW q \in Requests, Step(q)
      PROVE  \/ pc[r] = "create" /\ (Taken(r, want[r]) \/ LinkTaken(want[r].sub, r))
             \/ pc[r] = "link" /\ LinkTaken(want[r].sub, user[r])
             \/ pc[r] = "update" /\ (Taken(user[r], want[r]) \/ user[r] \notin Alive)
  <2>1. CASE \/ Verified(q) \/ ReadIdentity(q) \/ ReadUser(q) \/ ReadEmail(q) \/ ReadEmailToLink(q)
             \/ ReadUsername(q) \/ ReadPhone(q) \/ TouchIdentity(q) \/ Fail(q)
    <3>1. ASSUME NEW step, step # "failed", Goto(q, step)
          PROVE  FALSE
      BY <1>1, <3>1 DEF Goto
    <3>2. CASE Verified(q) \/ ReadIdentity(q) \/ ReadEmailToLink(q) \/ TouchIdentity(q) \/ Fail(q)
      BY <3>1, <3>2 DEF Verified, ReadIdentity, ReadEmailToLink, TouchIdentity, Fail
    <3>3. CASE ReadUser(q) \/ ReadEmail(q)
      BY <3>1, <3>3 DEF ReadUser, ReadEmail
    <3>4. CASE ReadUsername(q) \/ ReadPhone(q)
      BY <3>1, <3>4 DEF ReadUsername, ReadPhone
    <3>. QED
      BY <2>1, <3>2, <3>3, <3>4
  <2>2. CASE CreateAccount(q)
    BY <1>1, <2>2 DEF CreateAccount, Goto
  <2>3. CASE LinkIdentity(q)
    BY <1>1, <2>3 DEF LinkIdentity, Goto
  <2>4. CASE UpdateUser(q)
    BY <1>1, <2>4 DEF UpdateUser, Goto
  <2>. QED
    BY <1>3, <2>1, <2>2, <2>3, <2>4 DEF Step
<1>4. ASSUME NEW q \in Requests, NEW e \in Emails, NEW n \in Usernames, BeginRegister(q, e, n)
      PROVE  FALSE
  BY <1>2, <1>4 DEF BeginRegister
<1>5. ASSUME NEW q \in Requests, NEW e \in Emails, NEW s \in Subs, NEW k \in Kids, BeginLogin(q, e, s, k)
      PROVE  FALSE
  BY <1>2, <1>5 DEF BeginLogin
<1>6. ASSUME NEW q \in Requests, NEW a \in Accounts, NEW n \in Usernames, BeginSetUsername(q, a, n)
      PROVE  FALSE
  BY <1>2, <1>6 DEF BeginSetUsername
<1>7. ASSUME NEW q \in Requests, NEW a \in Accounts, NEW p \in Phones \cup {Nothing},
             BeginUpdateProfile(q, a, p)
      PROVE  FALSE
  <2>1. (IF p = Nothing THEN "update" ELSE "phone") # "failed"
    OBVIOUS
  <2>. QED
    BY <1>2, <1>7, <2>1 DEF BeginUpdateProfile
<1>8. ASSUME NEW a \in Accounts, Ban(a)
      PROVE  FALSE
  BY <1>8 DEF Ban
<1>9. ~UNCHANGED accVars /\ ~UNCHANGED vars
  BY DEF accVars, vars
<1>. QED
  BY <1>3, <1>4, <1>5, <1>6, <1>7, <1>8, <1>9 DEF Next

\* An error that nothing handles has another request that raced for the same value behind it,
\* a ban, or an account with another Google identity.
THEOREM FailuresAreRaces == Spec => FailsOnlyWhenRaced
<1>1. ASSUME AccTypeOK, WorkInv, ContentionInv, [Next]_vars,
             NEW r \in Requests, pc[r] # "failed", pc'[r] = "failed"
      PROVE  \/ \E q \in Requests : Raced(r, q) /\ pc[q] = "done" /\ Rivals(r, q)
             \/ user[r] \in banned
             \/ \E a \in banned, c \in {"email", "name", "phone"} :
                  want[r][c] # Nothing /\ row[a][c] = want[r][c]
             \/ \E link \in linked : link[2] = user[r] /\ link[1] # want[r].sub
  <2>1. ASSUME NEW q \in Requests, NEW c \in {"email", "name", "phone", "sub"}, Won(q, r, c),
               want[r][c] # Nothing
        PROVE  Raced(r, q) /\ pc[q] = "done" /\ Rivals(r, q)
    BY <2>1 DEF Won, Rivals, NoValues
  <2>2. CASE pc[r] \in {"create", "update"} /\ Taken(user[r], want[r])
    <3>1. PICK b \in rows \ {user[r]}, c \in UserColumns : want[r][c] # Nothing /\ row[b][c] = want[r][c]
      BY <2>2 DEF Taken, UserColumns
    <3>2. Clear(r, c)
      BY <1>1, <2>2, <3>1 DEF ContentionInv, Contention, ColumnsClear, UserColumns
    <3>3. b \in banned \/ \E q \in Requests : Won(q, r, c)
      BY <3>1, <3>2 DEF Clear
    <3>. QED
      BY <2>1, <3>1, <3>3 DEF UserColumns
  <2>3. CASE pc[r] \in {"create", "link"} /\ \E link \in linked : link[1] = want[r].sub
    <3>1. PICK link \in linked : link[1] = want[r].sub
      BY <2>3
    <3>2. link = <<want[r].sub, link[2]>> /\ link[2] \in rows /\ Login(r)
      BY <1>1, <3>1, IdentitiesAssumption DEF AccTypeOK, Login
    <3>3. \E q \in Requests : Won(q, r, "sub")
      BY <1>1, <2>3, <3>1, <3>2 DEF ContentionInv, Contention, LinkClear
    <3>. QED
      BY <2>1, <3>2, <3>3 DEF Login
  <2>4. CASE pc[r] = "create" /\ \E link \in linked : link[2] = r
    BY <1>1, <2>4 DEF AccTypeOK, WorkInv, Work
  <2>5. CASE pc[r] = "link" /\ \E link \in linked : link[2] = user[r]
    BY <2>3, <2>5
  <2>6. CASE pc[r] = "update" /\ user[r] \notin Alive
    BY <1>1, <2>6 DEF WorkInv, Work, Alive
  <2>7. pc[r] = "create" => user[r] = r
    BY <1>1 DEF WorkInv, Work
  <2>. QED
    BY <1>1, <2>2, <2>3, <2>4, <2>5, <2>6, <2>7, Failing DEF LinkTaken
<1>2. AccInv /\ ContentionInv /\ [Next]_vars =>
        [\A r \in Requests :
           pc[r] # "failed" /\ pc'[r] = "failed" =>
             \/ \E q \in Requests : Raced(r, q) /\ pc[q] = "done" /\ Rivals(r, q)
             \/ user[r] \in banned
             \/ \E a \in banned, c \in {"email", "name", "phone"} :
                  want[r][c] # Nothing /\ row[a][c] = want[r][c]
             \/ \E link \in linked : link[2] = user[r] /\ link[1] # want[r].sub]_vars
  BY <1>1 DEF AccInv
<1>. QED
  BY <1>2, ContentionAlways, PTL DEF Spec, FailsOnlyWhenRaced

\* Whoever changes a username that is set has raced with another request of the user to set one.
THEOREM NamesStand == Spec => NameStandsUnlessRaced
<1>1. ASSUME AccTypeOK, WorkInv, ContentionInv, [Next]_vars,
             NEW a \in Accounts, row[a].name # Nothing, row'[a].name # row[a].name
      PROVE  \E r, q \in Requests :
               /\ Raced(r, q) /\ want[r].name # Nothing /\ want[q].name # Nothing
               /\ user[r] = a /\ user[q] = a
  <2>1. PICK r \in Requests : UpdateUser(r) \/ CreateAccount(r)
    <3>1. ASSUME NEW r \in Requests, Step(r)
          PROVE  UpdateUser(r) \/ CreateAccount(r)
      BY <1>1, <3>1 DEF Step, Verified, ReadIdentity, ReadUser, ReadEmail, ReadEmailToLink, ReadUsername,
                        ReadPhone, LinkIdentity, TouchIdentity, Fail, At, tables
    <3>2. ASSUME NEW r \in Requests, NEW values, NEW step, Begin(r, values, step)
          PROVE  FALSE
      BY <1>1, <3>2 DEF Begin, tables
    <3>3. ASSUME NEW b \in Accounts, Ban(b)
          PROVE  FALSE
      BY <1>1, <3>3 DEF Ban
    <3>4. ~UNCHANGED accVars /\ ~UNCHANGED vars
      BY <1>1 DEF accVars, vars, tables
    <3>5. ASSUME NEW r \in Requests, NEW e \in Emails, NEW n \in Usernames, BeginRegister(r, e, n)
          PROVE  FALSE
      BY <3>2, <3>5 DEF BeginRegister
    <3>6. ASSUME NEW r \in Requests, NEW e \in Emails, NEW s \in Subs, NEW k \in Kids, BeginLogin(r, e, s, k)
          PROVE  FALSE
      BY <3>2, <3>6 DEF BeginLogin
    <3>7. ASSUME NEW r \in Requests, NEW b \in Accounts, NEW n \in Usernames, BeginSetUsername(r, b, n)
          PROVE  FALSE
      BY <3>2, <3>7 DEF BeginSetUsername
    <3>8. ASSUME NEW r \in Requests, NEW b \in Accounts, NEW p \in Phones \cup {Nothing},
                 BeginUpdateProfile(r, b, p)
          PROVE  FALSE
      BY <3>2, <3>8 DEF BeginUpdateProfile
    <3>. QED
      BY <1>1, <3>1, <3>3, <3>4, <3>5, <3>6, <3>7, <3>8 DEF Next
  <2>2. Effect(r)
    BY <1>1, <2>1, UpdateEffect, CreateEffect DEF ContentionInv
  <2>3. a = user[r] /\ want[r].name # Nothing
    BY <1>1, <2>2 DEF Effect
  <2>4. pc[r] # "create"
    BY <1>1, <2>3 DEF WorkInv, Work, ContentionInv, Blank
  <2>5. pc[r] = "update"
    BY <2>1, <2>4 DEF UpdateUser, CreateAccount
  <2>6. Named(r)
    BY <1>1 DEF ContentionInv, Contention
  <2>. QED
    BY <1>1, <2>3, <2>5, <2>6 DEF Named
<1>2. AccInv /\ ContentionInv /\ [Next]_vars =>
        [\A a \in Accounts :
           row[a].name # Nothing /\ row'[a].name # row[a].name =>
             \E r, q \in Requests :
               /\ Raced(r, q) /\ want[r].name # Nothing /\ want[q].name # Nothing
               /\ user[r] = a /\ user[q] = a]_vars
  BY <1>1 DEF AccInv
<1>. QED
  BY <1>2, ContentionAlways, PTL DEF Spec, NameStandsUnlessRaced

-----------------------------------------------------------------------------
(* Push tokens: PushTokens                                                 *)

\* A token that is quiet has no row; nor will those that a logout is going to make quiet.
QuietInv ==
  /\ \A f \in quiet : token[f] = NoRow
  /\ \A q \in Calls : call[q] = "commit" =>
       \A f \in OfDevice(where[q]) \ renewed[q] : token[f] = NoRow \/ f \in erased[q]

\* A push has read no quiet token, and gets through to those alone that it has read.
HushedInv ==
  \A p \in Pushes :
    /\ \A r \in batch[p] : r[1] \notin hushed[p]
    /\ \A f \in told[p] : \E r \in batch[p] : r[1] = f

\* What logouts and pushes may delete is not upheld.
UpheldInv ==
  /\ \A q \in Calls :
       /\ call[q] \in {"delete", "commit"} => OfDevice(where[q]) \cap upheld = {}
       /\ erased[q] \subseteq OfDevice(where[q])
       /\ erased[q] # {} => call[q] = "commit"
  /\ \A p \in Pushes : \A r \in dead[p] : r[1] \in disowned
  /\ \A f \in upheld \ disowned : token[f] # NoRow

PushInv == PushTypeOK /\ QuietInv /\ HushedInv /\ UpheldInv

\* Before the first call the push tokens' invariant holds.
LEMMA PushInitInv == PushInit => PushInv
<1> SUFFICES ASSUME PushInit PROVE PushInv
  OBVIOUS
<1> USE DEF PushInit
<1>1. PushTypeOK
  BY DEF PushTypeOK
<1>2. QuietInv /\ HushedInv /\ UpheldInv
  BY DEF QuietInv, HushedInv, UpheldInv
<1>. QED
  BY <1>1, <1>2 DEF PushInv

\* Every step keeps the types of the push tokens.
LEMMA PushStepTypes == PushTypeOK /\ UpheldInv /\ [PushNext]_pushVars => PushTypeOK'
<1> SUFFICES ASSUME PushTypeOK, UpheldInv, [PushNext]_pushVars PROVE PushTypeOK'
  OBVIOUS
<1> USE DEF PushTypeOK, authVars, taskVars, past
<1>1. ASSUME NEW q \in Calls, LogIn(q) PROVE PushTypeOK'
  BY <1>1 DEF LogIn
<1>2. ASSUME NEW s \in Calls, EndSession(s) PROVE PushTypeOK'
  BY <1>2 DEF EndSession
<1>3. ASSUME NEW q \in Calls, NEW s \in Calls, BeginLogout(q, s) PROVE PushTypeOK'
  BY <1>3 DEF BeginLogout
<1>4. ASSUME NEW q \in Calls, DeleteTokens(q) PROVE PushTypeOK'
  BY <1>4 DEF DeleteTokens, OfDevice
<1>5. ASSUME NEW q \in Calls, CommitLogout(q) PROVE PushTypeOK'
  BY <1>5 DEF CommitLogout, OfDevice
<1>6. ASSUME NEW q \in Calls, AbortLogout(q) PROVE PushTypeOK'
  BY <1>6 DEF AbortLogout
<1>7. ASSUME NEW q \in Calls, NEW f \in FcmTokens, Register(q, f) PROVE PushTypeOK'
  BY <1>7 DEF Register
<1>8. ASSUME NEW f \in FcmTokens, Disown(f) PROVE PushTypeOK'
  BY <1>8 DEF Disown
<1>9. ASSUME NEW p \in Pushes, BeginPush(p) PROVE PushTypeOK'
  <2>1. {<<f, token[f]>> : f \in {f \in FcmTokens : token[f] # NoRow}} \in SUBSET (FcmTokens \X Calls)
    OBVIOUS
  <2>. QED
    BY <1>9, <2>1 DEF BeginPush
<1>10. ASSUME NEW p \in Pushes, NEW r \in FcmTokens \X Calls, Send(p, r) PROVE PushTypeOK'
  <2>1. r[1] \in FcmTokens
    OBVIOUS
  <2>2. /\ tried' = [tried EXCEPT ![p] = @ \cup {r}]
        /\ \/ told' = [told EXCEPT ![p] = @ \cup {r[1]}] /\ UNCHANGED dead
           \/ dead' = [dead EXCEPT ![p] = @ \cup {r}] /\ UNCHANGED told
           \/ UNCHANGED <<dead, told>>
        /\ UNCHANGED <<authVars, token, erased, disowned, task, batch, renewed, quiet, upheld, hushed>>
    BY <1>10 DEF Send
  <2>. QED
    BY <2>1, <2>2
<1>11. ASSUME NEW p \in Pushes, FinishPush(p) PROVE PushTypeOK'
  BY <1>11 DEF FinishPush
<1>12. ASSUME NEW p \in Pushes, RestartPush(p) PROVE PushTypeOK'
  BY <1>12 DEF RestartPush
<1>13. CASE UNCHANGED pushVars
  BY <1>13 DEF pushVars
<1>. QED
  BY <1>1, <1>2, <1>3, <1>4, <1>5, <1>6, <1>7, <1>8, <1>9, <1>10, <1>11, <1>12, <1>13 DEF PushNext

\* Every step keeps quiet tokens without rows, pushes off them, and upheld tokens safe.
LEMMA PushStepInv == PushInv /\ [PushNext]_pushVars => (QuietInv /\ HushedInv /\ UpheldInv)'
<1> SUFFICES ASSUME PushInv, [PushNext]_pushVars PROVE (QuietInv /\ HushedInv /\ UpheldInv)'
  OBVIOUS
<1>a. PushTypeOK /\ QuietInv /\ HushedInv /\ UpheldInv
  BY DEF PushInv
<1>b. \A d : OfDevice(d) \subseteq FcmTokens
  BY DEF OfDevice
\* Steps of requests leave the pushes alone, and the other way round.
<1>c. UNCHANGED <<taskVars, hushed, told>> => HushedInv'
  BY <1>a DEF HushedInv, taskVars
<1>d. UNCHANGED <<authVars, token, erased, renewed, quiet>> => QuietInv'
  BY <1>a DEF QuietInv, authVars, OfDevice
<1>1. ASSUME NEW q \in Calls, LogIn(q) PROVE (QuietInv /\ HushedInv /\ UpheldInv)'
  <2>1. \A r \in Calls : call'[r] # call[r] => call'[r] = "done" /\ call[r] = "new"
    BY <1>a, <1>1 DEF LogIn, PushTypeOK
  <2>2. UNCHANGED <<where, token, erased, renewed, quiet, upheld, disowned, taskVars, dead, hushed, told>>
    BY <1>1 DEF LogIn, past, taskVars
  <2>3. QuietInv'
    BY <1>a, <2>1, <2>2 DEF QuietInv, OfDevice
  <2>4. UpheldInv'
    BY <1>a, <2>1, <2>2 DEF UpheldInv, OfDevice
  <2>. QED
    BY <1>c, <2>2, <2>3, <2>4
<1>2. ASSUME NEW s \in Calls, EndSession(s) PROVE (QuietInv /\ HushedInv /\ UpheldInv)'
  BY <1>a, <1>2 DEF EndSession, QuietInv, HushedInv, UpheldInv, taskVars, past, OfDevice
<1>3. ASSUME NEW q \in Calls, NEW s \in Calls, BeginLogout(q, s) PROVE (QuietInv /\ HushedInv /\ UpheldInv)'
  <2>1. /\ call[q] = "new"
        /\ call' = [call EXCEPT ![q] = IF session[s] = "active" THEN "delete" ELSE "done"]
        /\ upheld' = IF session[s] = "active" THEN upheld \ OfDevice(where[q]) ELSE upheld
        /\ UNCHANGED <<where, token, erased, renewed, quiet, disowned, taskVars, dead, hushed, told>>
    BY <1>3 DEF BeginLogout, taskVars
  <2>2. \A r \in Calls : call'[r] = IF r # q THEN call[r]
                                    ELSE IF session[s] = "active" THEN "delete" ELSE "done"
    BY <1>a, <2>1 DEF PushTypeOK
  <2>3. QuietInv'
    BY <1>a, <2>1, <2>2 DEF QuietInv, OfDevice
  <2>4. \A r \in Calls : /\ call'[r] \in {"delete", "commit"} => OfDevice(where[r]) \cap upheld' = {}
                         /\ erased[r] \subseteq OfDevice(where[r])
                         /\ erased[r] # {} => call'[r] = "commit"
    BY <1>a, <2>1, <2>2 DEF UpheldInv
  <2>5. UpheldInv'
    BY <1>a, <2>1, <2>4 DEF UpheldInv, OfDevice
  <2>. QED
    BY <1>c, <2>1, <2>3, <2>5
<1>4. ASSUME NEW q \in Calls, DeleteTokens(q) PROVE (QuietInv /\ HushedInv /\ UpheldInv)'
  <2>1. /\ call[q] = "delete"
        /\ call' = [call EXCEPT ![q] = "commit"]
        /\ erased' = [erased EXCEPT ![q] = {f \in OfDevice(where[q]) : token[f] # NoRow}]
        /\ UNCHANGED <<where, token, renewed, quiet, upheld, disowned, taskVars, dead, hushed, told>>
    BY <1>4 DEF DeleteTokens, past, taskVars
  <2>2. \A r \in Calls : /\ call'[r] = IF r = q THEN "commit" ELSE call[r]
                         /\ erased'[r] = IF r = q THEN {f \in OfDevice(where[q]) : token[f] # NoRow} ELSE erased[r]
    BY <1>a, <2>1 DEF PushTypeOK
  <2>3. \A r \in Calls : call'[r] = "commit" =>
          \A f \in OfDevice(where[r]) \ renewed[r] : token[f] = NoRow \/ f \in erased'[r]
    BY <1>a, <2>2 DEF QuietInv
  <2>4. QuietInv'
    BY <1>a, <2>1, <2>3 DEF QuietInv, OfDevice
  <2>5. UpheldInv'
    BY <1>a, <2>1, <2>2 DEF UpheldInv, OfDevice
  <2>. QED
    BY <1>c, <2>1, <2>4, <2>5
<1>5. ASSUME NEW q \in Calls, CommitLogout(q) PROVE (QuietInv /\ HushedInv /\ UpheldInv)'
  <2>1. /\ call[q] = "commit"
        /\ call' = [call EXCEPT ![q] = "done"]
        /\ token' = [f \in FcmTokens |-> IF f \in erased[q] THEN NoRow ELSE token[f]]
        /\ erased' = [erased EXCEPT ![q] = {}]
        /\ quiet' = quiet \cup (OfDevice(where[q]) \ renewed[q])
        /\ UNCHANGED <<where, renewed, upheld, disowned, taskVars, dead, hushed, told>>
    BY <1>5 DEF CommitLogout, taskVars
  <2>2. \A r \in Calls : /\ call'[r] = IF r = q THEN "done" ELSE call[r]
                         /\ erased'[r] = IF r = q THEN {} ELSE erased[r]
    BY <1>a, <2>1 DEF PushTypeOK
  <2>3. \A f \in FcmTokens : token'[f] = IF f \in erased[q] THEN NoRow ELSE token[f]
    BY <2>1
  <2>4. \A f \in quiet' : token'[f] = NoRow
    BY <1>a, <1>b, <2>1, <2>3 DEF QuietInv, PushTypeOK
  <2>5. \A r \in Calls : call'[r] = "commit" =>
          \A f \in OfDevice(where[r]) \ renewed[r] : token'[f] = NoRow \/ f \in erased'[r]
    BY <1>a, <1>b, <2>2, <2>3 DEF QuietInv
  <2>6. QuietInv'
    BY <2>1, <2>4, <2>5 DEF QuietInv, OfDevice
  <2>7. \A f \in upheld \ disowned : token'[f] # NoRow
    BY <1>a, <2>1, <2>3 DEF UpheldInv, PushTypeOK
  <2>8. UpheldInv'
    BY <1>a, <2>1, <2>2, <2>7 DEF UpheldInv, OfDevice
  <2>. QED
    BY <1>c, <2>1, <2>6, <2>8
<1>6. ASSUME NEW q \in Calls, AbortLogout(q) PROVE (QuietInv /\ HushedInv /\ UpheldInv)'
  <2>1. /\ call' = [call EXCEPT ![q] = "died"]
        /\ erased' = [erased EXCEPT ![q] = {}]
        /\ UNCHANGED <<where, token, renewed, quiet, upheld, disowned, taskVars, dead, hushed, told>>
    BY <1>6 DEF AbortLogout, past, taskVars
  <2>2. \A r \in Calls : /\ call'[r] = IF r = q THEN "died" ELSE call[r]
                         /\ erased'[r] = IF r = q THEN {} ELSE erased[r]
    BY <1>a, <2>1 DEF PushTypeOK
  <2>3. QuietInv'
    BY <1>a, <2>1, <2>2 DEF QuietInv, OfDevice
  <2>4. UpheldInv'
    BY <1>a, <2>1, <2>2 DEF UpheldInv, OfDevice
  <2>. QED
    BY <1>c, <2>1, <2>3, <2>4
<1>7. ASSUME NEW q \in Calls, NEW f \in FcmTokens, Register(q, f) PROVE (QuietInv /\ HushedInv /\ UpheldInv)'
  <2>1. /\ call[q] = "new"
        /\ call' = [call EXCEPT ![q] = "done"]
        /\ token' = [token EXCEPT ![f] = IF @ = NoRow THEN q ELSE @]
        /\ renewed' = [r \in Calls |-> IF call[r] \in {"delete", "commit"} THEN renewed[r] \cup {f} ELSE renewed[r]]
        /\ quiet' = quiet \ {f}
        /\ upheld' = IF LoggingOut(Home[f]) THEN upheld ELSE upheld \cup {f}
        /\ UNCHANGED <<where, erased, disowned, taskVars, dead, hushed, told>>
    BY <1>7 DEF Register, taskVars
  <2>2. \A r \in Calls : call'[r] = IF r = q THEN "done" ELSE call[r]
    BY <1>a, <2>1 DEF PushTypeOK
  <2>3. /\ \A g \in FcmTokens : g # f => token'[g] = token[g]
        /\ token'[f] # NoRow
    BY <1>a, <2>1, PushTokensAssumption DEF PushTypeOK
  <2>4. \A g \in quiet' : token'[g] = NoRow
    BY <1>a, <2>1, <2>3 DEF QuietInv, PushTypeOK
  <2>5. \A r \in Calls : call'[r] = "commit" =>
          \A g \in OfDevice(where[r]) \ renewed'[r] : token'[g] = NoRow \/ g \in erased[r]
    BY <1>a, <1>b, <2>1, <2>2, <2>3 DEF QuietInv
  <2>6. QuietInv'
    BY <2>1, <2>4, <2>5 DEF QuietInv, OfDevice
  <2>7. ASSUME NEW r \in Calls
        PROVE  /\ call'[r] \in {"delete", "commit"} => OfDevice(where[r]) \cap upheld' = {}
               /\ erased[r] \subseteq OfDevice(where[r])
               /\ erased[r] # {} => call'[r] = "commit"
    <3>1. call'[r] \in {"delete", "commit"} /\ f \in OfDevice(where[r]) => LoggingOut(Home[f])
      BY <2>2 DEF LoggingOut, OfDevice
    <3>. QED
      BY <1>a, <2>1, <2>2, <3>1 DEF UpheldInv
  <2>8. \A g \in upheld' \ disowned : token'[g] # NoRow
    BY <1>a, <2>1, <2>3 DEF UpheldInv, PushTypeOK
  <2>9. UpheldInv'
    BY <1>a, <2>1, <2>7, <2>8 DEF UpheldInv, OfDevice
  <2>. QED
    BY <1>c, <2>1, <2>6, <2>9
<1>8. ASSUME NEW f \in FcmTokens, Disown(f) PROVE (QuietInv /\ HushedInv /\ UpheldInv)'
  <2>1. UNCHANGED <<call, where, token, erased, renewed, quiet, upheld, dead>> /\ disowned' = disowned \cup {f}
    BY <1>8 DEF Disown, authVars, taskVars, past
  <2>2. UpheldInv'
    BY <1>a, <2>1 DEF UpheldInv, OfDevice
  <2>. QED
    BY <1>c, <1>d, <1>8, <2>2 DEF Disown, past
<1>9. ASSUME NEW p \in Pushes, BeginPush(p) PROVE (QuietInv /\ HushedInv /\ UpheldInv)'
  <2>1. /\ batch' = [batch EXCEPT ![p] = {<<f, token[f]>> : f \in {f \in FcmTokens : token[f] # NoRow}}]
        /\ dead' = [dead EXCEPT ![p] = {}]
        /\ hushed' = [hushed EXCEPT ![p] = quiet]
        /\ told' = [told EXCEPT ![p] = {}]
        /\ UNCHANGED <<authVars, token, erased, disowned, renewed, quiet, upheld>>
    BY <1>9 DEF BeginPush
  <2>2. HushedInv'
    <3>1. ASSUME NEW r \in {<<f, token[f]>> : f \in {f \in FcmTokens : token[f] # NoRow}}
          PROVE  r[1] \notin quiet
      BY <1>a, <3>1 DEF QuietInv
    <3>. QED
      BY <1>a, <2>1, <3>1 DEF HushedInv, PushTypeOK
  <2>3. UpheldInv'
    <3>1. UNCHANGED <<call, where, token, erased, disowned, upheld>>
      BY <2>1 DEF authVars
    <3>. QED
      BY <1>a, <2>1, <3>1 DEF UpheldInv, OfDevice, PushTypeOK
  <2>. QED
    BY <1>d, <2>1, <2>2, <2>3
<1>10. ASSUME NEW p \in Pushes, NEW r \in FcmTokens \X Calls, Send(p, r) PROVE (QuietInv /\ HushedInv /\ UpheldInv)'
  <2>1. /\ r \in batch[p]
        /\ UNCHANGED <<authVars, token, erased, disowned, batch, renewed, quiet, upheld, hushed>>
    BY <1>10 DEF Send
  <2>2. \/ told' = [told EXCEPT ![p] = @ \cup {r[1]}] /\ UNCHANGED dead
        \/ r[1] \in disowned /\ dead' = [dead EXCEPT ![p] = @ \cup {r}] /\ UNCHANGED told
        \/ UNCHANGED <<dead, told>>
    BY <1>10 DEF Send
  <2>3. \A o \in Pushes : \A f \in told'[o] : f \in told[o] \/ (o = p /\ f = r[1])
    BY <1>a, <2>2 DEF PushTypeOK
  <2>4. \A o \in Pushes : \A x \in dead'[o] : x \in dead[o] \/ (x = r /\ r[1] \in disowned)
    BY <1>a, <2>2 DEF PushTypeOK
  <2>5. HushedInv'
    BY <1>a, <2>1, <2>3 DEF HushedInv
  <2>6. UpheldInv'
    <3>1. UNCHANGED <<call, where>>
      BY <2>1 DEF authVars
    <3>. QED
      BY <1>a, <2>1, <2>4, <3>1 DEF UpheldInv, OfDevice
  <2>. QED
    BY <1>d, <2>1, <2>5, <2>6
<1>11. ASSUME NEW p \in Pushes, FinishPush(p) PROVE (QuietInv /\ HushedInv /\ UpheldInv)'
  <2>1. /\ token' = [f \in FcmTokens |-> IF <<f, token[f]>> \in dead[p] THEN NoRow ELSE token[f]]
        /\ UNCHANGED <<call, where, erased, disowned, batch, dead, renewed, quiet, upheld, hushed, told>>
    BY <1>11 DEF FinishPush, authVars, past
  <2>2. \A f \in FcmTokens : token'[f] = token[f] \/ (token'[f] = NoRow /\ f \in disowned)
    BY <1>a, <2>1 DEF UpheldInv
  <2>3. QuietInv'
    BY <1>a, <1>b, <2>1, <2>2 DEF QuietInv, OfDevice, PushTypeOK
  <2>4. UpheldInv'
    BY <1>a, <2>1, <2>2 DEF UpheldInv, OfDevice, PushTypeOK
  <2>5. HushedInv'
    BY <1>a, <2>1 DEF HushedInv
  <2>. QED
    BY <2>3, <2>4, <2>5
<1>12. ASSUME NEW p \in Pushes, RestartPush(p) PROVE (QuietInv /\ HushedInv /\ UpheldInv)'
  BY <1>a, <1>12 DEF RestartPush, QuietInv, HushedInv, UpheldInv, authVars, past, OfDevice
<1>13. CASE UNCHANGED pushVars
  BY <1>a, <1>13 DEF pushVars, QuietInv, HushedInv, UpheldInv, authVars, taskVars, past, OfDevice
<1>. QED
  BY <1>1, <1>2, <1>3, <1>4, <1>5, <1>6, <1>7, <1>8, <1>9, <1>10, <1>11, <1>12, <1>13 DEF PushNext

\* The push tokens' invariant holds in every state.
LEMMA PushInvAlways == PushSpec => []PushInv
<1>1. PushInv /\ [PushNext]_pushVars => PushInv'
  BY PushStepTypes, PushStepInv DEF PushInv
<1>. QED
  BY <1>1, PushInitInv, PTL DEF PushSpec

\* The sessions, tokens and tasks keep their types.
THEOREM PushTypeCorrect == PushSpec => []PushTypeOK
<1>1. PushInv => PushTypeOK
  BY DEF PushInv
<1>. QED
  BY <1>1, PushInvAlways, PTL

\* For any devices, requests and pushes: a push gets through to no token of a device that had
\* logged out before it began, and a token stays that no logout had a claim to.
THEOREM PushesFollow == PushSpec => []PushesFollowLogins
<1>1. PushInv => PushesFollowLogins
  BY DEF PushInv, HushedInv, UpheldInv, PushesFollowLogins
<1>. QED
  BY <1>1, PushInvAlways, PTL
=============================================================================
