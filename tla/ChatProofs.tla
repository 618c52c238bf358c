------------------------------ MODULE ChatProofs ------------------------------
(***************************************************************************)
(* Proofs about Chat, for any messages, any tabs and any limits: TLC       *)
(* checks up to three messages or two tabs, and limits of one and two.     *)
(***************************************************************************)
EXTENDS Chat, SequenceTheorems, FiniteSetTheorems, WellFoundedInduction, TLAPS

-----------------------------------------------------------------------------
(* Sequences                                                               *)

\* x comes before y in s.
Precedes(s, x, y) == \E i, j \in DOMAIN s : i < j /\ s[i] = x /\ s[j] = y

\* What appending an element does to the range and the order of a sequence.
LEMMA Appending ==
  ASSUME NEW S, NEW s \in Seq(S), NEW e \in S
  PROVE  /\ Append(s, e) \in Seq(S)
         /\ Range(Append(s, e)) = Range(s) \cup {e}
         /\ \A x, y : Precedes(Append(s, e), x, y) <=> Precedes(s, x, y) \/ (x \in Range(s) /\ y = e)
<1> DEFINE z == Append(s, e)
<1>1. /\ z \in Seq(S) /\ Len(s) \in Nat /\ Len(z) = Len(s) + 1
      /\ DOMAIN s = 1 .. Len(s) /\ DOMAIN z = 1 .. Len(s) + 1
      /\ z[Len(s) + 1] = e /\ \A i \in 1 .. Len(s) : z[i] = s[i]
  OBVIOUS
<1> HIDE DEF z
<1>2. Range(z) = Range(s) \cup {e}
  BY <1>1 DEF Range
<1>3. ASSUME NEW x, NEW y, Precedes(z, x, y)
      PROVE  Precedes(s, x, y) \/ (x \in Range(s) /\ y = e)
  BY <1>1, <1>3 DEF Precedes, Range
<1>4. ASSUME NEW x, NEW y, Precedes(s, x, y)
      PROVE  Precedes(z, x, y)
  <2>1. PICK i \in 1 .. Len(s), j \in 1 .. Len(s) : i < j /\ s[i] = x /\ s[j] = y
    BY <1>1, <1>4 DEF Precedes
  <2>2. i \in DOMAIN z /\ j \in DOMAIN z /\ z[i] = x /\ z[j] = y
    BY <1>1, <2>1
  <2>. QED
    BY <2>1, <2>2 DEF Precedes
<1>5. ASSUME NEW x, NEW y, x \in Range(s), y = e
      PROVE  Precedes(z, x, y)
  <2>1. PICK i \in 1 .. Len(s) : s[i] = x
    BY <1>1, <1>5 DEF Range
  <2>2. i \in DOMAIN z /\ Len(s) + 1 \in DOMAIN z /\ z[i] = x /\ z[Len(s) + 1] = y /\ i < Len(s) + 1
    BY <1>1, <1>5, <2>1
  <2>. QED
    BY <2>2 DEF Precedes
<1>. QED
  BY <1>1, <1>2, <1>3, <1>4, <1>5 DEF z

\* What taking the first element does to the range and the order of a sequence.
LEMMA Taking ==
  ASSUME NEW S, NEW s \in Seq(S), s # <<>>
  PROVE  /\ Head(s) \in S /\ Tail(s) \in Seq(S)
         /\ Range(s) = {Head(s)} \cup Range(Tail(s))
         /\ \A x, y : Precedes(Tail(s), x, y) => Precedes(s, x, y)
         /\ \A y \in Range(Tail(s)) : Precedes(s, Head(s), y)
<1> DEFINE z == Tail(s)
<1>1. /\ Head(s) \in S /\ z \in Seq(S) /\ Len(s) \in Nat \ {0} /\ Len(z) = Len(s) - 1
      /\ DOMAIN s = 1 .. Len(s) /\ DOMAIN z = 1 .. Len(s) - 1
      /\ Head(s) = s[1] /\ \A i \in 1 .. Len(s) - 1 : z[i] = s[i + 1]
  BY HeadTailProperties, EmptySeq, LenProperties
<1> HIDE DEF z
<1>2. \A i \in DOMAIN z : i + 1 \in DOMAIN s /\ z[i] = s[i + 1]
  BY <1>1
<1>3. Range(s) \subseteq {Head(s)} \cup Range(z)
  <2> SUFFICES ASSUME NEW i \in 1 .. Len(s), i # 1
               PROVE  s[i] \in Range(z)
    BY <1>1 DEF Range
  <2>1. i - 1 \in DOMAIN z /\ z[i - 1] = s[i]
    BY <1>1
  <2>. QED
    BY <2>1 DEF Range
<1>4. {Head(s)} \cup Range(z) \subseteq Range(s)
  <2>1. 1 \in DOMAIN s
    BY <1>1
  <2>. QED
    BY <1>1, <1>2, <2>1 DEF Range
<1>5. ASSUME NEW x, NEW y, Precedes(z, x, y)
      PROVE  Precedes(s, x, y)
  <2>1. PICK i \in DOMAIN z, j \in DOMAIN z : i < j /\ z[i] = x /\ z[j] = y
    BY <1>5 DEF Precedes
  <2>2. /\ i + 1 \in DOMAIN s /\ j + 1 \in DOMAIN s /\ s[i + 1] = x /\ s[j + 1] = y
        /\ i + 1 < j + 1
    BY <1>1, <1>2, <2>1
  <2>. QED
    BY <2>2 DEF Precedes
<1>6. ASSUME NEW y \in Range(z)
      PROVE  Precedes(s, Head(s), y)
  <2>1. PICK i \in DOMAIN z : z[i] = y
    BY DEF Range
  <2>2. 1 \in DOMAIN s /\ i + 1 \in DOMAIN s /\ 1 < i + 1 /\ s[1] = Head(s) /\ s[i + 1] = y
    BY <1>1, <1>2, <2>1
  <2>. QED
    BY <2>2 DEF Precedes
<1>. QED
  BY <1>1, <1>3, <1>4, <1>5, <1>6 DEF z

\* No element comes twice.
Distinct(s) == \A i, j \in DOMAIN s : s[i] = s[j] => i = j

\* In a sequence without repetitions, coming before is a strict total order.
LEMMA Ordering ==
  ASSUME NEW S, NEW s \in Seq(S), Distinct(s)
  PROVE  /\ \A x : ~Precedes(s, x, x)
         /\ \A x, y \in Range(s) : x = y \/ Precedes(s, x, y) \/ Precedes(s, y, x)
         /\ \A x, y, z : Precedes(s, x, y) /\ Precedes(s, y, z) => Precedes(s, x, z)
<1>1. DOMAIN s = 1 .. Len(s) /\ Len(s) \in Nat
  OBVIOUS
<1>2. \A x : ~Precedes(s, x, x)
  BY <1>1 DEF Distinct, Precedes
<1>3. ASSUME NEW x \in Range(s), NEW y \in Range(s), x # y
      PROVE  Precedes(s, x, y) \/ Precedes(s, y, x)
  <2>1. PICK i \in DOMAIN s, j \in DOMAIN s : s[i] = x /\ s[j] = y
    BY DEF Range
  <2>2. i < j \/ j < i
    BY <1>1, <1>3, <2>1
  <2>. QED
    BY <2>1, <2>2 DEF Precedes
<1>4. ASSUME NEW x, NEW y, NEW z, Precedes(s, x, y), Precedes(s, y, z)
      PROVE  Precedes(s, x, z)
  <2>1. PICK i \in DOMAIN s, j \in DOMAIN s : i < j /\ s[i] = x /\ s[j] = y
    BY <1>4 DEF Precedes
  <2>2. PICK k \in DOMAIN s, l \in DOMAIN s : k < l /\ s[k] = y /\ s[l] = z
    BY <1>4 DEF Precedes
  <2>3. j = k
    BY <2>1, <2>2 DEF Distinct
  <2>4. i < l
    BY <1>1, <2>1, <2>2, <2>3
  <2>. QED
    BY <2>1, <2>2, <2>4 DEF Precedes
<1>. QED
  BY <1>2, <1>3, <1>4

\* Of elements of a sequence one comes last.
LEMMA Lasting ==
  ASSUME NEW S, NEW s \in Seq(S), Distinct(s), NEW T, T \subseteq Range(s), T # {}
  PROVE  \E m \in T : \A n \in T : ~Precedes(s, m, n)
<1> DEFINE P == {k \in Nat : \E i \in DOMAIN s : s[i] \in T /\ k = Len(s) - i}
<1>1. DOMAIN s = 1 .. Len(s) /\ Len(s) \in Nat
  OBVIOUS
<1>2. P # {} /\ P \subseteq Nat
  <2>1. PICK i \in DOMAIN s : s[i] \in T
    BY DEF Range
  <2>2. Len(s) - i \in P
    BY <1>1, <2>1
  <2>. QED
    BY <2>2
<1>3. PICK k \in P : \A l \in P : ~(<<l, k>> \in OpToRel(<, Nat))
  <2> HIDE DEF P
  <2>. QED
    BY <1>2, NatLessThanWellFounded, WFMin, Zenon
<1>4. \A l \in P : ~(l < k)
  BY <1>2, <1>3, Zenon DEF OpToRel
<1>5. PICK i \in DOMAIN s : s[i] \in T /\ k = Len(s) - i
  OBVIOUS
<1>6. ASSUME NEW n \in T, Precedes(s, s[i], n)
      PROVE  FALSE
  <2>1. PICK h \in DOMAIN s, j \in DOMAIN s : h < j /\ s[h] = s[i] /\ s[j] = n
    BY <1>6 DEF Precedes
  <2>2. h = i
    BY <2>1 DEF Distinct
  <2>3. Len(s) - j \in P /\ Len(s) - j < k
    BY <1>1, <1>5, <2>1, <2>2
  <2>. QED
    BY <1>4, <2>3
<1>. QED
  BY <1>5, <1>6

-----------------------------------------------------------------------------
(* Types                                                                   *)

\* The conversation, and what requests to send and to delete go by
SendTypes ==
  /\ conversation \in BOOLEAN
  /\ begun \in Seq(Messages)
  /\ sending \in [Messages -> {"new", "opening", "opened", "begun", "committed", "published",
                               "sent", "refused", "failed", "unpublished"}]
  /\ pushed \subseteq Messages
  /\ deletion \in [Messages -> {"none", "deleted", "told"}]
  /\ presence \in BOOLEAN
  /\ rivals \subseteq Messages
  /\ crossed \subseteq Messages
  /\ unwatched \subseteq Messages
  /\ unqueued \subseteq Messages
  /\ unsettled \subseteq Messages
  /\ overtaken \subseteq Messages

\* The tabs
TabTypes ==
  /\ lastRead \in Nat
  /\ at \in [Tabs -> {"off", "list", "listed"} \cup Session]
  /\ reading \in [Tabs -> Nat]
  /\ anchor \in [Tabs -> Messages \cup {NoMessage}]
  /\ inbox \in [Tabs -> Seq(Events)]
  /\ view \in [Tabs -> SUBSET Messages]
  /\ struck \in [Tabs -> SUBSET Messages]
  /\ latest \in [Tabs -> Messages \cup {NoMessage}]
  /\ gap \in [Tabs -> SUBSET Messages]
  /\ cut \in [Tabs -> SUBSET Messages]
  /\ untold \in [Tabs -> SUBSET Messages]

\* The tasks that refresh presence
RefreshTypes == refreshing \in SUBSET {t \in Tabs : at[t] \in Looping}

Started ==
  /\ Distinct(begun)
  /\ \A m \in Messages : sending[m] \in {"new", "opening", "opened", "refused"} => m \notin Range(begun)
  /\ \A m \in Messages : sending[m] = "begun" => m \in Range(begun)
  /\ Committed \subseteq Range(begun)
  /\ Deleted \subseteq Committed

\* Every step keeps the types of the conversation, and what has begun is what has been sent.
LEMMA SendTypesStep == SendTypes /\ TabTypes /\ Started /\ [Next]_vars => SendTypes' /\ Started'
<1> SUFFICES ASSUME SendTypes, TabTypes, Started, [Next]_vars PROVE SendTypes' /\ Started'
  OBVIOUS
<1>1. ASSUME NEW m \in Messages, FindNone(m)
      PROVE  SendTypes' /\ Started'
  BY <1>1 DEF FindNone, SendTypes, Started, Committed, Deleted, Opening
<1>2. ASSUME NEW m \in Messages, Open(m)
      PROVE  SendTypes' /\ Started'
  BY <1>2 DEF Open, SendTypes, Started, Committed, Deleted, history
<1>3. ASSUME NEW m \in Messages, BeginSend(m)
      PROVE  SendTypes' /\ Started'
  <2>1. /\ begun' \in Seq(Messages) /\ Range(begun)' = Range(begun) \cup {m} /\ m \notin Range(begun)
        /\ \A x, y : Precedes(begun', x, y) <=> Precedes(begun, x, y) \/ (x \in Range(begun) /\ y = m)
    BY <1>3, Appending DEF BeginSend, SendTypes, Started
  <2>2. Distinct(begun)'
    <3>1. /\ begun \in Seq(Messages) /\ begun' = Append(begun, m)
      BY <1>3 DEF BeginSend, SendTypes
    <3>2. /\ DOMAIN begun = 1 .. Len(begun) /\ DOMAIN begun' = 1 .. Len(begun) + 1 /\ Len(begun) \in Nat
          /\ begun'[Len(begun) + 1] = m /\ \A i \in DOMAIN begun : begun'[i] = begun[i]
      BY <3>1
    <3>3. \A i \in DOMAIN begun : begun[i] # m
      BY <2>1 DEF Range
    <3>. QED
      BY <3>2, <3>3 DEF Distinct, Started
  <2>3. SendTypes'
    BY <1>3, <2>1 DEF BeginSend, SendTypes, InFlight
  <2>4. Committed' = Committed /\ Deleted' = Deleted
    BY <1>3 DEF BeginSend, SendTypes, Committed, Deleted
  <2>. QED
    BY <1>3, <2>1, <2>2, <2>3, <2>4 DEF BeginSend, SendTypes, Started
<1>4. ASSUME NEW m \in Messages, CommitSend(m)
      PROVE  SendTypes' /\ Started'
  BY <1>4 DEF CommitSend, SendTypes, Started, Committed, Deleted, history
<1>5. ASSUME NEW m \in Messages, Publish(m)
      PROVE  SendTypes' /\ Started'
  BY <1>5 DEF Publish, SendTypes, Started, Committed, Deleted
<1>6. ASSUME NEW m \in Messages, Push(m) \/ FailPush(m)
      PROVE  SendTypes' /\ Started'
  BY <1>6 DEF Push, FailPush, SendTypes, Started, Committed, Deleted, history
<1>7. ASSUME NEW m \in Messages, FailSend(m)
      PROVE  SendTypes' /\ Started'
  BY <1>7 DEF FailSend, SendTypes, Started, Committed, Deleted
<1>8. ASSUME NEW m \in Messages, DeleteMessage(m)
      PROVE  SendTypes' /\ Started'
  BY <1>8 DEF DeleteMessage, SendTypes, Started, Committed, Deleted, sendVars
<1>9. ASSUME NEW m \in Messages, PublishDeletion(m)
      PROVE  SendTypes' /\ Started'
  BY <1>9 DEF PublishDeletion, SendTypes, Started, Committed, Deleted, sendVars
\* The tabs
<1>a. ASSUME UNCHANGED <<conversation, sendVars, deletion, rivals, crossed, unwatched, unqueued, overtaken>>,
             presence' \in BOOLEAN, unsettled' \subseteq Messages
      PROVE  SendTypes' /\ Started'
  BY <1>a DEF SendTypes, Started, Committed, Deleted, sendVars
<1>b. ASSUME NEW t \in Tabs, NEW time, MarkRead(t, time)
      PROVE  SendTypes' /\ Started'
  <2>1. Range(begun) \subseteq Messages
    BY DEF SendTypes, Range
  <2>. QED
    BY <1>a, <1>b, <2>1 DEF MarkRead, SendTypes
<1>c. ASSUME NEW t \in Tabs, Drop(t)
      PROVE  SendTypes' /\ Started'
  <2>1. unsettled' \subseteq Messages
    BY <1>c DEF Drop, SendTypes, TabTypes
  <2>. QED
    BY <1>a, <1>c, <2>1 DEF Drop, SendTypes
<1>10. ASSUME NEW t \in Tabs, BeginList(t) \/ List(t) \/ Connect(t) \/ Replay(t)
       PROVE  SendTypes' /\ Started'
  BY <1>a, <1>10 DEF BeginList, List, Connect, Replay, SendTypes, history
<1>11. ASSUME NEW t \in Tabs, \/ SetPresence(t) \/ Subscribe(t) \/ Forward(t) \/ Refresh(t) \/ FailRefresh(t)
                              \/ DeletePresence(t)
       PROVE  SendTypes' /\ Started'
  BY <1>a, <1>11 DEF SetPresence, Subscribe, Forward, Refresh, FailRefresh, DeletePresence, SendTypes, history
<1>12. ASSUME NEW t \in Tabs, MarkListed(t) \/ MarkOpened(t) \/ MarkForwarded(t)
       PROVE  SendTypes' /\ Started'
  BY <1>b, <1>12 DEF MarkListed, MarkOpened, MarkForwarded
<1>13. ASSUME NEW t \in Tabs, FailMark(t)
       PROVE  SendTypes' /\ Started'
  BY <1>a, <1>13 DEF FailMark, SendTypes, TabTypes
<1>14. ASSUME NEW t \in Tabs, FailForward(t) \/ Disconnect(t) \/ Crash(t)
       PROVE  SendTypes' /\ Started'
  BY <1>c, <1>14 DEF FailForward, Disconnect, Crash
<1>15. CASE ExpirePresence
  BY <1>a, <1>15 DEF ExpirePresence, SendTypes, history
<1>16. CASE UNCHANGED vars
  BY <1>a, <1>16 DEF vars, SendTypes, history
<1>. QED
  BY <1>1, <1>2, <1>3, <1>4, <1>5, <1>6, <1>7, <1>8, <1>9, <1>10, <1>11, <1>12, <1>13, <1>14, <1>15, <1>16
     DEF Next

\* The newest of some committed messages is one of them, and none was created after it.
LEMMA NewestLast ==
  ASSUME SendTypes, Started, NEW S, S \subseteq Committed, S # {}
  PROVE  Newest(S) \in S /\ \A n \in S : ~CreatedBefore(Newest(S), n)
<1>1. begun \in Seq(Messages) /\ Distinct(begun) /\ S \subseteq Range(begun)
  BY DEF SendTypes, Started
<1>2. \E m \in S : \A n \in S : ~Precedes(begun, m, n)
  BY <1>1, Lasting
<1>3. \E m \in S : \A n \in S : ~CreatedBefore(m, n)
  BY <1>2 DEF Precedes, CreatedBefore
<1>. QED
  BY <1>3 DEF Newest

\* A page and a replay are parts of what they are taken from.
LEMMA Picking == \A S, k : LastOf(S, k) \subseteq S /\ FirstOf(S, k) \subseteq S
  BY DEF LastOf, FirstOf

\* Every step keeps the types of the tabs.
LEMMA TabTypesStep == SendTypes /\ TabTypes /\ Started /\ [Next]_vars => TabTypes'
<1> SUFFICES ASSUME SendTypes, TabTypes, Started, [Next]_vars PROVE TabTypes'
  OBVIOUS
<1>0. Len(begun) \in Nat
  BY DEF SendTypes
<1>a. ASSUME UNCHANGED tabVars, UNCHANGED <<lastRead, cut, untold>>, gap' \in [Tabs -> SUBSET Messages]
      PROVE  TabTypes'
  BY <1>a DEF TabTypes, tabVars
<1>b. ASSUME NEW e \in Events, Deliver(e)
      PROVE  inbox' \in [Tabs -> Seq(Events)]
  <2>1. \A t \in Tabs : Append(inbox[t], e) \in Seq(Events) /\ inbox[t] \in Seq(Events)
    BY Appending DEF TabTypes
  <2>. QED
    BY <1>b, <2>1 DEF Deliver
<1>1. ASSUME NEW m \in Messages, \/ FindNone(m) \/ Open(m) \/ BeginSend(m) \/ CommitSend(m) \/ Push(m)
                                 \/ FailPush(m)
      PROVE  TabTypes'
  BY <1>a, <1>1 DEF FindNone, Open, BeginSend, CommitSend, Push, FailPush, TabTypes, history
<1>g. ASSUME NEW m \in Messages, FailSend(m)
      PROVE  TabTypes'
  BY <1>a, <1>g DEF FailSend, TabTypes
<1>2. ASSUME NEW m \in Messages, Publish(m)
      PROVE  TabTypes'
  <2>1. inbox' \in [Tabs -> Seq(Events)]
    BY <1>b, <1>2 DEF Publish, Events
  <2>. QED
    BY <1>2, <2>1 DEF Publish, TabTypes
<1>3. ASSUME NEW m \in Messages, DeleteMessage(m)
      PROVE  TabTypes'
  BY <1>a, <1>3 DEF DeleteMessage, TabTypes
<1>4. ASSUME NEW m \in Messages, PublishDeletion(m)
      PROVE  TabTypes'
  <2>1. inbox' \in [Tabs -> Seq(Events)]
    BY <1>b, <1>4 DEF PublishDeletion, Events
  <2>. QED
    BY <1>4, <2>1 DEF PublishDeletion, TabTypes
\* The tabs
<1>c. ASSUME NEW t \in Tabs, NEW place, Goto(t, place), place \in {"off", "list", "listed"} \cup Session
      PROVE  at' \in [Tabs -> {"off", "list", "listed"} \cup Session]
  BY <1>c DEF Goto, TabTypes
<1>d. ASSUME NEW t \in Tabs, NEW time \in Nat, MarkRead(t, time), at' \in [Tabs -> {"off", "list", "listed"} \cup Session]
      PROVE  TabTypes'
  BY <1>d DEF MarkRead, TabTypes
<1>e. ASSUME NEW t \in Tabs, Drop(t), at' \in [Tabs -> {"off", "list", "listed"} \cup Session]
      PROVE  TabTypes'
  <2>1. inbox' \in [Tabs -> Seq(Events)]
    BY <1>e, EmptySeq DEF Drop, TabTypes
  <2>2. Pending(t, "deleted") \subseteq Messages
    <3>1. Range(inbox[t]) \subseteq Events
      BY DEF TabTypes, Range
    <3>. QED
      BY <3>1 DEF Pending, Events
  <2>3. untold' \in [Tabs -> SUBSET Messages]
    BY <1>e, <2>2 DEF Drop, TabTypes
  <2>. QED
    BY <1>e, <2>1, <2>3 DEF Drop, TabTypes
<1>f. /\ Committed \subseteq Messages /\ Deleted \subseteq Messages
      /\ \A S \in SUBSET Committed : S # {} => Newest(S) \in Messages
  BY NewestLast DEF Committed, Deleted
<1>5. ASSUME NEW t \in Tabs, BeginList(t) \/ Connect(t)
      PROVE  TabTypes'
  <2>1. at' \in [Tabs -> {"off", "list", "listed"} \cup Session] /\ reading' \in [Tabs -> Nat]
    <3>1. CASE BeginReading(t, "list")
      BY <1>0, <1>c, <3>1 DEF BeginReading, TabTypes
    <3>2. CASE BeginReading(t, "mark")
      BY <1>0, <1>c, <3>2 DEF BeginReading, Session, TabTypes
    <3>. QED
      BY <1>5, <3>1, <3>2 DEF BeginList, Connect
  <2>. QED
    BY <1>5, <2>1 DEF BeginList, Connect, TabTypes, history
<1>6. ASSUME NEW t \in Tabs, MarkListed(t)
      PROVE  TabTypes'
  BY <1>c, <1>d, <1>6 DEF MarkListed, TabTypes
<1>h. ASSUME NEW t \in Tabs, NEW S \in SUBSET Messages, PassOver(t, S)
      PROVE  gap' \in [Tabs -> SUBSET Messages] /\ cut' \in [Tabs -> SUBSET Messages]
  BY <1>h DEF PassOver, TabTypes
<1>i. ASSUME NEW t \in Tabs, NEW S \in SUBSET Committed,
             Receive(t, S, IF S = {} THEN latest[t] ELSE Newest(S))
      PROVE  view' \in [Tabs -> SUBSET Messages] /\ latest' \in [Tabs -> Messages \cup {NoMessage}]
  <2>1. (IF S = {} THEN latest[t] ELSE Newest(S)) \in Messages \cup {NoMessage}
    BY <1>f DEF TabTypes
  <2>2. \E R \in SUBSET Messages, n \in Messages \cup {NoMessage} :
          view' = [view EXCEPT ![t] = @ \cup R] /\ latest' = [latest EXCEPT ![t] = n]
    BY <1>f, <1>i, <2>1 DEF Receive
  <2>. QED
    BY <2>2 DEF TabTypes
<1>7. ASSUME NEW t \in Tabs, List(t)
      PROVE  TabTypes'
  <2> DEFINE page == LastOf(Committed, PageLimit)
  <2>1. /\ at[t] = "listed" /\ Goto(t, "off")
        /\ Receive(t, page, IF page = {} THEN latest[t] ELSE Newest(page))
        /\ struck' = [struck EXCEPT ![t] = @ \cup (Deleted \cap page)]
        /\ untold' = [untold EXCEPT ![t] = @ \ page]
        /\ PassOver(t, Committed \ page)
        /\ UNCHANGED <<lastRead, reading, anchor, inbox>>
    BY <1>7 DEF List
  <2>2. page \in SUBSET Committed
    BY Picking
  <2> HIDE DEF page
  <2>3. Committed \ page \in SUBSET Messages
    BY <1>f
  <2>4. struck' \in [Tabs -> SUBSET Messages] /\ untold' \in [Tabs -> SUBSET Messages]
    BY <1>f, <2>1 DEF TabTypes
  <2>5. at' \in [Tabs -> {"off", "list", "listed"} \cup Session]
    BY <1>c, <2>1
  <2>. QED
    BY <1>h, <1>i, <2>1, <2>2, <2>3, <2>4, <2>5 DEF TabTypes
<1>8. ASSUME NEW t \in Tabs, MarkOpened(t)
      PROVE  TabTypes'
  BY <1>0, <1>c, <1>d, <1>8 DEF MarkOpened, Session, TabTypes
<1>9. ASSUME NEW t \in Tabs, Replay(t)
      PROVE  TabTypes'
  <2> DEFINE missed == MessagesAfter(anchor[t])
  <2> DEFINE replayed == FirstOf(missed, ReplayLimit)
  <2>1. missed \subseteq Committed /\ replayed \in SUBSET Committed
    BY Picking DEF MessagesAfter
  <2>2. at' \in [Tabs -> {"off", "list", "listed"} \cup Session]
    BY <1>c, <1>9 DEF Replay, Session
  <2>3. \/ UNCHANGED <<view, latest, cut>>
        \/ /\ Receive(t, replayed, IF replayed = {} THEN latest[t] ELSE Newest(replayed))
           /\ cut' = [cut EXCEPT ![t] = missed \ replayed]
    BY <1>9 DEF Replay
  <2>4. gap' \in [Tabs -> SUBSET Messages]
    <3>1. UNCHANGED gap \/ \E S \in SUBSET Messages : gap' = [gap EXCEPT ![t] = @ \cup S]
      BY <1>f, <1>9 DEF Replay
    <3>. QED
      BY <3>1 DEF TabTypes
  <2>5. UNCHANGED <<lastRead, reading, inbox, struck, untold>> /\ anchor' = [anchor EXCEPT ![t] = NoMessage]
    BY <1>9 DEF Replay
  <2> HIDE DEF missed, replayed
  <2>6. view' \in [Tabs -> SUBSET Messages] /\ latest' \in [Tabs -> Messages \cup {NoMessage}]
    <3>1. CASE UNCHANGED <<view, latest>>
      BY <3>1 DEF TabTypes
    <3>. QED
      BY <1>i, <2>1, <2>3, <3>1
  <2>7. cut' \in [Tabs -> SUBSET Messages]
    <3>1. missed \ replayed \in SUBSET Messages
      BY <1>f, <2>1
    <3>2. UNCHANGED cut \/ \E S \in SUBSET Messages : cut' = [cut EXCEPT ![t] = S]
      BY <2>3, <3>1
    <3>. QED
      BY <3>2 DEF TabTypes
  <2>. QED
    BY <2>2, <2>4, <2>5, <2>6, <2>7 DEF TabTypes
<1>10. ASSUME NEW t \in Tabs, SetPresence(t) \/ Subscribe(t) \/ DeletePresence(t)
       PROVE  TabTypes'
  BY <1>c, <1>10 DEF SetPresence, Subscribe, DeletePresence, Session, TabTypes, history
<1>11. ASSUME NEW t \in Tabs, Forward(t)
       PROVE  TabTypes'
  <2>1. Head(inbox[t]) \in Events /\ Tail(inbox[t]) \in Seq(Events)
    BY <1>11, Taking DEF Forward, TabTypes
  <2>2. Head(inbox[t])[2] \in Messages
    BY <2>1 DEF Events
  <2>3. inbox' \in [Tabs -> Seq(Events)]
    BY <1>11, <2>1 DEF Forward, TabTypes
  <2>4. at' \in [Tabs -> {"off", "list", "listed"} \cup Session] /\ reading' \in [Tabs -> Nat]
    <3>1. CASE BeginReading(t, "marking")
      BY <1>0, <1>c, <3>1 DEF BeginReading, Session, TabTypes
    <3>2. CASE UNCHANGED <<at, reading>>
      BY <3>2 DEF TabTypes
    <3>. QED
      BY <1>11, <3>1, <3>2 DEF Forward
  <2>5. view' \in [Tabs -> SUBSET Messages] /\ latest' \in [Tabs -> Messages \cup {NoMessage}]
    <3>1. CASE Receive(t, {Head(inbox[t])[2]}, Head(inbox[t])[2])
      BY <2>2, <3>1 DEF Receive, TabTypes
    <3>2. CASE UNCHANGED <<view, latest>>
      BY <3>2 DEF TabTypes
    <3>. QED
      BY <1>11, <3>1, <3>2 DEF Forward
  <2>6. struck' \in [Tabs -> SUBSET Messages]
    <3>1. CASE struck' = [struck EXCEPT ![t] = @ \cup ({Head(inbox[t])[2]} \cap view[t])]
      BY <2>2, <3>1 DEF TabTypes
    <3>. QED
      BY <1>11, <3>1 DEF Forward, TabTypes
  <2>7. gap' \in [Tabs -> SUBSET Messages] /\ cut' \in [Tabs -> SUBSET Messages]
    <3>1. CASE PassOver(t, {})
      BY <1>h, <3>1
    <3>2. CASE UNCHANGED <<gap, cut>>
      BY <3>2 DEF TabTypes
    <3>. QED
      BY <1>11, <3>1, <3>2 DEF Forward
  <2>. QED
    BY <1>11, <2>3, <2>4, <2>5, <2>6, <2>7 DEF Forward, TabTypes
<1>12. ASSUME NEW t \in Tabs, MarkForwarded(t)
       PROVE  TabTypes'
  BY <1>0, <1>c, <1>d, <1>12 DEF MarkForwarded, Session, TabTypes
<1>13. ASSUME NEW t \in Tabs, FailMark(t)
       PROVE  TabTypes'
  BY <1>c, <1>13 DEF FailMark, Session, TabTypes
<1>14. ASSUME NEW t \in Tabs, FailForward(t) \/ Disconnect(t) \/ Crash(t)
       PROVE  TabTypes'
  BY <1>c, <1>e, <1>14 DEF FailForward, Disconnect, Crash, Session
<1>15. ASSUME NEW t \in Tabs, Refresh(t) \/ FailRefresh(t)
       PROVE  TabTypes'
  BY <1>a, <1>15 DEF Refresh, FailRefresh, TabTypes, history
<1>16. CASE ExpirePresence \/ UNCHANGED vars
  BY <1>a, <1>16 DEF ExpirePresence, TabTypes, vars, history
<1>. QED
  BY <1>1, <1>2, <1>3, <1>4, <1>5, <1>6, <1>7, <1>8, <1>9, <1>10, <1>11, <1>12, <1>13, <1>14, <1>15, <1>16,
     <1>g DEF Next

\* Every step keeps the refresh tasks to tabs whose session receives from its client.
LEMMA RefreshTypesStep == TabTypes /\ RefreshTypes /\ [Next]_vars => RefreshTypes'
<1> SUFFICES ASSUME TabTypes, RefreshTypes, [Next]_vars PROVE RefreshTypes'
  OBVIOUS
<1>a. ASSUME refreshing' \subseteq refreshing, UNCHANGED at
      PROVE  RefreshTypes'
  BY <1>a DEF RefreshTypes
<1>b. ASSUME NEW t \in Tabs, NEW place, Goto(t, place), refreshing' \subseteq refreshing \cup {t},
             t \in refreshing' => place \in Looping
      PROVE  RefreshTypes'
  BY <1>b DEF RefreshTypes, Goto, TabTypes
<1>1. ASSUME NEW m \in Messages, \/ FindNone(m) \/ Open(m) \/ BeginSend(m) \/ CommitSend(m) \/ Publish(m)
                                 \/ Push(m) \/ FailPush(m) \/ FailSend(m) \/ DeleteMessage(m)
                                 \/ PublishDeletion(m)
      PROVE  RefreshTypes'
  BY <1>a, <1>1 DEF FindNone, Open, BeginSend, CommitSend, Publish, Push, FailPush, FailSend,
                    DeleteMessage, PublishDeletion, tabVars
<1>2. ASSUME NEW t \in Tabs, BeginList(t) \/ Connect(t)
      PROVE  RefreshTypes'
  <2>1. PICK place : Goto(t, place)
    BY <1>2 DEF BeginList, Connect, BeginReading
  <2>2. refreshing' = refreshing /\ t \notin refreshing
    BY <1>2 DEF BeginList, Connect, RefreshTypes, Looping, Subscribed
  <2>. QED
    BY <1>b, <2>1, <2>2
<1>3. ASSUME NEW t \in Tabs, \/ MarkListed(t) \/ List(t) \/ MarkOpened(t) \/ Replay(t) \/ SetPresence(t)
                             \/ DeletePresence(t)
      PROVE  RefreshTypes'
  <2>1. PICK place : Goto(t, place)
    BY <1>3 DEF MarkListed, List, MarkOpened, Replay, SetPresence, DeletePresence
  <2>2. refreshing' = refreshing
    BY <1>3 DEF MarkListed, List, MarkOpened, Replay, SetPresence, DeletePresence, MarkRead
  <2>3. t \notin refreshing
    BY <1>3 DEF MarkListed, List, MarkOpened, Replay, SetPresence, DeletePresence, RefreshTypes,
                Looping, Subscribed
  <2>. QED
    BY <1>b, <2>1, <2>2, <2>3
<1>4. ASSUME NEW t \in Tabs, Subscribe(t) \/ MarkForwarded(t) \/ FailMark(t) \/ FailForward(t)
      PROVE  RefreshTypes'
  <2>1. PICK place \in {"open", "deaf"} : Goto(t, place)
    BY <1>4 DEF Subscribe, MarkForwarded, FailMark, FailForward
  <2>2. refreshing' \subseteq refreshing \cup {t}
    BY <1>4 DEF Subscribe, MarkForwarded, FailMark, FailForward, MarkRead
  <2>. QED
    BY <1>b, <2>1, <2>2 DEF Looping, Subscribed
<1>5. ASSUME NEW t \in Tabs, Forward(t)
      PROVE  RefreshTypes'
  <2>1. refreshing' = refreshing
    BY <1>5 DEF Forward
  <2>2. UNCHANGED at \/ Goto(t, "marking")
    BY <1>5 DEF Forward, BeginReading
  <2>. QED
    BY <1>a, <1>b, <2>1, <2>2 DEF Looping, Subscribed
<1>6. ASSUME NEW t \in Tabs, Refresh(t) \/ FailRefresh(t)
      PROVE  RefreshTypes'
  BY <1>a, <1>6 DEF Refresh, FailRefresh, tabVars
<1>7. ASSUME NEW t \in Tabs, Disconnect(t) \/ Crash(t)
      PROVE  RefreshTypes'
  <2>1. PICK place : Goto(t, place)
    BY <1>7 DEF Disconnect, Crash
  <2>2. refreshing' = refreshing \ {t}
    BY <1>7 DEF Disconnect, Crash
  <2>. QED
    BY <1>b, <2>1, <2>2
<1>8. CASE ExpirePresence \/ UNCHANGED vars
  BY <1>a, <1>8 DEF ExpirePresence, vars, tabVars
<1>. QED
  BY <1>1, <1>2, <1>3, <1>4, <1>5, <1>6, <1>7, <1>8 DEF Next

-----------------------------------------------------------------------------
(* Opening the conversation                                                *)

\* Requests that are opening the conversation beside one another are rivals, and so are those
\* that are late.
OpeningInv ==
  /\ \A m, n \in Opening : m # n => m \in rivals /\ n \in rivals
  /\ \A m \in Opening : conversation => m \in rivals
  /\ \A m \in Messages : sending[m] = "refused" => m \in rivals

\* Every step leaves those who open the conversation beside one another rivals.
LEMMA OpeningStep == SendTypes /\ OpeningInv /\ [Next]_vars => OpeningInv'
<1> SUFFICES ASSUME SendTypes, OpeningInv, [Next]_vars PROVE OpeningInv'
  OBVIOUS
<1>1. ASSUME NEW m \in Messages, FindNone(m)
      PROVE  OpeningInv'
  <2>1. Opening' = Opening \cup {m}
    BY <1>1 DEF FindNone, Opening, SendTypes
  <2>2. rivals \subseteq rivals' /\ (Opening # {} => Opening \cup {m} \subseteq rivals')
    BY <1>1 DEF FindNone
  <2>3. ~conversation' /\ \A n \in Messages : sending'[n] = "refused" => sending[n] = "refused"
    BY <1>1 DEF FindNone, SendTypes
  <2>. QED
    BY <2>1, <2>2, <2>3 DEF OpeningInv
<1>2. ASSUME NEW m \in Messages, Open(m)
      PROVE  OpeningInv'
  <2>1. /\ m \in Opening /\ Opening' = Opening \ {m} /\ rivals' = rivals
        /\ \A n \in Messages : sending'[n] = "refused" => sending[n] = "refused" \/ (n = m /\ conversation)
    BY <1>2 DEF Open, Opening, SendTypes, history
  <2>. QED
    BY <2>1 DEF OpeningInv
<1>3. ASSUME Opening' \subseteq Opening, UNCHANGED <<conversation, rivals>>,
             \A m \in Messages : sending'[m] = "refused" => sending[m] = "refused"
      PROVE  OpeningInv'
  BY <1>3 DEF OpeningInv
<1>4. ASSUME NEW m \in Messages, \/ BeginSend(m) \/ CommitSend(m) \/ Publish(m) \/ Push(m)
                                 \/ FailPush(m) \/ FailSend(m)
      PROVE  OpeningInv'
  BY <1>3, <1>4 DEF BeginSend, CommitSend, Publish, Push, FailPush, FailSend, Opening, SendTypes, history
<1>5. CASE UNCHANGED <<conversation, rivals, sending>>
  BY <1>3, <1>5 DEF Opening
<1>6. ASSUME NEW m \in Messages, DeleteMessage(m) \/ PublishDeletion(m)
      PROVE  OpeningInv'
  BY <1>5, <1>6 DEF DeleteMessage, PublishDeletion, sendVars
<1>7. ASSUME NEW t \in Tabs,
             \/ BeginList(t) \/ MarkListed(t) \/ List(t) \/ Connect(t) \/ MarkOpened(t) \/ Replay(t)
             \/ SetPresence(t) \/ Subscribe(t) \/ Forward(t) \/ MarkForwarded(t) \/ FailMark(t) \/ Refresh(t)
             \/ FailRefresh(t) \/ FailForward(t) \/ Disconnect(t) \/ DeletePresence(t) \/ Crash(t)
      PROVE  OpeningInv'
  BY <1>5, <1>7 DEF BeginList, MarkListed, List, Connect, MarkOpened, Replay, SetPresence, Subscribe,
                    Forward, MarkForwarded, FailMark, Refresh, FailRefresh, FailForward, Disconnect,
                    DeletePresence, Crash, MarkRead, Drop, sendVars, history
<1>8. CASE ExpirePresence \/ UNCHANGED vars
  BY <1>5, <1>8 DEF ExpirePresence, vars, sendVars, history
<1>. QED
  BY <1>1, <1>2, <1>4, <1>6, <1>7, <1>8 DEF Next

-----------------------------------------------------------------------------
(* What never comes back                                                   *)

Grows ==
  /\ Committed \subseteq Committed'
  /\ \A m \in Committed : sending[m] # "committed" => sending'[m] # "committed"
  /\ \A m \in Messages : sending[m] \in {"published", "sent"} => sending'[m] \in {"published", "sent"}
  /\ Deleted \subseteq Deleted'
  /\ \A m \in Messages : deletion[m] = "told" => deletion'[m] = "told"
  /\ crossed \subseteq crossed' /\ overtaken \subseteq overtaken'
  /\ unsettled \subseteq unsettled'
  /\ \A t \in Tabs : gap[t] \subseteq gap'[t] /\ view[t] \subseteq view'[t] /\ struck[t] \subseteq struck'[t]
  /\ Range(begun) \subseteq Range(begun')

\* No step takes back what is committed, published, deleted, told, crossed or unsettled.
LEMMA Growing == SendTypes /\ TabTypes /\ Started /\ [Next]_vars => Grows
<1> SUFFICES ASSUME SendTypes, TabTypes, Started, [Next]_vars PROVE Grows
  OBVIOUS
<1>1. ASSUME NEW m \in Messages, FindNone(m) \/ Open(m)
      PROVE  Grows
  BY <1>1 DEF FindNone, Open, Grows, Committed, Deleted, SendTypes, tabVars, history
<1>2. ASSUME NEW m \in Messages, BeginSend(m)
      PROVE  Grows
  <2>1. Range(begun) \subseteq Range(begun')
    BY <1>2, Appending DEF BeginSend, SendTypes
  <2>. QED
    BY <1>2, <2>1 DEF BeginSend, Grows, Committed, Deleted, SendTypes, tabVars
<1>3. ASSUME NEW m \in Messages, CommitSend(m) \/ Push(m) \/ FailPush(m)
      PROVE  Grows
  BY <1>3 DEF CommitSend, Push, FailPush, Grows, Committed, Deleted, SendTypes, tabVars, history
<1>4. ASSUME NEW m \in Messages, Publish(m)
      PROVE  Grows
  BY <1>4 DEF Publish, Grows, Committed, Deleted, SendTypes, TabTypes
<1>5. ASSUME NEW m \in Messages, FailSend(m)
      PROVE  Grows
  BY <1>5 DEF FailSend, Grows, Committed, Deleted, SendTypes, TabTypes, tabVars
<1>6. ASSUME NEW m \in Messages, DeleteMessage(m)
      PROVE  Grows
  BY <1>6 DEF DeleteMessage, Grows, Committed, Deleted, SendTypes, sendVars, tabVars
<1>7. ASSUME NEW m \in Messages, PublishDeletion(m)
      PROVE  Grows
  BY <1>7 DEF PublishDeletion, Grows, Committed, Deleted, SendTypes, sendVars
<1>8. ASSUME UNCHANGED <<sendVars, deletion, crossed, overtaken>>, unsettled \subseteq unsettled',
             \A t \in Tabs : gap[t] \subseteq gap'[t] /\ view[t] \subseteq view'[t] /\ struck[t] \subseteq struck'[t]
      PROVE  Grows
  BY <1>8 DEF Grows, Committed, Deleted, sendVars
<1>9. ASSUME NEW t \in Tabs, \/ BeginList(t) \/ Connect(t) \/ SetPresence(t) \/ Subscribe(t)
                             \/ Refresh(t) \/ FailRefresh(t) \/ DeletePresence(t)
      PROVE  Grows
  BY <1>8, <1>9 DEF BeginList, Connect, SetPresence, Subscribe, Refresh, FailRefresh, DeletePresence,
                    tabVars, history
<1>10. ASSUME NEW t \in Tabs, MarkListed(t) \/ MarkOpened(t) \/ MarkForwarded(t)
       PROVE  Grows
  BY <1>8, <1>10 DEF MarkListed, MarkOpened, MarkForwarded, MarkRead
<1>11. ASSUME NEW t \in Tabs, List(t)
       PROVE  Grows
  BY <1>8, <1>11 DEF List, Receive, PassOver, TabTypes
<1>12. ASSUME NEW t \in Tabs, Replay(t)
       PROVE  Grows
  <2>1. UNCHANGED <<sendVars, deletion, crossed, overtaken, unsettled, struck>>
    BY <1>12 DEF Replay
  <2>2. \A u \in Tabs : gap[u] \subseteq gap'[u]
    BY <1>12 DEF Replay, TabTypes
  <2>3. \A u \in Tabs : view[u] \subseteq view'[u]
    <3>1. view' = view \/ \E S : view' = [view EXCEPT ![t] = @ \cup S]
      BY <1>12 DEF Replay, Receive
    <3>. QED
      BY <3>1 DEF TabTypes
  <2>. QED
    BY <1>8, <2>1, <2>2, <2>3
<1>13. ASSUME NEW t \in Tabs, Forward(t)
       PROVE  Grows
  <2>1. CASE Head(inbox[t])[1] = "new"
    <3>1. UNCHANGED <<sendVars, deletion, crossed, overtaken, unsettled, struck>>
      BY <1>13, <2>1 DEF Forward
    <3>2. \A u \in Tabs : gap[u] \subseteq gap'[u]
      <4>1. \E S : gap' = [gap EXCEPT ![t] = @ \cup cut[t] \cup S]
        BY <1>13, <2>1 DEF Forward, PassOver
      <4>. QED
        BY <4>1 DEF TabTypes
    <3>3. \A u \in Tabs : view[u] \subseteq view'[u]
      <4>1. \E S : view' = [view EXCEPT ![t] = @ \cup S]
        BY <1>13, <2>1 DEF Forward, Receive
      <4>. QED
        BY <4>1 DEF TabTypes
    <3>. QED
      BY <1>8, <3>1, <3>2, <3>3
  <2>2. CASE Head(inbox[t])[1] = "deleted"
    BY <1>8, <1>13, <2>2 DEF Forward, TabTypes
  <2>. QED
    BY <1>13, <2>1, <2>2 DEF Forward
<1>14. ASSUME NEW t \in Tabs, FailMark(t) \/ FailForward(t) \/ Disconnect(t) \/ Crash(t)
       PROVE  Grows
  BY <1>8, <1>14 DEF FailMark, FailForward, Disconnect, Crash, Drop
<1>15. CASE ExpirePresence \/ UNCHANGED vars
  BY <1>8, <1>15 DEF ExpirePresence, vars, tabVars, history
<1>. QED
  BY <1>1, <1>2, <1>3, <1>4, <1>5, <1>6, <1>7, <1>9, <1>10, <1>11, <1>12, <1>13, <1>14, <1>15 DEF Next

-----------------------------------------------------------------------------
(* The tabs and their subscriptions                                        *)

Holds(t) ==
  /\ view[t] \subseteq Committed
  /\ latest[t] \in view[t] \cup {NoMessage}
  /\ anchor[t] \in view[t] \cup {NoMessage}
  /\ at[t] \notin Subscribed => inbox[t] = <<>>
  /\ \A m \in Messages : <<"new", m>> \in Range(inbox[t]) => sending[m] \in {"published", "sent"}
  /\ \A m \in Messages : <<"deleted", m>> \in Range(inbox[t]) => deletion[m] = "told"

HoldsInv == \A t \in Tabs : Holds(t)

\* What is to come of a kind, message by message
LEMMA PendingIs ==
  ASSUME TabTypes, NEW t \in Tabs, NEW kind
  PROVE  \A m : m \in Pending(t, kind) <=> <<kind, m>> \in Range(inbox[t])
<1>1. Range(inbox[t]) \subseteq Events
  BY DEF TabTypes, Range
<1>2. \A e \in Range(inbox[t]) : e = <<e[1], e[2]>>
  BY <1>1 DEF Events
<1>. QED
  BY <1>2 DEF Pending

\* What a publication does to a subscription
LEMMA Delivering ==
  ASSUME TabTypes, NEW e \in Events, Deliver(e), NEW t \in Tabs
  PROVE  \/ at[t] \notin Subscribed /\ inbox'[t] = inbox[t]
         \/ /\ at[t] \in Subscribed
            /\ inbox'[t] = Append(inbox[t], e)
            /\ Range(inbox'[t]) = Range(inbox[t]) \cup {e}
            /\ \A x, y : Precedes(inbox'[t], x, y) <=>
                           Precedes(inbox[t], x, y) \/ (x \in Range(inbox[t]) /\ y = e)
<1>1. inbox[t] \in Seq(Events) /\ inbox'[t] = IF at[t] \in Subscribed THEN Append(inbox[t], e) ELSE inbox[t]
  BY DEF Deliver, TabTypes
<1>. QED
  BY <1>1, Appending

\* What forwarding does to it
LEMMA Forwarding ==
  ASSUME TabTypes, NEW t \in Tabs, Forward(t)
  PROVE  /\ \A u \in Tabs \ {t} : inbox'[u] = inbox[u]
         /\ inbox'[t] = Tail(inbox[t])
         /\ Range(inbox[t]) = {Head(inbox[t])} \cup Range(inbox'[t])
         /\ \A x, y : Precedes(inbox'[t], x, y) => Precedes(inbox[t], x, y)
         /\ \A y \in Range(inbox'[t]) : Precedes(inbox[t], Head(inbox[t]), y)
         /\ Head(inbox[t]) \in Events
<1>1. inbox[t] \in Seq(Events) /\ inbox[t] # <<>>
  BY DEF Forward, TabTypes
<1>2. inbox'[t] = Tail(inbox[t]) /\ \A u \in Tabs \ {t} : inbox'[u] = inbox[u]
  BY DEF Forward, TabTypes
<1>. QED
  BY <1>1, <1>2, Taking

\* Nothing is in the empty sequence.
LEMMA RangeEmpty == Range(<<>>) = {}
<1>1. DOMAIN <<>> = {}
  OBVIOUS
<1>. QED
  BY <1>1 DEF Range

\* Every step leaves a tab with committed messages, and with events that were published.
LEMMA HoldsStep == SendTypes /\ TabTypes /\ Started /\ HoldsInv /\ [Next]_vars => HoldsInv'
<1> SUFFICES ASSUME SendTypes, TabTypes, Started, HoldsInv, [Next]_vars, NEW u \in Tabs PROVE Holds(u)'
  BY DEF HoldsInv
<1>0. Grows /\ Holds(u)
  BY Growing DEF HoldsInv
<1>1. /\ view[u] \subseteq Committed'
      /\ latest[u] \in view'[u] \cup {NoMessage}
      /\ anchor[u] \in view'[u] \cup {NoMessage}
      /\ \A m \in Messages : <<"new", m>> \in Range(inbox[u]) => sending'[m] \in {"published", "sent"}
      /\ \A m \in Messages : <<"deleted", m>> \in Range(inbox[u]) => deletion'[m] = "told"
  BY <1>0 DEF Grows, Holds
<1>2. ASSUME UNCHANGED <<view, latest, anchor, inbox>>, at'[u] \notin Subscribed => at[u] \notin Subscribed
      PROVE  Holds(u)'
  BY <1>0, <1>1, <1>2 DEF Holds
<1>3. ASSUME NEW m \in Messages, FindNone(m) \/ Open(m) \/ BeginSend(m) \/ CommitSend(m) \/ Push(m)
                                 \/ FailPush(m) \/ FailSend(m) \/ DeleteMessage(m)
      PROVE  Holds(u)'
  BY <1>2, <1>3 DEF FindNone, Open, BeginSend, CommitSend, Push, FailPush, FailSend, DeleteMessage, tabVars
<1>4. ASSUME NEW m \in Messages, Publish(m)
      PROVE  Holds(u)'
  <2>1. Deliver(<<"new", m>>) /\ <<"new", m>> \in Events /\ sending'[m] = "published"
        /\ UNCHANGED <<at, view, latest, anchor>>
    BY <1>4 DEF Publish, Events, SendTypes
  <2>2. Range(inbox'[u]) \subseteq Range(inbox[u]) \cup {<<"new", m>>}
    BY <2>1, Delivering
  <2>3. at[u] \notin Subscribed => inbox'[u] = <<>>
    BY <1>0, <2>1, Delivering DEF Holds
  <2>. QED
    BY <1>1, <2>1, <2>2, <2>3 DEF Holds
<1>5. ASSUME NEW m \in Messages, PublishDeletion(m)
      PROVE  Holds(u)'
  <2>1. Deliver(<<"deleted", m>>) /\ <<"deleted", m>> \in Events /\ deletion'[m] = "told"
        /\ UNCHANGED <<at, view, latest, anchor>>
    BY <1>5 DEF PublishDeletion, Events, SendTypes
  <2>2. Range(inbox'[u]) \subseteq Range(inbox[u]) \cup {<<"deleted", m>>}
    BY <2>1, Delivering
  <2>3. at[u] \notin Subscribed => inbox'[u] = <<>>
    BY <1>0, <2>1, Delivering DEF Holds
  <2>. QED
    BY <1>1, <2>1, <2>2, <2>3 DEF Holds
\* The tabs
<1>a. ASSUME NEW t \in Tabs, NEW place, Goto(t, place), at[t] \in Subscribed => place \in Subscribed
      PROVE  at'[u] \notin Subscribed => at[u] \notin Subscribed
  BY <1>a DEF Goto, TabTypes
<1>b. ASSUME NEW t \in Tabs, NEW S \in SUBSET Committed,
             Receive(t, S, IF S = {} THEN latest[t] ELSE Newest(S))
      PROVE  view'[u] \subseteq Committed' /\ latest'[u] \in view'[u] \cup {NoMessage}
  <2>1. S # {} => Newest(S) \in S
    BY NewestLast
  <2>2. CASE u # t
    BY <1>1, <1>b, <2>2 DEF Receive, TabTypes
  <2>3. CASE u = t
    <3>1. view'[u] = view[u] \cup S
      BY <1>b, <2>3 DEF Receive, TabTypes
    <3>2. latest'[u] = IF S = {} THEN latest[u] ELSE Newest(S)
      BY <1>b, <2>3 DEF Receive, TabTypes
    <3>. QED
      BY <1>0, <1>1, <2>1, <3>1, <3>2 DEF Grows
  <2>. QED
    BY <2>2, <2>3
<1>6. ASSUME NEW t \in Tabs, BeginList(t) \/ MarkListed(t) \/ MarkOpened(t)
                             \/ SetPresence(t) \/ Subscribe(t) \/ MarkForwarded(t) \/ FailMark(t)
      PROVE  Holds(u)'
  <2>1. PICK place : Goto(t, place) /\ (at[t] \in Subscribed => place \in Subscribed)
    BY <1>6 DEF BeginList, MarkListed, MarkOpened, SetPresence, Subscribe, MarkForwarded, FailMark,
                BeginReading, Subscribed
  <2>2. UNCHANGED <<view, latest, anchor, inbox>>
    BY <1>6 DEF BeginList, MarkListed, MarkOpened, SetPresence, Subscribe, MarkForwarded, FailMark, MarkRead
  <2>. QED
    BY <1>2, <1>a, <2>1, <2>2
<1>7. ASSUME NEW t \in Tabs, List(t)
      PROVE  Holds(u)'
  <2> DEFINE page == LastOf(Committed, PageLimit)
  <2>1. page \subseteq Committed
    BY Picking
  <2>2. Receive(t, page, IF page = {} THEN latest[t] ELSE Newest(page)) /\ UNCHANGED <<anchor, inbox>>
    BY <1>7 DEF List
  <2>3. at'[u] \notin Subscribed => at[u] \notin Subscribed
    BY <1>7, <1>a DEF List, Subscribed
  <2>4. view'[u] \subseteq Committed' /\ latest'[u] \in view'[u] \cup {NoMessage}
    <3> HIDE DEF page
    <3>. QED
      BY <1>b, <2>1, <2>2
  <2>. QED
    BY <1>0, <1>1, <2>2, <2>3, <2>4 DEF Holds
<1>8. ASSUME NEW t \in Tabs, Connect(t)
      PROVE  Holds(u)'
  <2>1. at'[u] \notin Subscribed => at[u] \notin Subscribed
    BY <1>8, <1>a DEF Connect, BeginReading, Subscribed
  <2>2. UNCHANGED <<view, latest, inbox>> /\ anchor'[u] \in {anchor[u], latest[u]}
    BY <1>8 DEF Connect, TabTypes
  <2>. QED
    BY <1>0, <1>1, <2>1, <2>2 DEF Holds
<1>9. ASSUME NEW t \in Tabs, Replay(t)
      PROVE  Holds(u)'
  <2> DEFINE replayed == FirstOf(MessagesAfter(anchor[t]), ReplayLimit)
  <2>1. replayed \subseteq Committed
    BY Picking DEF MessagesAfter
  <2>2. at'[u] \notin Subscribed => at[u] \notin Subscribed
    BY <1>9, <1>a DEF Replay, Subscribed
  <2>3. anchor'[u] \in {anchor[u], NoMessage} /\ UNCHANGED inbox
    BY <1>9 DEF Replay, TabTypes
  <2>4. \/ UNCHANGED <<view, latest>>
        \/ Receive(t, replayed, IF replayed = {} THEN latest[t] ELSE Newest(replayed))
    BY <1>9 DEF Replay
  <2>5. view'[u] \subseteq Committed' /\ latest'[u] \in view'[u] \cup {NoMessage}
    <3> HIDE DEF replayed
    <3>. QED
      BY <1>1, <1>b, <2>1, <2>4
  <2>. QED
    BY <1>0, <1>1, <2>2, <2>3, <2>5 DEF Holds
<1>10. ASSUME NEW t \in Tabs, Forward(t)
       PROVE  Holds(u)'
  <2>1. Range(inbox'[u]) \subseteq Range(inbox[u]) /\ (u # t => inbox'[u] = inbox[u])
    BY <1>10, Forwarding
  <2>2. at'[u] \notin Subscribed => at[u] \notin Subscribed /\ u # t
    <3>1. at[t] = "open" /\ (UNCHANGED at \/ Goto(t, "marking"))
      BY <1>10 DEF Forward, BeginReading
    <3>. QED
      BY <3>1 DEF Goto, TabTypes, Subscribed
  <2>3. view'[u] \subseteq Committed' /\ latest'[u] \in view'[u] \cup {NoMessage}
    <3>1. CASE UNCHANGED <<view, latest>>
      BY <1>1, <3>1
    <3>2. CASE Head(inbox[t])[1] = "new" /\ Receive(t, {Head(inbox[t])[2]}, Head(inbox[t])[2])
      <4>1. PICK m \in Messages : Head(inbox[t]) = <<"new", m>> /\ <<"new", m>> \in Range(inbox[t])
        <5>1. Head(inbox[t]) \in Events /\ Head(inbox[t]) \in Range(inbox[t])
          BY <1>10, Forwarding
        <5>. QED
          BY <3>2, <5>1 DEF Events
      <4>2. m \in Committed
        BY <4>1 DEF HoldsInv, Holds, Committed
      <4>3. view' = [view EXCEPT ![t] = @ \cup {m}] /\ latest' = [latest EXCEPT ![t] = m]
        <5>1. Head(inbox[t])[2] = m
          BY <4>1
        <5>. QED
          BY <3>2, <5>1 DEF Receive
      <4>. QED
        BY <1>0, <1>1, <4>2, <4>3 DEF Grows, TabTypes
    <3>. QED
      BY <1>10, <3>1, <3>2 DEF Forward
  <2>4. UNCHANGED anchor
    BY <1>10 DEF Forward
  <2>. QED
    BY <1>0, <1>1, <2>1, <2>2, <2>3, <2>4 DEF Holds
<1>11. ASSUME NEW t \in Tabs, FailForward(t) \/ Disconnect(t) \/ Crash(t)
       PROVE  Holds(u)'
  <2>1. Drop(t) /\ \E place : Goto(t, place)
    BY <1>11 DEF FailForward, Disconnect, Crash
  <2>2. /\ u # t => at'[u] = at[u] /\ inbox'[u] = inbox[u] /\ anchor'[u] = anchor[u]
        /\ u = t => inbox'[u] = <<>> /\ anchor'[u] = NoMessage
        /\ UNCHANGED <<view, latest>>
    BY <2>1 DEF Drop, Goto, TabTypes
  <2>. QED
    BY <1>0, <1>1, <2>2, RangeEmpty DEF Holds
<1>12. ASSUME NEW t \in Tabs, DeletePresence(t) \/ Refresh(t) \/ FailRefresh(t)
       PROVE  Holds(u)'
  <2>1. UNCHANGED at \/ (Goto(t, "off") /\ at[t] \notin Subscribed)
    BY <1>12 DEF DeletePresence, Refresh, FailRefresh, tabVars, Subscribed
  <2>. QED
    BY <1>2, <1>12, <1>a, <2>1 DEF DeletePresence, Refresh, FailRefresh, tabVars
<1>13. CASE ExpirePresence \/ UNCHANGED vars
  BY <1>2, <1>13 DEF ExpirePresence, vars, tabVars
<1>. QED
  BY <1>3, <1>4, <1>5, <1>6, <1>7, <1>8, <1>9, <1>10, <1>11, <1>12, <1>13 DEF Next

-----------------------------------------------------------------------------
(* The unread count                                                        *)

\* The messages begun after low and not after high are none that SeenIsRead is about.
Unsettled(low, high) == \A i \in DOMAIN begun : low < i /\ i <= high => begun[i] \in unsettled

\* What a tab has been sent is read or going to be, and no reading under way will take back
\* more than it may.
Reads(t) ==
  /\ reading[t] <= Len(begun)
  /\ at[t] \in {"list", "mark", "marking"} => Unsettled(reading[t], lastRead)
  /\ at[t] \in {"list", "mark"} => Unsettled(reading[t], Len(begun))
  /\ at[t] \in {"listed", "replay"} => Unsettled(lastRead, Len(begun))
  /\ at[t] = "marking" => \A i \in DOMAIN begun : begun[i] = latest[t] => i <= reading[t]
  /\ \A i \in DOMAIN begun :
       i > lastRead /\ begun[i] \in view[t] =>
         begun[i] \in unsettled \/ (at[t] = "marking" /\ begun[i] = latest[t])

ReadInv == lastRead <= Len(begun) /\ \A t \in Tabs : Reads(t)

\* A step that neither sends nor reads
LEMMA ReadsStand ==
  ASSUME NEW u \in Tabs, Reads(u), UNCHANGED <<begun, lastRead>>, unsettled \subseteq unsettled',
         at'[u] = at[u], reading'[u] = reading[u], view'[u] = view[u], latest'[u] = latest[u]
  PROVE  Reads(u)'
  BY DEF Reads, Unsettled

\* A message that begins leaves true what the tabs know of the read mark.
LEMMA SendReads ==
  ASSUME SendTypes, TabTypes, Started, HoldsInv, ReadInv, NEW m \in Messages, BeginSend(m)
  PROVE  ReadInv'
<1>1. begun \in Seq(Messages) /\ begun' = Append(begun, m) /\ m \notin Range(begun)
  BY DEF BeginSend, SendTypes, Started
<1>2. /\ DOMAIN begun = 1 .. Len(begun) /\ DOMAIN begun' = 1 .. Len(begun) + 1 /\ Len(begun) \in Nat
      /\ Len(begun') = Len(begun) + 1
      /\ begun'[Len(begun) + 1] = m /\ \A i \in DOMAIN begun : begun'[i] = begun[i]
  BY <1>1
<1>3. UNCHANGED <<lastRead, at, reading, view, latest>> /\ unsettled \subseteq unsettled'
  BY DEF BeginSend, tabVars
<1>4. lastRead \in Nat /\ lastRead' <= Len(begun')
  BY <1>2, <1>3 DEF ReadInv, TabTypes
<1>5. ASSUME NEW u \in Tabs
      PROVE  Reads(u)'
  <2>1. Reads(u) /\ reading[u] \in Nat /\ lastRead <= Len(begun)
    BY DEF ReadInv, TabTypes
  <2>2. m \notin view[u] /\ m # latest[u]
    BY <1>1, ChatAssumption DEF HoldsInv, Holds, Started
  <2>3. reading[u] <= Len(begun')
    BY <1>2, <2>1 DEF Reads
  <2>4. at[u] \in {"list", "mark", "marking"} => Unsettled(reading[u], lastRead)'
    BY <1>2, <1>3, <1>4, <2>1 DEF Reads, Unsettled
  <2>5. at[u] \in {"list", "listed", "mark", "replay"} => m \in unsettled'
    BY DEF BeginSend
  <2>6. at[u] \in {"list", "mark"} => Unsettled(reading[u], Len(begun))'
    BY <1>2, <1>3, <2>1, <2>5 DEF Reads, Unsettled
  <2>7. at[u] \in {"listed", "replay"} => Unsettled(lastRead, Len(begun))'
    BY <1>2, <1>3, <1>4, <2>1, <2>5 DEF Reads, Unsettled
  <2>8. at[u] = "marking" => \A i \in DOMAIN begun' : begun'[i] = latest[u] => i <= reading[u]
    BY <1>2, <2>1, <2>2 DEF Reads
  <2>9. \A i \in DOMAIN begun' :
          i > lastRead /\ begun'[i] \in view[u] =>
            begun'[i] \in unsettled' \/ (at[u] = "marking" /\ begun'[i] = latest[u])
    BY <1>2, <1>3, <2>1, <2>2 DEF Reads
  <2>. QED
    BY <1>3, <2>3, <2>4, <2>6, <2>7, <2>8, <2>9 DEF Reads
<1>. QED
  BY <1>4, <1>5 DEF ReadInv

\* A reading that is written
LEMMA MarkReads ==
  ASSUME SendTypes, TabTypes, ReadInv, NEW t \in Tabs, NEW time, MarkRead(t, time),
         reading[t] <= time, time \in 0 .. Len(begun),
         NEW place, Goto(t, place), place \in {"listed", "replay", "open"},
         at[t] \in {"list", "mark", "marking"}, at[t] = "marking" => place = "open"
  PROVE  ReadInv'
<1>1. /\ DOMAIN begun = 1 .. Len(begun) /\ Len(begun) \in Nat /\ lastRead \in Nat
      /\ \A u \in Tabs : reading[u] \in Nat /\ Reads(u)
  BY DEF SendTypes, TabTypes, ReadInv
<1>2. /\ UNCHANGED <<begun, view, latest>> /\ lastRead' = time /\ unsettled \subseteq unsettled'
      /\ \A u \in Tabs \ {t} : reading'[u] = reading[u] /\ at'[u] = at[u]
      /\ reading'[t] = 0 /\ at'[t] = place
  <2>1. /\ UNCHANGED <<begun, view, latest>> /\ lastRead' = time
        /\ reading' = [reading EXCEPT ![t] = 0] /\ at' = [at EXCEPT ![t] = place]
    BY DEF MarkRead, Goto, sendVars
  <2>2. unsettled \subseteq unsettled'
    BY DEF MarkRead
  <2>. QED
    BY <2>1, <2>2 DEF TabTypes
<1>3. \A i \in DOMAIN begun : i > time /\ i <= lastRead => begun[i] \in unsettled
  BY <1>1 DEF Reads, Unsettled
<1>4. ASSUME NEW u \in Tabs \ {t}
      PROVE  Reads(u)'
  <2>1. CASE at[u] \in {"list", "mark", "marking"}
    <3>1. Range(begun) \subseteq unsettled'
      BY <2>1 DEF MarkRead
    <3>2. \A i \in DOMAIN begun : begun[i] \in unsettled'
      BY <3>1 DEF Range
    <3>. QED
      BY <1>1, <1>2, <3>2 DEF Reads, Unsettled
  <2>2. CASE at[u] \notin {"list", "mark", "marking"}
    <3>1. at[u] \in {"listed", "replay"} => \A i \in DOMAIN begun : i > time => begun[i] \in unsettled
      <4> SUFFICES ASSUME at[u] \in {"listed", "replay"}, NEW i \in DOMAIN begun, i > time
                   PROVE  begun[i] \in unsettled
        OBVIOUS
      <4>1. CASE i <= lastRead
        BY <1>3, <4>1
      <4>2. CASE lastRead < i
        BY <1>1, <4>2 DEF Reads, Unsettled
      <4>. QED
        BY <1>1, <4>1, <4>2
    <3>2. \A i \in DOMAIN begun : i > time /\ begun[i] \in view[u] => begun[i] \in unsettled
      <4> SUFFICES ASSUME NEW i \in DOMAIN begun, i > time, begun[i] \in view[u]
                   PROVE  begun[i] \in unsettled
        OBVIOUS
      <4>1. CASE i <= lastRead
        BY <1>3, <4>1
      <4>2. CASE i > lastRead
        BY <1>1, <2>2, <4>2 DEF Reads
      <4>. QED
        BY <1>1, <4>1, <4>2
    <3>. QED
      BY <1>1, <1>2, <2>2, <3>1, <3>2 DEF Reads, Unsettled
  <2>. QED
    BY <2>1, <2>2
<1>5. Reads(t)'
  <2>1. place \in {"listed", "replay"} => \A i \in DOMAIN begun : i > time => begun[i] \in unsettled
    BY <1>1 DEF Reads, Unsettled
  <2>2. \A i \in DOMAIN begun : i > time /\ begun[i] \in view[t] => begun[i] \in unsettled
    <3> SUFFICES ASSUME NEW i \in DOMAIN begun, i > time, begun[i] \in view[t]
                 PROVE  begun[i] \in unsettled
      OBVIOUS
    <3>1. CASE i <= lastRead
      BY <1>3, <3>1
    <3>2. CASE i > lastRead
      <4>1. ~(at[t] = "marking" /\ begun[i] = latest[t])
        BY <1>1 DEF Reads
      <4>. QED
        BY <1>1, <3>2, <4>1 DEF Reads
    <3>. QED
      BY <1>1, <3>1, <3>2
  <2>. QED
    BY <1>1, <1>2, <2>1, <2>2 DEF Reads, Unsettled
<1>. QED
  BY <1>1, <1>2, <1>4, <1>5 DEF ReadInv

\* Every step leaves whatever a tab shows above the read mark unsettled, or about to be marked.
LEMMA ReadStep == SendTypes /\ TabTypes /\ Started /\ HoldsInv /\ ReadInv /\ [Next]_vars => ReadInv'
<1> SUFFICES ASSUME SendTypes, TabTypes, Started, HoldsInv, ReadInv, [Next]_vars PROVE ReadInv'
  OBVIOUS
<1>0. /\ DOMAIN begun = 1 .. Len(begun) /\ Len(begun) \in Nat /\ lastRead \in Nat
      /\ \A u \in Tabs : reading[u] \in Nat /\ Reads(u)
      /\ unsettled \subseteq unsettled'
  BY Growing DEF SendTypes, TabTypes, ReadInv, Grows
<1>a. ASSUME NEW t \in Tabs, Reads(t)', UNCHANGED <<begun, lastRead>>,
             \A u \in Tabs \ {t} : /\ at'[u] = at[u] /\ reading'[u] = reading[u]
                                   /\ view'[u] = view[u] /\ latest'[u] = latest[u]
      PROVE  ReadInv'
  BY <1>0, <1>a, ReadsStand DEF ReadInv
<1>1. CASE UNCHANGED <<begun, lastRead, at, reading, view, latest>>
  BY <1>0, <1>1, ReadsStand DEF ReadInv
<1>2. ASSUME NEW m \in Messages, \/ FindNone(m) \/ Open(m) \/ CommitSend(m) \/ Push(m) \/ FailPush(m)
                                 \/ FailSend(m) \/ DeleteMessage(m)
      PROVE  ReadInv'
  BY <1>1, <1>2 DEF FindNone, Open, CommitSend, Push, FailPush, FailSend, DeleteMessage, sendVars, tabVars
<1>3. ASSUME NEW m \in Messages, Publish(m) \/ PublishDeletion(m)
      PROVE  ReadInv'
  BY <1>1, <1>3 DEF Publish, PublishDeletion, sendVars
<1>4. ASSUME NEW m \in Messages, BeginSend(m)
      PROVE  ReadInv'
  BY <1>4, SendReads
<1>5. ASSUME NEW t \in Tabs, BeginList(t) \/ Connect(t)
      PROVE  ReadInv'
  <2>1. PICK place \in {"list", "mark"} : BeginReading(t, place)
    BY <1>5 DEF BeginList, Connect
  <2>2. /\ at[t] = "off" /\ at'[t] = place /\ reading'[t] = Len(begun)
        /\ UNCHANGED <<begun, lastRead, view, latest, unsettled>>
        /\ \A u \in Tabs \ {t} : at'[u] = at[u] /\ reading'[u] = reading[u]
    BY <1>5, <2>1 DEF BeginList, Connect, BeginReading, Goto, TabTypes, sendVars, history
  <2>3. Unsettled(Len(begun), lastRead)' /\ Unsettled(Len(begun), Len(begun))'
    BY <1>0, <2>2 DEF Unsettled, ReadInv
  <2>4. Reads(t)'
    BY <1>0, <2>2, <2>3 DEF Reads
  <2>. QED
    BY <1>a, <2>2, <2>4
<1>6. ASSUME NEW t \in Tabs, MarkListed(t) \/ MarkOpened(t) \/ MarkForwarded(t)
      PROVE  ReadInv'
  <2>1. reading[t] <= Len(begun)
    BY <1>0 DEF Reads
  <2>2. CASE MarkListed(t)
    BY <1>0, <2>1, <2>2, MarkReads DEF MarkListed
  <2>3. CASE MarkOpened(t)
    BY <1>0, <2>1, <2>3, MarkReads DEF MarkOpened
  <2>4. CASE MarkForwarded(t)
    BY <1>0, <2>1, <2>4, MarkReads DEF MarkForwarded
  <2>. QED
    BY <1>6, <2>2, <2>3, <2>4
<1>7. ASSUME NEW t \in Tabs, List(t) \/ Replay(t)
      PROVE  ReadInv'
  <2>1. /\ at[t] \in {"listed", "replay"} /\ at'[t] \in {"off", "presence"}
        /\ UNCHANGED <<begun, lastRead, reading, unsettled>>
        /\ \A u \in Tabs \ {t} : at'[u] = at[u] /\ view'[u] = view[u] /\ latest'[u] = latest[u]
    BY <1>7 DEF List, Replay, Receive, Goto, TabTypes, sendVars
  <2>2. Reads(t)'
    BY <1>0, <2>1 DEF Reads, Unsettled
  <2>. QED
    BY <1>a, <2>1, <2>2
<1>8. ASSUME NEW t \in Tabs, SetPresence(t) \/ Subscribe(t) \/ DeletePresence(t)
      PROVE  ReadInv'
  <2>1. /\ at[t] \in {"presence", "subscribe", "closing"} /\ at'[t] \in {"subscribe", "open", "off"}
        /\ UNCHANGED <<begun, lastRead, reading, unsettled, view, latest>>
        /\ \A u \in Tabs \ {t} : at'[u] = at[u]
    BY <1>8 DEF SetPresence, Subscribe, DeletePresence, Goto, TabTypes, sendVars, history
  <2>2. Reads(t)'
    BY <1>0, <2>1 DEF Reads, Unsettled
  <2>. QED
    BY <1>a, <2>1, <2>2
<1>9. ASSUME NEW t \in Tabs, Forward(t)
      PROVE  ReadInv'
  <2> DEFINE m == Head(inbox[t])[2]
  <2>1. at[t] = "open" /\ UNCHANGED <<begun, lastRead, unsettled>>
    BY <1>9 DEF Forward, sendVars
  <2>2. CASE UNCHANGED <<view, latest, at, reading>>
    BY <1>1, <2>1, <2>2
  <2>3. CASE Receive(t, {m}, m) /\ BeginReading(t, "marking")
    <3>1. /\ at'[t] = "marking" /\ reading'[t] = Len(begun)
          /\ view'[t] = view[t] \cup {m} /\ latest'[t] = m
          /\ \A u \in Tabs \ {t} : /\ at'[u] = at[u] /\ reading'[u] = reading[u]
                                   /\ view'[u] = view[u] /\ latest'[u] = latest[u]
      BY <2>3 DEF Receive, BeginReading, Goto, TabTypes
    <3>2. Unsettled(Len(begun), lastRead)'
      BY <1>0, <2>1 DEF Unsettled, ReadInv
    <3>3. Reads(t)'
      <4> HIDE DEF m
      <4>. QED
        BY <1>0, <2>1, <3>1, <3>2 DEF Reads
    <3>. QED
      BY <1>a, <2>1, <3>1, <3>3
  <2>. QED
    BY <1>9, <2>2, <2>3 DEF Forward
<1>10. ASSUME NEW t \in Tabs, FailMark(t) \/ FailForward(t) \/ Disconnect(t) \/ Crash(t)
       PROVE  ReadInv'
  <2>1. /\ at'[t] \in {"open", "deaf", "closing", "off"} /\ reading'[t] = 0
        /\ UNCHANGED <<begun, lastRead, view, latest>>
        /\ \A u \in Tabs \ {t} : at'[u] = at[u] /\ reading'[u] = reading[u]
    BY <1>10 DEF FailMark, FailForward, Disconnect, Crash, Drop, Goto, TabTypes, sendVars
  <2>2. at[t] = "marking" => latest[t] \in unsettled' \cup {NoMessage}
    BY <1>10 DEF FailMark, FailForward, Disconnect, Crash, Drop
  <2>3. \A i \in DOMAIN begun : begun[i] # NoMessage
    BY ChatAssumption DEF SendTypes
  <2>4. Reads(t)'
    BY <1>0, <2>1, <2>2, <2>3 DEF Reads
  <2>. QED
    BY <1>a, <2>1, <2>4
<1>11. ASSUME NEW t \in Tabs, Refresh(t) \/ FailRefresh(t)
       PROVE  ReadInv'
  BY <1>1, <1>11 DEF Refresh, FailRefresh, sendVars, tabVars
<1>12. CASE ExpirePresence \/ UNCHANGED vars
  BY <1>1, <1>12 DEF ExpirePresence, vars, sendVars, tabVars
<1>. QED
  BY <1>2, <1>3, <1>4, <1>5, <1>6, <1>7, <1>8, <1>9, <1>10, <1>11, <1>12 DEF Next

-----------------------------------------------------------------------------
(* Deleted messages                                                        *)

\* A tab hears of the deletion of whatever it shows or is going to show, after the message
\* itself, unless the deletion overtook the message.
Hides(t) ==
  /\ \A m \in Messages : <<"new", m>> \in Range(inbox[t]) /\ deletion[m] = "told" =>
       <<"deleted", m>> \in Range(inbox[t]) \/ m \in overtaken
  /\ \A m \in Messages : Precedes(inbox[t], <<"deleted", m>>, <<"new", m>>) => m \in overtaken
  /\ \A m \in view[t] \ struck[t] : deletion[m] = "told" =>
       m \in untold[t] \cup overtaken \/ <<"deleted", m>> \in Range(inbox[t])

HideInv ==
  /\ \A m \in Deleted : sending[m] = "committed" => m \in overtaken
  /\ \A t \in Tabs : Hides(t)

\* A tab that does not move goes on hearing of deletions.
LEMMA HidesStand ==
  ASSUME NEW u \in Tabs, Hides(u), overtaken \subseteq overtaken',
         inbox'[u] = inbox[u], view'[u] = view[u], struck[u] \subseteq struck'[u],
         untold[u] \subseteq untold'[u], \A m \in Messages : deletion'[m] = "told" => deletion[m] = "told",
         view[u] \subseteq Messages
  PROVE  Hides(u)'
  BY DEF Hides

\* Every step leaves a tab with, or about to hear of, the deletions of what it shows, if not overtaken.
LEMMA HideStep == SendTypes /\ TabTypes /\ Started /\ HoldsInv /\ HideInv /\ [Next]_vars => HideInv'
<1> SUFFICES ASSUME SendTypes, TabTypes, Started, HoldsInv, HideInv, [Next]_vars PROVE HideInv'
  OBVIOUS
<1>0. /\ overtaken \subseteq overtaken' /\ Committed \subseteq Messages
      /\ \A u \in Tabs : Hides(u) /\ Holds(u) /\ view[u] \subseteq Messages /\ struck[u] \subseteq struck'[u]
  BY Growing DEF HideInv, HoldsInv, TabTypes, Grows, Committed
<1>a. ASSUME UNCHANGED <<sending, deletion>>, NEW t \in Tabs, Hides(t)',
             \A u \in Tabs \ {t} : /\ inbox'[u] = inbox[u] /\ view'[u] = view[u]
                                   /\ untold[u] \subseteq untold'[u]
      PROVE  HideInv'
  BY <1>0, <1>a, HidesStand DEF HideInv, Deleted
<1>b. ASSUME UNCHANGED <<inbox, view, untold>>,
             \A m \in Messages : deletion'[m] = "told" => deletion[m] = "told",
             \A m \in Deleted' : sending'[m] = "committed" => m \in overtaken'
      PROVE  HideInv'
  BY <1>0, <1>b, HidesStand DEF HideInv
<1>1. ASSUME NEW m \in Messages, FindNone(m) \/ Open(m) \/ BeginSend(m) \/ CommitSend(m) \/ Push(m)
                                 \/ FailPush(m) \/ FailSend(m)
      PROVE  HideInv'
  <2>1. UNCHANGED <<inbox, view, untold, deletion, overtaken>>
    BY <1>1 DEF FindNone, Open, BeginSend, CommitSend, Push, FailPush, FailSend, tabVars, history
  <2>2. \A n \in Deleted : sending'[n] = "committed" => sending[n] = "committed"
    BY <1>1 DEF FindNone, Open, BeginSend, CommitSend, Push, FailPush, FailSend, SendTypes, Started, Committed
  <2>. QED
    BY <1>b, <2>1, <2>2 DEF HideInv, Deleted
<1>2. ASSUME NEW m \in Messages, DeleteMessage(m)
      PROVE  HideInv'
  <2>1. UNCHANGED <<inbox, view, untold, sending>>
    BY <1>2 DEF DeleteMessage, sendVars, tabVars
  <2>2. Deleted' = Deleted \cup {m} /\ \A n \in Messages : deletion'[n] = "told" => deletion[n] = "told"
    BY <1>2 DEF DeleteMessage, Deleted, SendTypes
  <2>3. sending[m] = "committed" => m \in overtaken'
    BY <1>2 DEF DeleteMessage
  <2>. QED
    BY <1>0, <1>b, <2>1, <2>2, <2>3 DEF HideInv
<1>3. ASSUME NEW m \in Messages, Publish(m)
      PROVE  HideInv'
  <2>1. /\ UNCHANGED <<view, struck, untold, overtaken, deletion>> /\ sending[m] = "committed"
        /\ Deliver(<<"new", m>>) /\ <<"new", m>> \in Events
    BY <1>3 DEF Publish, Events
  <2>2. \A n \in Deleted : sending'[n] = "committed" => sending[n] = "committed"
    BY <1>3 DEF Publish, SendTypes, Deleted
  <2>3. deletion[m] = "told" => m \in overtaken
    BY <2>1 DEF HideInv, Deleted
  <2>4. ASSUME NEW u \in Tabs
        PROVE  Hides(u)'
    <3>1. CASE inbox'[u] = inbox[u]
      BY <1>0, <2>1, <3>1, HidesStand
    <3>2. CASE /\ Range(inbox'[u]) = Range(inbox[u]) \cup {<<"new", m>>}
               /\ \A x, y : Precedes(inbox'[u], x, y) <=>
                              Precedes(inbox[u], x, y) \/ (x \in Range(inbox[u]) /\ y = <<"new", m>>)
      <4>1. \A n \in Messages : <<"new", n>> = <<"new", m>> => n = m
        OBVIOUS
      <4>2. <<"deleted", m>> \in Range(inbox[u]) => deletion[m] = "told"
        BY <1>0 DEF Holds
      <4>3. \A n \in Messages : Precedes(inbox'[u], <<"deleted", n>>, <<"new", n>>) => n \in overtaken
        BY <1>0, <2>3, <3>2, <4>1, <4>2 DEF Hides
      <4>4. \A n \in Messages : <<"new", n>> \in Range(inbox'[u]) => n = m \/ <<"new", n>> \in Range(inbox[u])
        BY <3>2, <4>1
      <4>. QED
        BY <1>0, <2>1, <2>3, <3>2, <4>3, <4>4 DEF Hides
    <3>. QED
      BY <2>1, <3>1, <3>2, Delivering
  <2>. QED
    BY <2>1, <2>2, <2>4 DEF HideInv, Deleted
<1>4. ASSUME NEW m \in Messages, PublishDeletion(m)
      PROVE  HideInv'
  <2>1. /\ UNCHANGED <<view, struck, overtaken, sending>> /\ deletion[m] = "deleted"
        /\ deletion' = [deletion EXCEPT ![m] = "told"]
        /\ Deliver(<<"deleted", m>>) /\ <<"deleted", m>> \in Events
    BY <1>4 DEF PublishDeletion, Events, sendVars
  <2>2. Deleted' = Deleted /\ \A n \in Messages : deletion'[n] = "told" => n = m \/ deletion[n] = "told"
    BY <2>1 DEF Deleted, SendTypes
  <2>3. ASSUME NEW u \in Tabs
        PROVE  Hides(u)'
    <3>1. untold[u] \subseteq untold'[u]
      BY <1>4 DEF PublishDeletion, TabTypes
    <3>2. CASE at[u] \notin Subscribed
      <4>1. inbox'[u] = <<>> /\ inbox[u] = <<>>
        BY <1>0, <2>1, <3>2, Delivering DEF Holds
      <4>2. m \in view[u] => m \in untold'[u]
        BY <1>4, <3>2 DEF PublishDeletion, TabTypes
      <4>. QED
        BY <1>0, <2>1, <2>2, <3>1, <4>1, <4>2, RangeEmpty DEF Hides
    <3>3. CASE /\ Range(inbox'[u]) = Range(inbox[u]) \cup {<<"deleted", m>>}
               /\ \A x, y : Precedes(inbox'[u], x, y) <=>
                              Precedes(inbox[u], x, y) \/ (x \in Range(inbox[u]) /\ y = <<"deleted", m>>)
      <4>1. \A n \in Messages : <<"new", n>> # <<"deleted", m>>
        OBVIOUS
      <4>2. \A n \in Messages : Precedes(inbox'[u], <<"deleted", n>>, <<"new", n>>) => n \in overtaken
        BY <1>0, <3>3, <4>1 DEF Hides
      <4>3. \A n \in Messages : <<"new", n>> \in Range(inbox'[u]) => <<"new", n>> \in Range(inbox[u])
        BY <3>3, <4>1
      <4>. QED
        BY <1>0, <2>1, <2>2, <3>1, <3>3, <4>2, <4>3 DEF Hides
    <3>. QED
      BY <2>1, <3>2, <3>3, Delivering
  <2>. QED
    BY <2>1, <2>2, <2>3 DEF HideInv
\* The tabs
<1>5. ASSUME NEW t \in Tabs, \/ BeginList(t) \/ Connect(t) \/ SetPresence(t) \/ Subscribe(t)
                             \/ MarkListed(t) \/ MarkOpened(t) \/ MarkForwarded(t) \/ FailMark(t)
                             \/ Refresh(t) \/ FailRefresh(t) \/ DeletePresence(t)
      PROVE  HideInv'
  <2>1. UNCHANGED <<inbox, view, untold, sending, deletion, overtaken>>
    BY <1>5 DEF BeginList, Connect, SetPresence, Subscribe, MarkListed, MarkOpened, MarkForwarded,
                FailMark, Refresh, FailRefresh, DeletePresence, MarkRead, sendVars, tabVars, history
  <2>. QED
    BY <1>b, <2>1 DEF HideInv, Deleted
<1>6. ASSUME NEW t \in Tabs, List(t)
      PROVE  HideInv'
  <2> DEFINE page == LastOf(Committed, PageLimit)
  <2>1. /\ UNCHANGED <<inbox, sending, deletion, overtaken>>
        /\ view' = [view EXCEPT ![t] = @ \cup page]
        /\ struck' = [struck EXCEPT ![t] = @ \cup (Deleted \cap page)]
        /\ untold' = [untold EXCEPT ![t] = @ \ page]
    BY <1>6 DEF List, Receive, sendVars
  <2> HIDE DEF page
  <2>2. /\ view'[t] = view[t] \cup page
        /\ struck'[t] = struck[t] \cup (Deleted \cap page)
        /\ untold'[t] = untold[t] \ page
        /\ \A u \in Tabs \ {t} : view'[u] = view[u] /\ untold'[u] = untold[u]
    BY <2>1 DEF TabTypes
  <2>3. \A m \in page \ struck'[t] : deletion[m] # "told"
    <3>1. page \subseteq Messages
      BY <1>0, Picking DEF page
    <3>. QED
      BY <2>2, <3>1 DEF Deleted
  <2>4. Hides(t)'
    BY <1>0, <2>1, <2>2, <2>3 DEF Hides
  <2>. QED
    BY <1>a, <2>1, <2>2, <2>4
<1>7. ASSUME NEW t \in Tabs, Replay(t)
      PROVE  HideInv'
  <2>1. /\ UNCHANGED <<inbox, sending, deletion, overtaken, struck, untold>>
        /\ \A u \in Tabs \ {t} : view'[u] = view[u]
    BY <1>7 DEF Replay, Receive, TabTypes, sendVars
  <2>2. view'[t] \subseteq view[t] \cup MessagesAfter(anchor[t])
    <3> DEFINE replayed == FirstOf(MessagesAfter(anchor[t]), ReplayLimit)
    <3>1. replayed \subseteq MessagesAfter(anchor[t])
      BY Picking
    <3>2. UNCHANGED view \/ view' = [view EXCEPT ![t] = @ \cup replayed]
      BY <1>7 DEF Replay, Receive
    <3> HIDE DEF replayed
    <3>. QED
      BY <3>1, <3>2 DEF TabTypes
  <2>3. \A m \in MessagesAfter(anchor[t]) : deletion[m] # "told"
    BY DEF MessagesAfter, Committed, Deleted
  <2>4. Hides(t)'
    BY <1>0, <2>1, <2>2, <2>3 DEF Hides
  <2>. QED
    BY <1>a, <2>1, <2>4
<1>8. ASSUME NEW t \in Tabs, Forward(t)
      PROVE  HideInv'
  <2>1. /\ UNCHANGED <<sending, deletion, overtaken, untold>>
        /\ \A u \in Tabs \ {t} : view'[u] = view[u] /\ inbox'[u] = inbox[u]
    BY <1>8 DEF Forward, Receive, TabTypes, sendVars
  <2>2. /\ Range(inbox[t]) = {Head(inbox[t])} \cup Range(inbox'[t])
        /\ \A x, y : Precedes(inbox'[t], x, y) => Precedes(inbox[t], x, y)
        /\ \A y \in Range(inbox'[t]) : Precedes(inbox[t], Head(inbox[t]), y)
        /\ Head(inbox[t]) \in Events
    BY <1>8, Forwarding
  <2>3. PICK kind \in {"new", "deleted"}, m \in Messages : Head(inbox[t]) = <<kind, m>>
    BY <2>2 DEF Events
  <2>4. Head(inbox[t])[1] = kind /\ Head(inbox[t])[2] = m
    BY <2>3
  <2>5. CASE kind = "new"
    <3>1. view'[t] = view[t] \cup {m} /\ struck' = struck
      BY <1>8, <2>4, <2>5 DEF Forward, Receive, TabTypes
    <3>2. \A n \in Messages : <<"deleted", n>> # <<kind, m>>
      BY <2>5
    <3>3. \A n \in Messages : <<"deleted", n>> \in Range(inbox[t]) => <<"deleted", n>> \in Range(inbox'[t])
      BY <2>2, <2>3, <3>2
    <3>4. deletion[m] = "told" => <<"deleted", m>> \in Range(inbox[t]) \/ m \in overtaken
      BY <1>0, <2>2, <2>3, <2>5 DEF Hides
    <3>5. Hides(t)'
      BY <1>0, <2>1, <2>2, <3>1, <3>3, <3>4 DEF Hides
    <3>. QED
      BY <1>a, <2>1, <3>5
  <2>6. CASE kind = "deleted"
    <3>1. view' = view /\ struck'[t] = struck[t] \cup ({m} \cap view[t])
      BY <1>8, <2>4, <2>6 DEF Forward, TabTypes
    <3>2. \A n \in Messages : <<"deleted", n>> \in Range(inbox[t]) => n = m \/ <<"deleted", n>> \in Range(inbox'[t])
      BY <2>2, <2>3, <2>6
    <3>3. <<"new", m>> \in Range(inbox'[t]) => m \in overtaken
      BY <1>0, <2>2, <2>3, <2>6 DEF Hides
    <3>4. Hides(t)'
      BY <1>0, <2>1, <2>2, <3>1, <3>2, <3>3 DEF Hides
    <3>. QED
      BY <1>a, <2>1, <3>1, <3>4
  <2>. QED
    BY <2>3, <2>5, <2>6
<1>9. ASSUME NEW t \in Tabs, FailForward(t) \/ Disconnect(t) \/ Crash(t)
      PROVE  HideInv'
  <2>1. Drop(t)
    BY <1>9 DEF FailForward, Disconnect, Crash
  <2>2. /\ UNCHANGED <<sending, deletion, overtaken, view, struck>>
        /\ inbox'[t] = <<>> /\ untold'[t] = untold[t] \cup Pending(t, "deleted")
        /\ \A u \in Tabs \ {t} : inbox'[u] = inbox[u] /\ untold'[u] = untold[u]
    BY <2>1 DEF Drop, TabTypes, sendVars
  <2>3. \A m : <<"deleted", m>> \in Range(inbox[t]) => m \in Pending(t, "deleted")
    BY PendingIs
  <2>4. \A x, y : ~Precedes(<<>>, x, y)
    BY DEF Precedes
  <2>5. Hides(t)'
    BY <1>0, <2>2, <2>3, <2>4, RangeEmpty DEF Hides
  <2>. QED
    BY <1>a, <2>2, <2>5
<1>10. CASE ExpirePresence \/ UNCHANGED vars
  <2>1. UNCHANGED <<inbox, view, untold, sending, deletion, overtaken>>
    BY <1>10 DEF ExpirePresence, vars, sendVars, tabVars, history
  <2>. QED
    BY <1>b, <2>1 DEF HideInv, Deleted
<1>. QED
  BY <1>1, <1>2, <1>3, <1>4, <1>5, <1>6, <1>7, <1>8, <1>9, <1>10 DEF Next

-----------------------------------------------------------------------------
(* Missed messages                                                         *)

\* A message under way whose sending overlaps no other is the last one begun.
OverlapInv == \A m \in InFlight \ crossed : \A n : ~CreatedBefore(m, n)

\* The messages MissedOnlyWhenRaced and PushedOrReplayed are about
Due == (Committed \ Deleted) \ crossed

\* t has been sent what there is up to n.
Covers(t, n) ==
  n # NoMessage => \A m \in Due : m = n \/ CreatedBefore(m, n) => m \in view[t] \cup gap[t]

\* What t is going to be sent comes in the order of created_at.
Ordered(t) ==
  \A m, n \in Messages :
    Precedes(inbox[t], <<"new", m>>, <<"new", n>>) /\ CreatedBefore(n, m) => n \in crossed

\* After its replay t has been sent everything, or is going to.
Whole(t) ==
  at[t] \in {"presence", "subscribe"} \cup Subscribed =>
    \A m \in Due : sending[m] # "committed" =>
      m \in view[t] \cup gap[t] \cup cut[t] \/ <<"new", m>> \in Range(inbox[t])

MissInv ==
  /\ OverlapInv
  /\ \A t \in Tabs : Covers(t, latest[t]) /\ Covers(t, anchor[t]) /\ Ordered(t) /\ Whole(t)

\* Messages are created in the order in which they begin.
LEMMA CreatedIs == \A m, n : CreatedBefore(m, n) <=> Precedes(begun, m, n)
  BY DEF CreatedBefore, Precedes

\* A message that begins is new, and created after all the others.
LEMMA BeginOrder ==
  ASSUME SendTypes, Started, NEW m \in Messages, BeginSend(m)
  PROVE  /\ m \notin Range(begun) /\ m \notin Committed
         /\ \A x, y : CreatedBefore(x, y)' <=> CreatedBefore(x, y) \/ (x \in Range(begun) /\ y = m)
<1>1. begun \in Seq(Messages) /\ begun' = Append(begun, m) /\ m \notin Range(begun)
  BY DEF BeginSend, SendTypes, Started
<1>2. \A x, y : Precedes(begun', x, y) <=> Precedes(begun, x, y) \/ (x \in Range(begun) /\ y = m)
  BY <1>1, Appending
<1>3. \A x, y : CreatedBefore(x, y)' <=> Precedes(begun', x, y)
  BY DEF CreatedBefore, Precedes
<1>. QED
  BY <1>1, <1>2, <1>3, CreatedIs DEF Started

\* Only messages that have begun come before one another.
LEMMA CreatedRange == \A m, n : CreatedBefore(m, n) => m \in Range(begun) /\ n \in Range(begun)
  BY DEF CreatedBefore, Range

\* A message of S that FirstOf leaves out was created after those it takes.
LEMMA FirstComeFirst ==
  ASSUME SendTypes, Started, NEW S, S \subseteq Committed, NEW k \in Nat,
         NEW m \in FirstOf(S, k), NEW n \in S \ FirstOf(S, k)
  PROVE  CreatedBefore(m, n)
<1> DEFINE before(o) == {l \in S : CreatedBefore(l, o)}
<1>1. begun \in Seq(Messages) /\ Distinct(begun) /\ S \subseteq Range(begun)
  BY DEF SendTypes, Started
<1>2. IsFiniteSet(Range(begun))
  <2>1. Len(begun) \in Nat /\ DOMAIN begun = 1 .. Len(begun)
    BY <1>1
  <2>2. begun \in [1 .. Len(begun) -> Range(begun)]
    BY <1>1, <2>1 DEF Range
  <2>3. begun \in Surjection(1 .. Len(begun), Range(begun))
    BY <2>1, <2>2 DEF Surjection, Range
  <2>. QED
    BY <2>1, <2>3, FS_NatSurjection DEF ExistsSurjection
<1>3. ASSUME CreatedBefore(n, m)
      PROVE  FALSE
  <2>1. before(n) \subseteq before(m)
    BY <1>1, <1>3, Ordering, CreatedIs
  <2>2. IsFiniteSet(before(m))
    BY <1>1, <1>2, FS_Subset
  <2> HIDE DEF before
  <2>3. Cardinality(before(n)) <= Cardinality(before(m))
        /\ Cardinality(before(n)) \in Nat /\ Cardinality(before(m)) \in Nat
    BY <2>1, <2>2, FS_Subset, FS_CardinalityType
  <2>4. Cardinality(before(m)) < k /\ ~(Cardinality(before(n)) < k)
    BY DEF FirstOf, before
  <2>. QED
    BY <2>3, <2>4
<1>4. m \in S /\ m # n
  BY DEF FirstOf
<1>5. m = n \/ CreatedBefore(m, n) \/ CreatedBefore(n, m)
  BY <1>1, <1>4, Ordering, CreatedIs
<1>. QED
  BY <1>3, <1>4, <1>5

\* Everything but the beginning of a sending leaves the order alone, and what is committed
\* anew was under way.
LEMMA Committing ==
  ASSUME SendTypes, TabTypes, Started, [Next]_vars
  PROVE  /\ \A m \in Committed' \ Committed : sending[m] = "begun" /\ sending'[m] = "committed"
         /\ \/ UNCHANGED begun /\ InFlight' \subseteq InFlight
            \/ \E m \in Messages : BeginSend(m)
<1>1. ASSUME NEW m \in Messages, BeginSend(m)
      PROVE  Committed' = Committed
  BY <1>1 DEF BeginSend, SendTypes, Committed
<1>2. ASSUME NEW m \in Messages, FindNone(m) \/ Open(m) \/ CommitSend(m) \/ Publish(m) \/ Push(m)
                                 \/ FailPush(m) \/ FailSend(m)
      PROVE  /\ \A n \in Committed' \ Committed : sending[n] = "begun" /\ sending'[n] = "committed"
             /\ UNCHANGED begun /\ InFlight' \subseteq InFlight
  BY <1>2 DEF FindNone, Open, CommitSend, Publish, Push, FailPush, FailSend, SendTypes, Committed, InFlight
<1>3. CASE UNCHANGED sendVars
  BY <1>3 DEF sendVars, Committed, InFlight
<1>4. ASSUME NEW m \in Messages, DeleteMessage(m) \/ PublishDeletion(m)
      PROVE  UNCHANGED sendVars
  BY <1>4 DEF DeleteMessage, PublishDeletion
<1>5. ASSUME NEW t \in Tabs,
             \/ BeginList(t) \/ MarkListed(t) \/ List(t) \/ Connect(t) \/ MarkOpened(t) \/ Replay(t)
             \/ SetPresence(t) \/ Subscribe(t) \/ Forward(t) \/ MarkForwarded(t) \/ FailMark(t) \/ Refresh(t)
             \/ FailRefresh(t) \/ FailForward(t) \/ Disconnect(t) \/ DeletePresence(t) \/ Crash(t)
      PROVE  UNCHANGED sendVars
  BY <1>5 DEF BeginList, MarkListed, List, Connect, MarkOpened, Replay, SetPresence, Subscribe,
              Forward, MarkForwarded, FailMark, Refresh, FailRefresh, FailForward, Disconnect,
              DeletePresence, Crash, MarkRead, Drop
<1>6. CASE ExpirePresence \/ UNCHANGED vars
  BY <1>3, <1>6 DEF ExpirePresence, vars
<1>. QED
  BY <1>1, <1>2, <1>3, <1>4, <1>5, <1>6 DEF Next

\* Every step leaves a message that overlaps no other the last one begun.
LEMMA OverlapStep ==
  SendTypes /\ TabTypes /\ Started /\ OverlapInv /\ [Next]_vars => OverlapInv'
<1> SUFFICES ASSUME SendTypes, TabTypes, Started, OverlapInv, [Next]_vars PROVE OverlapInv'
  OBVIOUS
<1>1. ASSUME NEW m \in Messages, BeginSend(m)
      PROVE  OverlapInv'
  <2>1. InFlight' = InFlight \cup {m}
    BY <1>1 DEF BeginSend, InFlight, SendTypes
  <2>2. InFlight \subseteq crossed'
    BY <1>1 DEF BeginSend
  <2>3. \A n : ~CreatedBefore(m, n)'
    BY <1>1, BeginOrder, CreatedRange
  <2>. QED
    BY <2>1, <2>2, <2>3 DEF OverlapInv
<1>2. CASE UNCHANGED begun /\ InFlight' \subseteq InFlight
  <2>1. crossed \subseteq crossed'
    BY Growing DEF Grows
  <2>2. \A m, n : CreatedBefore(m, n)' <=> CreatedBefore(m, n)
    BY <1>2 DEF CreatedBefore
  <2>. QED
    BY <1>2, <2>1, <2>2 DEF OverlapInv
<1>. QED
  BY <1>1, <1>2, Committing

\* Whatever is due anew is under way and last.
LEMMA DueStands ==
  ASSUME SendTypes, TabTypes, Started, [Next]_vars
  PROVE  \A m \in Due' : \/ m \in Due
                         \/ m \in InFlight \ crossed /\ m \notin Committed /\ sending'[m] = "committed"
<1>1. Deleted \subseteq Deleted' /\ crossed \subseteq crossed'
  BY Growing DEF Grows
<1>2. ASSUME NEW m \in Due', m \notin Committed
      PROVE  m \in InFlight \ crossed /\ sending'[m] = "committed"
  <2>1. m \in Committed' \ Committed /\ m \in Messages /\ m \notin crossed
    BY <1>1, <1>2 DEF Due, Committed
  <2>. QED
    BY <2>1, Committing DEF InFlight
<1>. QED
  BY <1>1, <1>2 DEF Due

\* What t has been sent up to n stays so.
LEMMA CoversStand ==
  ASSUME SendTypes, TabTypes, Started, OverlapInv, [Next]_vars,
         NEW t \in Tabs, NEW n, Covers(t, n), n # NoMessage => n \in Committed
  PROVE  Covers(t, n)'
<1> SUFFICES ASSUME n # NoMessage, NEW m \in Due', m = n \/ CreatedBefore(m, n)'
             PROVE  m \in view'[t] \cup gap'[t]
  BY DEF Covers
<1>1. m = n \/ CreatedBefore(m, n)
  <2>1. CASE UNCHANGED begun
    BY <2>1 DEF CreatedBefore
  <2>2. ASSUME NEW o \in Messages, BeginSend(o)
        PROVE  m = n \/ CreatedBefore(m, n)
    BY <2>2, BeginOrder
  <2>. QED
    BY <2>1, <2>2, Committing
<1>2. m \in Due
  BY <1>1, DueStands DEF OverlapInv
<1>3. m \in view[t] \cup gap[t]
  BY <1>1, <1>2 DEF Covers
<1>. QED
  BY <1>3, Growing DEF Grows

\* What t is going to be sent stays in order.
LEMMA OrderedStand ==
  ASSUME SendTypes, TabTypes, Started, [Next]_vars, NEW t \in Tabs, Ordered(t), Holds(t),
         \A x, y : Precedes(inbox'[t], x, y) => Precedes(inbox[t], x, y)
  PROVE  Ordered(t)'
<1> SUFFICES ASSUME NEW m \in Messages, NEW n \in Messages,
                    Precedes(inbox[t], <<"new", m>>, <<"new", n>>), CreatedBefore(n, m)'
             PROVE  n \in crossed'
  BY DEF Ordered
<1>1. CreatedBefore(n, m)
  <2>1. CASE UNCHANGED begun
    BY <2>1 DEF CreatedBefore
  <2>2. ASSUME NEW o \in Messages, BeginSend(o)
        PROVE  CreatedBefore(n, m)
    <3>1. <<"new", m>> \in Range(inbox[t])
      BY DEF Precedes, Range
    <3>2. m \in Committed
      BY <3>1 DEF Holds, Committed
    <3>. QED
      BY <2>2, <3>2, BeginOrder
  <2>. QED
    BY <2>1, <2>2, Committing
<1>. QED
  BY <1>1, Growing DEF Ordered, Grows

\* After its replay t stays complete, if no message leaves the state "committed".
LEMMA WholeStand ==
  ASSUME SendTypes, TabTypes, Started, [Next]_vars, NEW t \in Tabs, Whole(t),
         at'[t] \in {"presence", "subscribe"} \cup Subscribed =>
           /\ at[t] \in {"presence", "subscribe"} \cup Subscribed
           /\ inbox'[t] = inbox[t] /\ cut'[t] = cut[t]
           /\ \A m \in Messages : sending[m] = "committed" /\ sending'[m] # "committed" =>
                m \in gap'[t]
  PROVE  Whole(t)'
<1> SUFFICES ASSUME at'[t] \in {"presence", "subscribe"} \cup Subscribed,
                    NEW m \in Due', sending'[m] # "committed"
             PROVE  m \in view'[t] \cup gap'[t] \cup cut'[t] \/ <<"new", m>> \in Range(inbox'[t])
  BY DEF Whole
<1>1. m \in Due /\ m \in Messages
  BY DueStands DEF Due, Committed
<1>2. CASE sending[m] = "committed"
  BY <1>1, <1>2
<1>3. CASE sending[m] # "committed"
  <2>1. m \in view[t] \cup gap[t] \cup cut[t] \/ <<"new", m>> \in Range(inbox[t])
    BY <1>1, <1>3 DEF Whole
  <2>. QED
    BY <2>1, Growing DEF Grows
<1>. QED
  BY <1>2, <1>3

Misses(t) == Covers(t, latest[t]) /\ Covers(t, anchor[t]) /\ Ordered(t) /\ Whole(t)

\* Whoever has been sent all that is due is covered up to any message.
LEMMA AllCovered ==
  ASSUME NEW t \in Tabs, Due' \subseteq view'[t] \cup gap'[t]
  PROVE  Covers(t, latest[t])' /\ Covers(t, anchor[t])' /\ Whole(t)'
  BY DEF Covers, Whole

\* The tab keeps its last message, or names it to connect.
LEMMA CoveredStand ==
  ASSUME SendTypes, TabTypes, Started, HoldsInv, MissInv, [Next]_vars, NEW t \in Tabs,
         latest'[t] = latest[t], anchor'[t] \in {anchor[t], latest[t], NoMessage}
  PROVE  Covers(t, latest[t])' /\ Covers(t, anchor[t])'
<1>1. /\ Covers(t, latest[t]) /\ Covers(t, anchor[t]) /\ OverlapInv
      /\ latest[t] \in Committed \cup {NoMessage} /\ anchor[t] \in Committed \cup {NoMessage}
  BY DEF MissInv, HoldsInv, Holds
<1>2. ASSUME NEW n, Covers(t, n), n \in Committed \cup {NoMessage}
      PROVE  Covers(t, n)'
  BY <1>1, <1>2, CoversStand
<1>3. ASSUME NEW n, Covers(t, n)', n = latest'[t]
      PROVE  Covers(t, latest[t])'
  BY <1>3 DEF Covers
<1>4. ASSUME NEW n, Covers(t, n)', n = anchor'[t]
      PROVE  Covers(t, anchor[t])'
  BY <1>4 DEF Covers
<1>5. Covers(t, NoMessage)
  BY DEF Covers
<1>6. \A n : Covers(t, n) /\ n \in Committed \cup {NoMessage} =>
        (n = latest'[t] => Covers(t, latest[t])') /\ (n = anchor'[t] => Covers(t, anchor[t])')
  BY <1>2, <1>3, <1>4
<1>. QED
  BY <1>1, <1>5, <1>6

\* Every step leaves a tab with what is due to it, up to where it has read and after its replay.
LEMMA MissStep ==
  SendTypes /\ TabTypes /\ Started /\ HoldsInv /\ MissInv /\ [Next]_vars => MissInv'
<1> SUFFICES ASSUME SendTypes, TabTypes, Started, HoldsInv, MissInv, [Next]_vars, NEW u \in Tabs
             PROVE  Misses(u)'
  BY OverlapStep DEF MissInv, Misses
<1>0. Misses(u) /\ Holds(u) /\ OverlapInv /\ Grows
  BY Growing DEF MissInv, Misses, HoldsInv
\* Where nothing happens to the tab
<1>a. ASSUME latest'[u] = latest[u], anchor'[u] \in {anchor[u], latest[u], NoMessage},
             inbox'[u] = inbox[u], cut'[u] = cut[u],
             at'[u] \in {"presence", "subscribe"} \cup Subscribed =>
               /\ at[u] \in {"presence", "subscribe"} \cup Subscribed
               /\ \A m \in Messages : sending[m] = "committed" /\ sending'[m] # "committed" => m \in gap'[u]
      PROVE  Misses(u)'
  BY <1>0, <1>a, CoveredStand, OrderedStand, WholeStand DEF Misses
<1>b. ASSUME UNCHANGED <<sending, inbox>>, latest'[u] = latest[u], cut'[u] = cut[u],
             anchor'[u] \in {anchor[u], latest[u], NoMessage},
             at'[u] \in {"presence", "subscribe"} \cup Subscribed =>
               at[u] \in {"presence", "subscribe"} \cup Subscribed
      PROVE  Misses(u)'
  BY <1>a, <1>b
<1>1. ASSUME NEW m \in Messages, \/ FindNone(m) \/ Open(m) \/ BeginSend(m) \/ CommitSend(m) \/ Push(m)
                                 \/ FailPush(m)
      PROVE  Misses(u)'
  <2>1. UNCHANGED tabVars /\ UNCHANGED cut
    BY <1>1 DEF FindNone, Open, BeginSend, CommitSend, Push, FailPush, history
  <2>2. \A n \in Messages : sending[n] = "committed" => sending'[n] = "committed"
    BY <1>1 DEF FindNone, Open, BeginSend, CommitSend, Push, FailPush, SendTypes
  <2>. QED
    BY <1>a, <2>1, <2>2 DEF tabVars
<1>2. ASSUME NEW m \in Messages, FailSend(m)
      PROVE  Misses(u)'
  <2>1. UNCHANGED tabVars /\ UNCHANGED cut /\ \A n \in Messages \ {m} : sending'[n] = sending[n]
    BY <1>2 DEF FailSend, SendTypes
  <2>2. sending[m] = "committed" /\ at[u] \in {"presence", "subscribe"} \cup Subscribed => m \in gap'[u]
    BY <1>2 DEF FailSend, TabTypes
  <2>. QED
    BY <1>a, <2>1, <2>2 DEF tabVars
<1>3. ASSUME NEW m \in Messages, DeleteMessage(m)
      PROVE  Misses(u)'
  BY <1>b, <1>3 DEF DeleteMessage, sendVars, tabVars
<1>4. ASSUME NEW m \in Messages, Publish(m)
      PROVE  Misses(u)'
  <2>1. /\ Deliver(<<"new", m>>) /\ <<"new", m>> \in Events /\ sending[m] = "committed"
        /\ UNCHANGED <<begun, at, anchor, latest, crossed, cut>>
        /\ \A n \in Messages \ {m} : sending'[n] = sending[n]
    BY <1>4 DEF Publish, Events, SendTypes
  <2>2. CASE at[u] \notin Subscribed /\ inbox'[u] = inbox[u]
    <3>1. at[u] \in {"presence", "subscribe"} => m \in gap'[u]
      BY <1>4 DEF Publish, TabTypes
    <3>. QED
      BY <1>a, <2>1, <2>2, <3>1
  <2>3. CASE /\ Range(inbox'[u]) = Range(inbox[u]) \cup {<<"new", m>>}
             /\ \A x, y : Precedes(inbox'[u], x, y) <=>
                            Precedes(inbox[u], x, y) \/ (x \in Range(inbox[u]) /\ y = <<"new", m>>)
    <3>1. \A n \in Messages : <<"new", n>> = <<"new", m>> => n = m
      OBVIOUS
    <3>2. m \in InFlight /\ \A x, y : CreatedBefore(x, y)' <=> CreatedBefore(x, y)
      BY <2>1 DEF InFlight, CreatedBefore
    <3>3. Ordered(u)'
      <4> SUFFICES ASSUME NEW o \in Messages, NEW n \in Messages, CreatedBefore(n, o),
                          Precedes(inbox'[u], <<"new", o>>, <<"new", n>>)
                   PROVE  n \in crossed
        BY <2>1, <3>2 DEF Ordered
      <4>1. CASE n = m
        BY <1>0, <3>2, <4>1 DEF OverlapInv
      <4>2. CASE n # m
        <5>1. <<"new", n>> # <<"new", m>>
          BY <3>1, <4>2
        <5>2. Precedes(inbox[u], <<"new", o>>, <<"new", n>>)
          BY <2>3, <5>1
        <5>. QED
          BY <1>0, <5>2 DEF Misses, Ordered
      <4>. QED
        BY <4>1, <4>2
    <3>4. Whole(u)'
      <4> SUFFICES ASSUME at[u] \in {"presence", "subscribe"} \cup Subscribed, NEW n \in Due',
                          sending'[n] # "committed", n # m
                   PROVE  n \in view'[u] \cup gap'[u] \cup cut'[u] \/ <<"new", n>> \in Range(inbox'[u])
        BY <2>1, <2>3 DEF Whole
      <4>1. n \in Due /\ n \in Messages
        BY DueStands DEF Due, Committed
      <4>2. n \in view[u] \cup gap[u] \cup cut[u] \/ <<"new", n>> \in Range(inbox[u])
        BY <1>0, <2>1, <4>1 DEF Misses, Whole
      <4>. QED
        BY <1>0, <2>1, <2>3, <4>2 DEF Grows
    <3>. QED
      BY <2>1, <3>3, <3>4, CoveredStand DEF Misses
  <2>. QED
    BY <2>1, <2>2, <2>3, Delivering
<1>5. ASSUME NEW m \in Messages, PublishDeletion(m)
      PROVE  Misses(u)'
  <2>1. /\ Deliver(<<"deleted", m>>) /\ <<"deleted", m>> \in Events
        /\ UNCHANGED <<begun, at, anchor, latest, sending, cut>>
    BY <1>5 DEF PublishDeletion, Events, sendVars
  <2>2. CASE inbox'[u] = inbox[u]
    BY <1>a, <2>1, <2>2
  <2>3. CASE /\ Range(inbox'[u]) = Range(inbox[u]) \cup {<<"deleted", m>>}
             /\ \A x, y : Precedes(inbox'[u], x, y) <=>
                            Precedes(inbox[u], x, y) \/ (x \in Range(inbox[u]) /\ y = <<"deleted", m>>)
    <3>1. \A n \in Messages : <<"new", n>> # <<"deleted", m>>
      OBVIOUS
    <3>2. \A x, y : CreatedBefore(x, y)' <=> CreatedBefore(x, y)
      BY <2>1 DEF CreatedBefore
    <3>3. Ordered(u)'
      BY <1>0, <2>3, <3>1, <3>2 DEF Misses, Ordered, Grows
    <3>4. Whole(u)'
      <4> SUFFICES ASSUME at[u] \in {"presence", "subscribe"} \cup Subscribed, NEW n \in Due',
                          sending[n] # "committed"
                   PROVE  n \in view'[u] \cup gap'[u] \cup cut'[u] \/ <<"new", n>> \in Range(inbox'[u])
        BY <2>1 DEF Whole
      <4>1. n \in Due
        BY <2>1, DueStands
      <4>2. n \in view[u] \cup gap[u] \cup cut[u] \/ <<"new", n>> \in Range(inbox[u])
        BY <1>0, <4>1 DEF Misses, Whole
      <4>. QED
        BY <1>0, <2>1, <2>3, <4>2 DEF Grows
    <3>. QED
      BY <2>1, <3>3, <3>4, CoveredStand DEF Misses
  <2>. QED
    BY <2>1, <2>2, <2>3, Delivering
\* The tabs
<1>c. ASSUME NEW t \in Tabs, NEW place, Goto(t, place),
             place \in {"presence", "subscribe"} \cup Subscribed =>
               at[t] \in {"presence", "subscribe"} \cup Subscribed
      PROVE  at'[u] \in {"presence", "subscribe"} \cup Subscribed =>
               at[u] \in {"presence", "subscribe"} \cup Subscribed
  BY <1>c DEF Goto, TabTypes
<1>6. ASSUME NEW t \in Tabs, BeginList(t) \/ MarkListed(t) \/ MarkOpened(t) \/ SetPresence(t)
                             \/ Subscribe(t) \/ MarkForwarded(t) \/ FailMark(t) \/ DeletePresence(t)
      PROVE  Misses(u)'
  <2>1. PICK place : /\ Goto(t, place)
                     /\ place \in {"presence", "subscribe"} \cup Subscribed =>
                          at[t] \in {"presence", "subscribe"} \cup Subscribed
    BY <1>6 DEF BeginList, MarkListed, MarkOpened, SetPresence, Subscribe, MarkForwarded, FailMark,
                DeletePresence, BeginReading, Subscribed
  <2>2. UNCHANGED <<sending, latest, anchor, inbox, cut>>
    BY <1>6 DEF BeginList, MarkListed, MarkOpened, SetPresence, Subscribe, MarkForwarded, FailMark,
                DeletePresence, MarkRead, sendVars, history
  <2>. QED
    BY <1>b, <1>c, <2>1, <2>2
<1>7. ASSUME NEW t \in Tabs, Connect(t)
      PROVE  Misses(u)'
  <2>1. UNCHANGED <<sending, latest, inbox, cut>> /\ anchor'[u] \in {anchor[u], latest[u]}
    BY <1>7 DEF Connect, sendVars, history, TabTypes
  <2>2. at'[u] \in {"presence", "subscribe"} \cup Subscribed =>
          at[u] \in {"presence", "subscribe"} \cup Subscribed
    BY <1>7, <1>c DEF Connect, BeginReading, Subscribed
  <2>. QED
    BY <1>b, <2>1, <2>2
<1>8. ASSUME NEW t \in Tabs, List(t)
      PROVE  Misses(u)'
  <2> DEFINE page == LastOf(Committed, PageLimit)
  <2>1. UNCHANGED <<sendVars, inbox, anchor, crossed, deletion>> /\ Goto(t, "off")
    BY <1>8 DEF List
  <2>2. /\ view' = [view EXCEPT ![t] = @ \cup page]
        /\ \E n : latest' = [latest EXCEPT ![t] = n]
        /\ gap' = [gap EXCEPT ![t] = @ \cup cut[t] \cup (Committed \ page)]
        /\ cut' = [cut EXCEPT ![t] = {}]
    BY <1>8 DEF List, Receive, PassOver
  <2> HIDE DEF page
  <2>3. CASE u # t
    <3>1. latest'[u] = latest[u] /\ at'[u] = at[u] /\ cut'[u] = cut[u]
      BY <2>1, <2>2, <2>3 DEF Goto, TabTypes
    <3>. QED
      BY <1>b, <2>1, <3>1 DEF sendVars
  <2>4. CASE u = t
    <3>1. page \subseteq view'[u] /\ Committed \ page \subseteq gap'[u]
      BY <2>2, <2>4 DEF TabTypes
    <3>2. Due' \subseteq Committed
      BY <2>1 DEF Due, Committed, Deleted, sendVars
    <3>3. Ordered(u)'
      BY <1>0, <2>1, OrderedStand DEF Misses
    <3>. QED
      BY <3>1, <3>2, <3>3, AllCovered DEF Misses
  <2>. QED
    BY <2>3, <2>4
<1>9. ASSUME NEW t \in Tabs, Replay(t)
      PROVE  Misses(u)'
  <2> DEFINE missed == MessagesAfter(anchor[t])
  <2> DEFINE replayed == FirstOf(missed, ReplayLimit)
  <2>1. /\ UNCHANGED <<sendVars, inbox, crossed, deletion>> /\ Goto(t, "presence")
        /\ anchor' = [anchor EXCEPT ![t] = NoMessage]
    BY <1>9 DEF Replay
  <2>2. \/ /\ anchor[t] = NoMessage
           /\ gap' = [gap EXCEPT ![t] = @ \cup {m \in Committed : sending[m] # "committed"}]
           /\ UNCHANGED <<view, latest, cut>>
        \/ /\ anchor[t] # NoMessage
           /\ view' = [view EXCEPT ![t] = @ \cup replayed]
           /\ latest' = [latest EXCEPT ![t] = IF replayed = {} THEN latest[t] ELSE Newest(replayed)]
           /\ cut' = [cut EXCEPT ![t] = missed \ replayed]
           /\ UNCHANGED gap
    BY <1>9 DEF Replay, Receive
  <2>3. /\ missed \subseteq Committed /\ replayed \subseteq missed
        /\ \A m \in Due : CreatedBefore(anchor[t], m) => m \in missed
    BY Picking DEF MessagesAfter, Due
  <2>4. \A m \in replayed, n \in missed \ replayed : CreatedBefore(m, n)
    BY <2>3, FirstComeFirst, ChatAssumption
  <2> HIDE DEF missed, replayed
  <2>5. CASE u # t
    <3>1. latest'[u] = latest[u] /\ at'[u] = at[u] /\ anchor'[u] = anchor[u] /\ cut'[u] = cut[u]
      BY <2>1, <2>2, <2>5 DEF Goto, TabTypes
    <3>. QED
      BY <1>b, <2>1, <3>1 DEF sendVars
  <2>6. CASE u = t
    <3>1. Ordered(u)' /\ Due' = Due /\ anchor'[u] = NoMessage
      BY <1>0, <2>1, <2>6, OrderedStand DEF Misses, Due, Committed, Deleted, sendVars, TabTypes
    <3>2. CASE anchor[u] = NoMessage
      <4>1. UNCHANGED latest /\ gap'[u] = gap[u] \cup {m \in Committed : sending[m] # "committed"}
        BY <2>2, <2>6, <3>2 DEF TabTypes
      <4>2. Covers(u, latest[u])' /\ Covers(u, anchor[u])'
        BY <3>1, <4>1, CoveredStand
      <4>3. Whole(u)'
        BY <2>1, <3>1, <4>1 DEF Whole, Due, sendVars
      <4>. QED
        BY <3>1, <4>2, <4>3 DEF Misses
    <3>3. CASE anchor[u] # NoMessage
      <4>1. /\ view'[u] = view[u] \cup replayed /\ cut'[u] = missed \ replayed /\ UNCHANGED gap
            /\ latest'[u] = IF replayed = {} THEN latest[u] ELSE Newest(replayed)
        BY <2>2, <2>6, <3>3 DEF TabTypes
      \* What is due is on one side of the anchor or the other.
      <4>2. \A m \in Due : m \in view[u] \cup gap[u] \/ m \in missed
        <5> SUFFICES ASSUME NEW m \in Due PROVE m \in view[u] \cup gap[u] \/ m \in missed
          OBVIOUS
        <5>1. m \in Range(begun) /\ anchor[u] \in Range(begun)
          BY <1>0, <3>3 DEF Due, Started, Holds
        <5>2. m = anchor[u] \/ CreatedBefore(m, anchor[u]) \/ CreatedBefore(anchor[u], m)
          BY <5>1, CreatedIs, Ordering DEF SendTypes, Started
        <5>3. CASE m = anchor[u] \/ CreatedBefore(m, anchor[u])
          BY <1>0, <3>3, <5>3 DEF Misses, Covers
        <5>4. CASE CreatedBefore(anchor[u], m)
          BY <2>3, <2>6, <5>4
        <5>. QED
          BY <5>2, <5>3, <5>4
      <4>3. Whole(u)'
        BY <3>1, <4>1, <4>2 DEF Whole
      <4>4. CASE replayed = {}
        BY <3>1, <4>1, <4>3, <4>4, CoveredStand DEF Misses
      <4>5. CASE replayed # {}
        <5> DEFINE n == Newest(replayed)
        <5>1. n \in replayed
          BY <2>3, <4>5, NewestLast
        <5> HIDE DEF n
        <5>2. \A m : ~(CreatedBefore(m, n) /\ CreatedBefore(n, m)) /\ ~CreatedBefore(n, n)
          BY CreatedIs, Ordering DEF SendTypes, Started
        <5>3. \A m \in Due : m = n \/ CreatedBefore(m, n) => m \in view'[u] \cup gap[u]
          BY <2>4, <4>1, <4>2, <5>1, <5>2
        <5>4. latest'[u] = n /\ \A x, y : CreatedBefore(x, y)' <=> CreatedBefore(x, y)
          BY <2>1, <4>1, <4>5 DEF CreatedBefore, sendVars, n
        <5>5. Covers(u, latest[u])' /\ Covers(u, anchor[u])'
          BY <3>1, <4>1, <5>3, <5>4 DEF Covers
        <5>. QED
          BY <3>1, <4>3, <5>5 DEF Misses
      <4>. QED
        BY <4>4, <4>5
    <3>. QED
      BY <3>2, <3>3
  <2>. QED
    BY <2>5, <2>6
<1>10. ASSUME NEW t \in Tabs, Forward(t)
       PROVE  Misses(u)'
  <2>1. /\ UNCHANGED <<sending, begun, deletion, crossed, anchor>>
        /\ \A v \in Tabs \ {t} : inbox'[v] = inbox[v]
        /\ Range(inbox[t]) = {Head(inbox[t])} \cup Range(inbox'[t])
        /\ \A x, y : Precedes(inbox'[t], x, y) => Precedes(inbox[t], x, y)
        /\ \A y \in Range(inbox'[t]) : Precedes(inbox[t], Head(inbox[t]), y)
        /\ Head(inbox[t]) \in Events
    BY <1>10, Forwarding DEF Forward, sendVars
  <2>2. at[t] = "open" /\ (UNCHANGED at \/ Goto(t, "marking"))
    BY <1>10 DEF Forward, BeginReading
  <2>3. CASE u # t
    <3>1. latest'[u] = latest[u] /\ at'[u] = at[u] /\ cut'[u] = cut[u]
      BY <1>10, <2>2, <2>3 DEF Forward, Receive, PassOver, Goto, TabTypes
    <3>. QED
      BY <1>a, <2>1, <2>3, <3>1
  <2>4. CASE u = t
    <3>1. Ordered(u)' /\ Due' = Due /\ Whole(u) /\ at[u] \in Subscribed
      BY <1>0, <2>1, <2>2, <2>4, OrderedStand DEF Misses, Due, Committed, Deleted, Subscribed
    <3>2. \A x, y : CreatedBefore(x, y)' <=> CreatedBefore(x, y)
      BY <2>1 DEF CreatedBefore
    <3>3. PICK kind \in {"new", "deleted"}, n \in Messages : Head(inbox[u]) = <<kind, n>>
      BY <2>1, <2>4 DEF Events
    <3>4. Head(inbox[u])[1] = kind /\ Head(inbox[u])[2] = n
      BY <3>3
    <3>5. CASE kind = "new"
      <4>1. /\ view'[u] = view[u] \cup {n} /\ latest'[u] = n
            /\ gap'[u] = gap[u] \cup cut[u] /\ cut'[u] = {}
        <5>1. Receive(u, {n}, n) /\ PassOver(u, {})
          BY <1>10, <2>4, <3>4, <3>5 DEF Forward
        <5>. QED
          BY <5>1 DEF Receive, PassOver, TabTypes
      <4>2. \A m \in Messages : <<"new", m>> \in Range(inbox[u]) => m = n \/ <<"new", m>> \in Range(inbox'[u])
        BY <2>1, <2>4, <3>3
      <4>3. \A m \in Due : sending[m] # "committed" =>
              m \in view'[u] \cup gap'[u] \/ <<"new", m>> \in Range(inbox'[u])
        BY <3>1, <4>1, <4>2 DEF Whole, Due, Committed
      <4>4. Whole(u)'
        BY <2>1, <3>1, <4>3 DEF Whole
      <4>5. ASSUME NEW m \in Due, m = n \/ CreatedBefore(m, n)
            PROVE  m \in view'[u] \cup gap'[u]
        <5>1. CASE m = n
          BY <4>1, <5>1
        <5>2. CASE CreatedBefore(m, n)
          <6>1. sending[m] # "committed" /\ m \in Messages /\ m \notin crossed
            BY <1>0, <5>2 DEF OverlapInv, InFlight, Due, Committed
          <6>2. <<"new", m>> \notin Range(inbox'[u])
            BY <1>0, <2>1, <2>4, <3>3, <3>5, <5>2, <6>1 DEF Misses, Ordered
          <6>. QED
            BY <4>3, <6>1, <6>2
        <5>. QED
          BY <4>5, <5>1, <5>2
      <4>6. Covers(u, latest[u])'
        BY <2>1, <3>1, <3>2, <4>1, <4>5 DEF Covers
      <4>7. Covers(u, anchor[u])'
        <5>1. Covers(u, anchor[u]) /\ anchor[u] \in Committed \cup {NoMessage}
          BY <1>0 DEF Misses, Holds
        <5>2. view[u] \subseteq view'[u] /\ gap[u] \subseteq gap'[u]
          BY <4>1
        <5>. QED
          BY <2>1, <3>1, <3>2, <5>1, <5>2 DEF Covers
      <4>. QED
        BY <3>1, <4>4, <4>6, <4>7 DEF Misses
    <3>6. CASE kind = "deleted"
      <4>1. UNCHANGED <<view, latest, at, gap, cut>>
        BY <1>10, <2>4, <3>4, <3>6 DEF Forward
      <4>2. \A m \in Messages : <<"new", m>> # <<kind, n>>
        BY <3>6
      <4>3. \A m \in Messages : <<"new", m>> \in Range(inbox[u]) => <<"new", m>> \in Range(inbox'[u])
        BY <2>1, <2>4, <3>3, <4>2
      <4>4. Whole(u)'
        BY <2>1, <3>1, <4>1, <4>3 DEF Whole, Due, Committed
      <4>. QED
        BY <2>1, <3>1, <4>1, <4>4, CoveredStand DEF Misses
    <3>. QED
      BY <3>5, <3>6
  <2>. QED
    BY <2>3, <2>4
<1>11. ASSUME NEW t \in Tabs, Refresh(t) \/ FailRefresh(t)
       PROVE  Misses(u)'
  BY <1>b, <1>11 DEF Refresh, FailRefresh, sendVars, tabVars, history
<1>12. ASSUME NEW t \in Tabs, FailForward(t) \/ Disconnect(t) \/ Crash(t)
       PROVE  Misses(u)'
  <2>1. PICK place \in {"deaf", "closing", "off"} : Drop(t) /\ Goto(t, place)
    BY <1>12 DEF FailForward, Disconnect, Crash
  <2>2. UNCHANGED <<sending, latest, cut>>
    BY <2>1 DEF Drop, sendVars
  <2>3. CASE u # t
    <3>1. inbox'[u] = inbox[u] /\ anchor'[u] = anchor[u] /\ at'[u] = at[u]
      BY <2>1, <2>3 DEF Drop, Goto, TabTypes
    <3>. QED
      BY <1>a, <2>2, <3>1
  <2>4. CASE u = t
    <3>1. inbox'[u] = <<>> /\ anchor'[u] = NoMessage /\ at'[u] \in {"deaf", "closing", "off"}
      BY <2>1, <2>4 DEF Drop, Goto, TabTypes
    <3>2. \A x, y : ~Precedes(<<>>, x, y)
      BY DEF Precedes
    <3>3. Ordered(u)' /\ Whole(u)'
      BY <3>1, <3>2 DEF Ordered, Whole, Subscribed
    <3>. QED
      BY <2>2, <3>1, <3>3, CoveredStand DEF Misses
  <2>. QED
    BY <2>3, <2>4
<1>13. CASE ExpirePresence \/ UNCHANGED vars
  BY <1>b, <1>13 DEF ExpirePresence, vars, sendVars, tabVars, history
<1>. QED
  BY <1>1, <1>2, <1>3, <1>4, <1>5, <1>6, <1>7, <1>8, <1>9, <1>10, <1>11, <1>12, <1>13 DEF Next

-----------------------------------------------------------------------------
(* Pushes                                                                  *)

Reached(m) == \E t \in Tabs : m \in view[t] \cup gap[t] \cup cut[t]

\* What was published to nobody is in no subscription, and has reached a tab by the time the
\* recipient is online again, or a refresh task runs that can put it online.
PushInv ==
  /\ \A m \in unwatched : sending[m] \in {"published", "sent"}
  /\ \A t \in Tabs : \A m \in unwatched : <<"new", m>> \notin Range(inbox[t])
  /\ presence \/ refreshing # {} => \A m \in unwatched \ (crossed \cup Deleted) : Reached(m)
  /\ PushedOrReplayed

\* Only a replay changes what the limit cut off, or going past it.
LEMMA Cutting ==
  ASSUME [Next]_vars
  PROVE  UNCHANGED cut \/ \E t \in Tabs : Replay(t) \/ \E S : PassOver(t, S)
<1>1. ASSUME NEW m \in Messages, \/ FindNone(m) \/ Open(m) \/ BeginSend(m) \/ CommitSend(m) \/ Publish(m)
                                 \/ Push(m) \/ FailPush(m) \/ FailSend(m) \/ DeleteMessage(m)
                                 \/ PublishDeletion(m)
      PROVE  UNCHANGED cut
  BY <1>1 DEF FindNone, Open, BeginSend, CommitSend, Publish, Push, FailPush, FailSend,
              DeleteMessage, PublishDeletion, history
<1>2. ASSUME NEW t \in Tabs, List(t) \/ Forward(t)
      PROVE  UNCHANGED cut \/ \E S : PassOver(t, S)
  BY <1>2 DEF List, Forward
<1>3. ASSUME NEW t \in Tabs,
             \/ BeginList(t) \/ MarkListed(t) \/ Connect(t) \/ MarkOpened(t) \/ SetPresence(t)
             \/ Subscribe(t) \/ MarkForwarded(t) \/ FailMark(t) \/ Refresh(t) \/ FailRefresh(t)
             \/ FailForward(t) \/ Disconnect(t) \/ DeletePresence(t) \/ Crash(t)
      PROVE  UNCHANGED cut
  BY <1>3 DEF BeginList, MarkListed, Connect, MarkOpened, SetPresence, Subscribe, MarkForwarded,
              FailMark, Refresh, FailRefresh, FailForward, Disconnect, DeletePresence, Crash,
              MarkRead, Drop, history
<1>4. CASE ExpirePresence \/ UNCHANGED vars
  BY <1>4 DEF ExpirePresence, vars, history
<1>. QED
  BY <1>1, <1>2, <1>3, <1>4 DEF Next

\* What has reached a tab, if it is due, stays so: what the limit of a replay cut off is in
\* the next one, or cut off again, or passed over.
LEMMA ReachedStands ==
  ASSUME SendTypes, TabTypes, Started, HoldsInv, MissInv, [Next]_vars, NEW m \in Due, Reached(m)
  PROVE  Reached(m)'
<1>1. PICK t \in Tabs : m \in view[t] \cup gap[t] \cup cut[t]
  BY DEF Reached
<1>2. CASE m \in view[t] \cup gap[t]
  BY <1>2, Growing DEF Grows, Reached
<1>3. CASE m \in cut[t] /\ cut'[t] = cut[t]
  BY <1>3 DEF Reached
<1>4. ASSUME m \in cut[t], NEW u \in Tabs, NEW S, PassOver(u, S)
      PROVE  Reached(m)'
  <2>1. m \in gap'[t] \cup cut'[t]
    BY <1>4 DEF PassOver, TabTypes
  <2>. QED
    BY <2>1 DEF Reached
<1>5. CASE Replay(t)
  <2> DEFINE missed == MessagesAfter(anchor[t])
  <2> DEFINE replayed == FirstOf(missed, ReplayLimit)
  <2>1. \/ UNCHANGED <<view, cut>>
        \/ /\ anchor[t] # NoMessage
           /\ view' = [view EXCEPT ![t] = @ \cup replayed]
           /\ cut' = [cut EXCEPT ![t] = missed \ replayed]
    BY <1>5 DEF Replay, Receive
  <2>2. CreatedBefore(anchor[t], m) => m \in missed
    BY DEF MessagesAfter, Due
  <2> HIDE DEF missed, replayed
  <2>3. CASE UNCHANGED cut
    BY <1>2, <1>1, <1>3, <2>3
  <2>4. CASE /\ anchor[t] # NoMessage /\ CreatedBefore(anchor[t], m)
             /\ view' = [view EXCEPT ![t] = @ \cup replayed]
             /\ cut' = [cut EXCEPT ![t] = missed \ replayed]
    <3>1. m \in view'[t] \cup cut'[t]
      BY <2>2, <2>4 DEF TabTypes
    <3>. QED
      BY <3>1 DEF Reached
  <2>5. CASE anchor[t] # NoMessage /\ ~CreatedBefore(anchor[t], m)
    <3>1. m \in Range(begun) /\ anchor[t] \in Range(begun)
      BY <2>5 DEF Due, Started, HoldsInv, Holds
    <3>2. m = anchor[t] \/ CreatedBefore(m, anchor[t])
      BY <2>5, <3>1, CreatedIs, Ordering DEF SendTypes, Started
    <3>3. m \in view[t] \cup gap[t]
      BY <2>5, <3>2 DEF MissInv, Covers
    <3>. QED
      BY <1>2, <3>3
  <2>. QED
    BY <2>1, <2>3, <2>4, <2>5
<1>6. ASSUME NEW u \in Tabs, Replay(u), u # t
      PROVE  cut'[t] = cut[t]
  <2>1. UNCHANGED cut \/ \E S : cut' = [cut EXCEPT ![u] = S]
    BY <1>6 DEF Replay
  <2>. QED
    BY <1>6, <2>1 DEF TabTypes
<1>. QED
  BY <1>1, <1>2, <1>3, <1>4, <1>5, <1>6, Cutting

\* Every step leaves a message that was published to nobody pushed, or replayed to some tab.
LEMMA PushStep ==
  SendTypes /\ TabTypes /\ RefreshTypes /\ Started /\ HoldsInv /\ MissInv /\ PushInv /\ [Next]_vars => PushInv'
<1> SUFFICES ASSUME SendTypes, TabTypes, RefreshTypes, Started, HoldsInv, MissInv, PushInv, [Next]_vars
             PROVE  PushInv'
  OBVIOUS
<1>0. /\ unwatched \subseteq Messages /\ crossed \subseteq crossed' /\ Deleted \subseteq Deleted'
      /\ \A m \in Messages : sending[m] \in {"published", "sent"} => sending'[m] \in {"published", "sent"}
      /\ \A m \in unwatched \ (crossed \cup Deleted) : Reached(m) => Reached(m)'
  <2>1. unwatched \ (crossed \cup Deleted) \subseteq Due
    BY DEF PushInv, Due, Committed, SendTypes
  <2>. QED
    BY <2>1, Growing, ReachedStands DEF Grows, SendTypes
<1>a. ASSUME UNCHANGED <<unwatched, pushed, unqueued>>,
             \A m \in Messages : sending'[m] = "sent" => sending[m] = "sent",
             \A t \in Tabs : Range(inbox'[t]) \subseteq Range(inbox[t]),
             presence' \/ refreshing' # {} =>
               \/ presence \/ refreshing # {}
               \/ \A m \in unwatched \ (crossed \cup Deleted) : Reached(m)
      PROVE  PushInv'
  <2>1. PushedOrReplayed'
    BY <1>0, <1>a DEF PushInv, PushedOrReplayed, Reached
  <2>. QED
    BY <1>0, <1>a, <2>1 DEF PushInv
<1>1. ASSUME NEW m \in Messages, FindNone(m) \/ Open(m) \/ BeginSend(m) \/ CommitSend(m) \/ FailSend(m)
      PROVE  PushInv'
  <2>1. UNCHANGED <<unwatched, pushed, unqueued, inbox, presence, refreshing>>
    BY <1>1 DEF FindNone, Open, BeginSend, CommitSend, FailSend, tabVars, history
  <2>2. \A n \in Messages : sending'[n] = "sent" => sending[n] = "sent"
    BY <1>1 DEF FindNone, Open, BeginSend, CommitSend, FailSend, SendTypes
  <2>. QED
    BY <1>a, <2>1, <2>2
<1>2. ASSUME NEW m \in Messages, Publish(m)
      PROVE  PushInv'
  <2>1. /\ Deliver(<<"new", m>>) /\ <<"new", m>> \in Events /\ sending[m] = "committed"
        /\ sending'[m] = "published" /\ \A n \in Messages \ {m} : sending'[n] = sending[n]
        /\ UNCHANGED <<pushed, unqueued, presence, refreshing, at, view, crossed, deletion>>
        /\ unwatched' = IF presence \/ \E t \in Tabs : at[t] \in Session
                          THEN unwatched ELSE unwatched \cup {m}
    BY <1>2 DEF Publish, Events, SendTypes
  <2>2. m \notin unwatched
    BY <2>1 DEF PushInv
  <2>3. \A n \in unwatched' : sending'[n] \in {"published", "sent"}
    BY <1>0, <2>1, <2>2 DEF PushInv
  <2>4. ASSUME NEW t \in Tabs, NEW n \in unwatched'
        PROVE  <<"new", n>> \notin Range(inbox'[t])
    <3>1. \A o \in Messages : <<"new", o>> = <<"new", m>> => o = m
      OBVIOUS
    <3>2. CASE n \in unwatched
      BY <1>0, <2>1, <2>2, <3>1, <3>2, Delivering DEF PushInv
    <3>3. CASE n = m /\ at[t] \notin Session
      <4>1. inbox'[t] = inbox[t]
        BY <2>1, <3>3, Delivering DEF Session, Subscribed
      <4>2. <<"new", m>> \notin Range(inbox[t])
        BY <2>1 DEF HoldsInv, Holds
      <4>. QED
        BY <3>3, <4>1, <4>2
    <3>. QED
      BY <2>1, <3>2, <3>3
  <2>5. presence \/ refreshing # {} => unwatched' = unwatched
    BY <2>1 DEF RefreshTypes, Looping, Subscribed, Session
  <2>6. PushedOrReplayed'
    <3> SUFFICES ASSUME NEW n \in unwatched' \ (crossed' \cup Deleted' \cup unqueued'), sending'[n] = "sent"
                 PROVE  n \in pushed' \/ Reached(n)'
      BY DEF PushedOrReplayed, Reached
    <3>1. n \in unwatched /\ n # m
      BY <2>1
    <3>2. n \in pushed \/ Reached(n)
      BY <1>0, <2>1, <3>1 DEF PushInv, PushedOrReplayed, Reached
    <3>. QED
      BY <1>0, <2>1, <3>2
  <2>. QED
    BY <1>0, <2>1, <2>3, <2>4, <2>5, <2>6 DEF PushInv
<1>3. ASSUME NEW m \in Messages, Push(m) \/ FailPush(m)
      PROVE  PushInv'
  <2>1. /\ UNCHANGED <<unwatched, inbox, presence, refreshing, view, gap, cut, crossed, deletion>>
        /\ \A n \in Messages \ {m} : sending'[n] = sending[n]
        /\ pushed \subseteq pushed' /\ unqueued \subseteq unqueued'
        /\ presence \/ m \in pushed' \cup unqueued'
    BY <1>3 DEF Push, FailPush, SendTypes, tabVars, history
  <2>2. PushedOrReplayed'
    <3> SUFFICES ASSUME NEW n \in unwatched \ (crossed \cup Deleted \cup unqueued'), sending'[n] = "sent"
                 PROVE  n \in pushed' \/ Reached(n)
      BY <2>1 DEF PushedOrReplayed, Reached, Deleted
    <3>1. CASE n = m
      BY <2>1, <3>1 DEF PushInv
    <3>2. CASE n # m
      BY <1>0, <2>1, <3>2 DEF PushInv, PushedOrReplayed, Reached
    <3>. QED
      BY <3>1, <3>2
  <2>. QED
    BY <1>0, <2>1, <2>2 DEF PushInv
<1>4. ASSUME NEW m \in Messages, DeleteMessage(m)
      PROVE  PushInv'
  BY <1>a, <1>4 DEF DeleteMessage, sendVars, tabVars
<1>5. ASSUME NEW m \in Messages, PublishDeletion(m)
      PROVE  PushInv'
  <2>1. /\ Deliver(<<"deleted", m>>) /\ <<"deleted", m>> \in Events
        /\ UNCHANGED <<sending, pushed, unqueued, presence, refreshing, unwatched, crossed>>
    BY <1>5 DEF PublishDeletion, Events, sendVars
  <2>2. \A t \in Tabs : Range(inbox'[t]) \subseteq Range(inbox[t]) \cup {<<"deleted", m>>}
    BY <2>1, Delivering
  <2>3. \A n \in Messages : <<"new", n>> # <<"deleted", m>>
    OBVIOUS
  <2>4. \A t \in Tabs : \A n \in unwatched : <<"new", n>> \notin Range(inbox'[t])
    BY <1>0, <2>2, <2>3 DEF PushInv
  <2>5. PushedOrReplayed'
    <3> SUFFICES ASSUME NEW n \in unwatched \ (crossed \cup Deleted' \cup unqueued), sending[n] = "sent"
                 PROVE  n \in pushed \/ Reached(n)'
      BY <2>1 DEF PushedOrReplayed, Reached
    <3>1. n \in pushed \/ Reached(n)
      BY <1>0 DEF PushInv, PushedOrReplayed, Reached
    <3>. QED
      BY <1>0, <3>1
  <2>. QED
    BY <1>0, <2>1, <2>4, <2>5 DEF PushInv
\* A tab past its replay has been sent what was published to nobody.
<1>b. ASSUME NEW t \in Tabs, at[t] \in {"presence", "subscribe"} \cup Subscribed
      PROVE  \A m \in unwatched \ (crossed \cup Deleted) : Reached(m)
  <2> SUFFICES ASSUME NEW m \in unwatched \ (crossed \cup Deleted) PROVE Reached(m)
    OBVIOUS
  <2>1. m \in Due /\ sending[m] # "committed" /\ <<"new", m>> \notin Range(inbox[t])
    BY <1>0 DEF PushInv, Due, Committed
  <2>. QED
    BY <1>b, <2>1 DEF MissInv, Whole, Reached
<1>6. ASSUME NEW t \in Tabs, SetPresence(t) \/ Subscribe(t)
      PROVE  PushInv'
  BY <1>a, <1>b, <1>6 DEF SetPresence, Subscribe, sendVars, history
<1>c. ASSUME NEW t \in Tabs, Refresh(t) \/ FailRefresh(t)
      PROVE  PushInv'
  <2>1. refreshing # {} /\ UNCHANGED <<inbox, unwatched, unqueued, sendVars>>
    BY <1>c DEF Refresh, FailRefresh, tabVars, history
  <2>. QED
    BY <1>a, <2>1 DEF sendVars
<1>7. ASSUME NEW t \in Tabs, \/ BeginList(t) \/ Connect(t) \/ MarkListed(t) \/ List(t) \/ MarkOpened(t)
                             \/ Replay(t) \/ MarkForwarded(t) \/ FailMark(t) \/ DeletePresence(t)
      PROVE  PushInv'
  <2>1. UNCHANGED <<inbox, unwatched, unqueued, sendVars, refreshing>> /\ (presence' => presence)
    BY <1>7 DEF BeginList, Connect, MarkListed, List, MarkOpened, Replay, MarkForwarded,
                FailMark, DeletePresence, MarkRead, history
  <2>. QED
    BY <1>a, <2>1 DEF sendVars
<1>8. ASSUME NEW t \in Tabs, Forward(t)
      PROVE  PushInv'
  <2>1. \A u \in Tabs : Range(inbox'[u]) \subseteq Range(inbox[u])
    BY <1>8, Forwarding
  <2>2. UNCHANGED <<sending, pushed, unwatched, unqueued, presence, refreshing>>
    BY <1>8 DEF Forward, sendVars
  <2>. QED
    BY <1>a, <2>1, <2>2
<1>9. ASSUME NEW t \in Tabs, FailForward(t) \/ Disconnect(t) \/ Crash(t)
      PROVE  PushInv'
  <2>1. Drop(t) /\ refreshing' \subseteq refreshing
    BY <1>9 DEF FailForward, Disconnect, Crash
  <2>2. \A u \in Tabs : Range(inbox'[u]) \subseteq Range(inbox[u])
    BY <2>1, RangeEmpty DEF Drop, TabTypes
  <2>. QED
    BY <1>a, <2>1, <2>2 DEF Drop, sendVars
<1>10. CASE ExpirePresence \/ UNCHANGED vars
  BY <1>a, <1>10 DEF ExpirePresence, vars, sendVars, tabVars, history
<1>. QED
  BY <1>1, <1>2, <1>3, <1>4, <1>5, <1>6, <1>7, <1>8, <1>9, <1>10, <1>c DEF Next

-----------------------------------------------------------------------------
(* The theorems                                                            *)

ChatInv ==
  /\ SendTypes /\ TabTypes /\ RefreshTypes /\ Started /\ OpeningInv
  /\ HoldsInv /\ ReadInv /\ HideInv /\ MissInv /\ PushInv

\* The initial states satisfy the chat's invariant.
LEMMA InitChatInv == Init => ChatInv
<1> SUFFICES ASSUME Init PROVE ChatInv
  OBVIOUS
<1>1. /\ begun = <<>> /\ Range(begun) = {} /\ DOMAIN begun = {} /\ Len(begun) = 0 /\ begun \in Seq(Messages)
      /\ \A m \in Messages : sending[m] = "new" /\ deletion[m] = "none"
      /\ \A t \in Tabs : at[t] = "off" /\ inbox[t] = <<>> /\ view[t] = {} /\ latest[t] = NoMessage
                         /\ anchor[t] = NoMessage
  BY RangeEmpty DEF Init
<1>2. Committed = {} /\ Deleted = {} /\ Opening = {} /\ InFlight = {}
  BY <1>1 DEF Committed, Deleted, Opening, InFlight
<1>3. SendTypes /\ TabTypes /\ RefreshTypes
  BY EmptySeq DEF Init, SendTypes, TabTypes, RefreshTypes
<1>4. Started /\ OpeningInv
  BY <1>1, <1>2 DEF Started, Distinct, OpeningInv
<1>5. HoldsInv
  BY <1>1, RangeEmpty DEF HoldsInv, Holds
<1>6. ReadInv
  BY <1>1 DEF Init, ReadInv, Reads, Unsettled
<1>7. \A x, y : ~Precedes(<<>>, x, y)
  BY DEF Precedes
<1>8. HideInv
  BY <1>1, <1>2, <1>7, RangeEmpty DEF HideInv, Hides
<1>9. MissInv
  BY <1>1, <1>2, <1>7 DEF MissInv, OverlapInv, Covers, Ordered, Whole, Due, Subscribed
<1>10. PushInv
  BY DEF Init, PushInv, PushedOrReplayed
<1>. QED
  BY <1>3, <1>4, <1>5, <1>6, <1>8, <1>9, <1>10 DEF ChatInv

\* The chat's invariant holds in every state; it needs no fairness.
LEMMA ChatInvAlways == Safety => []ChatInv
<1>1. ChatInv /\ [Next]_vars => ChatInv'
  BY SendTypesStep, TabTypesStep, RefreshTypesStep, OpeningStep, HoldsStep, ReadStep, HideStep, MissStep, PushStep DEF ChatInv
<1>. QED
  BY <1>1, InitChatInv, PTL DEF Safety

\* Every state of the conversation and of the tabs has its type.
THEOREM ChatTypeCorrect == Safety => []TypeOK
<1>1. ChatInv => TypeOK
  BY DEF ChatInv, SendTypes, TabTypes, RefreshTypes, TypeOK
<1>. QED
  BY <1>1, ChatInvAlways, PTL

\* However many requests open the conversation, one whose opening message is lost raced.
THEOREM OpeningsAreKept == Safety => []OpeningLostOnlyWhenRaced
<1>1. ChatInv => OpeningLostOnlyWhenRaced
  BY DEF ChatInv, OpeningInv, OpeningLostOnlyWhenRaced
<1>. QED
  BY <1>1, ChatInvAlways, PTL

\* With any number of messages and tabs and any limits, a tab that is subscribed misses a
\* message only for one of the reasons MissedOnlyWhenRaced names: the message crossed
\* another, fell into a gap, or is beyond the limit of the tab's last replay.
THEOREM NothingElseIsMissed == Safety => []MissedOnlyWhenRaced
<1>1. ASSUME ChatInv, NEW t \in Tabs, at[t] \in Subscribed, NEW m \in Committed \ Deleted,
             sending[m] # "committed", m \notin crossed
      PROVE  m \in view[t] \cup Pending(t, "new") \cup gap[t] \cup cut[t]
  <2>1. Whole(t) /\ m \in Due /\ TabTypes
    BY <1>1 DEF ChatInv, MissInv, Due
  <2>2. m \in view[t] \cup gap[t] \cup cut[t] \/ <<"new", m>> \in Range(inbox[t])
    BY <1>1, <2>1 DEF Whole
  <2>. QED
    BY <2>1, <2>2, PendingIs
<1>2. ChatInv => MissedOnlyWhenRaced
  BY <1>1 DEF MissedOnlyWhenRaced
<1>. QED
  BY <1>2, ChatInvAlways, PTL

\* With any number of messages and tabs, what was published to nobody is pushed, unless its
\* push could not be enqueued, or replayed, unless a limit or a gap kept it from the tab.
THEOREM PushesOrReplays == Safety => []PushedOrReplayed
<1>1. ChatInv => PushedOrReplayed
  BY DEF ChatInv, PushInv
<1>. QED
  BY <1>1, ChatInvAlways, PTL

\* With any number of messages and tabs, what a tab was sent leaves the unread count.
THEOREM SentIsRead == Safety => []SeenIsRead
<1>1. ASSUME ChatInv, NEW t \in Tabs, NEW m \in view[t] \cap Unread, m \notin unsettled
      PROVE  at[t] = "marking" /\ m = latest[t]
  <2>1. PICK i \in DOMAIN begun : i > lastRead /\ begun[i] = m
    BY DEF Unread
  <2>2. Reads(t)
    BY <1>1 DEF ChatInv, ReadInv
  <2>. QED
    BY <1>1, <2>1, <2>2 DEF Reads
<1>2. ChatInv => SeenIsRead
  BY <1>1 DEF SeenIsRead
<1>. QED
  BY <1>2, ChatInvAlways, PTL

\* With any number of messages and tabs, a tab hides what was deleted, or is about to.
THEOREM DeletionsHide == Safety => []DeletedIsHidden
<1>1. ASSUME ChatInv, NEW t \in Tabs, NEW m \in view[t] \ struck[t], deletion[m] = "told"
      PROVE  m \in untold[t] \cup overtaken \cup Pending(t, "deleted")
  <2>1. Hides(t) /\ TabTypes
    BY <1>1 DEF ChatInv, HideInv
  <2>2. m \in untold[t] \cup overtaken \/ <<"deleted", m>> \in Range(inbox[t])
    BY <1>1, <2>1 DEF Hides
  <2>. QED
    BY <2>1, <2>2, PendingIs
<1>2. ChatInv => DeletedIsHidden
  BY <1>1 DEF DeletedIsHidden
<1>. QED
  BY <1>2, ChatInvAlways, PTL
=============================================================================
