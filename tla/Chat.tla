-------------------------------- MODULE Chat --------------------------------
(***************************************************************************)
(* One conversation, as one participant, who has it open in several tabs,  *)
(* sees it: ChatService.get_or_create_conversation, send_message,          *)
(* delete_message and list_messages, the WebSocket session of              *)
(* ws/handler.py and the presence key in Redis.  The messages are those of *)
(* the other participant.                                                  *)
(*                                                                         *)
(* messages.created_at defaults to now(), which is when the transaction of *)
(* the request began, so messages are ordered (by list_messages, by        *)
(* get_messages_after and by the count of unread ones) by when their       *)
(* requests began: begun is that order, and a time is the number of        *)
(* messages begun before it.  They become visible in the order of their    *)
(* commits and reach the sockets in the order of their publications, and   *)
(* neither need be the same.                                               *)
(*                                                                         *)
(* Redis Pub/Sub keeps nothing: a publication reaches who is subscribed.   *)
(***************************************************************************)
EXTENDS Naturals, Sequences, FiniteSets, Functions

CONSTANTS
  Messages,   \* requests that send a message
  Tabs,       \* clients of the recipient, each with one socket or request at a time
  NoMessage,
  ReplayLimit,  \* messages a replay sends at most, 200
  PageLimit     \* messages of the first page of the history, which the client asks for

ASSUME ChatAssumption ==
  /\ NoMessage \notin Messages
  /\ ReplayLimit \in Nat \ {0}
  /\ PageLimit \in Nat \ {0}

VARIABLES
  conversation,  \* the row of the conversation exists
  begun,     \* messages in the order of created_at
  sending,   \* sending[m] : where the request of m is
  pushed,    \* messages for which a push notification was enqueued
  deletion,  \* deletion[m] : "none", "deleted" or "told", when it was published
  presence,  \* the key chat:presence:<conversation>:<recipient> exists
  lastRead,  \* last_read_at of the recipient
  refreshing, \* tabs whose session's presence task runs
  at,        \* at[t]      : where the request or the WebSocket session of t is
  reading,   \* reading[t] : the time t's transaction can have begun from, or 0
  anchor,    \* anchor[t]  : the last_message_id t's session was opened with, until the replay
  inbox,     \* inbox[t]   : what t's subscription holds, not forwarded yet
  view,      \* view[t]    : the messages t has received
  struck,    \* struck[t]  : those of them t shows as deleted
  latest,    \* latest[t]  : the message t received last
  rivals,    \* history: requests that looked for the conversation while another opened it
  crossed,   \* history: messages whose sending overlapped that of another
  gap,       \* history: gap[t], messages told of when t could be sent none, its replay
             \*          done and its subscription not, before t had an anchor, or never,
             \*          and those t has gone past, cut off by the limit of a replay or of
             \*          a page
  cut,       \* history: cut[t], messages the limit cut off t's last replay, until t goes
             \*          past them
  unwatched, \* history: messages published when no tab was connected and no key was left
  unqueued,  \* history: messages whose push could not be enqueued, which was logged
  unsettled, \* history: messages sent during a reading, or whose reading overlapped
             \*          another or failed
  untold,    \* history: untold[t], deletions published when t was not subscribed, or lost
  overtaken  \* history: messages deleted before they were published

sendVars == <<begun, sending, pushed>>
tabVars  == <<at, reading, anchor, inbox, view, struck, latest>>
history  == <<rivals, crossed, gap, cut, unwatched, unqueued, unsettled, untold, overtaken>>
vars     == <<conversation, sendVars, deletion, presence, refreshing, lastRead, tabVars, history>>

Events == {"new", "deleted"} \X Messages

Session    == {"mark", "replay", "presence", "subscribe", "open", "marking", "deaf", "closing"}
Subscribed == {"open", "marking"}

\* Places of a session that receives from its client.  One is deaf whose other task, which
\* sends what it is subscribed to, has ended.
Looping == Subscribed \cup {"deaf"}

TypeOK ==
  /\ conversation \in BOOLEAN
  /\ begun \in Seq(Messages)
  /\ sending \in [Messages -> {"new", "opening", "opened", "begun", "committed", "published",
                               "sent", "refused", "failed", "unpublished"}]
  /\ pushed \subseteq Messages
  /\ deletion \in [Messages -> {"none", "deleted", "told"}]
  /\ presence \in BOOLEAN
  /\ lastRead \in Nat
  /\ refreshing \in SUBSET {t \in Tabs : at[t] \in Looping}
  /\ at \in [Tabs -> {"off", "list", "listed"} \cup Session]
  /\ reading \in [Tabs -> Nat]
  /\ anchor \in [Tabs -> Messages \cup {NoMessage}]
  /\ inbox \in [Tabs -> Seq(Events)]
  /\ view \in [Tabs -> SUBSET Messages]
  /\ struck \in [Tabs -> SUBSET Messages]
  /\ latest \in [Tabs -> Messages \cup {NoMessage}]
  /\ rivals \subseteq Messages
  /\ crossed \subseteq Messages
  /\ gap \in [Tabs -> SUBSET Messages]
  /\ cut \in [Tabs -> SUBSET Messages]
  /\ unwatched \subseteq Messages
  /\ unqueued \subseteq Messages
  /\ unsettled \subseteq Messages
  /\ untold \in [Tabs -> SUBSET Messages]
  /\ overtaken \subseteq Messages

Init ==
  /\ conversation = FALSE
  /\ begun = <<>>
  /\ sending = [m \in Messages |-> "new"]
  /\ pushed = {}
  /\ deletion = [m \in Messages |-> "none"]
  /\ presence = FALSE
  /\ lastRead = 0
  /\ refreshing = {}
  /\ at = [t \in Tabs |-> "off"]
  /\ reading = [t \in Tabs |-> 0]
  /\ anchor = [t \in Tabs |-> NoMessage]
  /\ inbox = [t \in Tabs |-> <<>>]
  /\ view = [t \in Tabs |-> {}]
  /\ struck = [t \in Tabs |-> {}]
  /\ latest = [t \in Tabs |-> NoMessage]
  /\ rivals = {}
  /\ crossed = {}
  /\ gap = [t \in Tabs |-> {}]
  /\ cut = [t \in Tabs |-> {}]
  /\ unwatched = {}
  /\ unqueued = {}
  /\ unsettled = {}
  /\ untold = [t \in Tabs |-> {}]
  /\ overtaken = {}

-----------------------------------------------------------------------------
(* What the database and Redis hold                                        *)

Committed == {m \in Messages : sending[m] \in {"committed", "published", "sent", "unpublished"}}

Deleted == {m \in Messages : deletion[m] # "none"}

Opening == {m \in Messages : sending[m] = "opening"}

InFlight == {m \in Messages : sending[m] \in {"begun", "committed"}}

\* created_at of m is before that of n
CreatedBefore(m, n) ==
  \E i, j \in DOMAIN begun : i < j /\ begun[i] = m /\ begun[j] = n

\* The message of S that comes last, in the order list_messages and get_messages_after sort by
Newest(S) == CHOOSE m \in S : \A n \in S : ~CreatedBefore(m, n)

\* ORDER BY created_at DESC, id DESC LIMIT k
LastOf(S, k) == {m \in S : Cardinality({n \in S : CreatedBefore(m, n)}) < k}

\* ORDER BY created_at ASC, id ASC LIMIT k
FirstOf(S, k) == {m \in S : Cardinality({n \in S : CreatedBefore(n, m)}) < k}

\* What get_messages_after selects, before its limit
MessagesAfter(m) == {n \in Committed \ Deleted : CreatedBefore(m, n)}

\* What the recipient's unread count counts
Unread == {begun[i] : i \in {j \in DOMAIN begun : j > lastRead}} \cap (Committed \ Deleted)

\* Every subscription gets e.
Deliver(e) == inbox' = [t \in Tabs |-> IF at[t] \in Subscribed THEN Append(inbox[t], e) ELSE inbox[t]]

\* Messages that events of a kind in the inbox of t are about
Pending(t, kind) == {e[2] : e \in {f \in Range(inbox[t]) : f[1] = kind}}

-----------------------------------------------------------------------------
(* get_or_create_conversation with an opening message                      *)

\* Mutant: without a look for the conversation there is.
OpenUnseen(m) ==
  /\ sending[m] = "new"
  /\ sending' = [sending EXCEPT ![m] = "opening"]
  /\ rivals' = IF Opening = {} THEN rivals ELSE rivals \cup Opening \cup {m}
  /\ UNCHANGED <<conversation, begun, pushed, deletion, presence, refreshing, lastRead, tabVars,
                 crossed, gap, cut, unwatched, unqueued, unsettled, untold, overtaken>>

\* The conversation is looked for and not found.
FindNone(m) ==
  /\ sending[m] = "new"
  /\ ~conversation
  /\ sending' = [sending EXCEPT ![m] = "opening"]
  /\ rivals' = IF Opening = {} THEN rivals ELSE rivals \cup Opening \cup {m}
  /\ UNCHANGED <<conversation, begun, pushed, deletion, presence, refreshing, lastRead, tabVars,
                 crossed, gap, cut, unwatched, unqueued, unsettled, untold, overtaken>>

\* It is inserted and committed, or violates uq_conversation_listing_buyer, and then the
\* opening message is lost.
Open(m) ==
  /\ sending[m] = "opening"
  /\ sending' = [sending EXCEPT ![m] = IF conversation THEN "refused" ELSE "opened"]
  /\ conversation' = TRUE
  /\ UNCHANGED <<begun, pushed, deletion, presence, refreshing, lastRead, tabVars, history>>

-----------------------------------------------------------------------------
(* send_message and delete_message                                         *)

\* The sender's conversation is read, or was just opened, and the transaction has begun.
BeginSend(m) ==
  /\ sending[m] = "opened" \/ (sending[m] = "new" /\ conversation)
  /\ begun' = Append(begun, m)
  /\ sending' = [sending EXCEPT ![m] = "begun"]
  /\ crossed' = IF InFlight = {} THEN crossed ELSE crossed \cup InFlight \cup {m}
  /\ unsettled' = IF \E t \in Tabs : at[t] \in {"list", "listed", "mark", "replay"}
                    THEN unsettled \cup {m} ELSE unsettled
  /\ UNCHANGED <<conversation, pushed, deletion, presence, refreshing, lastRead, tabVars,
                 rivals, gap, cut, unwatched, unqueued, untold, overtaken>>

\* The message and the conversation's preview are committed.
CommitSend(m) ==
  /\ sending[m] = "begun"
  /\ sending' = [sending EXCEPT ![m] = "committed"]
  /\ UNCHANGED <<conversation, begun, pushed, deletion, presence, refreshing, lastRead, tabVars, history>>

\* publish_message
Publish(m) ==
  /\ sending[m] = "committed"
  /\ sending' = [sending EXCEPT ![m] = "published"]
  /\ Deliver(<<"new", m>>)
  /\ gap' = [t \in Tabs |-> IF at[t] \in {"presence", "subscribe"} THEN gap[t] \cup {m} ELSE gap[t]]
  /\ unwatched' = IF presence \/ \E t \in Tabs : at[t] \in Session
                    THEN unwatched ELSE unwatched \cup {m}
  /\ UNCHANGED <<conversation, begun, pushed, deletion, presence, refreshing, lastRead,
                 at, reading, anchor, view, struck, latest,
                 rivals, crossed, cut, unqueued, unsettled, untold, overtaken>>

\* _maybe_enqueue_push.  If is_online raises, or the request dies, m stays "published".
Push(m) ==
  /\ sending[m] = "published"
  /\ sending' = [sending EXCEPT ![m] = "sent"]
  /\ pushed' = IF presence THEN pushed ELSE pushed \cup {m}
  /\ UNCHANGED <<conversation, begun, deletion, presence, refreshing, lastRead, tabVars, history>>

\* No push can be enqueued.  StreaqError is logged, and the request answered as if it had been.
FailPush(m) ==
  /\ sending[m] = "published"
  /\ ~presence
  /\ sending' = [sending EXCEPT ![m] = "sent"]
  /\ unqueued' = unqueued \cup {m}
  /\ UNCHANGED <<conversation, begun, pushed, deletion, presence, refreshing, lastRead, tabVars,
                 rivals, crossed, gap, cut, unwatched, unsettled, untold, overtaken>>

\* The request dies.  Before the commit there is no message; after it the message is
\* stored, and the tabs that are past their replay are not told of it.
FailSend(m) ==
  /\ sending[m] \in {"opening", "opened", "begun", "committed"}
  /\ sending' = [sending EXCEPT ![m] = IF @ = "committed" THEN "unpublished" ELSE "failed"]
  /\ gap' = [t \in Tabs |->
               IF sending[m] = "committed" /\ at[t] \in {"presence", "subscribe"} \cup Subscribed
                 THEN gap[t] \cup {m} ELSE gap[t]]
  /\ UNCHANGED <<conversation, begun, pushed, deletion, presence, refreshing, lastRead, tabVars,
                 rivals, crossed, cut, unwatched, unqueued, unsettled, untold, overtaken>>

\* soft_delete is committed.  The sender knows the message from its own history as soon as
\* it is committed.  A second deletion writes nothing and is left out.
DeleteMessage(m) ==
  /\ m \in Committed \ Deleted
  /\ deletion' = [deletion EXCEPT ![m] = "deleted"]
  /\ overtaken' = IF sending[m] = "committed" THEN overtaken \cup {m} ELSE overtaken
  /\ UNCHANGED <<conversation, sendVars, presence, refreshing, lastRead, tabVars,
                 rivals, crossed, gap, cut, unwatched, unqueued, unsettled, untold>>

\* publish_deletion, unless the request has died
PublishDeletion(m) ==
  /\ deletion[m] = "deleted"
  /\ deletion' = [deletion EXCEPT ![m] = "told"]
  /\ Deliver(<<"deleted", m>>)
  /\ untold' = [t \in Tabs |-> IF at[t] \in Subscribed THEN untold[t] ELSE untold[t] \cup ({m} \cap view[t])]
  /\ UNCHANGED <<conversation, sendVars, presence, refreshing, lastRead,
                 at, reading, anchor, view, struck, latest,
                 rivals, crossed, gap, cut, unwatched, unqueued, unsettled, overtaken>>

-----------------------------------------------------------------------------
(* update_last_read_at, in its own transaction                             *)

Goto(t, place) == at' = [at EXCEPT ![t] = place]

\* t begins a request or a step that reads.
BeginReading(t, place) ==
  /\ Goto(t, place)
  /\ reading' = [reading EXCEPT ![t] = Len(begun)]

\* t writes the time its transaction began, time, and commits.  A reading of another tab
\* that is under way may yet write an earlier one.
MarkRead(t, time) ==
  /\ lastRead' = time
  /\ reading' = [reading EXCEPT ![t] = 0]
  /\ unsettled' = IF \E u \in Tabs \ {t} : at[u] \in {"list", "mark", "marking"}
                    THEN unsettled \cup Range(begun) ELSE unsettled
  /\ UNCHANGED <<conversation, sendVars, deletion, presence, refreshing, anchor, inbox, view, struck,
                 latest, rivals, crossed, gap, cut, unwatched, unqueued, untold, overtaken>>

-----------------------------------------------------------------------------
(* The recipient's client, and list_messages, first page                   *)

\* A tab receives messages, S, and remembers the newest of them.
Receive(t, S, newest) ==
  /\ view' = [view EXCEPT ![t] = @ \cup S]
  /\ latest' = [latest EXCEPT ![t] = newest]

\* The next replay to t begins after messages that t was not sent: S, and what was cut off.
PassOver(t, S) ==
  /\ gap' = [gap EXCEPT ![t] = @ \cup cut[t] \cup S]
  /\ cut' = [cut EXCEPT ![t] = {}]

\* The recipient is authenticated, and the transaction has begun.
BeginList(t) ==
  /\ at[t] = "off"
  /\ conversation
  /\ BeginReading(t, "list")
  /\ UNCHANGED <<conversation, sendVars, deletion, presence, refreshing, lastRead, anchor, inbox, view,
                 struck, latest, history>>

MarkListed(t) ==
  /\ at[t] = "list"
  /\ Goto(t, "listed")
  /\ MarkRead(t, reading[t])

\* Mutant: what deleted messages said is sent with the rest.
ListContents(t) ==
  LET page == LastOf(Committed, PageLimit) IN
  /\ at[t] = "listed"
  /\ Goto(t, "off")
  /\ Receive(t, page, IF page = {} THEN latest[t] ELSE Newest(page))
  /\ untold' = [untold EXCEPT ![t] = @ \ page]
  /\ PassOver(t, Committed \ page)
  /\ UNCHANGED <<conversation, sendVars, deletion, presence, refreshing, lastRead, reading, anchor,
                 inbox, struck, rivals, crossed, unwatched, unqueued, unsettled, overtaken>>

\* list_with_deleted, in a new transaction: a deleted message comes without its body.  What
\* the first page leaves out is on the next ones, if the client asks for them.
List(t) ==
  LET page == LastOf(Committed, PageLimit) IN
  /\ at[t] = "listed"
  /\ Goto(t, "off")
  /\ Receive(t, page, IF page = {} THEN latest[t] ELSE Newest(page))
  /\ struck' = [struck EXCEPT ![t] = @ \cup (Deleted \cap page)]
  /\ untold' = [untold EXCEPT ![t] = @ \ page]
  /\ PassOver(t, Committed \ page)
  /\ UNCHANGED <<conversation, sendVars, deletion, presence, refreshing, lastRead, reading, anchor,
                 inbox, rivals, crossed, unwatched, unqueued, unsettled, overtaken>>

\* Mutant: the recipient is online as soon as it is authenticated.
ConnectPresent(t) ==
  /\ at[t] = "off"
  /\ conversation
  /\ BeginReading(t, "mark")
  /\ anchor' = [anchor EXCEPT ![t] = latest[t]]
  /\ presence' = TRUE
  /\ UNCHANGED <<conversation, sendVars, deletion, refreshing, lastRead, inbox, view, struck, latest, history>>

\* The client connects with the last message it received, is authenticated and found to
\* be a participant.
Connect(t) ==
  /\ at[t] = "off"
  /\ conversation
  /\ BeginReading(t, "mark")
  /\ anchor' = [anchor EXCEPT ![t] = latest[t]]
  /\ UNCHANGED <<conversation, sendVars, deletion, presence, refreshing, lastRead, inbox, view, struck,
                 latest, history>>

-----------------------------------------------------------------------------
(* ChatWebSocketSession                                                    *)

\* _touch_conversation_last_read, and auth_ok.  The transaction began with the look at the
\* conversation, or later if notification tokens had to be touched and committed first.
MarkOpened(t) ==
  /\ at[t] = "mark"
  /\ Goto(t, "replay")
  /\ \E time \in {reading[t], Len(begun)} : MarkRead(t, time)

\* _replay_missed_messages, the oldest of them.  A client that names no last message has
\* nothing replayed.
Replay(t) ==
  LET missed   == MessagesAfter(anchor[t])
      replayed == FirstOf(missed, ReplayLimit) IN
  /\ at[t] = "replay"
  /\ Goto(t, "presence")
  /\ \/ /\ anchor[t] = NoMessage
        /\ gap' = [gap EXCEPT ![t] = @ \cup {m \in Committed : sending[m] # "committed"}]
        /\ UNCHANGED <<view, latest, cut>>
     \/ /\ anchor[t] # NoMessage
        /\ Receive(t, replayed, IF replayed = {} THEN latest[t] ELSE Newest(replayed))
        /\ cut' = [cut EXCEPT ![t] = missed \ replayed]
        /\ UNCHANGED gap
  /\ anchor' = [anchor EXCEPT ![t] = NoMessage]
  /\ UNCHANGED <<conversation, sendVars, deletion, presence, refreshing, lastRead, reading, inbox,
                 struck, rivals, crossed, unwatched, unqueued, unsettled, untold, overtaken>>

SetPresence(t) ==
  /\ at[t] = "presence"
  /\ Goto(t, "subscribe")
  /\ presence' = TRUE
  /\ UNCHANGED <<conversation, sendVars, deletion, refreshing, lastRead, reading, anchor, inbox, view, struck,
                 latest, history>>

\* The session subscribes, and starts the task that refreshes its presence and the one that
\* forwards.
Subscribe(t) ==
  /\ at[t] = "subscribe"
  /\ Goto(t, "open")
  /\ refreshing' = refreshing \cup {t}
  /\ UNCHANGED <<conversation, sendVars, deletion, presence, lastRead, reading, anchor, inbox,
                 view, struck, latest, history>>

\* Mutant: nothing is marked read.
ForwardSilently(t) ==
  LET m == Head(inbox[t])[2] IN
  /\ at[t] = "open"
  /\ inbox[t] # <<>>
  /\ inbox' = [inbox EXCEPT ![t] = Tail(@)]
  /\ \/ /\ Head(inbox[t])[1] = "new"
        /\ Receive(t, {m}, m)
        /\ PassOver(t, {})
        /\ UNCHANGED struck
     \/ /\ Head(inbox[t])[1] = "deleted"
        /\ struck' = [struck EXCEPT ![t] = @ \cup ({m} \cap view[t])]
        /\ UNCHANGED <<view, latest, gap, cut>>
  /\ UNCHANGED <<conversation, sendVars, deletion, presence, refreshing, lastRead, at, reading, anchor,
                 rivals, crossed, unwatched, unqueued, unsettled, untold, overtaken>>

\* _forward_redis_to_ws.  _maybe_mark_read marks a new message as read.
Forward(t) ==
  LET m == Head(inbox[t])[2] IN
  /\ at[t] = "open"
  /\ inbox[t] # <<>>
  /\ inbox' = [inbox EXCEPT ![t] = Tail(@)]
  /\ \/ /\ Head(inbox[t])[1] = "new"
        /\ Receive(t, {m}, m)
        /\ PassOver(t, {})
        /\ BeginReading(t, "marking")
        /\ UNCHANGED struck
     \/ /\ Head(inbox[t])[1] = "deleted"
        /\ struck' = [struck EXCEPT ![t] = @ \cup ({m} \cap view[t])]
        /\ UNCHANGED <<view, latest, at, reading, gap, cut>>
  /\ UNCHANGED <<conversation, sendVars, deletion, presence, refreshing, lastRead, anchor,
                 rivals, crossed, unwatched, unqueued, unsettled, untold, overtaken>>

\* _mark_read_silently: its transaction begins with the UPDATE, which may have to wait.
MarkForwarded(t) ==
  /\ at[t] = "marking"
  /\ Goto(t, "open")
  /\ \E time \in reading[t]..Len(begun) : MarkRead(t, time)

\* Its failure is logged.
FailMark(t) ==
  /\ at[t] = "marking"
  /\ Goto(t, "open")
  /\ reading' = [reading EXCEPT ![t] = 0]
  /\ unsettled' = unsettled \cup ({latest[t]} \ {NoMessage})
  /\ UNCHANGED <<conversation, sendVars, deletion, presence, refreshing, lastRead, anchor, inbox,
                 view, struck, latest, rivals, crossed, gap, cut, unwatched, unqueued, untold, overtaken>>

\* _refresh_presence
Refresh(t) ==
  /\ t \in refreshing
  /\ presence' = TRUE
  /\ UNCHANGED <<conversation, sendVars, deletion, refreshing, lastRead, tabVars, history>>

\* SETEX fails once, and nothing catches it: the task ends, and the socket stays open.
FailRefresh(t) ==
  /\ t \in refreshing
  /\ refreshing' = refreshing \ {t}
  /\ UNCHANGED <<conversation, sendVars, deletion, presence, lastRead, tabVars, history>>

\* The session of t ends where it is, or the task that forwards: what its inbox holds is
\* lost, and a mark not made.
Drop(t) ==
  /\ inbox' = [inbox EXCEPT ![t] = <<>>]
  /\ reading' = [reading EXCEPT ![t] = 0]
  /\ anchor' = [anchor EXCEPT ![t] = NoMessage]
  /\ untold' = [untold EXCEPT ![t] = @ \cup Pending(t, "deleted")]
  /\ unsettled' = IF at[t] = "marking" THEN unsettled \cup ({latest[t]} \ {NoMessage}) ELSE unsettled
  /\ UNCHANGED <<conversation, sendVars, deletion, presence, lastRead, view, struck, latest,
                 rivals, crossed, gap, cut, unwatched, unqueued, overtaken>>

\* Redis or the socket fails the task that forwards, which nothing catches either: the
\* session goes on without it.
FailForward(t) ==
  /\ at[t] = "open"
  /\ Goto(t, "deaf")
  /\ Drop(t)
  /\ UNCHANGED refreshing

\* The client disconnects: both tasks are cancelled and the subscription ends.
Disconnect(t) ==
  /\ at[t] \in Looping
  /\ Goto(t, "closing")
  /\ refreshing' = refreshing \ {t}
  /\ Drop(t)

\* The key goes, whoever else holds the conversation open.
DeletePresence(t) ==
  /\ at[t] = "closing"
  /\ Goto(t, "off")
  /\ presence' = FALSE
  /\ UNCHANGED <<conversation, sendVars, deletion, refreshing, lastRead, reading, anchor, inbox,
                 view, struck, latest, history>>

\* The session ends at any point without that, or the request: the server dies, the client
\* goes before the loop, or Redis fails before the loop or when the session closes.  The key
\* is left behind.
Crash(t) ==
  /\ at[t] # "off"
  /\ Goto(t, "off")
  /\ refreshing' = refreshing \ {t}
  /\ Drop(t)

\* Mutant: a key without a TTL.
KeepPresence ==
  /\ presence
  /\ UNCHANGED vars

\* The key's TTL runs out; a session whose task runs renews it in time.
ExpirePresence ==
  /\ presence
  /\ refreshing = {}
  /\ presence' = FALSE
  /\ UNCHANGED <<conversation, sendVars, deletion, refreshing, lastRead, tabVars, history>>

-----------------------------------------------------------------------------
Next ==
  \/ \E m \in Messages : FindNone(m)
  \/ \E m \in Messages : Open(m)
  \/ \E m \in Messages : BeginSend(m)
  \/ \E m \in Messages : CommitSend(m)
  \/ \E m \in Messages : Publish(m)
  \/ \E m \in Messages : Push(m)
  \/ \E m \in Messages : FailPush(m)
  \/ \E m \in Messages : FailSend(m)
  \/ \E m \in Messages : DeleteMessage(m)
  \/ \E m \in Messages : PublishDeletion(m)
  \/ \E t \in Tabs : BeginList(t)
  \/ \E t \in Tabs : MarkListed(t)
  \/ \E t \in Tabs : List(t)
  \/ \E t \in Tabs : Connect(t)
  \/ \E t \in Tabs : MarkOpened(t)
  \/ \E t \in Tabs : Replay(t)
  \/ \E t \in Tabs : SetPresence(t)
  \/ \E t \in Tabs : Subscribe(t)
  \/ \E t \in Tabs : Forward(t)
  \/ \E t \in Tabs : MarkForwarded(t)
  \/ \E t \in Tabs : FailMark(t)
  \/ \E t \in Tabs : Refresh(t)
  \/ \E t \in Tabs : FailRefresh(t)
  \/ \E t \in Tabs : FailForward(t)
  \/ \E t \in Tabs : Disconnect(t)
  \/ \E t \in Tabs : DeletePresence(t)
  \/ \E t \in Tabs : Crash(t)
  \/ ExpirePresence

Safety == Init /\ [][Next]_vars

(* Redis expires keys, and a refresh task sleeps and goes on for as long as  *)
(* it runs: FailRefresh, Disconnect and Crash, which end it, have no         *)
(* fairness and may happen at any time.                                      *)
Fairness ==
  /\ \A t \in Tabs : WF_vars(Refresh(t))
  /\ WF_vars(ExpirePresence)

Spec == Safety /\ Fairness

-----------------------------------------------------------------------------
(* Properties                                                              *)

\* A tab that is subscribed and forwarded to has, or is about to be sent, every message that
\* was committed and is not deleted nor about to be published, but for: one whose sending
\* overlapped another's (crossed); one that came in the window between the tab's replay and
\* its subscription, or was never published, or is on a page of the history the tab did not
\* ask for (gap); and one beyond the limit of the tab's last replay (cut), which a live message
\* or a page puts behind it for good (gap) and which the next replay begins with otherwise.
\* Reconnecting, losing what the subscription held or the task that forwards it, and
\* fetching the history leave no other gap, and a message whose publication failed comes
\* with the next replay.  docs/chat-websocket.md says nothing of crossed.
MissedOnlyWhenRaced ==
  \A t \in Tabs : at[t] \in Subscribed =>
    \A m \in Committed \ Deleted :
      sending[m] # "committed" => m \in view[t] \cup Pending(t, "new") \cup gap[t] \cup cut[t] \cup crossed

\* A message published while nobody had the conversation open, and answered for, is pushed
\* to the recipient, unless the push could not be enqueued (unqueued), or a tab that opened
\* the conversation before is_online asked was replayed the message, or could not be (gap,
\* cut, crossed): presence is set after the replay, and outlives the tabs that set it only
\* until its TTL or a disconnection.
PushedOrReplayed ==
  \A m \in unwatched \ (crossed \cup Deleted \cup unqueued) :
    sending[m] = "sent" => m \in pushed \/ \E t \in Tabs : m \in view[t] \cup gap[t] \cup cut[t]

\* A message the recipient has been sent does not stay in the unread count, unless it was
\* sent during a reading, or readings overlapped or failed: last_read_at and created_at
\* are when transactions began, and still the reading that follows a message covers it.
SeenIsRead ==
  \A t \in Tabs : \A m \in view[t] \cap Unread :
    m \in unsettled \/ (at[t] = "marking" /\ m = latest[t])

\* A tab shows a message whose deletion was published as deleted, or is about to be told,
\* unless it was not subscribed then, or the deletion overtook the message: the history
\* makes up for what tabs were not told, and the replay brings back nothing deleted.
DeletedIsHidden ==
  \A t \in Tabs : \A m \in view[t] \ struck[t] :
    deletion[m] = "told" => m \in untold[t] \cup overtaken \cup Pending(t, "deleted")

\* Opening a conversation that exists sends the message there: an opening message is lost
\* to the unique constraint only when another request was opening the conversation too.
OpeningLostOnlyWhenRaced ==
  \A m \in Messages : sending[m] = "refused" => m \in rivals

\* A recipient with an open socket whose refresh task still runs does not stay offline,
\* although another tab that closes takes the presence key away, and one with no session
\* does not stay online, although a session that died leaves its key behind: pushes come
\* through again.  A tab whose task has ended (FailRefresh) is promised nothing: it can stay
\* offline while it is connected.
PresenceRecovers ==
  /\ \A t \in Tabs : []<>(t \in refreshing => presence)
  /\ []<>(presence => \E t \in Tabs : at[t] \in Session)
=============================================================================
