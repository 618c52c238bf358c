------------------------------- MODULE MCChat -------------------------------
(* Small instances of Chat for TLC: one message and several tabs, whatever *)
(* fails; one tab and two messages, one of which may be deleted; or one    *)
(* tab and several messages that are sent one after the other, and are     *)
(* more than one replay or one page holds.                                 *)
EXTENDS Chat, TLC

VARIABLE slice

MCSent == {m \in Messages : sending[m] # "new"}

MCAnswered == {m \in MCSent : sending[m] = "sent"}

MCUsed == {t \in Tabs : at[t] # "off" \/ view[t] # {} \/ gap[t] # {}}

MCTasksRun == refreshing = {t \in Tabs : at[t] \in Looping} /\ unqueued = {}

InSlice ==
  CASE slice = "tabs" -> Cardinality(MCSent) <= 1
    [] slice = "messages" ->
         /\ Cardinality(MCUsed) <= 1
         /\ Cardinality(MCSent) <= 2
         /\ Cardinality(Deleted) <= 1
         /\ MCTasksRun /\ \A t \in Tabs : at[t] # "deaf"
    [] slice = "backlog" ->
         /\ Cardinality(MCUsed) <= 1
         /\ Cardinality(MCSent \ MCAnswered) <= 1
         /\ Deleted = {} /\ MCTasksRun

MCInit == Init /\ slice \in {"tabs", "messages", "backlog"}
MCNext == UNCHANGED slice /\ Next /\ InSlice'
MCSafety == MCInit /\ [][MCNext]_<<vars, slice>>

\* used where only safety is checked
MCSymmetry == Permutations(Messages) \cup Permutations(Tabs)
=============================================================================
