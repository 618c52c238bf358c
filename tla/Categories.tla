----------------------------- MODULE Categories -----------------------------
(***************************************************************************)
(* The tree of categories and the moderators' requests that create,        *)
(* rename and re-parent them: CategoriesService.                           *)
(*                                                                         *)
(* A request reads the category, the ancestors of the parent it names and  *)
(* that parent in queries of their own, and then writes with one           *)
(* statement.  Nothing is locked between them.                             *)
(*                                                                         *)
(* The category that request r creates is called r too.                    *)
(***************************************************************************)
EXTENDS Integers, FiniteSets

CONSTANTS
  Initial,   \* categories there are at first
  Requests,
  Root,      \* "parent_id": null
  Unset      \* a PATCH without parent_id

Ids == Initial \cup Requests

ASSUME CategoriesAssumption ==
  /\ IsFiniteSet(Ids) /\ Initial \cap Requests = {}
  /\ Root \notin Ids /\ Unset \notin Ids /\ Root # Unset

VARIABLES
  rows,     \* ids of the categories
  parent,   \* parent[c] : parent_id
  depth,    \* depth[c]
  pc,
  target,   \* target[r] : the category r creates or updates
  to,       \* to[r]     : the parent it asks for
  level,    \* level[r]  : the depth it is going to write
  beside    \* history: pairs of requests of which one began while the other ran

tree     == <<rows, parent, depth>>
requests == <<target, to>>
vars     == <<tree, pc, requests, level, beside>>

Running == {"ancestors", "parent", "write"}

TypeOK ==
  /\ Initial \subseteq rows /\ rows \subseteq Ids
  /\ parent \in [Ids -> rows \cup {Root}]
  /\ depth \in [Ids -> Nat]
  /\ pc \in [Requests -> Running \cup {"new", "done", "failed"}]
  /\ target \in [Requests -> Ids]
  /\ to \in [Requests -> Ids \cup {Root, Unset}]
  /\ \A r \in Requests : to[r] = Unset => pc[r] \in {"new", "write", "done", "failed"}
  /\ \A r \in Requests : r \in rows <=> target[r] = r /\ pc[r] = "done"
  /\ level \in [Requests -> Nat]
  /\ beside \subseteq SUBSET Requests

-----------------------------------------------------------------------------
(* The tree                                                                *)

\* get_ancestor_ids: c and the categories above it, none if there is no c
Ancestors(c) ==
  {a \in rows :
     c \in rows /\ \A S \in SUBSET rows :
       (c \in S /\ \A b \in S : parent[b] \in S \cup {Root}) => a \in S}

\* The recursive query goes round a cycle for ever: it is a UNION ALL.
Endless(c) == c \in rows /\ \A a \in Ancestors(c) : parent[a] # Root

InCycle(c) == parent[c] # Root /\ c \in Ancestors(parent[c])

\* A tree, with the depths it should have
Init ==
  /\ rows = Initial
  /\ parent \in {f \in [Ids -> Initial \cup {Root}] : \A r \in Ids \ Initial : f[r] = Root}
  /\ \A c \in Initial : ~InCycle(c)
  /\ depth = [c \in Ids |-> IF parent[c] = Root THEN 0 ELSE Cardinality(Ancestors(parent[c]))]
  /\ pc = [r \in Requests |-> "new"]
  /\ target = [r \in Requests |-> r]
  /\ to = [r \in Requests |-> Root]
  /\ level = [r \in Requests |-> 0]
  /\ beside = {}

-----------------------------------------------------------------------------
(* The requests                                                            *)

\* r begins to ask for the parent p of c.
Begin(r, c, p) ==
  /\ pc[r] = "new"
  /\ target' = [target EXCEPT ![r] = c]
  /\ to' = [to EXCEPT ![r] = p]
  /\ beside' = beside \cup {{r, q} : q \in {q \in Requests : pc[q] \in Running}}
  /\ UNCHANGED tree

\* create_category
BeginCreate(r, p) ==
  /\ Begin(r, r, p)
  /\ pc' = [pc EXCEPT ![r] = IF p = Root THEN "write" ELSE "parent"]
  /\ UNCHANGED level

\* update_category, with the category that get_category_by_id has loaded.  A PATCH that
\* names the parent there is keeps the depth; one that takes it away, or names none,
\* writes 0.  The latter leaves the parent.
BeginUpdate(r, c, p) ==
  LET named == IF p = Unset THEN Root ELSE p IN
  /\ c \in rows
  /\ Begin(r, c, p)
  /\ level' = [level EXCEPT ![r] = IF named = parent[c] THEN depth[c] ELSE 0]
  /\ pc' = [pc EXCEPT ![r] = IF named \in {parent[c], Root} THEN "write"
                              ELSE IF named = c THEN "failed" ELSE "ancestors"]

\* Mutant: looks up two levels.
ReadTwoAncestors(r) ==
  /\ pc[r] = "ancestors"
  /\ ~Endless(to[r])
  /\ pc' = [pc EXCEPT ![r] = IF target[r] \in {to[r], parent[to[r]]} THEN "failed" ELSE "parent"]
  /\ UNCHANGED <<tree, requests, level, beside>>

\* The test for a circular reference
ReadAncestors(r) ==
  /\ pc[r] = "ancestors"
  /\ ~Endless(to[r])
  /\ pc' = [pc EXCEPT ![r] = IF target[r] \in Ancestors(to[r]) THEN "failed" ELSE "parent"]
  /\ UNCHANGED <<tree, requests, level, beside>>

\* Mutant: the depth of the parent.
ReadParentLevel(r) ==
  /\ pc[r] = "parent"
  /\ level' = [level EXCEPT ![r] = IF to[r] \in rows THEN depth[to[r]] ELSE 0]
  /\ pc' = [pc EXCEPT ![r] = IF to[r] \in rows THEN "write" ELSE "failed"]
  /\ UNCHANGED <<tree, requests, beside>>

\* _check_parent
ReadParent(r) ==
  /\ pc[r] = "parent"
  /\ level' = [level EXCEPT ![r] = IF to[r] \in rows THEN depth[to[r]] + 1 ELSE 0]
  /\ pc' = [pc EXCEPT ![r] = IF to[r] \in rows THEN "write" ELSE "failed"]
  /\ UNCHANGED <<tree, requests, beside>>

\* The unit of work: one INSERT or UPDATE
Write(r) ==
  /\ pc[r] = "write"
  /\ rows' = rows \cup {target[r]}
  /\ parent' = [parent EXCEPT ![target[r]] = IF to[r] = Unset THEN @ ELSE to[r]]
  /\ depth' = [depth EXCEPT ![target[r]] = level[r]]
  /\ pc' = [pc EXCEPT ![r] = "done"]
  /\ UNCHANGED <<requests, level, beside>>

\* An error, a name in use included, or a death
Fail(r) ==
  /\ pc[r] \in Running
  /\ pc' = [pc EXCEPT ![r] = "failed"]
  /\ UNCHANGED <<tree, requests, level, beside>>

-----------------------------------------------------------------------------
Next ==
  \/ \E r \in Requests, p \in Ids \cup {Root} : BeginCreate(r, p)
  \/ \E r \in Requests, c \in Ids, p \in Ids \cup {Root, Unset} : BeginUpdate(r, c, p)
  \/ \E r \in Requests : ReadAncestors(r)
  \/ \E r \in Requests : ReadParent(r)
  \/ \E r \in Requests : Write(r)
  \/ \E r \in Requests : Fail(r)

Spec == Init /\ [][Next]_vars

-----------------------------------------------------------------------------
(* Properties                                                              *)

\* Two requests of which neither had ended when the other began
Raced(r, q) == r # q /\ {r, q} \in beside

\* r has put its category where that still is.
Placed(r) == pc[r] = "done" /\ parent[target[r]] = to[r]

\* A cycle, in which the queries for ancestors and breadcrumbs do not end, comes only
\* from two re-parentings that raced and whose links are both in it.
CyclesOnlyWhenRaced ==
  \A c \in rows : InCycle(c) =>
    \E r, q \in Requests :
      /\ Raced(r, q)
      /\ Placed(r) /\ Placed(q)
      /\ {target[r], target[q]} \subseteq Ancestors(c)

\* A category that is created, or is moved to another parent, gets a depth of one more
\* than the parent's, unless another request on the one or the other raced.  Nothing is
\* promised of the categories below one that moves, and of a PATCH without a parent_id.
DepthFollowsMove ==
  [][\A r \in Requests :
       /\ pc[r] = "write" /\ pc'[r] = "done"
       /\ to[r] \notin {Unset, parent[target[r]]}
       /\ \A q \in Requests : Raced(r, q) => target[q] \notin {target[r], to[r]}
       => depth'[target[r]] = IF to[r] = Root THEN 0 ELSE depth[to[r]] + 1]_vars
=============================================================================
