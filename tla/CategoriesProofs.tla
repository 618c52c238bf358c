-------------------------- MODULE CategoriesProofs --------------------------
(***************************************************************************)
(* Proofs about Categories, for any categories and requests.               *)
(***************************************************************************)
EXTENDS Categories, FiniteSetTheorems, TLAPS

-----------------------------------------------------------------------------
(* Parents, as functions                                                   *)

ParentMaps == [Ids -> Ids \cup {Root}]

Closed(f, S) == \A b \in S : f[b] \in S \cup {Root}

\* c and what is above it when f[c] is the parent of c
Reach(f, c) == {a \in Ids : \A S \in SUBSET Ids : c \in S /\ Closed(f, S) => a \in S}

OnCycle(f, c) == f[c] # Root /\ c \in Reach(f, f[c])

AgreeOff(t, f, g) == \A a \in Ids \ {t} : f[a] = g[a]

\* Whatever holds c and is closed under parents holds all that c reaches.
LEMMA ReachIsLeast ==
  ASSUME NEW f \in ParentMaps, NEW c \in Ids, NEW S \in SUBSET Ids, c \in S, Closed(f, S)
  PROVE  Reach(f, c) \subseteq S
  BY DEF Reach

\* What c reaches holds c itself, and is closed under parents.
LEMMA ReachIsClosed ==
  ASSUME NEW f \in ParentMaps, NEW c \in Ids
  PROVE  /\ Reach(f, c) \in SUBSET Ids
         /\ c \in Reach(f, c)
         /\ Closed(f, Reach(f, c))
<1>1. Reach(f, c) \in SUBSET Ids /\ c \in Reach(f, c)
  BY DEF Reach
<1>2. ASSUME NEW b \in Reach(f, c), f[b] # Root
      PROVE  f[b] \in Reach(f, c)
  <2>1. b \in Ids /\ f[b] \in Ids
    BY <1>1, <1>2 DEF ParentMaps
  <2>2. ASSUME NEW S \in SUBSET Ids, c \in S, Closed(f, S)
        PROVE  f[b] \in S
    BY <1>2, <2>2 DEF Reach, Closed
  <2>. QED
    BY <2>1, <2>2 DEF Reach
<1>. QED
  BY <1>1, <1>2 DEF Closed

\* What c reaches, reaches no further than c does.
LEMMA ReachIsTransitive ==
  ASSUME NEW f \in ParentMaps, NEW c \in Ids, NEW a \in Reach(f, c)
  PROVE  Reach(f, a) \subseteq Reach(f, c)
<1>1. Reach(f, c) \in SUBSET Ids /\ Closed(f, Reach(f, c))
  BY ReachIsClosed
<1>. QED
  BY <1>1, ReachIsLeast

\* Above c are c itself and what is above its parent.
LEMMA ReachSplits ==
  ASSUME NEW f \in ParentMaps, NEW c \in Ids, f[c] # Root
  PROVE  Reach(f, c) \subseteq {c} \cup Reach(f, f[c])
<1>1. f[c] \in Ids
  BY DEF ParentMaps
<1>2. /\ Reach(f, f[c]) \in SUBSET Ids
      /\ f[c] \in Reach(f, f[c])
      /\ Closed(f, Reach(f, f[c]))
  BY <1>1, ReachIsClosed
<1>3. Closed(f, {c} \cup Reach(f, f[c]))
  BY <1>2 DEF Closed
<1>. QED
  BY <1>2, <1>3, ReachIsLeast

\* A category at the top reaches nothing else.
LEMMA ReachOfTop ==
  ASSUME NEW f \in ParentMaps, NEW c \in Ids, f[c] = Root
  PROVE  Reach(f, c) \subseteq {c}
<1>1. {c} \in SUBSET Ids /\ Closed(f, {c})
  BY DEF Closed
<1>. QED
  BY <1>1, ReachIsLeast

\* A cycle is one from each of its members.
LEMMA CycleFromEach ==
  ASSUME NEW f \in ParentMaps, NEW d \in Ids, OnCycle(f, d), NEW a \in Reach(f, d)
  PROVE  OnCycle(f, a)
<1> DEFINE S == {b \in Reach(f, d) : d \in Reach(f, b) /\ f[b] # Root}
<1>1. /\ Reach(f, d) \in SUBSET Ids
      /\ d \in Reach(f, d)
      /\ Closed(f, Reach(f, d))
  BY ReachIsClosed
<1>2. d \in S
  BY <1>1 DEF OnCycle
<1>3. ASSUME NEW b \in S PROVE f[b] \in S
  <2>1. b \in Ids /\ f[b] # Root /\ f[b] \in Reach(f, d) /\ f[b] \in Ids
    BY <1>1, <1>3 DEF Closed
  <2>2. d \in Reach(f, f[b])
    BY <1>3, <2>1, ReachSplits DEF OnCycle
  <2>3. f[f[b]] # Root
    BY <2>1, <2>2, ReachOfTop DEF OnCycle
  <2>. QED
    BY <2>1, <2>2, <2>3
<1>4. a \in S
  <2>1. S \in SUBSET Ids /\ Closed(f, S)
    BY <1>1, <1>3 DEF Closed
  <2>. HIDE DEF S
  <2>. QED
    BY <1>2, <2>1, ReachIsLeast
<1>5. a \in Ids /\ f[a] # Root /\ f[a] \in Ids
  BY <1>1, <1>4 DEF ParentMaps
<1>6. CASE a = d
  BY <1>6
<1>7. CASE a # d
  <2>1. d \in Reach(f, f[a])
    BY <1>4, <1>5, <1>7, ReachSplits
  <2>2. a \in Reach(f, f[a])
    BY <1>5, <2>1, ReachIsTransitive
  <2>. QED
    BY <1>5, <2>2 DEF OnCycle
<1>. QED
  BY <1>6, <1>7

\* What is above c depends on the parents of that alone.
LEMMA ReachDependsOnItself ==
  ASSUME NEW f \in ParentMaps, NEW g \in ParentMaps, NEW c \in Ids, \A a \in Reach(f, c) : f[a] = g[a]
  PROVE  Reach(g, c) = Reach(f, c)
<1>1. /\ Reach(f, c) \in SUBSET Ids
      /\ c \in Reach(f, c)
      /\ Closed(g, Reach(f, c))
  BY ReachIsClosed DEF Closed
<1>2. Reach(g, c) \subseteq Reach(f, c)
  BY <1>1, ReachIsLeast
<1>3. /\ Reach(g, c) \in SUBSET Ids
      /\ c \in Reach(g, c)
      /\ Closed(f, Reach(g, c))
  BY <1>2, ReachIsClosed DEF Closed
<1>. QED
  BY <1>2, <1>3, ReachIsLeast

\* A cycle that c is on is there in every table that agrees on what c reaches.
LEMMA CycleDependsOnItself ==
  ASSUME NEW f \in ParentMaps, NEW g \in ParentMaps, NEW c \in Ids, \A a \in Reach(f, c) : f[a] = g[a],
         OnCycle(f, c)
  PROVE  OnCycle(g, c)
<1>1. c \in Reach(f, c) /\ f[c] \in Reach(f, c) /\ f[c] \in Ids /\ g[c] = f[c]
  BY ReachIsClosed DEF OnCycle, Closed
<1>2. Reach(f, f[c]) \subseteq Reach(f, c)
  BY <1>1, ReachIsTransitive
<1>3. Reach(g, f[c]) = Reach(f, f[c])
  BY <1>1, <1>2, ReachDependsOnItself
<1>. QED
  BY <1>1, <1>3 DEF OnCycle

\* A way up to t does not lead over t.
LEMMA WayUpTo ==
  ASSUME NEW t \in Ids, NEW f \in ParentMaps, NEW g \in ParentMaps, AgreeOff(t, f, g), NEW c \in Ids,
         t \in Reach(f, c)
  PROVE  t \in Reach(g, c)
<1>1. ASSUME NEW S \in SUBSET Ids, c \in S, Closed(g, S), t \notin S
      PROVE  FALSE
  <2>1. Closed(f, S)
    BY <1>1 DEF Closed, AgreeOff
  <2>. QED
    BY <1>1, <2>1 DEF Reach
<1>. QED
  BY <1>1 DEF Reach

-----------------------------------------------------------------------------
(* Cycles and the requests that they come from                             *)

\* Two requests of D that raced, by the pairs in bs, have put their links, from tg[r] to
\* up[r], into the cycle that c is on.
Explained(f, D, tg, up, bs, c) ==
  \E x, y \in D :
    /\ x # y /\ {x, y} \in bs
    /\ f[tg[x]] = up[x] /\ f[tg[y]] = up[y]
    /\ {tg[x], tg[y]} \subseteq Reach(f, c)

CyclesExplained(f, D, tg, up, bs) ==
  \A c \in Ids : OnCycle(f, c) => Explained(f, D, tg, up, bs, c)

\* What explains the cycles of a table still explains them when more requests are done.
LEMMA ExplainedMore ==
  ASSUME NEW f, NEW D, NEW tg, NEW up, NEW bs, NEW E, NEW tg2, NEW up2, NEW bs2, D \subseteq E, bs \subseteq bs2,
         \A x \in D : tg2[x] = tg[x] /\ up2[x] = up[x], CyclesExplained(f, D, tg, up, bs)
  PROVE  CyclesExplained(f, E, tg2, up2, bs2)
<1> SUFFICES ASSUME NEW c \in Ids, OnCycle(f, c)
             PROVE  Explained(f, E, tg2, up2, bs2, c)
  BY DEF CyclesExplained
<1>1. PICK x \in D, y \in D :
        /\ x # y /\ {x, y} \in bs
        /\ f[tg[x]] = up[x] /\ f[tg[y]] = up[y]
        /\ {tg[x], tg[y]} \subseteq Reach(f, c)
  BY DEF CyclesExplained, Explained
<1>2. x \in E /\ y \in E /\ {x, y} \in bs2
  BY <1>1
<1>3. tg2[x] = tg[x] /\ up2[x] = up[x] /\ tg2[y] = tg[y] /\ up2[y] = up[y]
  BY <1>1
<1>4. f[tg2[x]] = up2[x] /\ f[tg2[y]] = up2[y] /\ {tg2[x], tg2[y]} \subseteq Reach(f, c)
  BY <1>1, <1>3
<1>. QED
  BY <1>1, <1>2, <1>4 DEF Explained

\* A cycle that avoids t is one that there was before t moved.
LEMMA ExplainedOff ==
  ASSUME NEW t \in Ids, NEW f \in ParentMaps, NEW g \in ParentMaps, AgreeOff(t, f, g),
         NEW D, NEW E, NEW tg, NEW up, NEW bs, D \subseteq E, CyclesExplained(f, D, tg, up, bs),
         NEW c \in Ids, OnCycle(g, c), t \notin Reach(g, c)
  PROVE  Explained(g, E, tg, up, bs, c)
<1>1. \A a \in Reach(g, c) : a \in Ids /\ g[a] = f[a]
  BY DEF AgreeOff, Reach
<1>2. OnCycle(f, c) /\ Reach(f, c) = Reach(g, c)
  BY <1>1, CycleDependsOnItself, ReachDependsOnItself
<1>3. Explained(f, D, tg, up, bs, c)
  BY <1>2 DEF CyclesExplained
<1>4. PICK x \in D, y \in D :
        /\ x # y /\ {x, y} \in bs
        /\ f[tg[x]] = up[x] /\ f[tg[y]] = up[y]
        /\ {tg[x], tg[y]} \subseteq Reach(f, c)
  BY <1>3 DEF Explained
<1>. QED
  BY <1>1, <1>2, <1>4 DEF Explained

\* A category that moves away from under what is not above its new parent makes no cycle.
LEMMA MoveMakesNoCycle ==
  ASSUME NEW t \in Ids, NEW p \in Ids \cup {Root}, NEW f \in ParentMaps, p # Root => t \notin Reach(f, p),
         NEW D, NEW E, NEW tg, NEW up, NEW bs, D \subseteq E, CyclesExplained(f, D, tg, up, bs)
  PROVE  CyclesExplained([f EXCEPT ![t] = p], E, tg, up, bs)
<1> DEFINE g == [f EXCEPT ![t] = p]
<1>1. g \in ParentMaps /\ AgreeOff(t, f, g) /\ AgreeOff(t, g, f) /\ g[t] = p
  BY DEF ParentMaps, AgreeOff
<1> HIDE DEF g
<1>2. ASSUME NEW c \in Ids, OnCycle(g, c)
      PROVE  t \notin Reach(g, c)
  <2>1. ASSUME t \in Reach(g, c)
        PROVE  FALSE
    <3>1. OnCycle(g, t)
      BY <1>1, <1>2, <2>1, CycleFromEach
    <3>2. p \in Ids /\ t \in Reach(g, p)
      BY <1>1, <3>1 DEF OnCycle
    <3>3. t \in Reach(f, p)
      BY <1>1, <3>2, WayUpTo
    <3>. QED
      BY <1>1, <3>1, <3>3 DEF OnCycle
  <2>. QED
    BY <2>1
<1>3. CyclesExplained(g, E, tg, up, bs)
  BY <1>1, <1>2, ExplainedOff DEF CyclesExplained
<1>. QED
  BY <1>3 DEF g

\* Two links laid together: each alone makes no cycle that is not explained.
LEMMA MovesThatRace ==
  ASSUME NEW f \in ParentMaps, NEW tg, NEW up, NEW bs, NEW D, NEW r, NEW q, r # q, {r, q} \in bs,
         tg[r] \in Ids, tg[q] \in Ids, up[r] \in Ids \cup {Root}, up[q] \in Ids \cup {Root},
         CyclesExplained([f EXCEPT ![tg[r]] = up[r]], D \cup {r}, tg, up, bs),
         CyclesExplained([f EXCEPT ![tg[q]] = up[q]], D \cup {q}, tg, up, bs)
  PROVE  CyclesExplained([[f EXCEPT ![tg[q]] = up[q]] EXCEPT ![tg[r]] = up[r]], D \cup {q, r}, tg, up, bs)
<1> DEFINE fr == [f EXCEPT ![tg[r]] = up[r]]
           fq == [f EXCEPT ![tg[q]] = up[q]]
           g  == [fq EXCEPT ![tg[r]] = up[r]]
<1>1. fr \in ParentMaps /\ fq \in ParentMaps /\ g \in ParentMaps
  BY DEF ParentMaps
<1>2. AgreeOff(tg[r], fq, g) /\ AgreeOff(tg[q], fr, g)
  BY DEF ParentMaps, AgreeOff
<1>3. g[tg[r]] = up[r] /\ (tg[q] # tg[r] => g[tg[q]] = up[q])
  BY DEF ParentMaps
<1>4. tg[q] = tg[r] => g = fr
  BY DEF ParentMaps
<1> HIDE DEF fr, fq, g
<1>5. CyclesExplained(fr, D \cup {r}, tg, up, bs) /\ CyclesExplained(fq, D \cup {q}, tg, up, bs)
  BY DEF fr, fq
<1>6. ASSUME NEW c \in Ids, OnCycle(g, c)
      PROVE  Explained(g, D \cup {q, r}, tg, up, bs, c)
  <2>1. CASE tg[q] = tg[r]
    <3>1. Explained(fr, D \cup {r}, tg, up, bs, c)
      BY <1>4, <1>5, <1>6, <2>1 DEF CyclesExplained
    <3>2. PICK x \in D \cup {r}, y \in D \cup {r} :
            /\ x # y /\ {x, y} \in bs
            /\ fr[tg[x]] = up[x] /\ fr[tg[y]] = up[y]
            /\ {tg[x], tg[y]} \subseteq Reach(fr, c)
      BY <3>1 DEF Explained
    <3>3. x \in D \cup {q, r} /\ y \in D \cup {q, r} /\ g = fr
      BY <1>4, <2>1
    <3>. QED
      BY <3>2, <3>3 DEF Explained
  <2>2. CASE tg[r] \notin Reach(g, c)
    BY <1>1, <1>2, <1>5, <1>6, <2>2, ExplainedOff
  <2>3. CASE tg[q] \notin Reach(g, c)
    BY <1>1, <1>2, <1>5, <1>6, <2>3, ExplainedOff
  <2>4. CASE tg[q] # tg[r] /\ {tg[r], tg[q]} \subseteq Reach(g, c)
    BY <1>3, <2>4 DEF Explained
  <2>. QED
    BY <2>1, <2>2, <2>3, <2>4
<1>7. CyclesExplained(g, D \cup {q, r}, tg, up, bs)
  BY <1>6 DEF CyclesExplained
<1>. QED
  BY <1>7 DEF g, fq

-----------------------------------------------------------------------------
(* Types                                                                   *)

\* What a request is about in each of its steps
Request(r) ==
  /\ pc[r] = "new" => level[r] = 0
  /\ pc[r] \in Running => target[r] = r \/ target[r] \in rows
  /\ pc[r] = "ancestors" => target[r] \in rows /\ to[r] # target[r]
  /\ pc[r] \in {"ancestors", "parent"} => to[r] \in Ids
  /\ pc[r] = "write" => to[r] \in rows \cup {Root, Unset}

TypeInv ==
  /\ TypeOK
  /\ \A c \in Ids \ rows : parent[c] = Root
  /\ \A r \in Requests : Request(r)

\* The initial tables have the right types, and no request has begun.
LEMMA InitTypes == Init => TypeInv
<1> SUFFICES ASSUME Init PROVE TypeInv
  OBVIOUS
<1> USE CategoriesAssumption DEF Init
<1>1. \A c \in Ids : Cardinality(Ancestors(c)) \in Nat
  <2>1. \A c \in Ids : Ancestors(c) \subseteq Ids
    BY DEF Ancestors, Ids
  <2>. QED
    BY <2>1, FS_Subset, FS_CardinalityType
<1>2. parent \in [Ids -> rows \cup {Root}] /\ \A c \in Ids \ rows : parent[c] = Root
  BY DEF Ids
<1>3. depth \in [Ids -> Nat]
  <2>1. \A c \in Ids : parent[c] # Root => parent[c] \in Ids
    BY <1>2 DEF Ids
  <2>. QED
    BY <1>1, <2>1
<1>4. TypeOK
  BY <1>2, <1>3 DEF TypeOK, Ids
<1>. QED
  BY <1>2, <1>4 DEF TypeInv, Request, Running

\* How a request begins
LEMMA BeginTypes ==
  ASSUME TypeInv, NEW r \in Requests, NEW c \in Ids, NEW p \in Ids \cup {Root, Unset}, Begin(r, c, p),
         NEW place \in Running \cup {"failed"}, pc' = [pc EXCEPT ![r] = place],
         NEW n \in Nat, level' = [level EXCEPT ![r] = n],
         c = r \/ c \in rows,
         place = "ancestors" => c \in rows /\ p # c,
         place \in {"ancestors", "parent"} => p \in Ids,
         place = "write" => p \in rows \cup {Root, Unset}
  PROVE  TypeInv'
<1>1. /\ pc[r] = "new"
      /\ target' = [target EXCEPT ![r] = c]
      /\ to' = [to EXCEPT ![r] = p]
      /\ beside' = beside \cup {{r, q} : q \in {q \in Requests : pc[q] \in Running}}
      /\ UNCHANGED <<rows, parent, depth>>
  BY DEF Begin, tree
<1>2. \A q \in Requests :
        /\ target'[q] = IF q = r THEN c ELSE target[q]
        /\ to'[q] = IF q = r THEN p ELSE to[q]
        /\ pc'[q] = IF q = r THEN place ELSE pc[q]
        /\ level'[q] = IF q = r THEN n ELSE level[q]
  BY <1>1 DEF TypeInv, TypeOK
<1>3. r \notin rows
  BY <1>1 DEF TypeInv, TypeOK
<1>4. /\ target' \in [Requests -> Ids]
      /\ to' \in [Requests -> Ids \cup {Root, Unset}]
      /\ pc' \in [Requests -> Running \cup {"new", "done", "failed"}]
      /\ level' \in [Requests -> Nat]
      /\ beside' \subseteq SUBSET Requests
  BY <1>1 DEF TypeInv, TypeOK
<1>5. \A q \in Requests : to'[q] = Unset => pc'[q] \in {"new", "write", "done", "failed"}
  BY <1>2, CategoriesAssumption DEF TypeInv, TypeOK, Running
<1>6. \A q \in Requests : q \in rows <=> target'[q] = q /\ pc'[q] = "done"
  BY <1>1, <1>2, <1>3 DEF TypeInv, TypeOK, Running
<1>7. TypeOK'
  BY <1>1, <1>4, <1>5, <1>6 DEF TypeInv, TypeOK
<1>8. \A q \in Requests : Request(q)'
  BY <1>1, <1>2 DEF TypeInv, Request, Running
<1>. QED
  BY <1>1, <1>7, <1>8 DEF TypeInv

\* Every step keeps the types and what the pc of a request says of it.
LEMMA StepTypes == TypeInv /\ [Next]_vars => TypeInv'
<1> SUFFICES ASSUME TypeInv, [Next]_vars PROVE TypeInv'
  OBVIOUS
<1>a. TypeOK
  BY DEF TypeInv
<1>1. ASSUME NEW r \in Requests, NEW p \in Ids \cup {Root}, BeginCreate(r, p)
      PROVE  TypeInv'
  <2>1. level' = [level EXCEPT ![r] = level[r]] /\ level[r] \in Nat /\ r \in Ids
    BY <1>a, <1>1 DEF BeginCreate, TypeOK, Ids
  <2>2. CASE p = Root
    <3>1. Begin(r, r, p) /\ pc' = [pc EXCEPT ![r] = "write"]
      BY <1>1, <2>2 DEF BeginCreate
    <3>2. p \in rows \cup {Root, Unset} /\ "write" \in Running \cup {"failed"}
      BY <2>2 DEF Running
    <3>. QED
      BY <2>1, <3>1, <3>2, BeginTypes
  <2>3. CASE p # Root
    BY <1>1, <2>1, <2>3, BeginTypes DEF BeginCreate, Running
  <2>. QED
    BY <2>2, <2>3
<1>2. ASSUME NEW r \in Requests, NEW c \in Ids, NEW p \in Ids \cup {Root, Unset}, BeginUpdate(r, c, p)
      PROVE  TypeInv'
  <2> DEFINE named == IF p = Unset THEN Root ELSE p
             n     == IF named = parent[c] THEN depth[c] ELSE 0
             place == IF named \in {parent[c], Root} THEN "write" ELSE IF named = c THEN "failed" ELSE "ancestors"
  <2>1. /\ c \in rows /\ Begin(r, c, p)
        /\ level' = [level EXCEPT ![r] = n]
        /\ pc' = [pc EXCEPT ![r] = place]
    BY <1>2 DEF BeginUpdate
  <2>2. n \in Nat /\ parent[c] \in rows \cup {Root} /\ place \in Running \cup {"failed"}
    BY <1>a DEF TypeOK, Running
  <2>3. place = "ancestors" => p \in Ids /\ p # c
    OBVIOUS
  <2>4. place = "write" => p \in rows \cup {Root, Unset}
    BY <2>2
  <2>5. place # "parent"
    OBVIOUS
  <2> HIDE DEF n, place
  <2>. QED
    BY <2>1, <2>2, <2>3, <2>4, <2>5, BeginTypes
\* A request that goes on and changes nothing but its step and level
<1>3. ASSUME NEW r \in Requests, pc[r] \in Running, NEW place \in {"parent", "write", "failed"},
             pc' = [pc EXCEPT ![r] = place], level' \in [Requests -> Nat],
             \A q \in Requests \ {r} : level'[q] = level[q],
             UNCHANGED <<tree, requests, beside>>,
             place = "parent" => pc[r] = "ancestors",
             place = "write" => to[r] \in rows
      PROVE  TypeInv'
  <2>1. UNCHANGED <<rows, parent, depth, target, to, beside>>
    BY <1>3 DEF tree, requests
  <2>2. \A q \in Requests : pc'[q] = IF q = r THEN place ELSE pc[q]
    BY <1>a, <1>3 DEF TypeOK
  <2>3. pc' \in [Requests -> Running \cup {"new", "done", "failed"}]
    BY <1>a, <1>3 DEF TypeOK, Running
  <2>4. \A q \in Requests : to'[q] = Unset => pc'[q] \in {"new", "write", "done", "failed"}
    BY <1>a, <1>3, <2>1, <2>2, CategoriesAssumption DEF TypeOK, TypeInv, Request
  <2>5. TypeOK'
    BY <1>a, <1>3, <2>1, <2>2, <2>3, <2>4 DEF TypeOK, Running
  <2>6. \A q \in Requests : Request(q)'
    BY <1>3, <2>1, <2>2 DEF TypeInv, Request, Running
  <2>. QED
    BY <2>1, <2>5, <2>6 DEF TypeInv
<1>4. ASSUME NEW r \in Requests, ReadAncestors(r)
      PROVE  TypeInv'
  <2>1. PICK place \in {"parent", "failed"} : pc' = [pc EXCEPT ![r] = place]
    BY <1>4 DEF ReadAncestors
  <2>. QED
    BY <1>a, <1>3, <1>4, <2>1 DEF ReadAncestors, Running, TypeOK
<1>5. ASSUME NEW r \in Requests, ReadParent(r)
      PROVE  TypeInv'
  <2>1. PICK place \in {"write", "failed"} : pc' = [pc EXCEPT ![r] = place] /\ (place = "write" => to[r] \in rows)
    BY <1>5 DEF ReadParent
  <2>2. level' \in [Requests -> Nat] /\ \A q \in Requests \ {r} : level'[q] = level[q]
    <3>1. to[r] \in rows => depth[to[r]] \in Nat
      BY <1>a DEF TypeOK
    <3>. QED
      BY <1>a, <1>5, <3>1 DEF ReadParent, TypeOK
  <2>. QED
    BY <1>3, <1>5, <2>1, <2>2 DEF ReadParent, Running
<1>6. ASSUME NEW r \in Requests, Fail(r)
      PROVE  TypeInv'
  BY <1>a, <1>3, <1>6 DEF Fail, TypeOK
<1>7. ASSUME NEW r \in Requests, Write(r)
      PROVE  TypeInv'
  <2>1. /\ pc[r] = "write"
        /\ rows' = rows \cup {target[r]}
        /\ parent' = [parent EXCEPT ![target[r]] = IF to[r] = Unset THEN @ ELSE to[r]]
        /\ depth' = [depth EXCEPT ![target[r]] = level[r]]
        /\ pc' = [pc EXCEPT ![r] = "done"]
        /\ UNCHANGED <<target, to, level, beside>>
    BY <1>7 DEF Write, requests
  <2>2. target[r] \in Ids /\ to[r] \in rows \cup {Root, Unset} /\ (target[r] = r \/ target[r] \in rows)
    BY <1>a, <2>1 DEF TypeOK, TypeInv, Request, Running
  <2>3. parent' \in [Ids -> rows' \cup {Root}]
    BY <1>a, <2>1, <2>2 DEF TypeOK
  <2>4. \A q \in Requests : pc'[q] = IF q = r THEN "done" ELSE pc[q]
    BY <1>a, <2>1 DEF TypeOK
  <2>5. \A q \in Requests : q \in rows' <=> target'[q] = q /\ pc'[q] = "done"
    BY <1>a, <2>1, <2>2, <2>4 DEF TypeOK
  <2>6. pc' \in [Requests -> Running \cup {"new", "done", "failed"}] /\ depth' \in [Ids -> Nat]
    BY <1>a, <2>1 DEF TypeOK
  <2>7. TypeOK'
    BY <1>a, <2>1, <2>2, <2>3, <2>4, <2>5, <2>6 DEF TypeOK
  <2>8. \A c \in Ids \ rows' : parent'[c] = Root
    BY <1>a, <2>1 DEF TypeOK, TypeInv
  <2>9. \A q \in Requests : Request(q)'
    BY <2>1, <2>4 DEF TypeInv, Request, Running
  <2>. QED
    BY <2>7, <2>8, <2>9 DEF TypeInv
<1>8. CASE UNCHANGED vars
  <2>1. UNCHANGED <<rows, parent, depth, pc, target, to, level, beside>>
    BY <1>8 DEF vars, tree, requests
  <2>. QED
    BY <1>a, <2>1 DEF TypeInv, TypeOK, Request
<1>. QED
  BY <1>1, <1>2, <1>4, <1>5, <1>6, <1>7, <1>8 DEF Next

\* The tree and the requests keep their types: in particular a parent is a category that is
\* there, and a request has made its category exactly when it is done.
THEOREM CategoriesTyped == Spec => []TypeOK
<1>1. Spec => []TypeInv
  BY InitTypes, StepTypes, PTL DEF Spec
<1>. QED
  BY <1>1, PTL DEF TypeInv

-----------------------------------------------------------------------------
(* Cycles                                                                  *)

Done == {r \in Requests : pc[r] = "done"}

\* A request that is going to move its category without another look at its ancestors, and
\* what the parents will be
Moving(r) ==
  /\ pc[r] = "write" \/ (pc[r] = "parent" /\ target[r] \in rows)
  /\ to[r] # Unset

Moved(r) == [parent EXCEPT ![target[r]] = to[r]]

RaceInv ==
  \A r, q \in Requests : r # q /\ pc[r] \in Running /\ pc[q] \in Running => {r, q} \in beside

CycleInv ==
  /\ RaceInv
  /\ CyclesExplained(parent, Done, target, to, beside)
  /\ \A r \in Requests :
       Moving(r) => CyclesExplained(Moved(r), Done \cup {r}, target, to, beside)

\* The code's walk towards the top collects what the category reaches, cycle or no cycle.
LEMMA AncestorsAreReached == TypeInv => \A c \in rows : Ancestors(c) = Reach(parent, c)
<1> SUFFICES ASSUME TypeInv, NEW c \in rows PROVE Ancestors(c) = Reach(parent, c)
  OBVIOUS
<1>1. rows \in SUBSET Ids /\ parent \in ParentMaps /\ Closed(parent, rows) /\ c \in Ids
  BY DEF TypeInv, TypeOK, ParentMaps, Closed
<1>2. Reach(parent, c) \subseteq rows
  BY <1>1, ReachIsLeast
<1>3. ASSUME NEW a \in Reach(parent, c) PROVE a \in Ancestors(c)
  BY <1>1, <1>2 DEF Reach, Ancestors, Closed
<1>4. ASSUME NEW a \in Ancestors(c), NEW S \in SUBSET Ids, c \in S, Closed(parent, S)
      PROVE  a \in S
  <2>1. S \cap rows \in SUBSET rows /\ c \in S \cap rows
    BY <1>4
  <2>2. \A b \in S \cap rows : parent[b] \in (S \cap rows) \cup {Root}
    BY <1>1, <1>4 DEF Closed
  <2>. QED
    BY <2>1, <2>2 DEF Ancestors
<1>5. Ancestors(c) \subseteq Ids
  BY <1>1 DEF Ancestors
<1>. QED
  BY <1>3, <1>4, <1>5 DEF Reach

\* The invariant gives the property the run checks.
LEMMA CycleInvSuffices == TypeInv /\ CycleInv => CyclesOnlyWhenRaced
<1> SUFFICES ASSUME TypeInv, CycleInv, NEW c \in rows, InCycle(c)
             PROVE  \E r, q \in Requests :
                      /\ Raced(r, q)
                      /\ Placed(r) /\ Placed(q)
                      /\ {target[r], target[q]} \subseteq Ancestors(c)
  BY DEF CyclesOnlyWhenRaced
<1>1. c \in Ids /\ parent[c] \in rows \cup {Root}
  BY DEF TypeInv, TypeOK
<1>2. OnCycle(parent, c) /\ Ancestors(c) = Reach(parent, c)
  BY <1>1, AncestorsAreReached DEF InCycle, OnCycle
<1>3. Explained(parent, Done, target, to, beside, c)
  BY <1>1, <1>2 DEF CycleInv, CyclesExplained
<1>. QED
  BY <1>2, <1>3 DEF Explained, Done, Raced, Placed

\* The initial tables have no cycle.
LEMMA InitCycles == Init => CycleInv
<1> SUFFICES ASSUME Init PROVE CycleInv
  OBVIOUS
<1>1. TypeInv
  BY InitTypes
<1>2. RaceInv /\ \A r \in Requests : ~Moving(r)
  BY DEF Init, RaceInv, Moving, Running
<1>3. ASSUME NEW c \in Ids, OnCycle(parent, c)
      PROVE  FALSE
  <2>1. c \in rows /\ parent[c] \in rows
    BY <1>1, <1>3 DEF TypeInv, TypeOK, OnCycle
  <2>2. InCycle(c)
    BY <1>1, <1>3, <2>1, AncestorsAreReached DEF InCycle, OnCycle
  <2>. QED
    BY <2>1, <2>2 DEF Init
<1>. QED
  BY <1>2, <1>3 DEF CycleInv, CyclesExplained

\* A request r that begins, or goes on and reads: the tree is as it was, and so are the
\* other requests that are done or going to move something.
LEMMA CyclesKept ==
  ASSUME TypeInv, CycleInv, NEW r \in Requests, pc[r] # "done", pc'[r] # "done",
         UNCHANGED tree, beside \subseteq beside',
         \A q \in Requests \ {r} : pc'[q] = pc[q] /\ target'[q] = target[q] /\ to'[q] = to[q],
         \A q \in Requests \ {r} : pc[q] \in Running /\ pc'[r] \in Running => {r, q} \in beside',
         Moving(r)' =>
           \/ Moving(r) /\ target'[r] = target[r] /\ to'[r] = to[r]
           \/ /\ target'[r] \in Ids /\ to'[r] \in Ids \cup {Root}
              /\ to'[r] # Root => to'[r] # target'[r]
              /\ to'[r] \in rows => target'[r] \notin Ancestors(to'[r])
           \/ to'[r] = parent[target'[r]]
  PROVE  CycleInv'
<1>1. UNCHANGED <<rows, parent, depth>>
  BY DEF tree
<1>2. Done' = Done /\ r \notin Done
  BY DEF Done
<1>3. RaceInv'
  <2>1. ASSUME NEW p \in Requests, NEW q \in Requests, p # q, pc'[p] \in Running, pc'[q] \in Running
        PROVE  {p, q} \in beside'
    <3>1. CASE p = r
      BY <2>1, <3>1
    <3>2. CASE q = r
      <4>1. {q, p} \in beside'
        BY <2>1, <3>2
      <4>. QED
        BY <4>1
    <3>3. CASE p # r /\ q # r
      BY <2>1, <3>3 DEF CycleInv, RaceInv
    <3>. QED
      BY <3>1, <3>2, <3>3
  <2>. QED
    BY <2>1 DEF RaceInv
<1>4. CyclesExplained(parent, Done, target', to', beside')
  BY <1>2, ExplainedMore DEF CycleInv, Done
<1>5. ASSUME NEW q \in Requests, Moving(q)'
      PROVE  CyclesExplained(Moved(q)', Done \cup {q}, target', to', beside')
  <2>1. CASE q # r \/ (Moving(q) /\ target'[q] = target[q] /\ to'[q] = to[q])
    <3>1. Moving(q) /\ Moved(q)' = Moved(q)
      BY <1>1, <1>5, <2>1 DEF Moving, Moved
    <3>2. \A x \in Done \cup {q} : target'[x] = target[x] /\ to'[x] = to[x]
      BY <1>2, <2>1 DEF Done
    <3>. QED
      BY <3>1, <3>2, ExplainedMore DEF CycleInv
  <2>2. CASE /\ q = r
             /\ target'[r] \in Ids /\ to'[r] \in Ids \cup {Root}
             /\ to'[r] # Root => to'[r] # target'[r]
             /\ to'[r] \in rows => target'[r] \notin Ancestors(to'[r])
    <3>1. to'[r] # Root => target'[r] \notin Reach(parent, to'[r])
      <4>1. CASE to'[r] \in rows
        BY <2>2, <4>1, AncestorsAreReached
      <4>2. CASE to'[r] \in Ids \ rows
        <5>1. parent[to'[r]] = Root /\ parent \in ParentMaps
          BY <4>2 DEF TypeInv, TypeOK, ParentMaps
        <5>. QED
          BY <2>2, <4>2, <5>1, ReachOfTop, CategoriesAssumption
      <4>. QED
        BY <2>2, <4>1, <4>2
    <3>2. parent \in ParentMaps
      BY DEF TypeInv, TypeOK, ParentMaps
    <3>3. Moved(r)' = [parent EXCEPT ![target'[r]] = to'[r]]
      BY <1>1 DEF Moved
    <3>4. CyclesExplained([parent EXCEPT ![target'[r]] = to'[r]], Done \cup {r}, target', to', beside')
      BY <1>4, <2>2, <3>1, <3>2, MoveMakesNoCycle
    <3>. QED
      BY <2>2, <3>3, <3>4
  <2>3. CASE q = r /\ to'[r] = parent[target'[r]]
    <3>1. Moved(r)' = parent
      BY <1>1, <2>3 DEF Moved, TypeInv, TypeOK
    <3>2. CyclesExplained(parent, Done \cup {r}, target', to', beside')
      BY <1>4, ExplainedMore
    <3>. QED
      BY <2>3, <3>1, <3>2
  <2>. QED
    BY <1>5, <2>1, <2>2, <2>3
<1>6. \A q \in Requests : Moving(q)' => CyclesExplained(Moved(q), Done \cup {q}, target, to, beside)'
  BY <1>2, <1>5
<1>7. CyclesExplained(parent, Done, target, to, beside)'
  BY <1>1, <1>2, <1>4
<1>. QED
  BY <1>3, <1>6, <1>7 DEF CycleInv

\* A write keeps the invariant: a cycle it closes has two moves that ran beside one another.
LEMMA CyclesAfterWrite ==
  ASSUME TypeInv, CycleInv, NEW r \in Requests, Write(r)
  PROVE  CycleInv'
<1>a. TypeOK
  BY DEF TypeInv
<1>1. /\ pc[r] = "write" /\ pc[r] \in Running
      /\ rows' = rows \cup {target[r]}
      /\ parent' = [parent EXCEPT ![target[r]] = IF to[r] = Unset THEN @ ELSE to[r]]
      /\ pc' = [pc EXCEPT ![r] = "done"]
      /\ target' = target /\ to' = to /\ beside' = beside
  BY DEF Write, requests, Running
<1>2. \A q \in Requests : pc'[q] = IF q = r THEN "done" ELSE pc[q]
  BY <1>a, <1>1 DEF TypeOK
<1>3. Done' = Done \cup {r}
  BY <1>2 DEF Done
<1>4. parent \in ParentMaps /\ target[r] \in Ids /\ to[r] \in Ids \cup {Root, Unset}
  BY <1>a DEF TypeOK, ParentMaps
<1>5. RaceInv'
  BY <1>1, <1>2 DEF CycleInv, RaceInv, Running
<1>6. parent' = IF to[r] = Unset THEN parent ELSE Moved(r)
  BY <1>a, <1>1 DEF Moved, TypeOK
<1>7. CyclesExplained(parent', Done \cup {r}, target, to, beside)
  <2>1. CASE to[r] = Unset
    BY <1>6, <2>1, ExplainedMore DEF CycleInv
  <2>2. CASE to[r] # Unset
    BY <1>1, <1>6, <2>2 DEF CycleInv, Moving
  <2>. QED
    BY <2>1, <2>2
<1>8. ASSUME NEW q \in Requests, Moving(q)'
      PROVE  CyclesExplained([parent' EXCEPT ![target[q]] = to[q]], (Done \cup {r}) \cup {q}, target, to, beside)
  <2>1. q # r /\ pc[q] \in {"parent", "write"} /\ to[q] # Unset
    BY <1>1, <1>2, <1>8 DEF Moving
  <2>2. Moving(q)
    <3>1. CASE pc[q] = "write"
      BY <2>1, <3>1 DEF Moving
    <3>2. CASE pc[q] = "parent"
      <4>1. target[q] \in rows \cup {target[r]}
        BY <1>1, <1>2, <1>8, <3>2 DEF Moving
      <4>2. target[q] = q \/ target[q] \in rows
        BY <3>2 DEF TypeInv, Request, Running
      <4>3. target[r] = r \/ target[r] \in rows
        BY <1>1 DEF TypeInv, Request, Running
      <4>. QED
        BY <2>1, <3>2, <4>1, <4>2, <4>3 DEF Moving
    <3>. QED
      BY <2>1, <3>1, <3>2
  <2>3. CyclesExplained(Moved(q), Done \cup {q}, target, to, beside)
    BY <2>2 DEF CycleInv
  <2>4. CASE to[r] = Unset
    <3>1. [parent' EXCEPT ![target[q]] = to[q]] = Moved(q)
      BY <1>6, <2>4 DEF Moved
    <3>2. CyclesExplained(Moved(q), (Done \cup {r}) \cup {q}, target, to, beside)
      BY <2>3, ExplainedMore
    <3>. QED
      BY <3>1, <3>2
  <2>5. CASE to[r] # Unset
    <3>1. {q, r} \in beside
      BY <1>1, <2>1 DEF CycleInv, RaceInv, Running
    <3>2. CyclesExplained(Moved(r), Done \cup {r}, target, to, beside)
      BY <1>1, <2>5 DEF CycleInv, Moving
    <3>3. target[q] \in Ids /\ to[q] \in Ids \cup {Root} /\ to[r] \in Ids \cup {Root}
      BY <1>a, <2>1, <2>5 DEF TypeOK
    <3>4. CyclesExplained([Moved(r) EXCEPT ![target[q]] = to[q]], Done \cup {r, q}, target, to, beside)
      BY <1>4, <2>1, <2>3, <3>1, <3>2, <3>3, MovesThatRace DEF Moved
    <3>5. Done \cup {r, q} = (Done \cup {r}) \cup {q}
      OBVIOUS
    <3>. QED
      BY <1>6, <2>5, <3>4, <3>5
  <2>. QED
    BY <2>4, <2>5
<1>9. \A q \in Requests : Moving(q)' => CyclesExplained(Moved(q), Done \cup {q}, target, to, beside)'
  BY <1>1, <1>3, <1>8 DEF Moved
<1>10. CyclesExplained(parent, Done, target, to, beside)'
  BY <1>1, <1>3, <1>7
<1>. QED
  BY <1>5, <1>9, <1>10 DEF CycleInv

\* Every step leaves each cycle explained.
LEMMA StepCycles == TypeInv /\ CycleInv /\ [Next]_vars => CycleInv'
<1> SUFFICES ASSUME TypeInv, CycleInv, [Next]_vars PROVE CycleInv'
  OBVIOUS
<1>a. TypeOK
  BY DEF TypeInv
<1>b. \A c \in rows : parent[c] \in rows \cup {Root} /\ c \in Ids /\ c # Root /\ c # Unset
  BY <1>a, CategoriesAssumption DEF TypeOK
<1>1. ASSUME NEW r \in Requests, NEW c, NEW p, NEW place, Begin(r, c, p), pc' = [pc EXCEPT ![r] = place]
      PROVE  /\ pc[r] = "new" /\ pc'[r] = place /\ target'[r] = c /\ to'[r] = p
             /\ UNCHANGED tree /\ beside \subseteq beside'
             /\ \A q \in Requests \ {r} : pc'[q] = pc[q] /\ target'[q] = target[q] /\ to'[q] = to[q]
             /\ \A q \in Requests \ {r} : pc[q] \in Running => {r, q} \in beside'
  BY <1>a, <1>1 DEF Begin, TypeOK
<1>2. ASSUME NEW r \in Requests, NEW p \in Ids \cup {Root}, BeginCreate(r, p)
      PROVE  CycleInv'
  <2>1. PICK place \in {"write", "parent"} :
          /\ Begin(r, r, p) /\ pc' = [pc EXCEPT ![r] = place]
          /\ place = "write" => p = Root
    BY <1>2 DEF BeginCreate
  <2>2. /\ pc[r] = "new" /\ pc'[r] = place /\ target'[r] = r /\ to'[r] = p
        /\ UNCHANGED tree /\ beside \subseteq beside'
        /\ \A q \in Requests \ {r} : pc'[q] = pc[q] /\ target'[q] = target[q] /\ to'[q] = to[q]
        /\ \A q \in Requests \ {r} : pc[q] \in Running => {r, q} \in beside'
    BY <1>1, <2>1
  <2>3. r \notin rows /\ r \in Ids /\ rows' = rows /\ Root \notin rows
    BY <1>a, <2>2, CategoriesAssumption DEF TypeOK, Ids, tree
  <2>4. Moving(r)' => p = Root
    BY <2>1, <2>2, <2>3 DEF Moving
  <2>. QED
    BY <2>2, <2>3, <2>4, CyclesKept
<1>3. ASSUME NEW r \in Requests, NEW c \in Ids, NEW p \in Ids \cup {Root, Unset}, BeginUpdate(r, c, p)
      PROVE  CycleInv'
  <2>1. PICK place \in {"write", "failed", "ancestors"} :
          /\ c \in rows /\ Begin(r, c, p) /\ pc' = [pc EXCEPT ![r] = place]
          /\ place = "write" /\ p # Unset => p \in {parent[c], Root}
    BY <1>3 DEF BeginUpdate
  <2>2. /\ pc[r] = "new" /\ pc'[r] = place /\ target'[r] = c /\ to'[r] = p
        /\ UNCHANGED tree /\ beside \subseteq beside'
        /\ \A q \in Requests \ {r} : pc'[q] = pc[q] /\ target'[q] = target[q] /\ to'[q] = to[q]
        /\ \A q \in Requests \ {r} : pc[q] \in Running => {r, q} \in beside'
    BY <1>1, <2>1
  <2>3. Moving(r)' => p \in {parent[c], Root}
    BY <2>1, <2>2 DEF Moving
  <2>4. Root \notin rows
    BY <1>b
  <2>. QED
    BY <2>2, <2>3, <2>4, CyclesKept
\* A request that goes on
<1>4. ASSUME NEW r \in Requests, pc[r] \in Running, NEW place, pc' = [pc EXCEPT ![r] = place], place # "done",
             UNCHANGED <<tree, requests, beside>>
      PROVE  /\ pc[r] # "done" /\ pc'[r] = place /\ target'[r] = target[r] /\ to'[r] = to[r]
             /\ UNCHANGED tree /\ beside \subseteq beside'
             /\ \A q \in Requests \ {r} : pc'[q] = pc[q] /\ target'[q] = target[q] /\ to'[q] = to[q]
             /\ \A q \in Requests \ {r} : pc[q] \in Running /\ pc'[r] \in Running => {r, q} \in beside'
  BY <1>a, <1>4 DEF TypeOK, requests, Running, CycleInv, RaceInv
<1>5. ASSUME NEW r \in Requests, ReadAncestors(r)
      PROVE  CycleInv'
  <2>1. PICK place \in {"parent", "failed"} :
          /\ pc' = [pc EXCEPT ![r] = place]
          /\ place = "parent" => target[r] \notin Ancestors(to[r])
    BY <1>5 DEF ReadAncestors
  <2>2. pc[r] = "ancestors" /\ UNCHANGED <<tree, requests, beside>> /\ pc[r] \in Running
    BY <1>5 DEF ReadAncestors, Running
  <2>3. /\ pc[r] # "done" /\ pc'[r] = place /\ target'[r] = target[r] /\ to'[r] = to[r]
        /\ UNCHANGED tree /\ beside \subseteq beside'
        /\ \A q \in Requests \ {r} : pc'[q] = pc[q] /\ target'[q] = target[q] /\ to'[q] = to[q]
        /\ \A q \in Requests \ {r} : pc[q] \in Running /\ pc'[r] \in Running => {r, q} \in beside'
    BY <1>4, <2>1, <2>2
  <2>4. target[r] \in Ids /\ to[r] \in Ids /\ to[r] # target[r]
    BY <1>a, <2>2 DEF TypeOK, TypeInv, Request
  <2>5. Moving(r)' => place = "parent"
    BY <2>1, <2>3 DEF Moving
  <2>. QED
    BY <2>1, <2>3, <2>4, <2>5, CyclesKept
<1>6. ASSUME NEW r \in Requests, ReadParent(r)
      PROVE  CycleInv'
  <2>1. PICK place \in {"write", "failed"} :
          /\ pc' = [pc EXCEPT ![r] = place]
          /\ place = "write" => to[r] \in rows
    BY <1>6 DEF ReadParent
  <2>2. pc[r] = "parent" /\ UNCHANGED <<tree, requests, beside>> /\ pc[r] \in Running
    BY <1>6 DEF ReadParent, Running
  <2>3. /\ pc[r] # "done" /\ pc'[r] = place /\ target'[r] = target[r] /\ to'[r] = to[r]
        /\ UNCHANGED tree /\ beside \subseteq beside'
        /\ \A q \in Requests \ {r} : pc'[q] = pc[q] /\ target'[q] = target[q] /\ to'[q] = to[q]
        /\ \A q \in Requests \ {r} : pc[q] \in Running /\ pc'[r] \in Running => {r, q} \in beside'
    BY <1>4, <2>1, <2>2
  <2>4. to[r] # Unset /\ target[r] \in Ids
    BY <1>a, <2>2 DEF TypeOK
  <2>5. CASE place = "failed"
    BY <2>3, <2>5, CyclesKept DEF Moving
  <2>6. CASE place = "write" /\ target[r] \in rows
    <3>1. Moving(r)
      BY <2>2, <2>4, <2>6 DEF Moving
    <3>. QED
      BY <2>3, <3>1, CyclesKept
  <2>7. CASE place = "write" /\ target[r] \notin rows
    <3>1. to[r] \in rows /\ to[r] \in Ids
      BY <1>b, <2>1, <2>7
    <3>2. target[r] \notin Ancestors(to[r])
      BY <2>7 DEF Ancestors
    <3>. QED
      BY <2>3, <2>4, <2>7, <3>1, <3>2, CyclesKept
  <2>. QED
    BY <2>5, <2>6, <2>7
<1>7. ASSUME NEW r \in Requests, Fail(r)
      PROVE  CycleInv'
  <2>1. /\ pc[r] # "done" /\ pc'[r] = "failed" /\ target'[r] = target[r] /\ to'[r] = to[r]
        /\ UNCHANGED tree /\ beside \subseteq beside'
        /\ \A q \in Requests \ {r} : pc'[q] = pc[q] /\ target'[q] = target[q] /\ to'[q] = to[q]
        /\ \A q \in Requests \ {r} : pc[q] \in Running /\ pc'[r] \in Running => {r, q} \in beside'
    BY <1>4, <1>7 DEF Fail
  <2>2. ~Moving(r)'
    BY <2>1 DEF Moving
  <2>. QED
    BY <2>1, <2>2, CyclesKept
<1>8. ASSUME NEW r \in Requests, Write(r)
      PROVE  CycleInv'
  BY <1>8, CyclesAfterWrite
<1>9. CASE UNCHANGED vars
  <2>1. UNCHANGED <<rows, parent, pc, target, to, beside>>
    BY <1>9 DEF vars, tree, requests
  <2>2. Done' = Done /\ \A r \in Requests : (Moving(r)' <=> Moving(r)) /\ Moved(r)' = Moved(r)
    BY <2>1 DEF Done, Moving, Moved
  <2>. QED
    BY <2>1, <2>2 DEF CycleInv, RaceInv
<1>. QED
  BY <1>2, <1>3, <1>5, <1>6, <1>7, <1>8, <1>9 DEF Next

\* However many requests move categories, a cycle comes only from two that raced and whose
\* links are both in it.
THEOREM CyclesComeFromRaces == Spec => []CyclesOnlyWhenRaced
  BY InitTypes, StepTypes, InitCycles, StepCycles, CycleInvSuffices, PTL DEF Spec

-----------------------------------------------------------------------------
(* Depths                                                                  *)

\* No request on r's category or on its parent to be raced with r.
Alone(r) == \A q \in Requests : Raced(r, q) => target[q] \notin {target[r], to[r]}

RightLevel(r) ==
  \/ parent[target[r]] = to[r]
  \/ level[r] = IF to[r] = Root THEN 0 ELSE depth[to[r]] + 1

DepthInv ==
  /\ RaceInv
  /\ \A r, q \in Requests : pc[r] = "new" => {r, q} \notin beside
  /\ \A r \in Requests : pc[r] = "write" /\ to[r] # Unset /\ Alone(r) => RightLevel(r)

\* Every step leaves the level right for a request that no other has raced on its two categories.
LEMMA StepDepths == TypeInv /\ CycleInv /\ DepthInv /\ [Next]_vars => DepthInv'
<1> SUFFICES ASSUME TypeInv, CycleInv, DepthInv, [Next]_vars PROVE DepthInv'
  OBVIOUS
<1>a. TypeOK
  BY DEF TypeInv
<1>b. RaceInv'
  BY StepCycles DEF CycleInv
<1>1. ASSUME NEW r \in Requests, NEW c \in Ids, NEW p, Begin(r, c, p),
             NEW place, pc' = [pc EXCEPT ![r] = place], place # "new",
             NEW n, level' = [level EXCEPT ![r] = n],
             place = "write" /\ p # Unset => p = parent[c] \/ (p = Root /\ n = 0)
      PROVE  DepthInv'
  <2>1. /\ pc[r] = "new"
        /\ beside' = beside \cup {{r, q} : q \in {q \in Requests : pc[q] \in Running}}
        /\ UNCHANGED <<rows, parent, depth>>
        /\ \A q \in Requests :
             /\ target'[q] = IF q = r THEN c ELSE target[q]
             /\ to'[q] = IF q = r THEN p ELSE to[q]
             /\ pc'[q] = IF q = r THEN place ELSE pc[q]
             /\ level'[q] = IF q = r THEN n ELSE level[q]
    BY <1>a, <1>1 DEF Begin, TypeOK, tree
  <2>2. ASSUME NEW o \in Requests, NEW q \in Requests, pc'[o] = "new", {o, q} \in beside'
        PROVE  FALSE
    <3>1. o # r /\ pc[o] = "new"
      BY <1>1, <2>1, <2>2
    <3>2. {o, q} \notin beside
      BY <3>1 DEF DepthInv
    <3>3. PICK x \in Requests : pc[x] \in Running /\ {o, q} = {r, x}
      BY <2>1, <2>2, <3>2
    <3>4. o = x
      BY <3>1, <3>3
    <3>. QED
      BY <3>1, <3>3, <3>4 DEF Running
  <2>3. ASSUME NEW o \in Requests, pc'[o] = "write", to'[o] # Unset, Alone(o)'
        PROVE  RightLevel(o)'
    <3>1. CASE o = r
      BY <1>1, <2>1, <2>3, <3>1 DEF RightLevel
    <3>2. CASE o # r
      <4>1. {r, o} \notin beside /\ {o, r} = {r, o}
        BY <2>1 DEF DepthInv
      <4>2. ASSUME NEW q \in Requests, Raced(o, q)
            PROVE  target[q] \notin {target[o], to[o]}
        <5>1. q # r
          BY <4>1, <4>2 DEF Raced
        <5>2. Raced(o, q)'
          BY <2>1, <4>2 DEF Raced
        <5>. QED
          BY <2>1, <2>3, <3>2, <5>1, <5>2 DEF Alone
      <4>3. RightLevel(o)
        BY <2>1, <2>3, <3>2, <4>2 DEF DepthInv, Alone
      <4>. QED
        BY <2>1, <3>2, <4>3 DEF RightLevel
    <3>. QED
      BY <3>1, <3>2
  <2>. QED
    BY <1>b, <2>2, <2>3 DEF DepthInv
<1>2. ASSUME NEW r \in Requests, NEW p \in Ids \cup {Root}, BeginCreate(r, p)
      PROVE  DepthInv'
  <2>1. PICK place \in {"write", "parent"} :
          /\ Begin(r, r, p) /\ pc' = [pc EXCEPT ![r] = place]
          /\ place = "write" => p = Root
    BY <1>2 DEF BeginCreate
  <2>2. level' = [level EXCEPT ![r] = 0] /\ r \in Ids
    BY <1>a, <1>2, <2>1 DEF BeginCreate, Begin, TypeInv, TypeOK, Request, Ids
  <2>. QED
    BY <1>1, <2>1, <2>2
<1>3. ASSUME NEW r \in Requests, NEW c \in Ids, NEW p \in Ids \cup {Root, Unset}, BeginUpdate(r, c, p)
      PROVE  DepthInv'
  <2>1. PICK place \in {"write", "failed", "ancestors"}, n \in {0, depth[c]} :
          /\ Begin(r, c, p) /\ pc' = [pc EXCEPT ![r] = place]
          /\ level' = [level EXCEPT ![r] = n]
          /\ place = "write" /\ p # Unset => p = parent[c] \/ (p = Root /\ n = 0)
    BY <1>3 DEF BeginUpdate
  <2>. QED
    BY <1>1, <2>1
\* A request that goes on and writes nothing
<1>4. ASSUME NEW r \in Requests, pc[r] \in Running, NEW place, pc' = [pc EXCEPT ![r] = place], place # "new",
             UNCHANGED <<tree, requests, beside>>,
             \A q \in Requests \ {r} : level'[q] = level[q],
             place = "write" => to[r] \in rows /\ level'[r] = depth[to[r]] + 1
      PROVE  DepthInv'
  <2>1. UNCHANGED <<rows, parent, depth, target, to, beside>>
    BY <1>4 DEF tree, requests
  <2>2. \A q \in Requests : pc'[q] = IF q = r THEN place ELSE pc[q]
    BY <1>a, <1>4 DEF TypeOK
  <2>3. \A o, q \in Requests : pc'[o] = "new" => {o, q} \notin beside'
    BY <1>4, <2>1, <2>2 DEF DepthInv
  <2>4. ASSUME NEW o \in Requests, pc'[o] = "write", to'[o] # Unset, Alone(o)'
        PROVE  RightLevel(o)'
    <3>1. CASE o = r
      <4>1. to[r] # Root
        BY <1>a, <1>4, <2>2, <2>4, <3>1, CategoriesAssumption DEF TypeOK
      <4>. QED
        BY <1>4, <2>1, <2>2, <2>4, <3>1, <4>1 DEF RightLevel
    <3>2. CASE o # r
      BY <1>4, <2>1, <2>2, <2>4, <3>2 DEF RightLevel, DepthInv, Alone, Raced
    <3>. QED
      BY <3>1, <3>2
  <2>. QED
    BY <1>b, <2>3, <2>4 DEF DepthInv
<1>5. ASSUME NEW r \in Requests, ReadAncestors(r)
      PROVE  DepthInv'
  <2>1. PICK place \in {"parent", "failed"} : pc' = [pc EXCEPT ![r] = place]
    BY <1>5 DEF ReadAncestors
  <2>. QED
    BY <1>4, <1>5, <2>1 DEF ReadAncestors, Running
<1>6. ASSUME NEW r \in Requests, ReadParent(r)
      PROVE  DepthInv'
  <2>1. PICK place \in {"write", "failed"} :
          /\ pc' = [pc EXCEPT ![r] = place]
          /\ place = "write" => to[r] \in rows
    BY <1>6 DEF ReadParent
  <2>2. /\ \A q \in Requests \ {r} : level'[q] = level[q]
        /\ to[r] \in rows => level'[r] = depth[to[r]] + 1
    BY <1>a, <1>6 DEF ReadParent, TypeOK
  <2>. QED
    BY <1>4, <1>6, <2>1, <2>2 DEF ReadParent, Running
<1>7. ASSUME NEW r \in Requests, Fail(r)
      PROVE  DepthInv'
  BY <1>4, <1>7 DEF Fail
<1>8. ASSUME NEW r \in Requests, Write(r)
      PROVE  DepthInv'
  <2>1. /\ pc[r] = "write" /\ target[r] \in Ids
        /\ \A c \in Ids : c # target[r] => parent'[c] = parent[c] /\ depth'[c] = depth[c]
        /\ \A q \in Requests : pc'[q] = IF q = r THEN "done" ELSE pc[q]
        /\ UNCHANGED <<target, to, level, beside>>
    BY <1>a, <1>8 DEF Write, requests, TypeOK
  <2>2. \A o, q \in Requests : pc'[o] = "new" => {o, q} \notin beside'
    BY <2>1 DEF DepthInv
  <2>3. ASSUME NEW o \in Requests, pc'[o] = "write", to'[o] # Unset, Alone(o)'
        PROVE  RightLevel(o)'
    <3>1. o # r /\ pc[o] = "write" /\ to[o] # Unset
      BY <2>1, <2>3
    <3>2. Alone(o)
      BY <2>1, <2>3 DEF Alone, Raced
    <3>3. RightLevel(o)
      BY <3>1, <3>2 DEF DepthInv
    <3>4. Raced(o, r)
      BY <2>1, <3>1 DEF Raced, DepthInv, RaceInv, Running
    <3>5. target[r] \notin {target[o], to[o]}
      BY <3>2, <3>4 DEF Alone
    <3>6. target[o] \in Ids /\ to[o] \in Ids \cup {Root}
      BY <1>a, <3>1 DEF TypeOK
    <3>. QED
      BY <2>1, <3>3, <3>5, <3>6 DEF RightLevel
  <2>. QED
    BY <1>b, <2>2, <2>3 DEF DepthInv
<1>9. CASE UNCHANGED vars
  <2>1. UNCHANGED <<rows, parent, depth, pc, target, to, level, beside>>
    BY <1>9 DEF vars, tree, requests
  <2>. QED
    BY <1>b, <2>1 DEF DepthInv, RightLevel, Alone, Raced
<1>. QED
  BY <1>2, <1>3, <1>5, <1>6, <1>7, <1>8, <1>9 DEF Next

MovesRight ==
  \A r \in Requests :
    /\ pc[r] = "write" /\ pc'[r] = "done"
    /\ to[r] \notin {Unset, parent[target[r]]}
    /\ \A q \in Requests : Raced(r, q) => target[q] \notin {target[r], to[r]}
    => depth'[target[r]] = IF to[r] = Root THEN 0 ELSE depth[to[r]] + 1

\* A move without such a race leaves its category one level below its new parent.
LEMMA StepMovesRight == TypeInv /\ DepthInv /\ [Next]_vars => MovesRight
<1> SUFFICES ASSUME TypeInv, DepthInv, [Next]_vars, NEW r \in Requests,
                    pc[r] = "write", pc'[r] = "done", to[r] \notin {Unset, parent[target[r]]}, Alone(r)
             PROVE  depth'[target[r]] = IF to[r] = Root THEN 0 ELSE depth[to[r]] + 1
  BY DEF MovesRight, Alone
<1>a. TypeOK
  BY DEF TypeInv
<1>1. level[r] = IF to[r] = Root THEN 0 ELSE depth[to[r]] + 1
  BY DEF DepthInv, RightLevel
<1>2. Write(r) => depth'[target[r]] = level[r]
  BY <1>a DEF Write, TypeOK
\* Nobody else ends the request.
<1>3. ASSUME NEW q \in Requests, NEW c, NEW p, Begin(q, c, p), NEW place, place # "done",
             pc' = [pc EXCEPT ![q] = place]
      PROVE  FALSE
  BY <1>a, <1>3 DEF Begin, TypeOK
<1>4. ASSUME NEW q \in Requests, NEW p \in Ids \cup {Root}, BeginCreate(q, p)
      PROVE  FALSE
  BY <1>3, <1>4 DEF BeginCreate
<1>5. ASSUME NEW q \in Requests, NEW c \in Ids, NEW p \in Ids \cup {Root, Unset}, BeginUpdate(q, c, p)
      PROVE  FALSE
  <2>1. PICK place \in {"write", "failed", "ancestors"} : Begin(q, c, p) /\ pc' = [pc EXCEPT ![q] = place]
    BY <1>5 DEF BeginUpdate
  <2>. QED
    BY <1>3, <2>1
<1>6. ASSUME NEW q \in Requests, ReadAncestors(q) \/ ReadParent(q) \/ Fail(q)
      PROVE  FALSE
  BY <1>a, <1>6 DEF ReadAncestors, ReadParent, Fail, TypeOK
<1>7. ASSUME NEW q \in Requests, Write(q)
      PROVE  q = r
  BY <1>a, <1>7 DEF Write, TypeOK
<1>8. CASE UNCHANGED vars
  BY <1>8 DEF vars
<1>. QED
  BY <1>1, <1>2, <1>4, <1>5, <1>6, <1>7, <1>8 DEF Next

\* Unless another request on a category or its new parent races, create_category and
\* update_category write the depth that the new parent's asks for.
THEOREM DepthsFollowMoves == Spec => DepthFollowsMove
<1>1. Init => DepthInv
  BY InitCycles DEF Init, DepthInv, CycleInv
<1>2. Spec => []TypeInv /\ []CycleInv
  BY InitTypes, StepTypes, InitCycles, StepCycles, PTL DEF Spec
<1>3. Spec => []DepthInv
  BY <1>1, <1>2, StepDepths, PTL DEF Spec
<1>4. Spec => [][MovesRight]_vars
  BY <1>2, <1>3, StepMovesRight, PTL DEF Spec
<1>. QED
  BY <1>4 DEF DepthFollowsMove, MovesRight
=============================================================================
