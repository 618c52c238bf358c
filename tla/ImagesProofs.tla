---------------------------- MODULE ImagesProofs ----------------------------
(***************************************************************************)
(* Proofs about Images: rows and their objects, and the places of a        *)
(* listing's images.                                                       *)
(***************************************************************************)
EXTENDS Images, FiniteSetTheorems, TLAPS

-----------------------------------------------------------------------------
(* Statements and drafts                                                   *)

Places == Nat \cup {NoPlace}

\* What a statement or a draft says of some images
Tables == UNION {[S -> Places] : S \in SUBSET Images}

Own(r) == {r} \X Files[r]

\* A table has images for rows and places for values.
LEMMA TableFacts ==
  ASSUME NEW f \in Tables
  PROVE  /\ f = [i \in DOMAIN f |-> f[i]]
         /\ DOMAIN f \in SUBSET Images
         /\ \A i \in DOMAIN f : f[i] \in Places
<1>1. PICK S \in SUBSET Images : f \in [S -> Places]
  BY DEF Tables
<1>. QED
  BY <1>1

\* A function from some images to places is a table.
LEMMA IsTable == \A S \in SUBSET Images : \A f \in [S -> Places] : f \in Tables
  BY DEF Tables

\* The table without rows is one.
LEMMA EmptyTable == <<>> \in Tables /\ DOMAIN <<>> = {}
<1>1. DOMAIN <<>> = {} /\ <<>> = [i \in {} |-> 0]
  OBVIOUS
<1>2. [i \in {} |-> 0] \in [{} -> Places]
  OBVIOUS
<1>. QED
  BY <1>1, <1>2, IsTable

\* A table of one row.
LEMMA GivenFacts ==
  ASSUME NEW i \in Images, NEW p \in Places
  PROVE  /\ Given(i, p) \in Tables
         /\ DOMAIN Given(i, p) = {i} /\ Given(i, p)[i] = p
<1>1. Given(i, p) \in [{i} -> Places]
  BY DEF Given
<1>. QED
  BY <1>1, IsTable DEF Given

\* Placing a row sets its place, and leaves the other rows where they are.
LEMMA PlacedFacts ==
  ASSUME NEW f \in Tables, NEW i \in Images, NEW p \in Places
  PROVE  /\ Placed(f, i, p) \in Tables
         /\ DOMAIN Placed(f, i, p) = DOMAIN f \cup {i}
         /\ Placed(f, i, p)[i] = p
         /\ \A j \in DOMAIN f \ {i} : Placed(f, i, p)[j] = f[j]
<1>1. Placed(f, i, p) \in [DOMAIN f \cup {i} -> Places]
  BY TableFacts DEF Placed
<1>2. DOMAIN f \cup {i} \in SUBSET Images
  BY TableFacts
<1>. QED
  BY <1>1, <1>2, IsTable DEF Placed

\* The images a request uploads are its own: nobody else's, and none of those posted before.
LEMMA OwnImages ==
  ASSUME NEW r \in Requests
  PROVE  /\ Own(r) \subseteq Images /\ <<r, 1>> \in Own(r) /\ 1 \in Files[r]
         /\ Own(r) \cap Posted = {}
         /\ \A q \in Requests \ {r} : Own(r) \cap Own(q) = {}
         /\ \A k \in Files[r] : <<r, k>> \in Own(r)
         /\ NoImage \notin Own(r)
<1>1. Own(r) \subseteq Images
  BY DEF Own, Images
<1>2. 1 \in Files[r]
  BY ImagesAssumption DEF Files
<1>. QED
  BY <1>1, <1>2, ImagesAssumption DEF Own

-----------------------------------------------------------------------------
(* The order of rows                                                       *)

\* How many of S come before i
Rank(S, f, i) == Cardinality({j \in S : f[j] < f[i]})

Distinct(S, f) ==
  /\ \A i \in S : f[i] \in Int
  /\ \A i, j \in S : f[i] = f[j] => i = j

\* Ranks are in order, and every number below the cardinality is one.
LEMMA Ranks ==
  ASSUME NEW S, IsFiniteSet(S), NEW f, Distinct(S, f)
  PROVE  /\ Cardinality(S) \in Nat
         /\ \A i \in S : Rank(S, f, i) \in 0 .. Cardinality(S) - 1
         /\ \A i, j \in S : f[i] < f[j] => Rank(S, f, i) < Rank(S, f, j)
         /\ \A i, j \in S : Rank(S, f, i) = Rank(S, f, j) => i = j
         /\ \A k \in 0 .. Cardinality(S) - 1 : \E i \in S : Rank(S, f, i) = k
<1> DEFINE Before(i) == {j \in S : f[j] < f[i]}
           n == Cardinality(S)
<1>1. n \in Nat
  BY FS_CardinalityType
<1>2. \A T \in SUBSET S : IsFiniteSet(T) /\ Cardinality(T) \in Nat /\ Cardinality(T) <= n
  BY FS_Subset, FS_CardinalityType
<1>3. ASSUME NEW T \in SUBSET S, NEW i \in T, NEW U \in SUBSET T, i \notin U
      PROVE  Cardinality(U) < Cardinality(T)
  <2>1. IsFiniteSet(T \ {i}) /\ Cardinality(T \ {i}) = Cardinality(T) - 1
    BY <1>2, FS_RemoveElement
  <2>2. U \in SUBSET (T \ {i})
    BY <1>3
  <2>3. Cardinality(U) <= Cardinality(T \ {i})
    BY <2>1, <2>2, FS_Subset
  <2>4. Cardinality(U) \in Nat /\ Cardinality(T) \in Nat
    BY <1>2, <1>3
  <2>. QED
    BY <2>1, <2>3, <2>4
<1>4. \A i \in S : Rank(S, f, i) = Cardinality(Before(i)) /\ Rank(S, f, i) \in Nat
  BY <1>2 DEF Rank
<1>5. ASSUME NEW i \in S PROVE Rank(S, f, i) \in 0 .. n - 1
  <2>1. Before(i) \in SUBSET S /\ i \notin Before(i)
    BY DEF Distinct
  <2>2. Cardinality(Before(i)) < Cardinality(S)
    BY <1>3, <2>1
  <2>. QED
    BY <1>1, <1>4, <2>2
<1>6. ASSUME NEW i \in S, NEW j \in S, f[i] < f[j]
      PROVE  Rank(S, f, i) < Rank(S, f, j)
  <2>1. i \in Before(j) /\ i \notin Before(i) /\ Before(i) \in SUBSET Before(j) /\ Before(j) \in SUBSET S
    BY <1>6 DEF Distinct
  <2>. QED
    BY <1>3, <1>4, <2>1
<1>7. ASSUME NEW i \in S, NEW j \in S, Rank(S, f, i) = Rank(S, f, j)
      PROVE  i = j
  <2>1. f[i] < f[j] \/ f[j] < f[i] \/ f[i] = f[j]
    BY DEF Distinct
  <2>2. Rank(S, f, i) \in Nat /\ Rank(S, f, j) \in Nat
    BY <1>4
  <2>3. ~(f[i] < f[j]) /\ ~(f[j] < f[i])
    BY <1>6, <1>7, <2>2
  <2>. QED
    BY <2>1, <2>3 DEF Distinct
<1>8. ASSUME NEW k \in 0 .. n - 1 PROVE \E i \in S : Rank(S, f, i) = k
  <2> SUFFICES ASSUME \A i \in S : Rank(S, f, i) # k PROVE FALSE
    OBVIOUS
  <2> DEFINE T == (0 .. n - 1) \ {k}
             g == [i \in S |-> Rank(S, f, i)]
  <2>1. g \in [S -> T]
    BY <1>5
  <2>2. IsFiniteSet(0 .. n - 1) /\ Cardinality(0 .. n - 1) = n
    BY <1>1, FS_Interval
  <2>3. IsFiniteSet(T) /\ Cardinality(T) = n - 1
    BY <2>2, FS_RemoveElement
  <2>4. \E x, y \in S : x # y /\ g[x] = g[y]
    <3>1. Cardinality(T) < Cardinality(S)
      BY <1>1, <2>3
    <3>. HIDE DEF T, g
    <3>. QED
      BY <2>1, <2>3, <3>1, FS_PigeonHole
  <2>. QED
    BY <1>7, <2>4
<1>. QED
  BY <1>1, <1>5, <1>6, <1>7, <1>8

\* Rows with places of their own are put in order: each once, at its rank, by rising place.
LEMMA OrderFacts ==
  ASSUME NEW S, IsFiniteSet(S), NEW f, Distinct(S, f)
  PROVE  /\ DOMAIN InOrder(S, f) = 1 .. Cardinality(S) /\ Cardinality(S) \in Nat
         /\ InOrder(S, f) \in [1 .. Cardinality(S) -> S]
         /\ \A k \in 1 .. Cardinality(S) : Rank(S, f, InOrder(S, f)[k]) = k - 1
         /\ \A i \in S : \E k \in 1 .. Cardinality(S) : InOrder(S, f)[k] = i
         /\ \A k, l \in 1 .. Cardinality(S) : k < l => f[InOrder(S, f)[k]] < f[InOrder(S, f)[l]]
<1> DEFINE n == Cardinality(S)
           s == InOrder(S, f)
<1>1. n \in Nat
  BY Ranks
<1>2. ASSUME NEW k \in 1 .. n PROVE s[k] \in S /\ Rank(S, f, s[k]) = k - 1
  <2>1. k - 1 \in 0 .. n - 1
    BY <1>1
  <2>2. \E i \in S : Rank(S, f, i) = k - 1
    BY <2>1, Ranks
  <2>3. s[k] = CHOOSE i \in S : Rank(S, f, i) = k - 1
    BY DEF InOrder, Rank
  <2>. QED
    BY <2>2, <2>3
<1>3. s \in [1 .. n -> S] /\ DOMAIN s = 1 .. n
  BY <1>2 DEF InOrder
<1>4. ASSUME NEW i \in S PROVE \E k \in 1 .. n : s[k] = i
  <2>1. Rank(S, f, i) \in 0 .. n - 1
    BY Ranks
  <2>2. Rank(S, f, i) + 1 \in 1 .. n /\ (Rank(S, f, i) + 1) - 1 = Rank(S, f, i)
    BY <1>1, <2>1
  <2>3. Rank(S, f, s[Rank(S, f, i) + 1]) = Rank(S, f, i) /\ s[Rank(S, f, i) + 1] \in S
    BY <1>2, <2>2
  <2>. QED
    BY <2>2, <2>3, Ranks
<1>5. ASSUME NEW k \in 1 .. n, NEW l \in 1 .. n, k < l PROVE f[s[k]] < f[s[l]]
  <2>1. f[s[k]] \in Int /\ f[s[l]] \in Int
    BY <1>2 DEF Distinct
  <2>2. ~(f[s[l]] < f[s[k]])
    <3>1. f[s[l]] < f[s[k]] => Rank(S, f, s[l]) < Rank(S, f, s[k])
      BY <1>2, Ranks
    <3>. QED
      BY <1>2, <1>5, <3>1
  <2>3. f[s[l]] # f[s[k]]
    <3>1. Rank(S, f, s[l]) # Rank(S, f, s[k])
      BY <1>2, <1>5
    <3>. QED
      BY <1>2, <3>1 DEF Distinct
  <2>. QED
    BY <2>1, <2>2, <2>3
<1>. QED
  BY <1>1, <1>2, <1>3, <1>4, <1>5

\* What Numbered gives to the elements of a sequence without repetitions
LEMMA NumberedFacts ==
  ASSUME NEW S, NEW n \in Nat, NEW e \in [1 .. n -> S], NEW first \in Int,
         \A k, l \in 1 .. n : e[k] = e[l] => k = l
  PROVE  /\ DOMAIN Numbered(e, first) = Range(e) /\ Range(e) \subseteq S
         /\ \A k \in 1 .. n : e[k] \in Range(e) /\ Numbered(e, first)[e[k]] = k - 1 + first
         /\ \A i \in Range(e) : \E k \in 1 .. n : i = e[k]
<1>1. /\ DOMAIN e = 1 .. n /\ Range(e) \subseteq S
      /\ \A k \in 1 .. n : e[k] \in Range(e)
      /\ \A i \in Range(e) : \E k \in 1 .. n : i = e[k]
  BY DEF Range
<1>2. ASSUME NEW k \in 1 .. n PROVE Numbered(e, first)[e[k]] = k - 1 + first
  <2>1. (CHOOSE l \in DOMAIN e : e[l] = e[k]) = k
    BY <1>1
  <2>. QED
    BY <1>1, <2>1 DEF Numbered
<1>. QED
  BY <1>1, <1>2 DEF Numbered

\* The same from 0 on
LEMMA NumberedFromZero ==
  ASSUME NEW S, NEW n \in Nat, NEW e \in [1 .. n -> S],
         \A k, l \in 1 .. n : e[k] = e[l] => k = l
  PROVE  /\ DOMAIN Numbered(e, 0) = Range(e) /\ Range(e) \subseteq S
         /\ \A k \in 1 .. n : e[k] \in Range(e) /\ Numbered(e, 0)[e[k]] = k - 1
<1> DEFINE zero == 0
<1>1. zero \in Int
  OBVIOUS
<1>2. zero = 0
  OBVIOUS
<1> HIDE DEF zero
<1>3. /\ DOMAIN Numbered(e, zero) = Range(e) /\ Range(e) \subseteq S
      /\ \A k \in 1 .. n : e[k] \in Range(e) /\ Numbered(e, zero)[e[k]] = k - 1 + zero
      /\ \A i \in Range(e) : \E k \in 1 .. n : i = e[k]
  BY <1>1, NumberedFacts
<1>. QED
  BY <1>2, <1>3

-----------------------------------------------------------------------------
(* Types and stages                                                        *)

Kinds == OnListing \cup {"none", "set", "remove"}

Types ==
  /\ place \in [Images -> Places]
  /\ image \in [Images -> {"none", "live", "deleted"}]
  /\ avatar \in Images \cup {NoImage}
  /\ objects \subseteq Images
  /\ kind \in [Requests -> Kinds]
  /\ pc \in [Requests -> Running \cup {"new", "done", "failed"}]
  /\ todo \in [Requests -> Seq(Tables)]
  /\ draft \in [Requests -> Tables]
  /\ old \in [Requests -> Images \cup {NoImage}]
  /\ wanted \in [Requests -> Seq(Images)]
  /\ keys \in [Requests -> SUBSET Images]
  /\ overlapped \subseteq Requests /\ refused \subseteq Requests
  /\ unanswered \subseteq Requests /\ strays \subseteq Images
  /\ IsFiniteSet(Rows)
  /\ \A r \in Requests : IsFiniteSet(DOMAIN draft[r])

\* What an upload is to insert, or a deletion to write
Upload(r, t) == \E i \in Own(r), p \in Nat : t = Given(i, p)
Renumbering(s) == \A k \in DOMAIN s : \A i \in DOMAIN s[k] : s[k][i] \in Nat

\* Where a request of each kind may be, and what it has left to do there
Stage(r) ==
  /\ pc[r] = "new" <=> kind[r] = "none"
  /\ pc[r] = "put" => kind[r] \in {"upload", "set"}
  /\ pc[r] = "write" => kind[r] \in OnListing
  /\ pc[r] = "read" => kind[r] = "delete"
  /\ pc[r] = "clean" => kind[r] \in {"upload", "set"}
  /\ todo[r] # <<>> <=> pc[r] = "write" \/ (pc[r] = "put" /\ kind[r] = "upload")
  /\ pc[r] \notin {"put", "write", "read", "commit"} \/ kind[r] \notin OnListing => draft[r] = <<>>
  /\ \A k \in DOMAIN todo[r] : DOMAIN todo[r][k] # {}
  /\ keys[r] \subseteq Own(r) /\ (kind[r] \notin {"upload", "set"} => keys[r] = {})
  /\ kind[r] # "reorder" => wanted[r] = <<>>
  /\ kind[r] = "upload" =>
       /\ \A k \in DOMAIN todo[r] : Upload(r, todo[r][k])
       /\ DOMAIN draft[r] \subseteq Own(r) /\ \A i \in DOMAIN draft[r] : draft[r][i] \in Nat
  /\ kind[r] = "delete" =>
       (\E i \in Images : todo[r] = <<Given(i, NoPlace)>>) \/ Renumbering(todo[r])
  /\ kind[r] = "reorder" =>
       Renumbering(todo[r]) /\ \A i \in DOMAIN draft[r] : draft[r][i] \in Nat

TypeInv == Types /\ \A r \in Requests : Stage(r)

Unique(f) == \A i, j \in Images : f[i] = f[j] /\ f[i] # NoPlace => i = j

\* Neither what is committed nor what any transaction sees has a place twice, and what the
\* transactions write is apart.
UniqueInv ==
  /\ Unique(place)
  /\ \A r \in Requests : Unique(Seen(r))
  /\ \A r \in Requests : \A q \in Requests \ {r} :
       /\ DOMAIN draft[r] \cap DOMAIN draft[q] = {}
       /\ \A i \in DOMAIN draft[r], j \in DOMAIN draft[q] :
            draft[r][i] # NoPlace => draft[r][i] \notin {place[j], draft[q][j]}

\* A transaction sees its own writes over what is committed.
LEMMA SeenFacts ==
  ASSUME Types, NEW r \in Requests
  PROVE  /\ Seen(r) \in [Images -> Places]
         /\ DOMAIN draft[r] \subseteq Images
         /\ \A i \in DOMAIN draft[r] : Seen(r)[i] = draft[r][i] /\ draft[r][i] \in Places
         /\ \A i \in Images \ DOMAIN draft[r] : Seen(r)[i] = place[i]
         /\ draft[r] = <<>> => Seen(r) = place
<1>1. draft[r] \in Tables
  BY DEF Types
<1>2. DOMAIN draft[r] \subseteq Images /\ \A i \in DOMAIN draft[r] : draft[r][i] \in Places
  BY <1>1, TableFacts
<1>3. Seen(r) \in [Images -> Places]
  BY <1>2 DEF Seen, Types
<1>4. draft[r] = <<>> => Seen(r) = place
  BY EmptyTable DEF Seen, Types
<1>. QED
  BY <1>2, <1>3, <1>4 DEF Seen

\* What is left of the statements t of s when the first one has written the row i
Shorter(s, t, i) ==
  \/ /\ DOMAIN s[1] = {i} /\ Len(t) = Len(s) - 1
     /\ \A k \in DOMAIN t : k + 1 \in DOMAIN s /\ t[k] = s[k + 1]
  \/ /\ DOMAIN s[1] # {i} /\ Len(t) = Len(s)
     /\ DOMAIN t[1] = DOMAIN s[1] \ {i} /\ \A j \in DOMAIN t[1] : t[1][j] = s[1][j]
     /\ \A k \in DOMAIN t \ {1} : t[k] = s[k]

\* When a row is written, what is left to do is what was to be done, less that row.
LEMMA WithoutFacts ==
  ASSUME Types, NEW r \in Requests, todo[r] # <<>>, NEW i \in DOMAIN Head(todo[r]),
         \A k \in DOMAIN todo[r] : DOMAIN todo[r][k] # {}
  PROVE  /\ Head(todo[r]) = todo[r][1] /\ 1 \in DOMAIN todo[r] /\ i \in DOMAIN todo[r][1] /\ i \in Images
         /\ todo[r][1] \in Tables /\ todo[r][1][i] \in Places
         /\ Without(r, i) \in Seq(Tables)
         /\ Shorter(todo[r], Without(r, i), i)
         /\ \A k \in DOMAIN Without(r, i) : DOMAIN Without(r, i)[k] # {}
         /\ \A k \in DOMAIN Without(r, i) : \E l \in DOMAIN todo[r] :
              /\ DOMAIN Without(r, i)[k] \subseteq DOMAIN todo[r][l]
              /\ \A j \in DOMAIN Without(r, i)[k] : Without(r, i)[k][j] = todo[r][l][j]
<1> DEFINE s == todo[r]
           rest == DOMAIN Head(s) \ {i}
           t == Without(r, i)
<1>1. s \in Seq(Tables) /\ Len(s) \in Nat /\ Len(s) >= 1 /\ DOMAIN s = 1 .. Len(s) /\ Head(s) = s[1]
  BY DEF Types
<1>2. s[1] \in Tables /\ 1 \in DOMAIN s
  BY <1>1
<1>3. DOMAIN s[1] \subseteq Images /\ \A j \in DOMAIN s[1] : s[1][j] \in Places
  BY <1>2, TableFacts
<1>4. CASE rest = {}
  <2>1. t = Tail(s)
    BY <1>4 DEF Without
  <2>2. /\ t \in Seq(Tables) /\ Len(t) = Len(s) - 1 /\ DOMAIN t = 1 .. Len(s) - 1
        /\ \A k \in DOMAIN t : k + 1 \in DOMAIN s /\ t[k] = s[k + 1]
    BY <1>1, <2>1
  <2>3. DOMAIN s[1] = {i}
    BY <1>1, <1>4
  <2>4. Shorter(s, t, i)
    BY <2>2, <2>3 DEF Shorter
  <2>5. \A k \in DOMAIN t : DOMAIN t[k] # {} /\ \E l \in DOMAIN s : t[k] = s[l]
    BY <2>2
  <2>. QED
    BY <1>1, <1>2, <1>3, <2>2, <2>4, <2>5
<1>5. CASE rest # {}
  <2>1. t = [s EXCEPT ![1] = Restrict(s[1], rest)]
    BY <1>5 DEF Without
  <2>2. Restrict(s[1], rest) = [j \in rest |-> s[1][j]]
    BY DEF Restrict
  <2>3. Restrict(s[1], rest) \in [rest -> Places] /\ rest \in SUBSET Images
    BY <1>1, <1>3, <2>2
  <2>4. Restrict(s[1], rest) \in Tables
    BY <2>3, IsTable
  <2>5. t \in Seq(Tables) /\ Len(t) = Len(s) /\ DOMAIN t = DOMAIN s
    BY <1>1, <2>1, <2>4
  <2>6. /\ DOMAIN t[1] = rest /\ \A j \in rest : t[1][j] = s[1][j]
        /\ \A k \in DOMAIN t \ {1} : t[k] = s[k]
    BY <1>1, <1>2, <2>1, <2>2
  <2>7. Shorter(s, t, i)
    BY <1>1, <1>5, <2>5, <2>6 DEF Shorter
  <2>8. ASSUME NEW k \in DOMAIN t
        PROVE  /\ DOMAIN t[k] # {}
               /\ \E l \in DOMAIN s : DOMAIN t[k] \subseteq DOMAIN s[l] /\ \A j \in DOMAIN t[k] : t[k][j] = s[l][j]
    <3>1. CASE k = 1
      BY <3>1, <1>1, <1>2, <1>5, <2>6
    <3>2. CASE k # 1
      BY <3>2, <2>5, <2>6
    <3>. QED
      BY <3>1, <3>2
  <2>. QED
    BY <1>1, <1>2, <1>3, <2>5, <2>7, <2>8
<1>. QED
  BY <1>4, <1>5

\* What a step of r does to the requests is all about r.
Only(r) ==
  \A q \in Requests \ {r} :
    /\ pc'[q] = pc[q] /\ kind'[q] = kind[q] /\ todo'[q] = todo[q] /\ draft'[q] = draft[q]
    /\ keys'[q] = keys[q] /\ wanted'[q] = wanted[q] /\ old'[q] = old[q]

\* A step of r that leaves r at a stage leaves every request at one.
LEMMA OnlyStages ==
  ASSUME NEW r \in Requests, \A q \in Requests : Stage(q), Only(r), Stage(r)'
  PROVE  \A q \in Requests : Stage(q)'
<1> SUFFICES ASSUME NEW q \in Requests \ {r} PROVE Stage(q)'
  OBVIOUS
<1>. QED
  BY DEF Only, Stage, Renumbering, Upload

\* A request that begins was new, leaves the tables alone, and has written nothing.
LEMMA BeginTypes ==
  ASSUME TypeInv, NEW r \in Requests, NEW k \in Kinds \ {"none"}, Begin(r, k)
  PROVE  /\ pc[r] = "new" /\ kind[r] = "none" /\ todo[r] = <<>> /\ draft[r] = <<>>
         /\ keys[r] = {} /\ wanted[r] = <<>>
         /\ kind' \in [Requests -> Kinds] /\ kind'[r] = k
         /\ \A q \in Requests \ {r} : kind'[q] = kind[q]
         /\ UNCHANGED <<place, image, avatar, objects, draft, refused, unanswered, strays>>
         /\ overlapped' \subseteq Requests
         /\ IsFiniteSet(Rows') /\ \A q \in Requests : IsFiniteSet(DOMAIN draft'[q])
<1>1. Types /\ Stage(r) /\ pc[r] = "new"
  BY DEF TypeInv, Begin
<1>2. kind[r] = "none" /\ todo[r] = <<>> /\ draft[r] = <<>> /\ keys[r] = {} /\ wanted[r] = <<>>
  BY <1>1 DEF Stage
<1>3. kind' = [kind EXCEPT ![r] = k]
  BY DEF Begin
<1>4. overlapped' \subseteq Requests
  BY <1>1 DEF Begin, Types
<1>5. UNCHANGED <<place, image, avatar, objects, draft, refused, unanswered, strays>>
  BY DEF Begin
<1>6. Rows' = Rows
  BY <1>5 DEF Rows
<1>. QED
  BY <1>1, <1>2, <1>3, <1>4, <1>5, <1>6 DEF Types

\* Beginning an upload keeps the types.
LEMMA BeginUploadTypes ==
  ASSUME TypeInv, NEW r \in Requests, NEW n \in Files[r], BeginUpload(r, n)
  PROVE  TypeInv'
<1> DEFINE t == [k \in 1 .. n |-> Given(<<r, k>>, Cardinality(Rows) + k - 1)]
<1>1. Begin(r, "upload") /\ Types /\ "upload" \in Kinds \ {"none"}
  BY DEF BeginUpload, TypeInv, Kinds, OnListing
<1>2. n \in Nat /\ 1 <= n /\ \A k \in 1 .. n : <<r, k>> \in Own(r)
  BY ImagesAssumption DEF Files, Own
<1>3. Cardinality(Rows) \in Nat
  BY <1>1, FS_CardinalityType DEF Types
<1>4. ASSUME NEW k \in 1 .. n
      PROVE  t[k] \in Tables /\ Upload(r, t[k]) /\ DOMAIN t[k] # {}
  <2>1. Cardinality(Rows) + k - 1 \in Nat
    BY <1>2, <1>3
  <2>2. <<r, k>> \in Images
    BY <1>2, OwnImages
  <2>3. t[k] = Given(<<r, k>>, Cardinality(Rows) + k - 1)
    OBVIOUS
  <2>4. /\ Given(<<r, k>>, Cardinality(Rows) + k - 1) \in Tables
        /\ DOMAIN Given(<<r, k>>, Cardinality(Rows) + k - 1) = {<<r, k>>}
    BY <2>1, <2>2, GivenFacts DEF Places
  <2> HIDE DEF t
  <2>5. Upload(r, t[k])
    BY <1>2, <2>1, <2>3 DEF Upload
  <2>. QED
    BY <2>3, <2>4, <2>5
<1>5. t \in Seq(Tables) /\ DOMAIN t = 1 .. n /\ t # <<>>
  BY <1>2, <1>4
<1>6. pc' = [pc EXCEPT ![r] = "put"] /\ todo' = [todo EXCEPT ![r] = t] /\ UNCHANGED <<old, wanted, keys>>
  BY DEF BeginUpload
<1> HIDE DEF t
<1>7. Types'
  BY <1>1, <1>5, <1>6, BeginTypes DEF Types, Running
<1>8. Only(r)
  <2>1. draft' = draft /\ \A q \in Requests \ {r} : kind'[q] = kind[q]
    BY <1>1, BeginTypes
  <2>. QED
    BY <1>1, <1>6, <2>1 DEF Only, Types
<1>9. pc'[r] = "put" /\ todo'[r] = t /\ wanted'[r] = <<>> /\ draft'[r] = <<>> /\ keys'[r] = {} /\ kind'[r] = "upload"
  BY <1>1, <1>6, BeginTypes DEF Types
<1>10. Stage(r)'
  BY <1>4, <1>5, <1>9, EmptyTable DEF Stage, OnListing, Upload
<1>. QED
  BY <1>7, <1>8, <1>10, OnlyStages DEF TypeInv

\* Beginning a deletion keeps the types.
LEMMA BeginDeleteTypes ==
  ASSUME TypeInv, NEW r \in Requests, NEW i \in Images, BeginDelete(r, i)
  PROVE  TypeInv'
<1> DEFINE t == <<Given(i, NoPlace)>>
<1>1. Begin(r, "delete") /\ Types /\ "delete" \in Kinds \ {"none"}
  BY DEF BeginDelete, TypeInv, Kinds, OnListing
<1>2. Given(i, NoPlace) \in Tables /\ DOMAIN Given(i, NoPlace) = {i}
  BY GivenFacts DEF Places
<1>3. t \in Seq(Tables) /\ t # <<>> /\ \A k \in DOMAIN t : DOMAIN t[k] # {}
  BY <1>2
<1>4. /\ pc' = [pc EXCEPT ![r] = "write"]
      /\ todo' = [todo EXCEPT ![r] = t]
      /\ UNCHANGED <<old, wanted, keys>>
  BY DEF BeginDelete
<1>5. Types'
  BY <1>1, <1>3, <1>4, BeginTypes DEF Types, Running
<1>6. Only(r)
  BY <1>1, <1>4, BeginTypes DEF Only, Types
<1>7. pc'[r] = "write" /\ todo'[r] = t /\ wanted'[r] = <<>> /\ draft'[r] = <<>> /\ keys'[r] = {} /\ kind'[r] = "delete"
  BY <1>1, <1>4, BeginTypes DEF Types
<1>8. Stage(r)'
  BY <1>3, <1>7, EmptyTable DEF Stage, OnListing
<1>. QED
  BY <1>5, <1>6, <1>8, OnlyStages DEF TypeInv

\* What a reordering begins with
LEMMA ReorderFacts ==
  ASSUME Types, Unique(place), NEW s \in Bijection(1 .. Cardinality(Rows), Rows)
  PROVE  /\ Cardinality(Rows) \in Nat /\ Distinct(Rows, place) /\ s \in [1 .. Cardinality(Rows) -> Rows]
         /\ s \in Seq(Images) /\ Range(s) = Rows
         /\ \A k, l \in 1 .. Cardinality(Rows) : s[k] = s[l] => k = l
         /\ Len(Renumber(s)) = 2 /\ DOMAIN Renumber(s) = {1, 2}
         /\ Renumber(s) \in Seq(Tables) /\ Renumbering(Renumber(s))
         /\ \A k \in {1, 2} : DOMAIN Renumber(s)[k] = Rows
         /\ \A i \in Rows : Renumber(s)[1][i] = Cardinality(Rows) + Rank(Rows, place, i)
         /\ \A k \in 1 .. Cardinality(Rows) : Renumber(s)[2][s[k]] = k - 1
<1> DEFINE n == Cardinality(Rows)
           o == InOrder(Rows, place)
           first  == Numbered(o, n)
           second == Numbered(s, 0)
<1>1. n \in Nat /\ IsFiniteSet(Rows) /\ Rows \subseteq Images
  BY FS_CardinalityType DEF Types, Rows
<1>2. Distinct(Rows, place)
  BY <1>1 DEF Distinct, Unique, Rows, Types, Places, NoPlace
<1>3. s \in [1 .. n -> Rows] /\ \A k, l \in 1 .. n : s[k] = s[l] => k = l
  BY DEF Bijection, Injection, IsInjective
<1>4. \A i \in Rows : \E k \in 1 .. n : s[k] = i
  BY DEF Bijection, Surjection
<1>5. s \in Seq(Images) /\ Range(s) = Rows
  BY <1>1, <1>3, <1>4 DEF Range
<1>6. /\ o \in [1 .. n -> Rows]
      /\ \A k \in 1 .. n : Rank(Rows, place, o[k]) = k - 1
      /\ \A i \in Rows : \E k \in 1 .. n : o[k] = i
  BY <1>1, <1>2, OrderFacts
<1>7. \A k, l \in 1 .. n : o[k] = o[l] => k = l
  BY <1>6
<1>8. /\ DOMAIN first = Range(o) /\ Range(o) \subseteq Rows
      /\ \A k \in 1 .. n : o[k] \in Range(o) /\ first[o[k]] = k - 1 + n
      /\ \A i \in Range(o) : \E k \in 1 .. n : i = o[k]
  <2> HIDE DEF o, n
  <2>1. n \in Nat /\ n \in Int /\ o \in [1 .. n -> Rows]
    BY <1>1, <1>6
  <2>. QED
    BY <1>7, <2>1, NumberedFacts
<1>9. DOMAIN first = Rows
  BY <1>6, <1>8
<1>10. ASSUME NEW i \in Rows PROVE first[i] = n + Rank(Rows, place, i) /\ first[i] \in Nat
  <2>1. PICK k \in 1 .. n : o[k] = i
    BY <1>6
  <2>2. first[i] = k - 1 + n /\ Rank(Rows, place, i) = k - 1
    BY <1>6, <1>8, <2>1
  <2>. QED
    BY <1>1, <2>2
<1>11. /\ DOMAIN second = Rows
       /\ \A k \in 1 .. n : second[s[k]] = k - 1
       /\ \A i \in Rows : \E k \in 1 .. n : i = s[k]
  <2>1. /\ DOMAIN second = Range(s) /\ Range(s) \subseteq Rows
        /\ \A k \in 1 .. n : s[k] \in Range(s) /\ second[s[k]] = k - 1
    <3> HIDE DEF n
    <3>. QED
      BY <1>1, <1>3, NumberedFromZero
  <2>. QED
    BY <1>4, <1>5, <2>1
<1>12. \A i \in Rows : second[i] \in Nat
  BY <1>11, <1>1
<1>13. Renumber(s) = <<first, second>>
  BY DEF Renumber
<1>14. first = [i \in DOMAIN first |-> first[i]] /\ second = [i \in DOMAIN second |-> second[i]]
  BY DEF Numbered
<1> HIDE DEF first, second, o
<1>15. first \in [Rows -> Places] /\ second \in [Rows -> Places]
  BY <1>9, <1>10, <1>11, <1>12, <1>14 DEF Places
<1>16. first \in Tables /\ second \in Tables
  BY <1>1, <1>15, IsTable
<1>17. Renumbering(Renumber(s))
  BY <1>9, <1>10, <1>11, <1>12, <1>13 DEF Renumbering
<1>. QED
  BY <1>1, <1>2, <1>3, <1>5, <1>9, <1>10, <1>11, <1>13, <1>16, <1>17

\* Beginning a reordering keeps the types.
LEMMA BeginReorderTypes ==
  ASSUME TypeInv, Unique(place), NEW r \in Requests,
         NEW s \in Bijection(1 .. Cardinality(Rows), Rows), BeginReorder(r, s)
  PROVE  TypeInv'
<1>1. Begin(r, "reorder") /\ Types /\ "reorder" \in Kinds \ {"none"} /\ s # <<>>
  BY DEF BeginReorder, TypeInv, Kinds, OnListing
<1>2. /\ pc' = [pc EXCEPT ![r] = "write"]
      /\ todo' = [todo EXCEPT ![r] = Renumber(s)]
      /\ wanted' = [wanted EXCEPT ![r] = s]
      /\ UNCHANGED <<old, keys>>
  BY DEF BeginReorder
<1>3. /\ Renumber(s) \in Seq(Tables) /\ Renumber(s) # <<>> /\ s \in Seq(Images)
      /\ Renumbering(Renumber(s)) /\ \A k \in DOMAIN Renumber(s) : DOMAIN Renumber(s)[k] = Rows
  <2>1. /\ Renumber(s) \in Seq(Tables) /\ Len(Renumber(s)) = 2 /\ DOMAIN Renumber(s) = {1, 2}
        /\ Renumbering(Renumber(s)) /\ \A k \in {1, 2} : DOMAIN Renumber(s)[k] = Rows
    BY <1>1, ReorderFacts
  <2>2. s \in Seq(Images)
    BY <1>1, ReorderFacts
  <2>3. Renumber(s) # <<>>
    BY <2>1, EmptyTable
  <2>4. \A k \in DOMAIN Renumber(s) : DOMAIN Renumber(s)[k] = Rows
    BY <2>1
  <2>. QED
    BY <2>1, <2>2, <2>3, <2>4
<1>4. Rows # {}
  <2>1. s \in [1 .. Cardinality(Rows) -> Rows]
    BY <1>1, ReorderFacts
  <2>2. Rows = {} => 1 .. Cardinality(Rows) = {}
    BY FS_EmptySet
  <2>3. \A f \in [{} -> Rows] : f = <<>>
    OBVIOUS
  <2>. QED
    BY <1>1, <2>1, <2>2, <2>3
<1>5. Types'
  BY <1>1, <1>2, <1>3, BeginTypes DEF Types, Running
<1>6. Only(r)
  BY <1>1, <1>2, BeginTypes DEF Only, Types
<1>7. /\ pc'[r] = "write" /\ todo'[r] = Renumber(s) /\ draft'[r] = <<>> /\ keys'[r] = {} /\ kind'[r] = "reorder"
  BY <1>1, <1>2, BeginTypes DEF Types
<1>8. Stage(r)'
  BY <1>3, <1>4, <1>7, EmptyTable DEF Stage, OnListing, Renumbering
<1>. QED
  BY <1>5, <1>6, <1>8, OnlyStages DEF TypeInv

\* Beginning to set or to remove the avatar keeps the types.
LEMMA BeginAvatarTypes ==
  ASSUME TypeInv, NEW r \in Requests, BeginSet(r) \/ BeginRemove(r)
  PROVE  TypeInv'
<1> {"set", "remove"} \subseteq Kinds \ {"none"} /\ Types
  BY DEF Kinds, TypeInv, OnListing
<1>1. CASE BeginSet(r)
  <2>1. /\ Begin(r, "set")
        /\ pc' = [pc EXCEPT ![r] = "put"]
        /\ old' = [old EXCEPT ![r] = avatar]
        /\ keys' = [keys EXCEPT ![r] = {<<r, 1>>}]
        /\ UNCHANGED <<todo, wanted>>
    BY <1>1 DEF BeginSet
  <2>2. {<<r, 1>>} \subseteq Own(r) /\ {<<r, 1>>} \subseteq Images
    BY OwnImages
  <2>3. Types'
    BY <2>1, <2>2, BeginTypes DEF Types, Running
  <2>4. Only(r)
    BY <2>1, BeginTypes DEF Only, Types
  <2>5. /\ pc'[r] = "put" /\ todo'[r] = <<>> /\ draft'[r] = <<>> /\ kind'[r] = "set"
        /\ keys'[r] = {<<r, 1>>} /\ wanted'[r] = <<>>
    BY <2>1, BeginTypes DEF Types
  <2>6. Stage(r)'
    BY <2>2, <2>5 DEF Stage, OnListing
  <2>. QED
    BY <2>3, <2>4, <2>6, OnlyStages DEF TypeInv
<1>2. CASE BeginRemove(r)
  <2>1. /\ Begin(r, "remove")
        /\ pc' = [pc EXCEPT ![r] = "commit"]
        /\ old' = [old EXCEPT ![r] = avatar]
        /\ UNCHANGED <<todo, wanted, keys>>
    BY <1>2 DEF BeginRemove
  <2>2. Types'
    BY <2>1, BeginTypes DEF Types, Running
  <2>3. Only(r)
    BY <2>1, BeginTypes DEF Only, Types
  <2>4. /\ pc'[r] = "commit" /\ todo'[r] = <<>> /\ draft'[r] = <<>> /\ kind'[r] = "remove"
        /\ keys'[r] = {} /\ wanted'[r] = <<>>
    BY <2>1, BeginTypes DEF Types
  <2>5. Stage(r)'
    BY <2>4 DEF Stage, OnListing
  <2>. QED
    BY <2>2, <2>3, <2>5, OnlyStages DEF TypeInv
<1>. QED
  BY <1>1, <1>2

\* An upload is about to put the image of its first statement.
LEMMA NextFileFacts ==
  ASSUME TypeInv, NEW r \in Requests, pc[r] = "put"
  PROVE  /\ NextFile(r) \in Own(r)
         /\ kind[r] = "upload" => /\ todo[r] # <<>> /\ 1 \in DOMAIN todo[r]
                                  /\ Head(todo[r]) = todo[r][1] /\ DOMAIN todo[r][1] = {NextFile(r)}
         /\ kind[r] # "upload" => kind[r] = "set" /\ NextFile(r) = <<r, 1>>
<1>1. Types /\ Stage(r)
  BY DEF TypeInv
<1>2. CASE kind[r] = "upload"
  <2>1. todo[r] # <<>> /\ todo[r] \in Seq(Tables) /\ Head(todo[r]) = todo[r][1] /\ 1 \in DOMAIN todo[r]
    BY <1>1, <1>2 DEF Stage, Types
  <2>2. Upload(r, todo[r][1])
    BY <1>1, <1>2, <2>1 DEF Stage
  <2>3. PICK i \in Own(r), p \in Nat : todo[r][1] = Given(i, p)
    BY <2>2 DEF Upload
  <2>4. DOMAIN todo[r][1] = {i}
    BY <2>3 DEF Given
  <2>5. NextFile(r) = CHOOSE x \in DOMAIN todo[r][1] : TRUE
    BY <1>2, <2>1 DEF NextFile
  <2>6. NextFile(r) = i
    BY <2>4, <2>5
  <2>. QED
    BY <1>2, <2>1, <2>4, <2>6
<1>3. CASE kind[r] # "upload"
  BY <1>1, <1>3, OwnImages DEF Stage, NextFile
<1>. QED
  BY <1>2, <1>3

\* Putting an object keeps the types.
LEMMA PutTypes ==
  ASSUME TypeInv, NEW r \in Requests, PutObject(r)
  PROVE  TypeInv'
<1>1. Types /\ Stage(r) /\ NextFile(r) \in Own(r) /\ NextFile(r) \in Images
  BY NextFileFacts, OwnImages DEF TypeInv, PutObject
<1>2. /\ pc[r] = "put"
      /\ objects' = objects \cup {NextFile(r)}
      /\ keys' = [keys EXCEPT ![r] = keys[r] \cup {NextFile(r)}]
      /\ pc' = [pc EXCEPT ![r] = IF kind[r] = "upload" THEN "write" ELSE "commit"]
      /\ UNCHANGED <<place, image, avatar, todo, draft, kind, old, wanted,
                     overlapped, refused, unanswered, strays>>
  BY DEF PutObject, reqVars, history
<1>3. Rows' = Rows
  BY <1>2 DEF Rows
<1> HIDE DEF NextFile
<1>4. Types'
  BY <1>1, <1>2, <1>3 DEF Types, Running
<1>5. Only(r)
  BY <1>1, <1>2 DEF Only, Types
<1>6. Stage(r)'
  BY <1>1, <1>2 DEF Stage, Types, OnListing, Upload, Renumbering
<1>. QED
  BY <1>4, <1>5, <1>6, OnlyStages DEF TypeInv

\* Whatever a step that gives up does to the objects
LEMMA GiveUpTypes ==
  ASSUME TypeInv, NEW r \in Requests, pc[r] \in Running, RollBack(r),
         UNCHANGED <<place, image, avatar, keys, reqVars>>,
         NEW p \in {"clean", "failed"}, pc' = [pc EXCEPT ![r] = p],
         p = "clean" => kind[r] \in {"upload", "set"},
         objects' \subseteq Images, strays' \subseteq Images,
         refused' \subseteq Requests, UNCHANGED <<overlapped, unanswered>>
  PROVE  TypeInv'
<1>1. Types /\ Stage(r) /\ kind[r] # "none"
  BY DEF TypeInv, Stage, Running
<1>2. todo' = [todo EXCEPT ![r] = <<>>] /\ draft' = [draft EXCEPT ![r] = <<>>]
  BY DEF RollBack
<1>3. Rows' = Rows /\ kind' = kind /\ old' = old /\ wanted' = wanted /\ keys' = keys
  BY DEF Rows, reqVars
<1>4. <<>> \in Tables /\ DOMAIN <<>> = {} /\ IsFiniteSet({}) /\ <<>> \in Seq(Tables)
  BY EmptyTable, FS_EmptySet
<1>5. todo' \in [Requests -> Seq(Tables)] /\ draft' \in [Requests -> Tables]
  BY <1>1, <1>2, <1>4 DEF Types
<1>6. \A q \in Requests : IsFiniteSet(DOMAIN draft'[q])
  BY <1>1, <1>2, <1>4 DEF Types
<1>7. Types'
  BY <1>1, <1>3, <1>5, <1>6 DEF Types, Running
<1>8. Only(r)
  BY <1>1, <1>2, <1>3 DEF Only, Types
<1>9. pc'[r] = p /\ todo'[r] = <<>> /\ draft'[r] = <<>>
  BY <1>1, <1>2 DEF Types
<1>10. Stage(r)'
  BY <1>1, <1>3, <1>4, <1>9 DEF Stage, OnListing, Upload, Renumbering
<1>. QED
  BY <1>7, <1>8, <1>10, OnlyStages DEF TypeInv

\* A request that fails, dies or is refused drops its transaction, and keeps the types.
LEMMA FailTypes ==
  ASSUME TypeInv, NEW r \in Requests,
         PutFails(r) \/ DatabaseFails(r) \/ Die(r) \/ \E i \in Images : Refuse(r, i)
  PROVE  TypeInv'
<1>1. Types
  BY DEF TypeInv
<1>2. CASE PutFails(r)
  <2>1. NextFile(r) \in Images
    BY <1>2, NextFileFacts, OwnImages DEF PutFails
  <2>2. objects' \subseteq Images /\ strays' \subseteq Images
    BY <1>1, <1>2, <2>1 DEF PutFails, Types
  <2>3. /\ pc[r] \in Running /\ RollBack(r) /\ UNCHANGED <<place, image, avatar, keys, reqVars>>
        /\ pc' = [pc EXCEPT ![r] = IF kind[r] \in {"upload", "set"} THEN "clean" ELSE "failed"]
        /\ UNCHANGED <<overlapped, refused, unanswered>>
    BY <1>2 DEF PutFails, GiveUp, Running
  <2>. QED
    BY <1>1, <2>2, <2>3, GiveUpTypes DEF Types
<1>3. CASE DatabaseFails(r)
  <2>1. /\ pc[r] \in Running /\ RollBack(r) /\ UNCHANGED <<place, image, avatar, keys, reqVars>>
        /\ pc' = [pc EXCEPT ![r] = IF kind[r] \in {"upload", "set"} THEN "clean" ELSE "failed"]
        /\ UNCHANGED <<objects, strays, overlapped, refused, unanswered>>
    BY <1>3 DEF DatabaseFails, GiveUp, Running, history
  <2>. QED
    BY <1>1, <2>1, GiveUpTypes DEF Types
<1>4. CASE Die(r)
  <2>1. PICK more \in {{}} \cup (IF pc[r] = "put" THEN {{NextFile(r)}} ELSE {}) :
          objects' = objects \cup more /\ strays' = strays \cup more \cup (keys[r] \cap objects)
    BY <1>4 DEF Die
  <2>2. more \subseteq Images
    <3>1. pc[r] = "put" => NextFile(r) \in Images
      BY NextFileFacts, OwnImages
    <3>2. more = {} \/ (pc[r] = "put" /\ more = {NextFile(r)})
      OBVIOUS
    <3>. QED
      BY <3>1, <3>2
  <2>3. /\ pc[r] \in Running /\ RollBack(r) /\ UNCHANGED <<place, image, avatar, keys, reqVars>>
        /\ pc' = [pc EXCEPT ![r] = "failed"]
        /\ UNCHANGED <<overlapped, refused, unanswered>>
    BY <1>4 DEF Die
  <2>. QED
    BY <1>1, <2>1, <2>2, <2>3, GiveUpTypes DEF Types
<1>5. CASE \E i \in Images : Refuse(r, i)
  <2>1. /\ pc[r] \in Running /\ RollBack(r) /\ UNCHANGED <<place, image, avatar, keys, reqVars>>
        /\ pc' = [pc EXCEPT ![r] = IF kind[r] \in {"upload", "set"} THEN "clean" ELSE "failed"]
        /\ refused' = refused \cup {r}
        /\ UNCHANGED <<objects, strays, overlapped, unanswered>>
    BY <1>5 DEF Refuse, GiveUp, Running
  <2>. QED
    BY <1>1, <2>1, GiveUpTypes DEF Types
<1>. QED
  BY <1>2, <1>3, <1>4, <1>5

\* Cleaning up keeps the types.
LEMMA CleanTypes ==
  ASSUME TypeInv, NEW r \in Requests, Clean(r)
  PROVE  TypeInv'
<1>1. Types /\ Stage(r)
  BY DEF TypeInv
<1>2. /\ pc[r] = "clean" /\ pc' = [pc EXCEPT ![r] = "failed"]
      /\ objects' \subseteq objects /\ strays' \subseteq strays \cup objects
      /\ UNCHANGED <<place, image, avatar, todo, draft, keys, kind, old, wanted,
                     overlapped, refused, unanswered>>
  BY DEF Clean, reqVars
<1>3. Rows' = Rows
  BY <1>2 DEF Rows
<1>4. Types'
  BY <1>1, <1>2, <1>3 DEF Types, Running
<1>5. Only(r)
  BY <1>1, <1>2 DEF Only, Types
<1>6. Stage(r)'
  BY <1>1, <1>2 DEF Stage, Types, OnListing, Upload, Renumbering
<1>. QED
  BY <1>4, <1>5, <1>6, OnlyStages DEF TypeInv

\* The rows a transaction sees are finitely many, committed ones or its own.
LEMMA SeenRows ==
  ASSUME Types, NEW r \in Requests
  PROVE  /\ IsFiniteSet({i \in Images : Seen(r)[i] # NoPlace})
         /\ {i \in Images : Seen(r)[i] # NoPlace} \subseteq Rows \cup DOMAIN draft[r]
<1>1. {i \in Images : Seen(r)[i] # NoPlace} \subseteq Rows \cup DOMAIN draft[r]
  BY SeenFacts DEF Rows
<1>2. IsFiniteSet(Rows \cup DOMAIN draft[r])
  BY FS_Union DEF Types
<1>. QED
  BY <1>1, <1>2, FS_Subset

\* Writing a row keeps the types.
LEMMA WriteTypes ==
  ASSUME TypeInv, NEW r \in Requests, NEW i \in Images, Write(r, i)
  PROVE  TypeInv'
<1> DEFINE s == todo[r]
           p == s[1][i]
           t == Without(r, i)
<1>1. Types /\ Stage(r) /\ pc[r] = "write" /\ s # <<>> /\ kind[r] \in OnListing
  BY DEF TypeInv, Stage, Write
<1>2. /\ Head(s) = s[1] /\ 1 \in DOMAIN s /\ i \in DOMAIN s[1] /\ s[1] \in Tables /\ p \in Places
      /\ t \in Seq(Tables) /\ Shorter(s, t, i)
      /\ \A k \in DOMAIN t : DOMAIN t[k] # {}
      /\ \A k \in DOMAIN t : \E l \in DOMAIN s :
           DOMAIN t[k] \subseteq DOMAIN s[l] /\ \A j \in DOMAIN t[k] : t[k][j] = s[l][j]
  <2>a. Types
    BY <1>1
  <2>b. todo[r] # <<>>
    BY <1>1
  <2>c. i \in DOMAIN Head(todo[r])
    BY DEF Write
  <2>1. \A k \in DOMAIN todo[r] : DOMAIN todo[r][k] # {}
    BY <1>1 DEF Stage
  <2>2. /\ Head(todo[r]) = todo[r][1] /\ 1 \in DOMAIN todo[r] /\ i \in DOMAIN todo[r][1] /\ i \in Images
        /\ todo[r][1] \in Tables /\ todo[r][1][i] \in Places
        /\ Without(r, i) \in Seq(Tables)
        /\ Shorter(todo[r], Without(r, i), i)
        /\ \A k \in DOMAIN Without(r, i) : DOMAIN Without(r, i)[k] # {}
        /\ \A k \in DOMAIN Without(r, i) : \E l \in DOMAIN todo[r] :
             /\ DOMAIN Without(r, i)[k] \subseteq DOMAIN todo[r][l]
             /\ \A j \in DOMAIN Without(r, i)[k] : Without(r, i)[k][j] = todo[r][l][j]
    BY <2>a, <2>b, <2>c, <2>1, WithoutFacts
  <2>. QED
    BY <2>2
<1>3. /\ todo' = [todo EXCEPT ![r] = t]
      /\ pc' = [pc EXCEPT ![r] = After(r, i)]
      /\ UNCHANGED <<place, image, avatar, objects, keys, kind, old, wanted,
                     overlapped, refused, unanswered, strays>>
  BY DEF Write, reqVars, history
<1>4. PICK d : draft' = [draft EXCEPT ![r] = d] /\ (d = draft[r] \/ d = Placed(draft[r], i, p))
  <2>1. draft' = draft \/ draft' = [draft EXCEPT ![r] = Placed(draft[r], i, p)]
    BY <1>2 DEF Write
  <2>2. draft = [draft EXCEPT ![r] = draft[r]]
    BY <1>1 DEF Types
  <2>. QED
    BY <2>1, <2>2
<1>5. /\ d \in Tables /\ DOMAIN d \subseteq DOMAIN draft[r] \cup {i} /\ IsFiniteSet(DOMAIN d)
      /\ \A j \in DOMAIN d : d[j] = p \/ (j \in DOMAIN draft[r] /\ d[j] = draft[r][j])
  <2>1. draft[r] \in Tables /\ IsFiniteSet(DOMAIN draft[r])
    BY <1>1 DEF Types
  <2>2. /\ Placed(draft[r], i, p) \in Tables
        /\ DOMAIN Placed(draft[r], i, p) = DOMAIN draft[r] \cup {i}
        /\ Placed(draft[r], i, p)[i] = p
        /\ \A j \in DOMAIN draft[r] \ {i} : Placed(draft[r], i, p)[j] = draft[r][j]
    BY <1>2, <2>1, PlacedFacts, ZenonT(60)
  <2>3. IsFiniteSet(DOMAIN draft[r] \cup {i})
    BY <2>1, FS_AddElement
  <2>. QED
    BY <1>4, <2>1, <2>2, <2>3
<1>6. After(r, i) \in {"read", "commit", "put", "write"}
  BY DEF After
<1>7. Rows' = Rows
  BY <1>3 DEF Rows
<1> HIDE DEF t, p
<1>8. Types'
  <2>1. todo' \in [Requests -> Seq(Tables)] /\ draft' \in [Requests -> Tables]
    BY <1>1, <1>2, <1>3, <1>4, <1>5 DEF Types
  <2>2. \A q \in Requests : IsFiniteSet(DOMAIN draft'[q])
    BY <1>1, <1>4, <1>5 DEF Types
  <2>3. pc' \in [Requests -> Running \cup {"new", "done", "failed"}]
    BY <1>1, <1>3, <1>6 DEF Types, Running
  <2>. QED
    BY <1>1, <1>3, <1>7, <2>1, <2>2, <2>3 DEF Types
<1>9. Only(r)
  BY <1>1, <1>3, <1>4 DEF Only, Types
<1>10. todo'[r] = t /\ pc'[r] = After(r, i) /\ draft'[r] = d /\ kind'[r] = kind[r] /\ keys'[r] = keys[r] /\ wanted'[r] = wanted[r]
  BY <1>1, <1>3, <1>4 DEF Types
<1>11. ASSUME kind[r] = "delete" PROVE Stage(r)'
  <2>1. CASE p = NoPlace
    <3>1. ~Renumbering(s)
      BY <1>2, <2>1 DEF Renumbering, NoPlace, p
    <3>2. PICK j \in Images : s = <<Given(j, NoPlace)>>
      BY <1>1, <1>11, <3>1 DEF Stage
    <3>3. DOMAIN s[1] = {i} /\ Len(s) = 1
      BY <1>2, <3>2 DEF Given
    <3>4. t = <<>>
      BY <1>2, <3>3 DEF Shorter
    <3>5. After(r, i) = "read"
      BY <1>2, <1>11, <2>1 DEF After, p
    <3>. QED
      BY <1>1, <1>10, <1>11, <3>4, <3>5 DEF Stage, Renumbering, OnListing
  <2>2. CASE p # NoPlace
    <3>1. Renumbering(s)
      <4>1. ASSUME NEW j \in Images, s = <<Given(j, NoPlace)>> PROVE FALSE
        <5>1. s[1] = Given(j, NoPlace) /\ i = j
          BY <1>2, <4>1 DEF Given
        <5>. QED
          BY <2>2, <5>1 DEF Given, p
      <4>. QED
        BY <1>1, <1>11, <4>1 DEF Stage
    <3>2. Renumbering(t)
      BY <1>2, <3>1 DEF Renumbering
    <3>3. After(r, i) = IF t = <<>> THEN "commit" ELSE "write"
      BY <1>2, <1>11, <2>2 DEF After, p, t
    <3>. QED
      BY <1>1, <1>2, <1>10, <1>11, <3>2, <3>3 DEF Stage, OnListing
  <2>. QED
    BY <2>1, <2>2
<1>12. ASSUME kind[r] = "reorder" PROVE Stage(r)'
  <2>1. Renumbering(s) /\ \A j \in DOMAIN draft[r] : draft[r][j] \in Nat
    BY <1>1, <1>12 DEF Stage
  <2>2. Renumbering(t) /\ p \in Nat
    BY <1>2, <2>1 DEF Renumbering, p
  <2>3. After(r, i) = IF t = <<>> THEN "commit" ELSE "write"
    BY <1>12 DEF After, t
  <2>4. \A j \in DOMAIN d : d[j] \in Nat
    BY <1>5, <2>1, <2>2
  <2>. QED
    BY <1>1, <1>2, <1>10, <1>12, <2>2, <2>3, <2>4 DEF Stage, OnListing
<1>13. ASSUME kind[r] = "upload" PROVE Stage(r)'
  <2>1. /\ \A k \in DOMAIN s : Upload(r, s[k])
        /\ DOMAIN draft[r] \subseteq Own(r) /\ \A j \in DOMAIN draft[r] : draft[r][j] \in Nat
    BY <1>1, <1>13 DEF Stage
  <2>2. PICK j \in Own(r), n \in Nat : s[1] = Given(j, n)
    BY <1>2, <2>1 DEF Upload
  <2>3. j = i /\ p = n /\ DOMAIN s[1] = {i}
    BY <1>2, <2>2 DEF Given, p
  <2>4. \A k \in DOMAIN t : Upload(r, t[k])
    BY <1>2, <2>1, <2>3 DEF Shorter
  <2>5. After(r, i) = IF t = <<>> THEN "commit" ELSE "put"
    BY <1>13 DEF After, t
  <2>6. DOMAIN d \subseteq Own(r) /\ \A x \in DOMAIN d : d[x] \in Nat
    BY <1>5, <2>1, <2>2, <2>3
  <2>. QED
    BY <1>1, <1>2, <1>10, <1>13, <2>4, <2>5, <2>6 DEF Stage, OnListing, Upload
<1>14. Stage(r)'
  BY <1>1, <1>11, <1>12, <1>13 DEF OnListing
<1>. QED
  BY <1>8, <1>9, <1>14, OnlyStages DEF TypeInv

\* What ReadRest reads
Left(r) == {i \in Images : Seen(r)[i] # NoPlace}

Final(r) == Numbered(InOrder(Left(r), Seen(r)), 0)

Astray(r) == {i \in Left(r) : Seen(r)[i] # Final(r)[i]}

\* A deletion numbers the rows left from 0 by their places; those that move have places of their own.
LEMMA ReadFacts ==
  ASSUME Types, NEW r \in Requests, Unique(Seen(r))
  PROVE  /\ IsFiniteSet(Left(r)) /\ Distinct(Left(r), Seen(r))
         /\ \A i \in Left(r) : Final(r)[i] = Rank(Left(r), Seen(r), i) /\ Final(r)[i] \in Nat
         /\ IsFiniteSet(Astray(r)) /\ Distinct(Astray(r), Seen(r))
<1> DEFINE n == Cardinality(Left(r))
           o == InOrder(Left(r), Seen(r))
<1>1. IsFiniteSet(Left(r)) /\ Left(r) \subseteq Images
  BY SeenRows DEF Left
<1>2. \A i \in Left(r) : Seen(r)[i] \in Nat /\ Seen(r)[i] # NoPlace
  BY SeenFacts DEF Left, Places
<1>3. Distinct(Left(r), Seen(r))
  BY <1>1, <1>2 DEF Distinct, Unique
<1>4. /\ n \in Nat /\ o \in [1 .. n -> Left(r)]
      /\ \A k \in 1 .. n : Rank(Left(r), Seen(r), o[k]) = k - 1
      /\ \A i \in Left(r) : \E k \in 1 .. n : o[k] = i
  BY <1>1, <1>3, OrderFacts
<1>5. \A k, l \in 1 .. n : o[k] = o[l] => k = l
  BY <1>4
<1>6. \A k \in 1 .. n : Numbered(o, 0)[o[k]] = k - 1
  <2> HIDE DEF n, o
  <2>. QED
    BY <1>4, <1>5, NumberedFromZero, ZenonT(60)
<1>7. ASSUME NEW i \in Left(r) PROVE Final(r)[i] = Rank(Left(r), Seen(r), i) /\ Final(r)[i] \in Nat
  <2>1. PICK k \in 1 .. n : o[k] = i
    BY <1>4
  <2>2. Final(r)[i] = k - 1
    BY <1>6, <2>1 DEF Final
  <2>3. Rank(Left(r), Seen(r), i) = k - 1
    BY <1>4, <2>1
  <2>. QED
    BY <1>4, <2>2, <2>3
<1>8. Astray(r) \in SUBSET Left(r)
  BY DEF Astray
<1>9. IsFiniteSet(Astray(r))
  BY <1>1, <1>8, FS_Subset
<1>10. Distinct(Astray(r), Seen(r))
  BY <1>3, <1>8 DEF Distinct
<1>. QED
  BY <1>1, <1>3, <1>7, <1>9, <1>10

\* The rows that move, in order, and the statements that close the gaps
Moved(r) == InOrder(Astray(r), Seen(r))

Closing(r) == [k \in DOMAIN Moved(r) |-> Given(Moved(r)[k], Final(r)[Moved(r)[k]])]

\* Its statements take the rows that move, and those alone, in the order of their places.
LEMMA ReadRestFacts ==
  ASSUME TypeInv, NEW r \in Requests, Unique(Seen(r)), ReadRest(r)
  PROVE  /\ pc[r] = "read" /\ todo' = [todo EXCEPT ![r] = Closing(r)]
         /\ pc' = [pc EXCEPT ![r] = IF Closing(r) = <<>> THEN "commit" ELSE "write"]
         /\ Closing(r) \in Seq(Tables) /\ DOMAIN Closing(r) = DOMAIN Moved(r)
         /\ \A k \in DOMAIN Closing(r) :
              /\ Moved(r)[k] \in Astray(r) /\ Moved(r)[k] \in Images
              /\ DOMAIN Closing(r)[k] = {Moved(r)[k]}
              /\ Closing(r)[k][Moved(r)[k]] = Final(r)[Moved(r)[k]] /\ Final(r)[Moved(r)[k]] \in Nat
         /\ \A i \in Astray(r) : \E k \in DOMAIN Closing(r) : Moved(r)[k] = i
         /\ \A k, l \in DOMAIN Closing(r) : k < l => Seen(r)[Moved(r)[k]] < Seen(r)[Moved(r)[l]]
<1> DEFINE n == Cardinality(Astray(r))
           m == Moved(r)
           t == Closing(r)
<1>1. Types
  BY DEF TypeInv
<1>2. /\ n \in Nat /\ m \in [1 .. n -> Astray(r)] /\ DOMAIN m = 1 .. n
      /\ \A i \in Astray(r) : \E k \in 1 .. n : m[k] = i
      /\ \A k, l \in 1 .. n : k < l => Seen(r)[m[k]] < Seen(r)[m[l]]
  <2>1. IsFiniteSet(Astray(r)) /\ Distinct(Astray(r), Seen(r))
    BY <1>1, ReadFacts
  <2>. QED
    BY <2>1, OrderFacts DEF Moved
<1>3. Astray(r) \subseteq Left(r) /\ Astray(r) \subseteq Images
  BY DEF Astray, Left
<1>4. \A k \in 1 .. n : m[k] \in Images /\ Final(r)[m[k]] \in Nat
  BY <1>1, <1>2, <1>3, ReadFacts
<1>5. /\ pc[r] = "read" /\ todo' = [todo EXCEPT ![r] = t]
      /\ pc' = [pc EXCEPT ![r] = IF m = <<>> THEN "commit" ELSE "write"]
  BY DEF ReadRest, Left, Final, Astray, Moved, Closing
<1> HIDE DEF m, n
<1>6. ASSUME NEW k \in 1 .. n
      PROVE  /\ t[k] \in Tables /\ DOMAIN t[k] = {m[k]} /\ t[k][m[k]] = Final(r)[m[k]]
  <2>1. m[k] \in Images /\ Final(r)[m[k]] \in Places
    BY <1>4 DEF Places
  <2>2. t[k] = Given(m[k], Final(r)[m[k]])
    BY <1>2 DEF Closing, m
  <2>. QED
    <3>1. /\ Given(m[k], Final(r)[m[k]]) \in Tables /\ DOMAIN Given(m[k], Final(r)[m[k]]) = {m[k]}
          /\ Given(m[k], Final(r)[m[k]])[m[k]] = Final(r)[m[k]]
      BY <2>1, GivenFacts
    <3> HIDE DEF t
    <3>. QED
      BY <2>2, <3>1
<1>7. DOMAIN t = 1 .. n /\ t = [k \in 1 .. n |-> t[k]]
  BY <1>2 DEF Closing, m
<1> HIDE DEF t
<1>8. t \in Seq(Tables) /\ (t = <<>> <=> n = 0) /\ (m = <<>> <=> n = 0)
  BY <1>2, <1>6, <1>7
<1>9. pc' = [pc EXCEPT ![r] = IF t = <<>> THEN "commit" ELSE "write"]
  BY <1>5, <1>8
<1>. QED
  BY <1>2, <1>3, <1>4, <1>5, <1>6, <1>7, <1>8, <1>9 DEF m, t

\* Reading the rows that are left keeps the types.
LEMMA ReadRestTypes ==
  ASSUME TypeInv, NEW r \in Requests, Unique(Seen(r)), ReadRest(r)
  PROVE  TypeInv'
<1>1. Types /\ Stage(r)
  BY DEF TypeInv
<1> DEFINE t == Closing(r)
<1>2. /\ pc[r] = "read" /\ todo' = [todo EXCEPT ![r] = t]
      /\ pc' = [pc EXCEPT ![r] = IF t = <<>> THEN "commit" ELSE "write"]
      /\ t \in Seq(Tables)
      /\ \A k \in DOMAIN t : DOMAIN t[k] = {Moved(r)[k]} /\ t[k][Moved(r)[k]] \in Nat
  <2>1. /\ pc[r] = "read" /\ todo' = [todo EXCEPT ![r] = Closing(r)]
        /\ pc' = [pc EXCEPT ![r] = IF Closing(r) = <<>> THEN "commit" ELSE "write"]
        /\ Closing(r) \in Seq(Tables)
    BY ReadRestFacts
  <2>2. \A k \in DOMAIN Closing(r) :
          /\ DOMAIN Closing(r)[k] = {Moved(r)[k]}
          /\ Closing(r)[k][Moved(r)[k]] = Final(r)[Moved(r)[k]] /\ Final(r)[Moved(r)[k]] \in Nat
    BY ReadRestFacts
  <2>. QED
    BY <2>1, <2>2
<1> HIDE DEF t
<1>3. UNCHANGED <<place, image, avatar, objects, draft, keys, kind, old, wanted,
                  overlapped, refused, unanswered, strays>>
  BY DEF ReadRest, reqVars, history
<1>4. Rows' = Rows
  BY <1>3 DEF Rows
<1>5. Types'
  BY <1>1, <1>2, <1>3, <1>4 DEF Types, Running
<1>6. Only(r)
  BY <1>1, <1>2, <1>3 DEF Only, Types
<1>8. Renumbering(t) /\ \A k \in DOMAIN t : DOMAIN t[k] # {}
  BY <1>2 DEF Renumbering
<1>10. /\ todo'[r] = t /\ pc'[r] = IF t = <<>> THEN "commit" ELSE "write"
       /\ kind'[r] = "delete" /\ kind[r] = "delete" /\ draft'[r] = draft[r]
       /\ keys'[r] = keys[r] /\ wanted'[r] = wanted[r]
  BY <1>1, <1>2, <1>3 DEF Types, Stage
<1>11. Stage(r)'
  BY <1>1, <1>8, <1>10 DEF Stage, OnListing
<1>. QED
  BY <1>5, <1>6, <1>11, OnlyStages DEF TypeInv

\* Where a request is after its commit
LEMMA ApplyTypes ==
  ASSUME TypeInv, NEW r \in Requests, Apply(r),
         NEW p \in {"done", "clean", "failed"}, pc' = [pc EXCEPT ![r] = p],
         p = "clean" => kind[r] \in {"upload", "set"}, unanswered' \subseteq Requests
  PROVE  TypeInv'
<1>1. Types /\ Stage(r) /\ pc[r] = "commit" /\ kind[r] # "none"
  BY DEF TypeInv, Stage, Apply
<1>2. /\ place' = Seen(r)
      /\ todo' = [todo EXCEPT ![r] = <<>>] /\ draft' = [draft EXCEPT ![r] = <<>>]
      /\ UNCHANGED <<objects, keys, kind, old, wanted, overlapped, refused, strays>>
  BY DEF Apply, RollBack, reqVars
<1>3. image' \in [Images -> {"none", "live", "deleted"}]
  BY <1>1 DEF Apply, Types
<1>4. avatar' \in Images \cup {NoImage}
  BY <1>1, OwnImages DEF Apply, Types
<1>5. place' \in [Images -> Places]
  BY <1>1, <1>2, SeenFacts
<1>6. IsFiniteSet(Rows')
  BY <1>1, <1>2, SeenRows DEF Rows
<1>7. <<>> \in Tables /\ DOMAIN <<>> = {} /\ IsFiniteSet({}) /\ <<>> \in Seq(Tables)
  BY EmptyTable, FS_EmptySet
<1>8. todo' \in [Requests -> Seq(Tables)] /\ draft' \in [Requests -> Tables]
  BY <1>1, <1>2, <1>7 DEF Types
<1>9. \A q \in Requests : IsFiniteSet(DOMAIN draft'[q])
  BY <1>1, <1>2, <1>7 DEF Types
<1>10. Types'
  BY <1>1, <1>2, <1>3, <1>4, <1>5, <1>6, <1>8, <1>9 DEF Types, Running
<1>11. Only(r)
  BY <1>1, <1>2 DEF Only, Types
<1>12. /\ pc'[r] = p /\ todo'[r] = <<>> /\ draft'[r] = <<>> /\ kind'[r] = kind[r]
       /\ keys'[r] = keys[r] /\ wanted'[r] = wanted[r]
  BY <1>1, <1>2 DEF Types
<1>13. Stage(r)'
  BY <1>1, <1>7, <1>12 DEF Stage, OnListing, Upload, Renumbering
<1>. QED
  BY <1>10, <1>11, <1>13, OnlyStages DEF TypeInv

\* Every step keeps the types and stages.
LEMMA StepTypes == TypeInv /\ UniqueInv /\ [Next]_vars => TypeInv'
<1> SUFFICES ASSUME TypeInv, UniqueInv, [Next]_vars PROVE TypeInv'
  OBVIOUS
<1>a. Types /\ Unique(place) /\ \A r \in Requests : Unique(Seen(r))
  BY DEF TypeInv, UniqueInv
<1>1. ASSUME NEW r \in Requests, NEW n \in Files[r], BeginUpload(r, n) PROVE TypeInv'
  BY <1>1, BeginUploadTypes
<1>2. ASSUME NEW r \in Requests, NEW i \in Images, BeginDelete(r, i) PROVE TypeInv'
  BY <1>2, BeginDeleteTypes
<1>3. ASSUME NEW r \in Requests, NEW s \in Bijection(1 .. Cardinality(Rows), Rows), BeginReorder(r, s)
      PROVE  TypeInv'
  BY <1>a, <1>3, BeginReorderTypes
<1>4. ASSUME NEW r \in Requests, BeginSet(r) \/ BeginRemove(r) PROVE TypeInv'
  BY <1>4, BeginAvatarTypes
<1>5. ASSUME NEW r \in Requests, PutObject(r) PROVE TypeInv'
  BY <1>5, PutTypes
<1>6. ASSUME NEW r \in Requests,
             PutFails(r) \/ DatabaseFails(r) \/ Die(r) \/ \E i \in Images : Refuse(r, i)
      PROVE  TypeInv'
  BY <1>6, FailTypes
<1>7. ASSUME NEW r \in Requests, Clean(r) PROVE TypeInv'
  BY <1>7, CleanTypes
<1>8. ASSUME NEW r \in Requests, NEW i \in Images, Write(r, i) PROVE TypeInv'
  BY <1>8, WriteTypes
<1>9. ASSUME NEW r \in Requests, ReadRest(r) PROVE TypeInv'
  BY <1>a, <1>9, ReadRestTypes
<1>10. ASSUME NEW r \in Requests, Commit(r) PROVE TypeInv'
  <2>1. Apply(r) /\ pc' = [pc EXCEPT ![r] = "done"] /\ unanswered' \subseteq Requests
    BY <1>a, <1>10 DEF Commit, Types
  <2>. QED
    BY <2>1, ApplyTypes
<1>11. ASSUME NEW r \in Requests, CommitUnanswered(r) PROVE TypeInv'
  <2>1. /\ Apply(r) /\ unanswered' \subseteq Requests
        /\ pc' = [pc EXCEPT ![r] = IF kind[r] \in {"upload", "set"} THEN "clean" ELSE "failed"]
    BY <1>a, <1>11 DEF CommitUnanswered, Types
  <2>. QED
    BY <2>1, ApplyTypes
<1>12. CASE UNCHANGED vars
  <2>1. Rows' = Rows
    BY <1>12 DEF vars, Rows
  <2>2. Types'
    BY <1>a, <1>12, <2>1 DEF Types, vars, reqVars, history
  <2>3. ASSUME NEW r \in Requests PROVE Stage(r)'
    BY <1>12 DEF TypeInv, Stage, vars, reqVars, history, Renumbering
  <2>. QED
    BY <2>2, <2>3 DEF TypeInv
<1>. QED
  BY <1>1, <1>2, <1>3, <1>4, <1>5, <1>6, <1>7, <1>8, <1>9, <1>10, <1>11, <1>12 DEF Next

-----------------------------------------------------------------------------
(* No place twice                                                          *)

\* What a step may do to the rows and the drafts
LEMMA Drafts ==
  ASSUME Types, [Next]_vars
  PROVE  \/ UNCHANGED <<place, draft>>
         \/ place' = place /\ \E r \in Requests : draft' = [draft EXCEPT ![r] = <<>>]
         \/ \E r \in Requests, i \in Images : Write(r, i)
         \/ \E r \in Requests : Apply(r)
<1>1. ASSUME NEW r \in Requests, NEW k, Begin(r, k) PROVE UNCHANGED <<place, draft>>
  BY <1>1 DEF Begin
<1>2. ASSUME NEW r \in Requests, PutObject(r) \/ Clean(r) \/ ReadRest(r) PROVE UNCHANGED <<place, draft>>
  BY <1>2 DEF PutObject, Clean, ReadRest
<1>3. ASSUME NEW r \in Requests,
             PutFails(r) \/ DatabaseFails(r) \/ Die(r) \/ \E i \in Images : Refuse(r, i)
      PROVE  place' = place /\ draft' = [draft EXCEPT ![r] = <<>>]
  BY <1>3 DEF PutFails, DatabaseFails, Die, Refuse, GiveUp, RollBack
<1>4. ASSUME NEW r \in Requests, Commit(r) \/ CommitUnanswered(r) PROVE Apply(r)
  BY <1>4 DEF Commit, CommitUnanswered
<1>5. CASE UNCHANGED vars
  BY <1>5 DEF vars
<1>6. ASSUME NEW r \in Requests,
             \/ \E n \in Files[r] : BeginUpload(r, n)
             \/ \E i \in Images : BeginDelete(r, i)
             \/ \E s \in Bijection(1 .. Cardinality(Rows), Rows) : BeginReorder(r, s)
             \/ BeginSet(r) \/ BeginRemove(r)
      PROVE  UNCHANGED <<place, draft>>
  BY <1>1, <1>6 DEF BeginUpload, BeginDelete, BeginReorder, BeginSet, BeginRemove
<1>. QED
  BY <1>2, <1>3, <1>4, <1>5, <1>6 DEF Next

\* What the statement of r about i writes, when it writes
LEMMA WriteFacts ==
  ASSUME TypeInv, NEW r \in Requests, NEW i \in Images, Write(r, i)
  PROVE  /\ todo[r] # <<>> /\ Head(todo[r]) = todo[r][1] /\ 1 \in DOMAIN todo[r]
         /\ i \in DOMAIN todo[r][1] /\ todo[r][1][i] \in Places
         /\ \A q \in Requests \ {r} : draft'[q] = draft[q] /\ i \notin DOMAIN draft[q]
         /\ \/ draft' = draft /\ image[i] # "none" /\ Seen(r)[i] = NoPlace
            \/ /\ DOMAIN draft'[r] = DOMAIN draft[r] \cup {i}
               /\ draft'[r][i] = todo[r][1][i]
               /\ \A j \in DOMAIN draft[r] \ {i} : draft'[r][j] = draft[r][j]
               /\ image[i] = "none" \/ Seen(r)[i] # NoPlace
               /\ ~Taken(r, i, todo[r][1][i]) /\ ~Contended(r, todo[r][1][i])
         /\ UNCHANGED <<place, image, avatar, objects, keys, reqVars, history>>
<1>1. Types /\ Stage(r) /\ pc[r] = "write"
  BY DEF TypeInv, Write
<1>2. todo[r] # <<>> /\ todo[r] \in Seq(Tables) /\ Head(todo[r]) = todo[r][1] /\ 1 \in DOMAIN todo[r]
  BY <1>1 DEF Stage, Types
<1>3. i \in DOMAIN todo[r][1] /\ todo[r][1] \in Tables
  BY <1>2 DEF Write
<1>4. todo[r][1][i] \in Places
  BY <1>3, TableFacts
<1>5. draft[r] \in Tables
  BY <1>1 DEF Types
<1>6. ASSUME draft' = [draft EXCEPT ![r] = Placed(draft[r], i, todo[r][1][i])]
      PROVE  /\ DOMAIN draft'[r] = DOMAIN draft[r] \cup {i}
             /\ draft'[r][i] = todo[r][1][i]
             /\ \A j \in DOMAIN draft[r] \ {i} : draft'[r][j] = draft[r][j]
             /\ \A q \in Requests \ {r} : draft'[q] = draft[q]
  <2>1. draft'[r] = Placed(draft[r], i, todo[r][1][i]) /\ \A q \in Requests \ {r} : draft'[q] = draft[q]
    BY <1>1, <1>6 DEF Types
  <2> DEFINE d == draft[r]
             p == todo[r][1][i]
  <2>a. d \in Tables /\ p \in Places
    BY <1>4, <1>5
  <2> HIDE DEF d, p
  <2>b. /\ DOMAIN Placed(d, i, p) = DOMAIN d \cup {i}
        /\ Placed(d, i, p)[i] = p
        /\ \A j \in DOMAIN d \ {i} : Placed(d, i, p)[j] = d[j]
    BY <2>a, PlacedFacts, ZenonT(60)
  <2>2. /\ DOMAIN Placed(draft[r], i, todo[r][1][i]) = DOMAIN draft[r] \cup {i}
        /\ Placed(draft[r], i, todo[r][1][i])[i] = todo[r][1][i]
        /\ \A j \in DOMAIN draft[r] \ {i} : Placed(draft[r], i, todo[r][1][i])[j] = draft[r][j]
    BY <2>b DEF d, p
  <2>. QED
    BY <2>1, <2>2
<1>7. ~RowLocked(r, i) /\ ~Contended(r, todo[r][1][i])
  BY <1>2 DEF Write
<1>8. \/ draft' = draft /\ image[i] # "none" /\ Seen(r)[i] = NoPlace
      \/ /\ draft' = [draft EXCEPT ![r] = Placed(draft[r], i, todo[r][1][i])]
         /\ image[i] = "none" \/ Seen(r)[i] # NoPlace
         /\ ~Taken(r, i, todo[r][1][i])
  BY <1>2 DEF Write
<1>9. \A q \in Requests \ {r} : i \notin DOMAIN draft[q]
  BY <1>7 DEF RowLocked
<1>10. UNCHANGED <<place, image, avatar, objects, keys, reqVars, history>>
  BY DEF Write
<1>11. CASE draft' = draft /\ image[i] # "none" /\ Seen(r)[i] = NoPlace
  BY <1>2, <1>3, <1>4, <1>9, <1>10, <1>11
<1>12. CASE /\ draft' = [draft EXCEPT ![r] = Placed(draft[r], i, todo[r][1][i])]
            /\ image[i] = "none" \/ Seen(r)[i] # NoPlace
            /\ ~Taken(r, i, todo[r][1][i])
  BY <1>2, <1>3, <1>4, <1>6, <1>7, <1>9, <1>10, <1>12
<1>. QED
  BY <1>8, <1>11, <1>12

\* What a commit leaves of rows and drafts
LEMMA ApplyFacts ==
  ASSUME Types, NEW r \in Requests, Apply(r)
  PROVE  /\ \A i \in DOMAIN draft[r] : place'[i] = draft[r][i]
         /\ \A i \in Images \ DOMAIN draft[r] : place'[i] = place[i]
         /\ place' = Seen(r)
         /\ draft'[r] = <<>> /\ DOMAIN draft'[r] = {} /\ todo'[r] = <<>>
         /\ \A q \in Requests \ {r} : draft'[q] = draft[q] /\ todo'[q] = todo[q]
<1>1. draft' = [draft EXCEPT ![r] = <<>>] /\ todo' = [todo EXCEPT ![r] = <<>>] /\ place' = Seen(r)
  BY DEF Apply, RollBack
<1>2. draft'[r] = <<>> /\ todo'[r] = <<>> /\ \A q \in Requests \ {r} : draft'[q] = draft[q] /\ todo'[q] = todo[q]
  BY <1>1 DEF Types
<1>. QED
  BY <1>1, <1>2, SeenFacts, EmptyTable

Apart(r, q) ==
  /\ DOMAIN draft[r] \cap DOMAIN draft[q] = {}
  /\ \A i \in DOMAIN draft[r], j \in DOMAIN draft[q] :
       draft[r][i] # NoPlace => draft[r][i] \notin {place[j], draft[q][j]}

\* Every step leaves each place with one row at most, for each transaction as for the table.
LEMMA StepUnique == TypeInv /\ UniqueInv /\ TypeInv' /\ [Next]_vars => UniqueInv'
<1> SUFFICES ASSUME TypeInv, UniqueInv, TypeInv', [Next]_vars PROVE UniqueInv'
  OBVIOUS
<1>a. Types /\ Types' /\ Unique(place) /\ \A r \in Requests : Unique(Seen(r))
  BY DEF TypeInv, UniqueInv
<1>b. \A r \in Requests : \A q \in Requests \ {r} : Apart(r, q)
  BY DEF UniqueInv, Apart
<1>c. \A r \in Requests :
        /\ Seen(r) \in [Images -> Places] /\ DOMAIN draft[r] \subseteq Images
        /\ \A i \in DOMAIN draft[r] : Seen(r)[i] = draft[r][i]
        /\ \A i \in Images \ DOMAIN draft[r] : Seen(r)[i] = place[i]
  BY <1>a, SeenFacts
<1>d. \A r \in Requests :
        /\ Seen(r)' \in [Images -> Places] /\ DOMAIN draft'[r] \subseteq Images
        /\ \A i \in DOMAIN draft'[r] : Seen(r)'[i] = draft'[r][i]
        /\ \A i \in Images \ DOMAIN draft'[r] : Seen(r)'[i] = place'[i]
  <2>. SUFFICES ASSUME NEW r \in Requests
                PROVE  /\ Seen(r)' \in [Images -> Places] /\ DOMAIN draft'[r] \subseteq Images
                       /\ \A i \in DOMAIN draft'[r] : Seen(r)'[i] = draft'[r][i]
                       /\ \A i \in Images \ DOMAIN draft'[r] : Seen(r)'[i] = place'[i]
    OBVIOUS
  <2>1. draft'[r] \in Tables /\ place' \in [Images -> Places]
    BY <1>a DEF Types
  <2>2. DOMAIN draft'[r] \subseteq Images /\ \A i \in DOMAIN draft'[r] : draft'[r][i] \in Places
    BY <2>1, TableFacts
  <2>. QED
    BY <2>1, <2>2 DEF Seen
<1>1. CASE UNCHANGED <<place, draft>>
  <2>1. Unique(place)' /\ \A r \in Requests : Unique(Seen(r))'
    BY <1>1, <1>a DEF Unique, Seen
  <2>2. \A r \in Requests : \A q \in Requests \ {r} : Apart(r, q)'
    BY <1>1, <1>b DEF Apart
  <2>. QED
    BY <2>1, <2>2 DEF UniqueInv, Apart
<1>2. ASSUME place' = place, NEW r \in Requests, draft' = [draft EXCEPT ![r] = <<>>]
      PROVE  UniqueInv'
  <2>1. draft'[r] = <<>> /\ DOMAIN draft'[r] = {} /\ \A q \in Requests \ {r} : draft'[q] = draft[q]
    BY <1>a, <1>2, EmptyTable DEF Types
  <2>2. \A q \in Requests \ {r} : Seen(q)' = Seen(q)
    BY <1>2, <2>1 DEF Seen
  <2>3. Unique(place)' /\ Unique(Seen(r))'
    BY <1>2, <1>a, <1>d, <2>1 DEF Unique
  <2>4. \A q \in Requests : Unique(Seen(q))'
    BY <1>a, <2>2, <2>3 DEF Unique
  <2>5. \A q \in Requests : \A o \in Requests \ {q} : Apart(q, o)'
    BY <1>2, <1>b, <2>1 DEF Apart
  <2>. QED
    BY <2>3, <2>4, <2>5 DEF UniqueInv, Apart
<1>3. ASSUME NEW r \in Requests, NEW i \in Images, Write(r, i) PROVE UniqueInv'
  <2> DEFINE p == todo[r][1][i]
  <2>1. place' = place /\ \A q \in Requests \ {r} : draft'[q] = draft[q] /\ i \notin DOMAIN draft[q]
    BY <1>3, WriteFacts
  <2>2. CASE draft' = draft
    BY <2>1, <2>2, <1>1
  <2>3. CASE draft' # draft
    <3>1. /\ DOMAIN draft'[r] = DOMAIN draft[r] \cup {i} /\ draft'[r][i] = p
          /\ \A j \in DOMAIN draft[r] \ {i} : draft'[r][j] = draft[r][j]
          /\ ~Taken(r, i, p) /\ ~Contended(r, p)
      BY <1>3, <2>3, WriteFacts
    <3> HIDE DEF p
    <3>2. \A q \in Requests \ {r} : Seen(q)' = Seen(q)
      BY <2>1 DEF Seen
    <3>3. Seen(r)'[i] = p /\ \A j \in Images \ {i} : Seen(r)'[j] = Seen(r)[j]
      BY <1>c, <1>d, <2>1, <3>1
    <3>4. \A j \in Images \ {i} : p # NoPlace => Seen(r)[j] # p
      BY <3>1 DEF Taken
    <3>5. Unique(Seen(r))'
      BY <1>a, <3>3, <3>4 DEF Unique
    <3>6. Unique(place)' /\ \A q \in Requests : Unique(Seen(q))'
      BY <1>a, <2>1, <3>2, <3>5 DEF Unique
    <3>7. ASSUME NEW q \in Requests \ {r} PROVE Apart(r, q)' /\ Apart(q, r)'
      <4>1. Apart(r, q) /\ Apart(q, r) /\ draft'[q] = draft[q] /\ i \notin DOMAIN draft[q]
        BY <1>b, <2>1
      <4>2. \A j \in DOMAIN draft[q] : p # NoPlace => p # place[j] /\ p # draft[q][j]
        BY <3>1 DEF Contended
      <4>3. \A j \in DOMAIN draft[q] : draft[q][j] # NoPlace => draft[q][j] # place[i]
        BY <1>a, <1>c, <4>1 DEF Unique
      <4>. QED
        BY <2>1, <3>1, <4>1, <4>2, <4>3 DEF Apart
    <3>8. \A q \in Requests : \A o \in Requests \ {q} : Apart(q, o)'
      BY <1>b, <2>1, <3>7 DEF Apart
    <3>. QED
      BY <3>6, <3>8 DEF UniqueInv, Apart
  <2>. QED
    BY <2>2, <2>3
<1>4. ASSUME NEW r \in Requests, Apply(r) PROVE UniqueInv'
  <2>1. /\ \A i \in DOMAIN draft[r] : place'[i] = draft[r][i]
        /\ \A i \in Images \ DOMAIN draft[r] : place'[i] = place[i]
        /\ place' = Seen(r) /\ DOMAIN draft'[r] = {}
        /\ \A q \in Requests \ {r} : draft'[q] = draft[q]
    BY <1>4, <1>a, ApplyFacts
  <2>2. Unique(place)' /\ Unique(Seen(r))'
    BY <1>a, <1>d, <2>1 DEF Unique
  <2>3. ASSUME NEW q \in Requests \ {r} PROVE Unique(Seen(q))'
    <3>1. Apart(q, r) /\ Apart(r, q) /\ draft'[q] = draft[q]
      BY <1>b, <2>1
    <3>2. \A i \in DOMAIN draft[q] : Seen(q)'[i] = draft[q][i] /\ Seen(q)[i] = draft[q][i] /\ i \notin DOMAIN draft[r]
      BY <1>c, <1>d, <3>1 DEF Apart
    <3>3. \A i \in Images \ DOMAIN draft[q] : Seen(q)'[i] = Seen(r)[i] /\ Seen(q)[i] = place[i]
      BY <1>c, <1>d, <2>1, <3>1
    <3>4. ASSUME NEW i \in DOMAIN draft[q], NEW j \in Images \ DOMAIN draft[q], draft[q][i] # NoPlace
          PROVE  draft[q][i] # Seen(r)[j]
      <4>1. CASE j \in DOMAIN draft[r]
        BY <1>c, <3>1, <3>4, <4>1 DEF Apart
      <4>2. CASE j \notin DOMAIN draft[r]
        <5>1. Seen(r)[j] = place[j] /\ Seen(q)[j] = place[j] /\ Seen(q)[i] = draft[q][i] /\ i \in Images
          BY <1>c, <3>2, <3>3, <4>2
        <5>2. Unique(Seen(q)) /\ i # j
          BY <1>a
        <5>. QED
          BY <3>4, <5>1, <5>2 DEF Unique
      <4>. QED
        BY <4>1, <4>2
    <3>5. ASSUME NEW i \in Images, NEW j \in Images, Seen(q)'[i] = Seen(q)'[j], Seen(q)'[i] # NoPlace
          PROVE  i = j
      <4>1. CASE i \in DOMAIN draft[q] /\ j \in DOMAIN draft[q]
        BY <1>a, <3>2, <3>5, <4>1 DEF Unique
      <4>2. CASE i \notin DOMAIN draft[q] /\ j \notin DOMAIN draft[q]
        BY <1>a, <3>3, <3>5, <4>2 DEF Unique
      <4>3. CASE i \in DOMAIN draft[q] /\ j \notin DOMAIN draft[q]
        BY <3>2, <3>3, <3>4, <3>5, <4>3
      <4>4. CASE i \notin DOMAIN draft[q] /\ j \in DOMAIN draft[q]
        BY <3>2, <3>3, <3>4, <3>5, <4>4
      <4>. QED
        BY <4>1, <4>2, <4>3, <4>4
    <3>. QED
      BY <3>5 DEF Unique
  <2>4. ASSUME NEW q \in Requests, NEW o \in Requests \ {q} PROVE Apart(q, o)'
    <3>1. CASE q = r \/ o = r
      BY <2>1, <3>1 DEF Apart
    <3>2. CASE q # r /\ o # r
      <4>1. Apart(q, o) /\ Apart(o, r) /\ draft'[q] = draft[q] /\ draft'[o] = draft[o]
        BY <1>b, <2>1, <3>2
      <4>2. \A j \in DOMAIN draft[o] : place'[j] = place[j]
        BY <1>c, <2>1, <4>1 DEF Apart
      <4>. QED
        BY <4>1, <4>2 DEF Apart
    <3>. QED
      BY <3>1, <3>2
  <2>. QED
    BY <2>2, <2>3, <2>4 DEF UniqueInv, Apart
<1>. QED
  BY <1>a, <1>1, <1>2, <1>3, <1>4, Drafts

-----------------------------------------------------------------------------
(* Rows and images                                                         *)

\* An image that the listing shows or showed, and one that the user wears or wore
Listed(i) == i \in Posted \/ \E q \in Requests : kind[q] = "upload" /\ i \in Own(q)

Worn(i) == \E q \in Requests : kind[q] = "set" /\ i = <<q, 1>>

\* r has committed what it made.
Over(r) == pc[r] = "done" \/ (pc[r] \in {"clean", "failed"} /\ r \in unanswered)

\* The images r has written or is going to write
Named(r) == DOMAIN draft[r] \cup UNION {DOMAIN todo[r][k] : k \in DOMAIN todo[r]}

\* Rows are live images, those of the listing and of the avatar apart, and no request has
\* images of its own before it is over.
RowInv ==
  /\ \A i \in Rows : image[i] = "live" /\ Listed(i)
  /\ avatar # NoImage => image[avatar] = "live" /\ Worn(avatar)
  /\ \A r \in Requests : old[r] # NoImage => image[old[r]] # "none" /\ Worn(old[r])
  /\ \A r \in Requests : kind[r] \in {"delete", "reorder"} =>
       \A i \in Named(r) : image[i] # "none" /\ Listed(i)
  /\ \A r \in Requests : \A i \in Own(r) : image[i] # "none" => kind[r] \in {"upload", "set"} /\ Over(r)
  /\ \A r \in unanswered : pc[r] \in {"clean", "failed"}

\* A transaction writes rows that are there, or its own.
PresentInv ==
  \A r \in Requests : \A i \in DOMAIN draft[r] : image[i] # "none" => place[i] # NoPlace

\* An image of the listing is never one of the avatar.
LEMMA ListedNotWorn == \A i : Listed(i) => ~Worn(i)
<1> SUFFICES ASSUME NEW i, Listed(i), Worn(i) PROVE FALSE
  OBVIOUS
<1>1. PICK q \in Requests : kind[q] = "set" /\ i = <<q, 1>>
  BY DEF Worn
<1>2. i \in Own(q) /\ i \notin Posted
  BY <1>1, OwnImages
<1>3. PICK o \in Requests : kind[o] = "upload" /\ i \in Own(o)
  BY <1>2 DEF Listed
<1>. QED
  BY <1>1, <1>2, <1>3, OwnImages

\* All steps but a commit
LEMMA RowsStand ==
  ASSUME RowInv, UNCHANGED <<place, image, avatar>>,
         \A q \in Requests : kind'[q] = kind[q] \/ kind[q] = "none",
         \A q \in Requests : old'[q] = old[q] \/ old'[q] = avatar,
         \A q \in Requests : kind'[q] \in {"delete", "reorder"} =>
           \A i \in Named(q)' : \/ kind[q] \in {"delete", "reorder"} /\ i \in Named(q)
                                \/ image[i] # "none" /\ Listed(i),
         \A q \in Requests : kind[q] # "none" /\ Over(q) => Over(q)',
         \A q \in unanswered' : pc'[q] \in {"clean", "failed"}
  PROVE  RowInv'
<1>1. \A i : (Listed(i) => Listed(i)') /\ (Worn(i) => Worn(i)')
  BY DEF Listed, Worn
<1>2. Rows' = Rows
  BY DEF Rows
<1>3. \A i \in Rows' : image'[i] = "live" /\ Listed(i)'
  BY <1>1, <1>2 DEF RowInv
<1>4. avatar' # NoImage => image'[avatar'] = "live" /\ Worn(avatar)'
  BY <1>1 DEF RowInv
<1>5. \A q \in Requests : old'[q] # NoImage => image'[old'[q]] # "none" /\ Worn(old[q])'
  <2> SUFFICES ASSUME NEW q \in Requests, old'[q] # NoImage PROVE image'[old'[q]] # "none" /\ Worn(old[q])'
    OBVIOUS
  <2>1. image[old'[q]] # "none" /\ Worn(old'[q])
    BY DEF RowInv
  <2>2. \A i : Worn(i) => \E o \in Requests : kind'[o] = "set" /\ i = <<o, 1>>
    BY DEF Worn
  <2>. QED
    BY <2>1, <2>2 DEF Worn
<1>6. \A q \in Requests : kind'[q] \in {"delete", "reorder"} =>
        \A i \in Named(q)' : image'[i] # "none" /\ Listed(i)'
  BY <1>1 DEF RowInv
<1>7. \A q \in Requests : \A i \in Own(q)' : image'[i] # "none" => kind'[q] \in {"upload", "set"} /\ Over(q)'
  <2> SUFFICES ASSUME NEW q \in Requests, NEW i \in Own(q), image'[i] # "none"
               PROVE  kind'[q] \in {"upload", "set"} /\ Over(q)'
    BY DEF Own
  <2>1. kind[q] \in {"upload", "set"} /\ Over(q)
    BY DEF RowInv
  <2>. QED
    BY <2>1
<1>. QED
  BY <1>3, <1>4, <1>5, <1>6, <1>7 DEF RowInv

\* What a request reads when it begins
LEMMA BeginRows ==
  ASSUME TypeInv, UniqueInv, RowInv, NEW r \in Requests,
         \/ \E n \in Files[r] : BeginUpload(r, n)
         \/ \E i \in Images : BeginDelete(r, i)
         \/ \E s \in Bijection(1 .. Cardinality(Rows), Rows) : BeginReorder(r, s)
         \/ BeginSet(r) \/ BeginRemove(r)
  PROVE  RowInv'
<1>1. Types /\ Stage(r) /\ Unique(place)
  BY DEF TypeInv, UniqueInv
<1>2. PICK k \in Kinds \ {"none"} :
        /\ Begin(r, k)
        /\ \/ k = "upload" /\ \E n \in Files[r] : BeginUpload(r, n)
           \/ k = "delete" /\ \E i \in Images : BeginDelete(r, i)
           \/ k = "reorder" /\ \E s \in Bijection(1 .. Cardinality(Rows), Rows) : BeginReorder(r, s)
           \/ k = "set" /\ BeginSet(r)
           \/ k = "remove" /\ BeginRemove(r)
  <2>1. {"upload", "delete", "reorder", "set", "remove"} \subseteq Kinds \ {"none"}
    BY DEF Kinds, OnListing
  <2>. QED
    BY <2>1 DEF BeginUpload, BeginDelete, BeginReorder, BeginSet, BeginRemove
<1>3. /\ pc[r] = "new" /\ kind[r] = "none" /\ kind'[r] = k /\ draft[r] = <<>>
      /\ \A q \in Requests \ {r} : kind'[q] = kind[q]
      /\ UNCHANGED <<place, image, avatar, objects, draft, refused, unanswered, strays>>
  BY <1>2, BeginTypes
<1>4. \A q \in Requests : old'[q] = old[q] \/ old'[q] = avatar
  BY <1>1, <1>2 DEF BeginUpload, BeginDelete, BeginReorder, BeginSet, BeginRemove, Types
<1>5. \A q \in Requests \ {r} : pc'[q] = pc[q] /\ todo'[q] = todo[q]
  BY <1>1, <1>2 DEF BeginUpload, BeginDelete, BeginReorder, BeginSet, BeginRemove, Types
<1>6. \A q \in Requests \ {r} : Named(q)' = Named(q) /\ (Over(q) => Over(q)')
  BY <1>3, <1>5 DEF Named, Over
<1>7. r \notin unanswered
  BY <1>3 DEF RowInv
<1>8. ASSUME k \in {"delete", "reorder"}, NEW i \in Named(r)' PROVE i \in Rows
  <2>1. \E x \in DOMAIN todo'[r] : i \in DOMAIN todo'[r][x]
    BY <1>3, <1>8, EmptyTable DEF Named
  <2>2. CASE k = "delete"
    <3>1. PICK j \in Images : BeginDelete(r, j)
      BY <1>2, <2>2
    <3>2. todo'[r] = <<Given(j, NoPlace)>> /\ j \in Rows
      BY <1>1, <3>1 DEF BeginDelete, Types
    <3>. QED
      BY <2>1, <3>2 DEF Given
  <2>3. CASE k = "reorder"
    <3>1. PICK s \in Bijection(1 .. Cardinality(Rows), Rows) : BeginReorder(r, s)
      BY <1>2, <2>3
    <3>2. todo'[r] = Renumber(s)
      BY <1>1, <3>1 DEF BeginReorder, Types
    <3>3. DOMAIN Renumber(s) = {1, 2} /\ \A x \in {1, 2} : DOMAIN Renumber(s)[x] = Rows
      BY <1>1, ReorderFacts
    <3>. QED
      BY <2>1, <3>2, <3>3
  <2>. QED
    BY <1>8, <2>2, <2>3
<1>9. \A i \in Rows : image[i] # "none" /\ Listed(i)
  BY DEF RowInv
<1>10. \A q \in Requests : kind'[q] \in {"delete", "reorder"} =>
         \A i \in Named(q)' : \/ kind[q] \in {"delete", "reorder"} /\ i \in Named(q)
                              \/ image[i] # "none" /\ Listed(i)
  BY <1>3, <1>6, <1>8, <1>9
<1>11. \A q \in unanswered' : pc'[q] \in {"clean", "failed"}
  BY <1>1, <1>3, <1>5, <1>7 DEF RowInv, Types
<1>. QED
  BY <1>3, <1>4, <1>6, <1>10, <1>11, RowsStand

Gives(r) == PutFails(r) \/ DatabaseFails(r) \/ Die(r) \/ \E i \in Images : Refuse(r, i)

\* The steps of a request between its first and its last
Works(r) == \/ PutObject(r) \/ Clean(r) \/ ReadRest(r)
            \/ \E i \in Images : Write(r, i)
            \/ Gives(r)

Starts(r) == \/ \E n \in Files[r] : BeginUpload(r, n)
             \/ \E i \in Images : BeginDelete(r, i)
             \/ \E s \in Bijection(1 .. Cardinality(Rows), Rows) : BeginReorder(r, s)
             \/ BeginSet(r) \/ BeginRemove(r)

\* Every step is a stutter, or the beginning, the work or the commit of one request.
LEMMA Steps ==
  [Next]_vars => \/ UNCHANGED vars
                 \/ \E r \in Requests : \/ Starts(r) \/ Works(r)
                                        \/ Commit(r) \/ CommitUnanswered(r)
  BY DEF Next, Starts, Works, Gives

\* A request that gives up drops its transaction, and leaves the tables and the others alone.
LEMMA GivesFacts ==
  ASSUME TypeInv, NEW r \in Requests, Gives(r)
  PROVE  /\ pc[r] \in Running
         /\ \/ pc'[r] = "clean" /\ pc[r] # "clean" /\ kind[r] \in {"upload", "set"}
            \/ pc'[r] = "failed"
         /\ draft'[r] = <<>> /\ todo'[r] = <<>>
         /\ \A q \in Requests \ {r} : pc'[q] = pc[q] /\ draft'[q] = draft[q] /\ todo'[q] = todo[q]
         /\ UNCHANGED <<place, image, avatar, keys, kind, old, wanted, overlapped, unanswered>>
<1>1. Types
  BY DEF TypeInv
<1>2. /\ pc[r] \in Running /\ RollBack(r)
      /\ \/ pc[r] # "clean" /\ pc' = [pc EXCEPT ![r] = IF kind[r] \in {"upload", "set"} THEN "clean" ELSE "failed"]
         \/ pc' = [pc EXCEPT ![r] = "failed"]
      /\ UNCHANGED <<place, image, avatar, keys, kind, old, wanted, overlapped, unanswered>>
  BY DEF Gives, PutFails, DatabaseFails, Die, Refuse, GiveUp, Running, reqVars, history
<1>. QED
  BY <1>1, <1>2 DEF RollBack, Types

\* A request at work changes nothing that is committed, and nothing of the others.
LEMMA WorksFacts ==
  ASSUME TypeInv, UniqueInv, NEW r \in Requests, Works(r)
  PROVE  /\ pc[r] \in Running
         /\ pc'[r] # "done" /\ (pc[r] = "clean" => pc'[r] = "failed")
         /\ \A q \in Requests \ {r} : pc'[q] = pc[q] /\ draft'[q] = draft[q] /\ todo'[q] = todo[q]
         /\ UNCHANGED <<place, image, avatar, kind, old, wanted, overlapped, unanswered>>
<1>1. Types /\ Unique(Seen(r))
  BY DEF TypeInv, UniqueInv
<1>2. CASE PutObject(r)
  BY <1>1, <1>2 DEF PutObject, Types, reqVars, history, Running
<1>3. CASE Clean(r)
  BY <1>1, <1>3 DEF Clean, Types, reqVars, history, Running
<1>4. CASE ReadRest(r)
  BY <1>1, <1>4 DEF ReadRest, Types, reqVars, history, Running
<1>5. CASE \E i \in Images : Write(r, i)
  <2>1. PICK i \in Images : Write(r, i)
    BY <1>5
  <2>2. /\ pc[r] = "write" /\ pc' = [pc EXCEPT ![r] = After(r, i)]
        /\ todo' = [todo EXCEPT ![r] = Without(r, i)]
        /\ UNCHANGED <<place, image, avatar, kind, old, wanted, overlapped, unanswered>>
    BY <2>1 DEF Write, reqVars, history
  <2>3. \A q \in Requests \ {r} : draft'[q] = draft[q]
    BY <2>1, WriteFacts
  <2>4. After(r, i) # "done"
    BY DEF After
  <2>. QED
    BY <1>1, <2>2, <2>3, <2>4 DEF Types, Running
<1>6. CASE Gives(r)
  BY <1>6, GivesFacts
<1>. QED
  BY <1>2, <1>3, <1>4, <1>5, <1>6 DEF Works

\* A request comes to name rows when it reads them only.
LEMMA WorksNamed ==
  ASSUME TypeInv, UniqueInv, NEW r \in Requests, Works(r)
  PROVE  \A i \in Named(r)' : i \in Named(r) \cup Rows
<1>1. Types /\ Stage(r) /\ Unique(Seen(r))
  BY DEF TypeInv, UniqueInv
<1>2. CASE PutObject(r)
  BY <1>2 DEF PutObject, Named
<1>3. CASE Clean(r)
  BY <1>3 DEF Clean, Named
<1>4. CASE ReadRest(r)
  <2>1. todo'[r] = Closing(r) /\ draft' = draft
    <3>1. todo' = [todo EXCEPT ![r] = Closing(r)]
      BY <1>1, <1>4, ReadRestFacts
    <3>. QED
      BY <1>1, <1>4, <3>1 DEF ReadRest, Types
  <2>2. \A k \in DOMAIN Closing(r) : DOMAIN Closing(r)[k] = {Moved(r)[k]} /\ Moved(r)[k] \in Astray(r)
    BY <1>1, <1>4, ReadRestFacts
  <2>3. Astray(r) \subseteq Rows \cup DOMAIN draft[r]
    BY <1>1, SeenRows DEF Astray, Left
  <2>. QED
    BY <2>1, <2>2, <2>3 DEF Named
<1>5. CASE \E i \in Images : Write(r, i)
  <2>1. PICK i \in Images : Write(r, i)
    BY <1>5
  <2>2. todo'[r] = Without(r, i)
    BY <1>1, <2>1 DEF Write, Types
  <2>3. /\ todo[r] # <<>> /\ Head(todo[r]) = todo[r][1] /\ 1 \in DOMAIN todo[r]
        /\ i \in DOMAIN todo[r][1]
        /\ DOMAIN draft'[r] \subseteq DOMAIN draft[r] \cup {i}
    BY <2>1, WriteFacts
  <2>4. \A k \in DOMAIN todo[r] : DOMAIN todo[r][k] # {}
    BY <1>1 DEF Stage
  <2>5. \A k \in DOMAIN Without(r, i) : \E l \in DOMAIN todo[r] : DOMAIN Without(r, i)[k] \subseteq DOMAIN todo[r][l]
    BY <1>1, <2>3, <2>4, WithoutFacts
  <2>. QED
    BY <2>2, <2>3, <2>5 DEF Named
<1>6. CASE Gives(r)
  BY <1>6, GivesFacts, EmptyTable DEF Named
<1>. QED
  BY <1>2, <1>3, <1>4, <1>5, <1>6 DEF Works

\* A request at work keeps rows live images, apart from the avatar.
LEMMA WorksRows ==
  ASSUME TypeInv, UniqueInv, RowInv, NEW r \in Requests, Works(r)
  PROVE  RowInv'
<1>1. /\ pc[r] \in Running /\ (pc[r] = "clean" => pc'[r] = "failed")
      /\ \A q \in Requests \ {r} : pc'[q] = pc[q] /\ draft'[q] = draft[q] /\ todo'[q] = todo[q]
      /\ UNCHANGED <<place, image, avatar, kind, old, wanted, overlapped, unanswered>>
  BY WorksFacts
<1>2. \A i \in Named(r)' : i \in Named(r) \/ (image[i] # "none" /\ Listed(i))
  <2>1. \A i \in Rows : image[i] # "none" /\ Listed(i)
    BY DEF RowInv
  <2>. QED
    BY <2>1, WorksNamed
<1>3. \A q \in Requests \ {r} : Named(q)' = Named(q)
  BY <1>1 DEF Named
<1>4. \A q \in unanswered' : pc'[q] \in {"clean", "failed"}
  BY <1>1 DEF RowInv, Running, TypeInv, Types
<1>5. \A q \in Requests : Over(q) => Over(q)'
  BY <1>1 DEF RowInv, Over, Running
<1>6. \A q \in Requests : kind'[q] \in {"delete", "reorder"} =>
        \A i \in Named(q)' : \/ kind[q] \in {"delete", "reorder"} /\ i \in Named(q)
                             \/ image[i] # "none" /\ Listed(i)
  BY <1>1, <1>2, <1>3
<1>. QED
  BY <1>1, <1>4, <1>5, <1>6, RowsStand

\* What a unit of work deletes was there; what it inserts is its own, and new.
LEMMA CommitFacts ==
  ASSUME TypeInv, UniqueInv, RowInv, NEW r \in Requests, Apply(r)
  PROVE  /\ pc[r] = "commit" /\ ~Over(r) /\ r \notin unanswered
         /\ \A i \in Images : image'[i] = IF i \in Gone(r) THEN "deleted"
                                          ELSE IF i \in Made(r) THEN "live" ELSE image[i]
         /\ \A i \in Gone(r) \cap Images : image[i] # "none"
         /\ Made(r) \subseteq Own(r) /\ \A i \in Made(r) : image[i] = "none"
         /\ kind[r] = "upload" => Gone(r) = {} /\ Made(r) = DOMAIN draft[r]
         /\ kind[r] \in {"delete", "reorder"} =>
              /\ Made(r) = {} /\ Gone(r) = {i \in DOMAIN draft[r] : draft[r][i] = NoPlace}
              /\ \A i \in DOMAIN draft[r] : image[i] # "none" /\ Listed(i)
         /\ kind[r] = "set" => Made(r) = {<<r, 1>>} /\ Gone(r) = {old[r]}
         /\ kind[r] = "remove" => Made(r) = {} /\ Gone(r) = {old[r]}
         /\ kind[r] \in {"upload", "delete", "reorder", "set", "remove"}
         /\ kind[r] \in {"set", "remove"} => DOMAIN draft[r] = {}
         /\ UNCHANGED <<objects, keys, kind, old, wanted, overlapped, refused, strays>>
<1>1. Types /\ Stage(r) /\ pc[r] = "commit"
  BY DEF TypeInv, Apply
<1>2. kind[r] \in {"upload", "delete", "reorder", "set", "remove"}
  BY <1>1 DEF Stage, Types, Kinds, OnListing
<1>3. r \notin unanswered /\ ~Over(r)
  BY <1>1 DEF RowInv, Over
<1>4. \A i \in Own(r) : image[i] = "none"
  BY <1>3 DEF RowInv
<1>5. \A i \in Images : image'[i] = IF i \in Gone(r) THEN "deleted"
                                    ELSE IF i \in Made(r) THEN "live" ELSE image[i]
  BY DEF Apply
<1>6. UNCHANGED <<objects, keys, kind, old, wanted, overlapped, refused, strays>>
  BY DEF Apply, reqVars
<1>7. kind[r] = "upload" =>
        Gone(r) = {} /\ Made(r) = DOMAIN draft[r] /\ DOMAIN draft[r] \subseteq Own(r)
  BY <1>1 DEF Gone, Made, Stage, OnListing, NoPlace
<1>8. kind[r] \in {"delete", "reorder"} =>
        /\ Made(r) = {} /\ Gone(r) = {i \in DOMAIN draft[r] : draft[r][i] = NoPlace}
        /\ \A i \in DOMAIN draft[r] : image[i] # "none" /\ Listed(i)
  BY DEF Gone, Made, OnListing, RowInv, Named
<1>9. /\ kind[r] = "set" => Made(r) = {<<r, 1>>} /\ Gone(r) = {old[r]}
      /\ kind[r] = "remove" => Made(r) = {} /\ Gone(r) = {old[r]}
  BY DEF Gone, Made, OnListing
<1>10. kind[r] \in {"set", "remove"} => DOMAIN draft[r] = {}
  BY <1>1, EmptyTable DEF Stage, OnListing
<1>11. old[r] \in Images => image[old[r]] # "none"
  BY ImagesAssumption DEF RowInv
<1>12. \A i \in Gone(r) \cap Images : image[i] # "none"
  BY <1>2, <1>7, <1>8, <1>9, <1>11
<1>13. Made(r) \subseteq Own(r) /\ \A i \in Made(r) : image[i] = "none"
  BY <1>2, <1>4, <1>7, <1>8, <1>9, OwnImages
<1>. QED
  BY <1>1, <1>2, <1>3, <1>5, <1>6, <1>7, <1>8, <1>9, <1>10, <1>12, <1>13

\* A commit, answered or not, keeps rows live images, apart from the avatar.
LEMMA ApplyRows ==
  ASSUME TypeInv, UniqueInv, RowInv, PresentInv, NEW r \in Requests, Apply(r),
         NEW p \in {"done", "clean", "failed"}, pc' = [pc EXCEPT ![r] = p],
         \/ unanswered' = unanswered /\ p = "done"
         \/ unanswered' = unanswered \cup {r} /\ p # "done"
  PROVE  RowInv'
<1>1. Types /\ Stage(r)
  BY DEF TypeInv
<1>2. /\ pc[r] = "commit" /\ ~Over(r) /\ r \notin unanswered
      /\ \A i \in Images : image'[i] = IF i \in Gone(r) THEN "deleted"
                                       ELSE IF i \in Made(r) THEN "live" ELSE image[i]
      /\ \A i \in Gone(r) \cap Images : image[i] # "none"
      /\ Made(r) \subseteq Own(r) /\ \A i \in Made(r) : image[i] = "none"
      /\ kind[r] \in {"upload", "delete", "reorder", "set", "remove"}
      /\ UNCHANGED <<objects, keys, kind, old, wanted, overlapped, refused, strays>>
  BY CommitFacts
<1>3. /\ kind[r] = "upload" => Gone(r) = {} /\ Made(r) = DOMAIN draft[r]
      /\ kind[r] \in {"delete", "reorder"} =>
           /\ Made(r) = {} /\ Gone(r) = {i \in DOMAIN draft[r] : draft[r][i] = NoPlace}
           /\ \A i \in DOMAIN draft[r] : image[i] # "none" /\ Listed(i)
      /\ kind[r] = "set" => Made(r) = {<<r, 1>>} /\ Gone(r) = {old[r]}
      /\ kind[r] = "remove" => Made(r) = {} /\ Gone(r) = {old[r]}
      /\ kind[r] \in {"set", "remove"} => DOMAIN draft[r] = {}
  BY CommitFacts
<1>4. /\ \A i \in DOMAIN draft[r] : place'[i] = draft[r][i]
      /\ \A i \in Images \ DOMAIN draft[r] : place'[i] = place[i]
      /\ draft'[r] = <<>> /\ todo'[r] = <<>> /\ DOMAIN draft'[r] = {}
      /\ \A q \in Requests \ {r} : draft'[q] = draft[q] /\ todo'[q] = todo[q]
  BY <1>1, ApplyFacts
<1>5. \A i : (Listed(i)' <=> Listed(i)) /\ (Worn(i)' <=> Worn(i))
  BY <1>2 DEF Listed, Worn, Own
<1>6. pc'[r] = p /\ \A q \in Requests \ {r} : pc'[q] = pc[q]
  BY <1>1 DEF Types
<1>7. \A i \in Images : image[i] # "none" => image'[i] # "none"
  BY <1>2
<1>8. ASSUME NEW i \in Rows' PROVE image'[i] = "live" /\ Listed(i)'
  <2>1. i \in Images /\ place'[i] # NoPlace
    BY DEF Rows
  <2>2. ASSUME i \in DOMAIN draft[r], kind[r] = "upload" PROVE image'[i] = "live" /\ Listed(i)
    <3>1. i \in Made(r) /\ i \in Own(r) /\ i \notin Gone(r)
      BY <1>2, <1>3, <2>2
    <3>. QED
      BY <1>2, <2>1, <2>2, <3>1 DEF Listed
  <2>3. ASSUME i \in DOMAIN draft[r], kind[r] \in {"delete", "reorder"} PROVE image'[i] = "live" /\ Listed(i)
    <3>1. image[i] # "none" /\ Listed(i) /\ i \notin Gone(r) /\ i \notin Made(r)
      BY <1>3, <1>4, <2>1, <2>3
    <3>2. place[i] # NoPlace
      BY <2>3, <3>1 DEF PresentInv
    <3>3. image[i] = "live"
      BY <2>1, <3>2 DEF RowInv, Rows
    <3>. QED
      BY <1>2, <2>1, <3>1, <3>3
  <2>4. ASSUME i \notin DOMAIN draft[r] PROVE image'[i] = "live" /\ Listed(i)
    <3>1. i \in Rows /\ image[i] = "live" /\ Listed(i)
      BY <1>4, <2>1, <2>4 DEF Rows, RowInv
    <3>2. i \notin Gone(r)
      <4>1. CASE kind[r] \in {"set", "remove"}
        <5>1. old[r] = i => Worn(i)
          BY <2>1, ImagesAssumption DEF RowInv
        <5>. QED
          BY <1>3, <3>1, <4>1, <5>1, ListedNotWorn
      <4>. QED
        BY <1>2, <1>3, <2>4, <4>1
    <3>. QED
      BY <1>2, <2>1, <3>1, <3>2
  <2>. QED
    BY <1>2, <1>3, <1>5, <2>2, <2>3, <2>4
<1>9. avatar' # NoImage => image'[avatar'] = "live" /\ Worn(avatar)'
  <2>1. avatar' = IF kind[r] = "set" THEN <<r, 1>> ELSE IF kind[r] = "remove" THEN NoImage ELSE avatar
    BY <1>2 DEF Apply
  <2>2. Worn(avatar)' <=> Worn(avatar')
    BY <1>2 DEF Worn
  <2>3. CASE kind[r] = "set"
    <3>1. <<r, 1>> \in Made(r) /\ <<r, 1>> \in Images /\ image[<<r, 1>>] = "none"
      BY <1>2, <1>3, <2>3, OwnImages
    <3>2. <<r, 1>> \notin Gone(r)
      BY <1>2, <3>1
    <3>3. Worn(<<r, 1>>)
      BY <2>3 DEF Worn
    <3>. QED
      BY <1>2, <2>1, <2>2, <2>3, <3>1, <3>2, <3>3
  <2>4. CASE kind[r] = "remove"
    BY <2>1, <2>4
  <2>5. CASE kind[r] \in {"upload", "delete", "reorder"}
    <3>1. avatar' = avatar
      BY <2>1, <2>5
    <3>2. ASSUME avatar # NoImage PROVE image'[avatar] = "live" /\ Worn(avatar)
      <4>1. image[avatar] = "live" /\ Worn(avatar) /\ avatar \in Images
        BY <1>1, <3>2 DEF RowInv, Types
      <4>2. avatar \notin Gone(r)
        BY <1>3, <2>5, <4>1, ListedNotWorn
      <4>. QED
        BY <1>2, <4>1, <4>2
    <3>. QED
      BY <2>2, <3>1, <3>2
  <2>. QED
    BY <1>2, <2>3, <2>4, <2>5
<1>10. \A q \in Requests : old'[q] # NoImage => image'[old'[q]] # "none" /\ Worn(old[q])'
  <2> SUFFICES ASSUME NEW q \in Requests, old'[q] # NoImage PROVE image'[old'[q]] # "none" /\ Worn(old[q])'
    OBVIOUS
  <2>1. image[old[q]] # "none" /\ Worn(old[q]) /\ old[q] \in Images /\ old'[q] = old[q]
    BY <1>1, <1>2 DEF RowInv, Types
  <2>. QED
    BY <1>2, <1>7, <2>1 DEF Worn
<1>11. ASSUME NEW q \in Requests, kind'[q] \in {"delete", "reorder"}, NEW i \in Named(q)'
       PROVE  image'[i] # "none" /\ Listed(i)'
  <2>1. q # r
    BY <1>4, EmptyTable, <1>11 DEF Named
  <2>2. i \in Named(q) /\ kind[q] \in {"delete", "reorder"}
    BY <1>2, <1>4, <1>11, <2>1 DEF Named
  <2>3. image[i] # "none" /\ Listed(i)
    BY <2>2 DEF RowInv
  <2>4. i \in Images
    <3>1. i \in Posted \/ \E o \in Requests : i \in Own(o)
      BY <2>3 DEF Listed
    <3>. QED
      BY <3>1, OwnImages DEF Images
  <2>. QED
    BY <1>5, <1>7, <2>3, <2>4
<1>12. ASSUME NEW q \in Requests, NEW i \in Own(q), image'[i] # "none"
       PROVE  kind'[q] \in {"upload", "set"} /\ Over(q)'
  <2>0. i \in Images
    BY OwnImages
  <2>1. CASE image[i] # "none"
    <3>1. kind[q] \in {"upload", "set"} /\ Over(q)
      BY <2>1 DEF RowInv
    <3>2. q # r
      BY <1>2, <3>1
    <3>. QED
      BY <1>2, <1>6, <3>1, <3>2 DEF Over
  <2>2. CASE image[i] = "none"
    <3>1. i \in Made(r) /\ i \in Own(r)
      BY <1>2, <1>12, <2>0, <2>2
    <3>2. q = r
      BY <3>1, OwnImages
    <3>3. kind[r] \in {"upload", "set"}
      BY <1>2, <1>3, <3>1
    <3>. QED
      BY <1>2, <1>6, <3>2, <3>3 DEF Over
  <2>. QED
    BY <2>1, <2>2
<1>13. \A q \in unanswered' : pc'[q] \in {"clean", "failed"}
  BY <1>1, <1>2, <1>6 DEF RowInv, Types
<1>14. \A q \in Requests : \A i \in Own(q)' : i \in Own(q)
  BY DEF Own
<1>. QED
  BY <1>8, <1>9, <1>10, <1>11, <1>12, <1>13, <1>14 DEF RowInv

\* Every step leaves a transaction writing to rows that are there, or that are its own.
LEMMA StepPresent == TypeInv /\ UniqueInv /\ RowInv /\ PresentInv /\ [Next]_vars => PresentInv'
<1> SUFFICES ASSUME TypeInv, UniqueInv, RowInv, PresentInv, [Next]_vars PROVE PresentInv'
  OBVIOUS
<1>a. Types
  BY DEF TypeInv
<1>1. ASSUME NEW r \in Requests, Apply(r) PROVE PresentInv'
  <2>1. /\ \A i \in Images : image'[i] = IF i \in Gone(r) THEN "deleted"
                                         ELSE IF i \in Made(r) THEN "live" ELSE image[i]
        /\ \A i \in Gone(r) \cap Images : image[i] # "none"
        /\ Made(r) \subseteq Own(r) /\ \A i \in Made(r) : image[i] = "none"
        /\ kind[r] \in {"upload", "delete", "reorder", "set", "remove"}
    BY <1>1, CommitFacts
  <2>2. /\ \A i \in Images \ DOMAIN draft[r] : place'[i] = place[i]
        /\ DOMAIN draft'[r] = {}
        /\ \A q \in Requests \ {r} : draft'[q] = draft[q]
    BY <1>a, <1>1, ApplyFacts
  <2>3. ASSUME NEW q \in Requests \ {r}, NEW i \in DOMAIN draft[q], image'[i] # "none"
        PROVE  place'[i] # NoPlace
    <3>1. i \in Images /\ i \notin DOMAIN draft[r]
      BY <1>a, SeenFacts DEF UniqueInv
    <3>2. i \notin Made(r)
      <4>1. CASE kind[q] = "upload"
        <5>1. i \in Own(q)
          BY <4>1 DEF TypeInv, Stage
        <5>. QED
          BY <2>1, <5>1, OwnImages
      <4>2. CASE kind[q] \in {"delete", "reorder"}
        BY <2>1, <4>2 DEF RowInv, Named
      <4>3. CASE kind[q] \notin OnListing
        <5>1. draft[q] = <<>>
          BY <4>3 DEF TypeInv, Stage
        <5>. QED
          BY <5>1, EmptyTable
      <4>. QED
        BY <4>1, <4>2, <4>3 DEF OnListing
    <3>3. image[i] # "none"
      BY <2>1, <2>3, <3>1, <3>2
    <3>. QED
      BY <2>2, <3>1, <3>3 DEF PresentInv
  <2>. QED
    BY <2>2, <2>3 DEF PresentInv
<1>2. ASSUME NEW r \in Requests, NEW i \in Images, Write(r, i) PROVE PresentInv'
  <2>1. /\ \A q \in Requests \ {r} : draft'[q] = draft[q]
        /\ place' = place /\ image' = image
        /\ \/ draft' = draft
           \/ DOMAIN draft'[r] = DOMAIN draft[r] \cup {i} /\ (image[i] = "none" \/ Seen(r)[i] # NoPlace)
    BY <1>2, WriteFacts
  <2>2. i \notin DOMAIN draft[r] => Seen(r)[i] = place[i]
    BY <1>a, SeenFacts
  <2>. QED
    BY <2>1, <2>2 DEF PresentInv
<1>3. CASE UNCHANGED <<place, draft>> /\ image' = image
  BY <1>3 DEF PresentInv
<1>4. ASSUME place' = place, image' = image, NEW r \in Requests, draft' = [draft EXCEPT ![r] = <<>>]
      PROVE  PresentInv'
  BY <1>a, <1>4, EmptyTable DEF PresentInv, Types
<1>5. image' = image \/ \E r \in Requests : Apply(r)
  <2>1. ASSUME NEW r \in Requests, NEW k, Begin(r, k) PROVE image' = image
    BY <2>1 DEF Begin
  <2>2. ASSUME NEW r \in Requests, Works(r) PROVE image' = image
    BY <2>2, WorksFacts
  <2>3. ASSUME NEW r \in Requests, Commit(r) \/ CommitUnanswered(r) PROVE Apply(r)
    BY <2>3 DEF Commit, CommitUnanswered
  <2>4. UNCHANGED vars => image' = image
    BY DEF vars
  <2>5. ASSUME NEW r \in Requests, Starts(r) PROVE image' = image
    BY <2>1, <2>5 DEF Starts, BeginUpload, BeginDelete, BeginReorder, BeginSet, BeginRemove
  <2>. QED
    BY <2>2, <2>3, <2>4, <2>5, Steps
<1>. QED
  BY <1>a, <1>1, <1>2, <1>3, <1>4, <1>5, Drafts

\* Every step keeps rows live images, apart from the avatar.
LEMMA StepRows == TypeInv /\ UniqueInv /\ RowInv /\ PresentInv /\ [Next]_vars => RowInv'
<1> SUFFICES ASSUME TypeInv, UniqueInv, RowInv, PresentInv, [Next]_vars PROVE RowInv'
  OBVIOUS
<1>a. Types
  BY DEF TypeInv
<1>1. ASSUME NEW r \in Requests, Starts(r) PROVE RowInv'
  BY <1>1, BeginRows DEF Starts
<1>2. ASSUME NEW r \in Requests, Works(r) PROVE RowInv'
  BY <1>2, WorksRows
<1>3. ASSUME NEW r \in Requests, Commit(r) PROVE RowInv'
  <2>1. Apply(r) /\ pc' = [pc EXCEPT ![r] = "done"] /\ unanswered' = unanswered
    BY <1>3 DEF Commit
  <2>. QED
    BY <2>1, ApplyRows
<1>4. ASSUME NEW r \in Requests, CommitUnanswered(r) PROVE RowInv'
  <2>1. /\ Apply(r) /\ unanswered' = unanswered \cup {r}
        /\ pc' = [pc EXCEPT ![r] = IF kind[r] \in {"upload", "set"} THEN "clean" ELSE "failed"]
    BY <1>4 DEF CommitUnanswered
  <2>. QED
    BY <2>1, ApplyRows
<1>5. CASE UNCHANGED vars
  <2>1. UNCHANGED <<place, image, avatar, kind, old, pc, draft, todo, unanswered>>
    BY <1>5 DEF vars, reqVars, history
  <2>. QED
    BY <2>1 DEF RowInv, Rows, Listed, Worn, Named, Own, Over
<1>. QED
  BY <1>1, <1>2, <1>3, <1>4, <1>5, Steps

-----------------------------------------------------------------------------
(* Objects                                                                 *)

\* An image of r has its object before it has its row, and keeps it.
Objects(r) ==
  /\ \A i \in Own(r) : image[i] = "live" => i \in objects \/ r \in unanswered
  /\ kind[r] = "upload" => DOMAIN draft[r] \subseteq objects
  /\ kind[r] = "upload" /\ pc[r] = "write" => DOMAIN todo[r][1] \subseteq objects
  /\ kind[r] = "set" /\ pc[r] = "commit" => <<r, 1>> \in objects

ObjectInv == Posted \subseteq objects /\ \A r \in Requests : Objects(r)

\* r knows the objects it has put, and inserts a row for each.
Orphans(r) ==
  /\ \A i \in Own(r) : i \in objects \ strays /\ image[i] = "none" => pc[r] \in Running /\ i \in keys[r]
  /\ kind[r] = "upload" /\ pc[r] \in {"put", "commit"} => keys[r] \subseteq DOMAIN draft[r]
  /\ kind[r] = "upload" /\ pc[r] = "write" => keys[r] \subseteq DOMAIN draft[r] \cup DOMAIN todo[r][1]
  /\ kind[r] = "set" => keys[r] = {<<r, 1>>}

OrphanInv == \A r \in Requests : Orphans(r)

StartFacts(r) ==
  /\ pc[r] = "new" /\ kind[r] = "none" /\ draft'[r] = <<>>
  /\ UNCHANGED <<place, image, avatar, objects, draft, refused, unanswered, strays>>
  /\ \A q \in Requests \ {r} :
       /\ pc'[q] = pc[q] /\ kind'[q] = kind[q] /\ todo'[q] = todo[q]
       /\ keys'[q] = keys[q] /\ wanted'[q] = wanted[q] /\ old'[q] = old[q]
  /\ \/ kind'[r] = "upload" /\ pc'[r] = "put" /\ keys'[r] = {}
     \/ kind'[r] \in {"delete", "reorder"} /\ pc'[r] = "write" /\ keys'[r] = {}
     \/ kind'[r] = "set" /\ pc'[r] = "put" /\ keys'[r] = {<<r, 1>>}
     \/ kind'[r] = "remove" /\ pc'[r] = "commit" /\ keys'[r] = {}

\* A request that begins leaves the tables, the objects and the others alone.
LEMMA StartsFacts == ASSUME TypeInv, NEW r \in Requests, Starts(r) PROVE StartFacts(r)
<1>1. Types
  BY DEF TypeInv
<1>2. ASSUME NEW k \in Kinds \ {"none"}, Begin(r, k)
      PROVE  /\ pc[r] = "new" /\ kind[r] = "none" /\ draft'[r] = <<>> /\ kind'[r] = k /\ keys[r] = {}
             /\ UNCHANGED <<place, image, avatar, objects, draft, refused, unanswered, strays>>
             /\ \A q \in Requests \ {r} : kind'[q] = kind[q]
  BY <1>2, BeginTypes
<1>3. {"upload", "delete", "reorder", "set", "remove"} \subseteq Kinds \ {"none"}
  BY DEF Kinds, OnListing
<1>4. CASE \E n \in Files[r] : BeginUpload(r, n)
  <2>1. /\ Begin(r, "upload") /\ pc' = [pc EXCEPT ![r] = "put"]
        /\ \E t : todo' = [todo EXCEPT ![r] = t]
        /\ UNCHANGED <<old, wanted, keys>>
    BY <1>4 DEF BeginUpload
  <2>. QED
    BY <1>1, <1>2, <1>3, <2>1 DEF StartFacts, Types
<1>5. CASE \E i \in Images : BeginDelete(r, i)
  <2>1. /\ Begin(r, "delete") /\ pc' = [pc EXCEPT ![r] = "write"]
        /\ \E t : todo' = [todo EXCEPT ![r] = t]
        /\ UNCHANGED <<old, wanted, keys>>
    BY <1>5 DEF BeginDelete
  <2>. QED
    BY <1>1, <1>2, <1>3, <2>1 DEF StartFacts, Types
<1>6. CASE \E s \in Bijection(1 .. Cardinality(Rows), Rows) : BeginReorder(r, s)
  <2>1. /\ Begin(r, "reorder") /\ pc' = [pc EXCEPT ![r] = "write"]
        /\ \E t : todo' = [todo EXCEPT ![r] = t]
        /\ \E s : wanted' = [wanted EXCEPT ![r] = s]
        /\ UNCHANGED <<old, keys>>
    BY <1>6 DEF BeginReorder
  <2>. QED
    BY <1>1, <1>2, <1>3, <2>1 DEF StartFacts, Types
<1>7. CASE BeginSet(r)
  <2>1. /\ Begin(r, "set") /\ pc' = [pc EXCEPT ![r] = "put"]
        /\ old' = [old EXCEPT ![r] = avatar]
        /\ keys' = [keys EXCEPT ![r] = {<<r, 1>>}]
        /\ UNCHANGED <<todo, wanted>>
    BY <1>7 DEF BeginSet
  <2>. QED
    BY <1>1, <1>2, <1>3, <2>1 DEF StartFacts, Types
<1>8. CASE BeginRemove(r)
  <2>1. /\ Begin(r, "remove") /\ pc' = [pc EXCEPT ![r] = "commit"]
        /\ old' = [old EXCEPT ![r] = avatar]
        /\ UNCHANGED <<todo, wanted, keys>>
    BY <1>8 DEF BeginRemove
  <2>. QED
    BY <1>1, <1>2, <1>3, <2>1 DEF StartFacts, Types
<1>. QED
  BY <1>4, <1>5, <1>6, <1>7, <1>8 DEF Starts

\* A request puts and deletes its own objects.
LEMMA OwnObjects ==
  ASSUME TypeInv, NEW r \in Requests, Starts(r) \/ Works(r) \/ Apply(r)
  PROVE  objects' \ Own(r) = objects \ Own(r) /\ strays' \ Own(r) = strays \ Own(r) /\ strays \subseteq strays'
<1>1. keys[r] \subseteq Own(r)
  BY DEF TypeInv, Stage
<1>2. pc[r] = "put" => NextFile(r) \in Own(r)
  BY NextFileFacts
<1>3. CASE Starts(r)
  BY <1>3, StartsFacts DEF StartFacts
<1>4. CASE Apply(r)
  BY <1>4 DEF Apply
<1>5. CASE PutObject(r)
  BY <1>2, <1>5 DEF PutObject, history
<1>6. CASE Clean(r)
  <2>1. PICK kept \in SUBSET (keys[r] \cap objects) :
          objects' = objects \ (keys[r] \ kept) /\ strays' = strays \cup kept
    BY <1>6 DEF Clean
  <2>. QED
    BY <1>1, <2>1
<1>7. CASE ReadRest(r) \/ DatabaseFails(r) \/ (\E i \in Images : Write(r, i)) \/ \E i \in Images : Refuse(r, i)
  BY <1>7 DEF ReadRest, DatabaseFails, Write, Refuse, history
<1>8. CASE PutFails(r)
  BY <1>2, <1>8 DEF PutFails
<1>9. CASE Die(r)
  <2>1. PICK more \in {{}} \cup (IF pc[r] = "put" THEN {{NextFile(r)}} ELSE {}) :
          objects' = objects \cup more /\ strays' = strays \cup more \cup (keys[r] \cap objects)
    BY <1>9 DEF Die
  <2>2. more \subseteq Own(r)
    BY <1>2
  <2>. QED
    BY <1>1, <2>1, <2>2
<1>. QED
  BY <1>3, <1>4, <1>5, <1>6, <1>7, <1>8, <1>9 DEF Works, Gives

Ends(r) == Commit(r) \/ CommitUnanswered(r)

\* A commit applies the transaction, and leaves the others alone.
LEMMA EndsFacts ==
  ASSUME TypeInv, NEW r \in Requests, Ends(r)
  PROVE  /\ Apply(r)
         /\ \/ pc'[r] = "done" /\ unanswered' = unanswered
            \/ pc'[r] \in {"clean", "failed"} /\ unanswered' = unanswered \cup {r}
         /\ \A q \in Requests \ {r} : pc'[q] = pc[q]
<1>1. Types
  BY DEF TypeInv
<1>. QED
  BY <1>1 DEF Ends, Commit, CommitUnanswered, Types

\* What a step of r leaves of another request
LEMMA Elsewhere ==
  ASSUME TypeInv, UniqueInv, RowInv, NEW r \in Requests, Starts(r) \/ Works(r) \/ Ends(r),
         NEW q \in Requests \ {r}
  PROVE  /\ pc'[q] = pc[q] /\ kind'[q] = kind[q] /\ todo'[q] = todo[q] /\ draft'[q] = draft[q]
         /\ keys'[q] = keys[q] /\ wanted'[q] = wanted[q] /\ unanswered \subseteq unanswered'
         /\ \A i \in Own(q) : image'[i] \in {"live", "none"} => image'[i] = image[i]
<1>1. Types
  BY DEF TypeInv
<1>2. CASE Starts(r)
  BY <1>2, StartsFacts DEF StartFacts
<1>3. CASE Works(r)
  <2>1. keys'[q] = keys[q]
    <3>1. CASE PutObject(r)
      BY <1>1, <3>1 DEF PutObject, Types
    <3>2. CASE ~PutObject(r)
      BY <1>3, <3>2 DEF Works, Gives, Clean, ReadRest, Write, PutFails, DatabaseFails, Die, Refuse, GiveUp
    <3>. QED
      BY <3>1, <3>2
  <2>. QED
    BY <1>3, <2>1, WorksFacts
<1>4. CASE Ends(r)
  <2>1. Apply(r) /\ pc'[q] = pc[q] /\ unanswered \subseteq unanswered'
    BY <1>4, EndsFacts
  <2>2. draft'[q] = draft[q] /\ todo'[q] = todo[q]
    BY <1>1, <2>1, ApplyFacts
  <2>3. /\ \A i \in Images : image'[i] = IF i \in Gone(r) THEN "deleted"
                                         ELSE IF i \in Made(r) THEN "live" ELSE image[i]
        /\ Made(r) \subseteq Own(r)
        /\ UNCHANGED <<keys, kind, wanted>>
    BY <2>1, CommitFacts
  <2>4. Own(q) \subseteq Images /\ Own(q) \cap Own(r) = {}
    BY OwnImages
  <2>. QED
    BY <2>1, <2>2, <2>3, <2>4
<1>. QED
  BY <1>2, <1>3, <1>4

\* A step of another request leaves what q has put with its object, and known to q.
LEMMA OthersObjects ==
  ASSUME TypeInv, UniqueInv, RowInv, NEW r \in Requests, Starts(r) \/ Works(r) \/ Ends(r),
         NEW q \in Requests \ {r}, Objects(q), Orphans(q)
  PROVE  Objects(q)' /\ Orphans(q)'
<1>1. /\ pc'[q] = pc[q] /\ kind'[q] = kind[q] /\ todo'[q] = todo[q] /\ draft'[q] = draft[q]
      /\ keys'[q] = keys[q] /\ unanswered \subseteq unanswered'
      /\ \A i \in Own(q) : image'[i] \in {"live", "none"} => image'[i] = image[i]
  BY Elsewhere
<1>2. objects' \ Own(r) = objects \ Own(r) /\ strays' \ Own(r) = strays \ Own(r)
  BY OwnObjects, EndsFacts
<1>3. Own(q) \cap Own(r) = {} /\ Own(q)' = Own(q) /\ <<q, 1>> \in Own(q)
  BY OwnImages DEF Own
<1>4. \A i \in Own(q) : (i \in objects' <=> i \in objects) /\ (i \in strays' <=> i \in strays)
  BY <1>2, <1>3
<1>5. kind[q] = "upload" => DOMAIN draft[q] \subseteq Own(q)
  BY DEF TypeInv, Stage
<1>6. kind[q] = "upload" /\ pc[q] = "write" => DOMAIN todo[q][1] \subseteq Own(q)
  <2> SUFFICES ASSUME kind[q] = "upload", pc[q] = "write" PROVE DOMAIN todo[q][1] \subseteq Own(q)
    OBVIOUS
  <2>1. todo[q] # <<>> /\ todo[q] \in Seq(Tables)
    BY DEF TypeInv, Types, Stage
  <2>2. 1 \in DOMAIN todo[q]
    BY <2>1
  <2>3. PICK i \in Own(q), p \in Nat : todo[q][1] = Given(i, p)
    BY <2>2 DEF TypeInv, Stage, Upload
  <2>. QED
    BY <2>3 DEF Given
<1>7. Objects(q)'
  BY <1>1, <1>3, <1>4, <1>5, <1>6 DEF Objects
<1>8. Orphans(q)'
  BY <1>1, <1>3, <1>4 DEF Orphans
<1>. QED
  BY <1>7, <1>8

\* The statement of an upload that is about to be written
LEMMA UploadFacts ==
  ASSUME TypeInv, NEW r \in Requests, NEW i \in Images, Write(r, i), kind[r] = "upload", image[i] = "none"
  PROVE  /\ DOMAIN todo[r][1] = {i} /\ i \in Own(r)
         /\ DOMAIN draft'[r] = DOMAIN draft[r] \cup {i} /\ pc'[r] \in {"put", "commit"}
<1>1. /\ todo[r] # <<>> /\ 1 \in DOMAIN todo[r] /\ i \in DOMAIN todo[r][1]
      /\ DOMAIN draft'[r] = DOMAIN draft[r] \cup {i}
  BY WriteFacts
<1>2. PICK j \in Own(r), p \in Nat : todo[r][1] = Given(j, p)
  BY <1>1 DEF TypeInv, Stage, Upload
<1>3. DOMAIN todo[r][1] = {j} /\ i = j
  BY <1>1, <1>2 DEF Given
<1>4. pc'[r] = After(r, i) /\ After(r, i) \in {"put", "commit"}
  BY DEF Write, After, TypeInv, Types
<1>. QED
  BY <1>1, <1>3, <1>4

\* A request that begins has put nothing.
LEMMA StartsObjects ==
  ASSUME TypeInv, RowInv, NEW r \in Requests, Starts(r), Objects(r), Orphans(r)
  PROVE  Objects(r)' /\ Orphans(r)'
<1>1. StartFacts(r)
  BY StartsFacts
<1>2. pc[r] \notin Running /\ DOMAIN draft'[r] = {}
  BY <1>1, EmptyTable DEF StartFacts, Running
<1>3. \A i \in Own(r) : image'[i] = "none" /\ i \notin objects' \ strays'
  <2>1. ~Over(r)
    BY <1>1 DEF StartFacts, Over
  <2>2. \A i \in Own(r) : image[i] = "none"
    BY <2>1 DEF RowInv
  <2>. QED
    BY <1>1, <1>2, <2>2 DEF StartFacts, Orphans
<1>4. Own(r)' = Own(r)
  BY DEF Own
<1>5. Objects(r)'
  BY <1>1, <1>2, <1>3, <1>4 DEF StartFacts, Objects
<1>6. Orphans(r)'
  BY <1>1, <1>2, <1>3, <1>4 DEF StartFacts, Orphans
<1>. QED
  BY <1>5, <1>6

\* A commit makes images live whose objects are there, and leaves none of its objects without.
LEMMA EndsObjects ==
  ASSUME TypeInv, UniqueInv, RowInv, NEW r \in Requests, Ends(r), Objects(r), Orphans(r)
  PROVE  Objects(r)' /\ Orphans(r)'
<1>1. Types /\ Stage(r) /\ Apply(r) /\ pc'[r] \in {"done", "clean", "failed"}
  BY EndsFacts DEF TypeInv
<1>2. /\ pc[r] = "commit"
      /\ \A i \in Images : image'[i] = IF i \in Gone(r) THEN "deleted"
                                       ELSE IF i \in Made(r) THEN "live" ELSE image[i]
      /\ Made(r) \subseteq Own(r)
      /\ kind[r] \in {"upload", "delete", "reorder", "set", "remove"}
      /\ UNCHANGED <<objects, keys, kind, old, wanted, overlapped, refused, strays>>
  BY <1>1, CommitFacts
<1>3. /\ kind[r] = "upload" => Made(r) = DOMAIN draft[r]
      /\ kind[r] \in {"delete", "reorder"} => Made(r) = {}
      /\ kind[r] = "set" => Made(r) = {<<r, 1>>}
      /\ kind[r] = "remove" => Made(r) = {}
  BY <1>1, CommitFacts
<1>4. \A i \in Own(r) : image[i] = "none" /\ i \in Images
  BY <1>2, OwnImages DEF RowInv, Over
<1>5. draft'[r] = <<>> /\ DOMAIN draft'[r] = {}
  BY <1>1, ApplyFacts
<1>6. Own(r)' = Own(r)
  BY DEF Own
<1>7. Made(r) \subseteq objects
  BY <1>2, <1>3 DEF Objects
<1>8. \A i \in Own(r) : image'[i] = "live" => i \in objects'
  BY <1>2, <1>4, <1>7
<1>9. keys[r] \subseteq Made(r)
  BY <1>1, <1>2, <1>3 DEF Orphans, Stage
<1>10. \A i \in Own(r) : ~(i \in objects' \ strays' /\ image'[i] = "none")
  BY <1>2, <1>4, <1>9 DEF Orphans
<1>11. Objects(r)'
  BY <1>1, <1>5, <1>6, <1>8 DEF Objects
<1>12. Orphans(r)'
  BY <1>1, <1>2, <1>6, <1>10 DEF Orphans
<1>. QED
  BY <1>11, <1>12

\* An object that is put is known to its request.
LEMMA PutObjects ==
  ASSUME TypeInv, RowInv, NEW r \in Requests, PutObject(r), Objects(r), Orphans(r)
  PROVE  Objects(r)' /\ Orphans(r)'
<1>1. Types /\ Stage(r) /\ Own(r)' = Own(r)
  BY DEF TypeInv, Own
<1>2. /\ NextFile(r) \in Own(r)
      /\ kind[r] = "upload" => DOMAIN todo[r][1] = {NextFile(r)}
      /\ kind[r] # "upload" => kind[r] = "set" /\ NextFile(r) = <<r, 1>>
  BY NextFileFacts DEF PutObject
<1>3. /\ pc[r] = "put" /\ objects' = objects \cup {NextFile(r)}
      /\ keys'[r] = keys[r] \cup {NextFile(r)}
      /\ pc'[r] = IF kind[r] = "upload" THEN "write" ELSE "commit"
      /\ UNCHANGED <<place, image, avatar, todo, draft, kind, unanswered, strays>>
  BY <1>1 DEF PutObject, Types, reqVars, history
<1>4. \A i \in Own(r) : image[i] = "none"
  BY <1>3 DEF RowInv, Over
<1>5. Objects(r)'
  BY <1>1, <1>2, <1>3, <1>4 DEF Objects
<1>6. \A i \in Own(r) : i \in objects' \ strays' => i \in keys'[r]
  BY <1>3, <1>4 DEF Orphans
<1>7. pc'[r] \in Running
  BY <1>3 DEF Running
<1>8. keys[r] = {<<r, 1>>} /\ kind[r] = "set" => keys'[r] = {<<r, 1>>}
  BY <1>2, <1>3
<1>9. kind[r] = "upload" => keys'[r] \subseteq DOMAIN draft[r] \cup DOMAIN todo[r][1]
  BY <1>2, <1>3 DEF Orphans
<1>10. Orphans(r)'
  BY <1>1, <1>3, <1>6, <1>7, <1>8, <1>9 DEF Orphans
<1>. QED
  BY <1>5, <1>10

\* Cleaning up takes no object from a live image, unless its commit went unanswered.
LEMMA CleanObjects ==
  ASSUME TypeInv, RowInv, NEW r \in Requests, Clean(r), Objects(r), Orphans(r)
  PROVE  Objects(r)' /\ Orphans(r)'
<1>1. Types /\ Stage(r) /\ Own(r)' = Own(r)
  BY DEF TypeInv, Own
<1>2. PICK kept \in SUBSET (keys[r] \cap objects) :
        objects' = objects \ (keys[r] \ kept) /\ strays' = strays \cup kept
  BY DEF Clean
<1>3. /\ pc[r] = "clean" /\ pc'[r] = "failed" /\ kind[r] \in {"upload", "set"}
      /\ UNCHANGED <<place, image, avatar, todo, draft, keys, kind, unanswered>>
  BY <1>1 DEF Clean, Types, Stage, reqVars
<1>4. DOMAIN draft[r] = {}
  BY <1>1, <1>3, EmptyTable DEF Stage
<1>5. \A i \in Own(r) : image[i] # "none" => r \in unanswered
  BY <1>3 DEF RowInv, Over
<1>6. Objects(r)'
  BY <1>1, <1>3, <1>4, <1>5 DEF Objects
<1>7. \A i \in Own(r) : ~(i \in objects' \ strays' /\ image'[i] = "none")
  BY <1>2, <1>3 DEF Orphans
<1>8. Orphans(r)'
  BY <1>1, <1>3, <1>7 DEF Orphans
<1>. QED
  BY <1>6, <1>8

\* A request that gives up still knows its objects, or leaves them as strays.
LEMMA GivesObjects ==
  ASSUME TypeInv, NEW r \in Requests, Gives(r), Objects(r), Orphans(r)
  PROVE  Objects(r)' /\ Orphans(r)'
<1>1. Types /\ Stage(r) /\ Own(r)' = Own(r)
  BY DEF TypeInv, Own
<1>2. /\ \/ pc'[r] = "clean" /\ kind[r] \in {"upload", "set"}
         \/ pc'[r] = "failed"
      /\ draft'[r] = <<>> /\ DOMAIN draft'[r] = {}
      /\ UNCHANGED <<image, keys, kind, unanswered>>
  BY GivesFacts, EmptyTable
<1>3. keys[r] \subseteq Own(r) /\ (kind[r] \notin {"upload", "set"} => keys[r] = {})
  BY <1>1 DEF Stage
<1>4. CASE PutFails(r)
  <2>1. /\ pc'[r] = IF kind[r] \in {"upload", "set"} THEN "clean" ELSE "failed"
        /\ \/ UNCHANGED <<objects, strays>>
           \/ objects' = objects \cup {NextFile(r)} /\ strays' = strays \cup ({NextFile(r)} \ keys[r])
    BY <1>1, <1>4 DEF PutFails, GiveUp, Types
  <2>2. \A i \in Own(r) : i \in objects' \ strays' /\ image[i] = "none" => i \in keys[r]
    BY <2>1 DEF Orphans
  <2>3. \A i \in Own(r) : i \in objects' \ strays' /\ image[i] = "none" => pc'[r] = "clean"
    BY <1>3, <2>1, <2>2
  <2>. QED
    BY <1>1, <1>2, <2>1, <2>2, <2>3 DEF Objects, Orphans, Running
<1>5. CASE DatabaseFails(r) \/ \E i \in Images : Refuse(r, i)
  <2>1. /\ pc'[r] = IF kind[r] \in {"upload", "set"} THEN "clean" ELSE "failed"
        /\ UNCHANGED <<objects, strays>>
    BY <1>1, <1>5 DEF DatabaseFails, Refuse, GiveUp, Types, history
  <2>2. \A i \in Own(r) : i \in objects' \ strays' /\ image[i] = "none" => i \in keys[r] /\ pc'[r] = "clean"
    BY <1>3, <2>1 DEF Orphans
  <2>. QED
    BY <1>1, <1>2, <2>1, <2>2 DEF Objects, Orphans, Running
<1>6. CASE Die(r)
  <2>1. PICK more : objects' = objects \cup more /\ strays' = strays \cup more \cup (keys[r] \cap objects)
    BY <1>6 DEF Die
  <2>2. \A i \in Own(r) : ~(i \in objects' \ strays' /\ image[i] = "none")
    BY <2>1 DEF Orphans
  <2>3. pc'[r] = "failed"
    BY <1>1, <1>6 DEF Die, Types
  <2>. QED
    BY <1>1, <1>2, <2>1, <2>2, <2>3 DEF Objects, Orphans
<1>. QED
  BY <1>4, <1>5, <1>6 DEF Gives

\* A request at work keeps the objects of its images, and knows those it has put.
LEMMA WorksObjects ==
  ASSUME TypeInv, RowInv, NEW r \in Requests, Works(r), Objects(r), Orphans(r)
  PROVE  Objects(r)' /\ Orphans(r)'
<1>1. Types /\ Stage(r) /\ Own(r)' = Own(r)
  BY DEF TypeInv, Own
<1>2. CASE ReadRest(r)
  <2>1. /\ kind[r] = "delete" /\ pc'[r] \in {"commit", "write"} /\ pc[r] \in Running
        /\ UNCHANGED <<image, objects, keys, kind, unanswered, strays>>
    BY <1>1, <1>2 DEF ReadRest, Stage, Types, reqVars, history, Running
  <2>. QED
    BY <1>1, <2>1 DEF Objects, Orphans, Running
<1>3. ASSUME NEW i \in Images, Write(r, i) PROVE Objects(r)' /\ Orphans(r)'
  <2>1. /\ pc[r] = "write" /\ pc'[r] = After(r, i) /\ kind[r] \in OnListing
        /\ UNCHANGED <<image, objects, keys, kind, unanswered, strays>>
    BY <1>1, <1>3 DEF Write, Stage, Types, reqVars, history
  <2>2. After(r, i) \in Running
    BY DEF After, Running
  <2>3. CASE kind[r] = "upload"
    <3>1. i \in Own(r)
      <4>1. i \in DOMAIN todo[r][1] /\ 1 \in DOMAIN todo[r]
        BY <1>3, WriteFacts
      <4>2. PICK j \in Own(r), p \in Nat : todo[r][1] = Given(j, p)
        BY <1>1, <2>3, <4>1 DEF Stage, Upload
      <4>. QED
        BY <4>1, <4>2 DEF Given
    <3>2. image[i] = "none"
      BY <2>1, <3>1 DEF RowInv, Over
    <3>3. /\ DOMAIN todo[r][1] = {i}
          /\ DOMAIN draft'[r] = DOMAIN draft[r] \cup {i} /\ pc'[r] \in {"put", "commit"}
      BY <1>3, <2>3, <3>2, UploadFacts
    <3>4. Objects(r)'
      BY <1>1, <2>1, <2>3, <3>3 DEF Objects
    <3>5. Orphans(r)'
      BY <1>1, <2>1, <2>2, <2>3, <3>3 DEF Orphans
    <3>. QED
      BY <3>4, <3>5
  <2>4. CASE kind[r] # "upload"
    BY <1>1, <2>1, <2>2, <2>4 DEF Objects, Orphans, OnListing
  <2>. QED
    BY <2>3, <2>4
<1>. QED
  BY <1>2, <1>3, PutObjects, CleanObjects, GivesObjects DEF Works

\* Every step keeps an object for each live image, and each object known or with an image.
LEMMA StepObjects ==
  TypeInv /\ UniqueInv /\ RowInv /\ ObjectInv /\ OrphanInv /\ [Next]_vars => ObjectInv' /\ OrphanInv'
<1> SUFFICES ASSUME TypeInv, UniqueInv, RowInv, ObjectInv, OrphanInv, [Next]_vars
             PROVE  ObjectInv' /\ OrphanInv'
  OBVIOUS
<1>1. ASSUME NEW r \in Requests, Starts(r) \/ Works(r) \/ Ends(r) PROVE ObjectInv' /\ OrphanInv'
  <2>1. Objects(r)' /\ Orphans(r)'
    BY <1>1, StartsObjects, WorksObjects, EndsObjects DEF ObjectInv, OrphanInv
  <2>2. \A q \in Requests \ {r} : Objects(q)' /\ Orphans(q)'
    BY <1>1, OthersObjects DEF ObjectInv, OrphanInv
  <2>3. Posted \subseteq objects'
    <3>1. objects' \ Own(r) = objects \ Own(r) /\ Own(r) \cap Posted = {}
      BY <1>1, OwnObjects, OwnImages, EndsFacts
    <3>. QED
      BY <3>1 DEF ObjectInv
  <2>. QED
    BY <2>1, <2>2, <2>3 DEF ObjectInv, OrphanInv
<1>2. CASE UNCHANGED vars
  <2>1. UNCHANGED <<image, objects, kind, pc, draft, todo, keys, unanswered, strays>>
    BY <1>2 DEF vars, reqVars, history
  <2>2. ASSUME NEW r \in Requests PROVE Objects(r)' /\ Orphans(r)'
    BY <2>1 DEF ObjectInv, OrphanInv, Objects, Orphans, Own
  <2>. QED
    BY <2>1, <2>2 DEF ObjectInv, OrphanInv
<1>. QED
  BY <1>1, <1>2, Steps DEF Ends

-----------------------------------------------------------------------------
(* Reorderings                                                             *)

\* The place p that r asks for i is still to be written, is written, or i is gone.
Granted(r, i, p) ==
  \/ Len(todo[r]) = 2 /\ i \in DOMAIN todo[r][2] /\ todo[r][2][i] = p
  \/ Len(todo[r]) = 1 /\ i \in DOMAIN todo[r][1] /\ todo[r][1][i] = p
  \/ /\ Len(todo[r]) = 0 \/ (Len(todo[r]) = 1 /\ i \notin DOMAIN todo[r][1])
     /\ i \in DOMAIN draft[r] /\ draft[r][i] = p
  \/ Len(todo[r]) \in {0, 1} /\ i \notin DOMAIN draft[r] /\ place[i] = NoPlace /\ image[i] # "none"

Ordered(r) ==
  kind[r] = "reorder" /\ pc[r] \in {"write", "commit"} =>
    \A k \in DOMAIN wanted[r] : wanted[r][k] \in Images /\ Granted(r, wanted[r][k], k - 1)

ReorderInv == \A r \in Requests : Ordered(r)

\* An image that is gone stays gone.
LEMMA GoneStays ==
  ASSUME TypeInv, UniqueInv, RowInv, PresentInv, NEW r \in Requests, Starts(r) \/ Works(r) \/ Ends(r),
         NEW i \in Images, place[i] = NoPlace, image[i] # "none"
  PROVE  place'[i] = NoPlace /\ image'[i] # "none"
<1>1. Types
  BY DEF TypeInv
<1>2. CASE Starts(r)
  BY <1>2, StartsFacts DEF StartFacts
<1>3. CASE Works(r)
  BY <1>3, WorksFacts
<1>4. CASE Ends(r)
  <2>1. Apply(r)
    BY <1>4, EndsFacts
  <2>2. i \notin DOMAIN draft[r]
    BY DEF PresentInv
  <2>3. place'[i] = place[i]
    BY <1>1, <2>1, <2>2, ApplyFacts
  <2>4. image'[i] = IF i \in Gone(r) THEN "deleted" ELSE IF i \in Made(r) THEN "live" ELSE image[i]
    BY <2>1, CommitFacts
  <2>. QED
    BY <2>3, <2>4
<1>. QED
  BY <1>2, <1>3, <1>4

\* A step of another request takes nothing from what a reordering has asked for, but what is deleted.
LEMMA OthersOrdered ==
  ASSUME TypeInv, UniqueInv, RowInv, PresentInv, NEW r \in Requests, Starts(r) \/ Works(r) \/ Ends(r),
         NEW q \in Requests \ {r}, Ordered(q)
  PROVE  Ordered(q)'
<1>1. /\ pc'[q] = pc[q] /\ kind'[q] = kind[q] /\ todo'[q] = todo[q] /\ draft'[q] = draft[q]
      /\ wanted'[q] = wanted[q]
  BY Elsewhere
<1>2. \A i \in Images : place[i] = NoPlace /\ image[i] # "none" => place'[i] = NoPlace /\ image'[i] # "none"
  BY GoneStays
<1>. QED
  BY <1>1, <1>2 DEF Ordered, Granted

\* A reordering begins with each place it asks for still to be written.
LEMMA StartsOrdered ==
  ASSUME TypeInv, UniqueInv, NEW r \in Requests, Starts(r)
  PROVE  Ordered(r)'
<1> SUFFICES ASSUME kind'[r] = "reorder" PROVE Ordered(r)'
  BY DEF Ordered
<1>1. Types /\ Unique(place)
  BY DEF TypeInv, UniqueInv
<1>2. PICK s \in Bijection(1 .. Cardinality(Rows), Rows) : BeginReorder(r, s)
  BY <1>1 DEF Starts, BeginUpload, BeginDelete, BeginSet, BeginRemove, Begin, Types
<1>3. todo'[r] = Renumber(s) /\ wanted'[r] = s
  BY <1>1, <1>2 DEF BeginReorder, Types
<1>4. /\ s \in [1 .. Cardinality(Rows) -> Rows]
      /\ Len(Renumber(s)) = 2 /\ DOMAIN Renumber(s)[2] = Rows
      /\ \A k \in 1 .. Cardinality(Rows) : Renumber(s)[2][s[k]] = k - 1
  BY <1>1, ReorderFacts
<1>. QED
  BY <1>3, <1>4 DEF Ordered, Granted, Rows

\* A place that is asked for is still granted when the reordering has written a row.
LEMMA WriteGranted ==
  ASSUME TypeInv, RowInv, PresentInv, NEW r \in Requests, NEW i \in Images, Write(r, i),
         kind[r] = "reorder", NEW w \in Images, NEW n, Granted(r, w, n)
  PROVE  Granted(r, w, n)'
<1> DEFINE s == todo[r]
           t == Without(r, i)
<1>1. Types /\ Stage(r) /\ pc[r] = "write"
  BY DEF TypeInv, Write
<1>3. /\ s # <<>> /\ Head(s) = s[1] /\ 1 \in DOMAIN s /\ i \in DOMAIN s[1] /\ s[1][i] \in Places
      /\ \/ draft' = draft /\ image[i] # "none" /\ Seen(r)[i] = NoPlace
         \/ /\ DOMAIN draft'[r] = DOMAIN draft[r] \cup {i}
            /\ draft'[r][i] = s[1][i]
            /\ \A j \in DOMAIN draft[r] \ {i} : draft'[r][j] = draft[r][j]
            /\ image[i] = "none" \/ Seen(r)[i] # NoPlace
      /\ place' = place /\ image' = image
  BY WriteFacts
<1>4. \A x \in DOMAIN s : DOMAIN s[x] # {}
  BY <1>1 DEF Stage
<1>5. Shorter(s, t, i) /\ t \in Seq(Tables)
  BY <1>1, <1>3, <1>4, WithoutFacts
<1>6. todo'[r] = t
  BY <1>1 DEF Write, Types
<1>7. s \in Seq(Tables) /\ Len(s) \in Nat /\ Len(t) \in Nat /\ DOMAIN s = 1 .. Len(s) /\ DOMAIN t = 1 .. Len(t)
  BY <1>1, <1>5 DEF Types
<1>8. \A j \in DOMAIN draft[r] : Seen(r)[j] = draft[r][j] /\ draft[r][j] # NoPlace
  BY <1>1, SeenFacts DEF Stage, NoPlace
<1>9. i \notin DOMAIN draft[r] => Seen(r)[i] = place[i]
  BY <1>1, SeenFacts
<1> HIDE DEF s, t
<1>10. CASE Len(s) = 2 /\ w \in DOMAIN s[2] /\ s[2][w] = n
  <2>1. (Len(t) = 2 /\ t[2] = s[2]) \/ (Len(t) = 1 /\ t[1] = s[2])
    BY <1>5, <1>7, <1>10 DEF Shorter
  <2>. QED
    BY <1>6, <1>10, <2>1 DEF Granted
<1>11. CASE Len(s) = 1 /\ w \in DOMAIN s[1] /\ s[1][w] = n
  <2>1. CASE w # i
    <3>1. Len(t) = 1 /\ w \in DOMAIN t[1] /\ t[1][w] = n
      BY <1>5, <1>11, <2>1 DEF Shorter
    <3>. QED
      BY <1>6, <3>1 DEF Granted
  <2>2. CASE w = i
    <3>1. Len(t) = 0 \/ (Len(t) = 1 /\ w \notin DOMAIN t[1])
      BY <1>5, <1>11, <2>2 DEF Shorter
    <3>2. CASE draft' = draft /\ image[i] # "none" /\ Seen(r)[i] = NoPlace
      <4>1. i \notin DOMAIN draft[r] /\ place[i] = NoPlace
        BY <1>8, <1>9, <3>2
      <4>. QED
        BY <1>3, <1>6, <2>2, <3>1, <3>2, <4>1 DEF Granted
    <3>3. CASE DOMAIN draft'[r] = DOMAIN draft[r] \cup {i} /\ draft'[r][i] = s[1][i]
      BY <1>6, <1>11, <2>2, <3>1, <3>3 DEF Granted
    <3>. QED
      BY <1>3, <3>2, <3>3
  <2>. QED
    BY <2>1, <2>2
<1>12. CASE Len(s) = 1 /\ w \notin DOMAIN s[1]
  <2>1. Len(t) = 0 \/ (Len(t) = 1 /\ w \notin DOMAIN t[1])
    BY <1>5, <1>12 DEF Shorter
  <2>2. i # w
    BY <1>3, <1>12
  <2>3. \/ w \in DOMAIN draft[r] /\ draft[r][w] = n
        \/ w \notin DOMAIN draft[r] /\ place[w] = NoPlace /\ image[w] # "none"
    BY <1>12 DEF Granted, s
  <2>4. \/ w \in DOMAIN draft'[r] /\ draft'[r][w] = n
        \/ w \notin DOMAIN draft'[r] /\ place'[w] = NoPlace /\ image'[w] # "none"
    BY <1>3, <2>2, <2>3
  <2>. QED
    BY <1>6, <2>1, <2>4 DEF Granted
<1>14. CASE Len(s) = 1 /\ w \notin DOMAIN draft[r] /\ place[w] = NoPlace /\ image[w] # "none"
  <2>1. Len(t) \in {0, 1}
    BY <1>5, <1>14 DEF Shorter
  <2>2. w \notin DOMAIN draft'[r]
    BY <1>3, <1>9, <1>14
  <2>. QED
    BY <1>3, <1>6, <1>14, <2>1, <2>2 DEF Granted
<1>13. CASE Len(s) = 0
  BY <1>3, <1>7, <1>13
<1>. QED
  <2>1. CASE Len(s) = 1
    BY <1>11, <1>12, <1>14, <2>1 DEF Granted, s
  <2>2. CASE Len(s) # 1 /\ Len(s) # 0
    BY <1>10, <2>2 DEF Granted, s
  <2>. QED
    BY <1>13, <2>1, <2>2

\* A row that is written keeps the places its reordering asks for.
LEMMA WriteOrdered ==
  ASSUME TypeInv, RowInv, PresentInv, NEW r \in Requests, NEW i \in Images, Write(r, i), Ordered(r)
  PROVE  Ordered(r)'
<1>1. pc[r] = "write" /\ kind' = kind /\ wanted' = wanted
  BY DEF Write, reqVars
<1> SUFFICES ASSUME kind[r] = "reorder", NEW k \in DOMAIN wanted[r]
             PROVE  wanted'[r][k] \in Images /\ Granted(r, wanted[r][k], k - 1)'
  BY <1>1 DEF Ordered
<1>2. PICK w \in Images : w = wanted[r][k] /\ Granted(r, w, k - 1)
  BY <1>1 DEF Ordered
<1>3. Granted(r, w, k - 1)'
  BY <1>2, WriteGranted
<1>. QED
  BY <1>1, <1>2, <1>3 DEF Granted

\* Every step leaves each reordering with the places it asks for, less the rows that are gone.
LEMMA StepOrdered ==
  TypeInv /\ UniqueInv /\ RowInv /\ PresentInv /\ ReorderInv /\ [Next]_vars => ReorderInv'
<1> SUFFICES ASSUME TypeInv, UniqueInv, RowInv, PresentInv, ReorderInv, [Next]_vars PROVE ReorderInv'
  OBVIOUS
<1>1. ASSUME NEW r \in Requests, Works(r) PROVE Ordered(r)'
  <2>1. Types /\ Stage(r) /\ Ordered(r)
    BY DEF TypeInv, ReorderInv
  <2>2. CASE PutObject(r)
    <3>1. kind'[r] \in {"upload", "set"}
      BY <2>1, <2>2 DEF PutObject, Stage, reqVars
    <3>. QED
      BY <3>1 DEF Ordered
  <2>3. CASE Clean(r)
    BY <2>1, <2>3 DEF Clean, Types, Ordered
  <2>4. CASE ReadRest(r)
    <3>1. kind'[r] = "delete"
      BY <2>1, <2>4 DEF ReadRest, Stage, reqVars
    <3>. QED
      BY <3>1 DEF Ordered
  <2>5. CASE Gives(r)
    <3>1. pc'[r] \in {"clean", "failed"}
      BY <2>5, GivesFacts
    <3>. QED
      BY <3>1 DEF Ordered
  <2>. QED
    BY <1>1, <2>1, <2>2, <2>3, <2>4, <2>5, WriteOrdered DEF Works
<1>2. ASSUME NEW r \in Requests, Starts(r) \/ Works(r) \/ Ends(r) PROVE ReorderInv'
  <2>1. Ends(r) => Ordered(r)'
    <3>1. Ends(r) => pc'[r] \in {"done", "clean", "failed"}
      BY EndsFacts
    <3>. QED
      BY <3>1 DEF Ordered
  <2>2. Ordered(r)'
    BY <1>1, <1>2, <2>1, StartsOrdered
  <2>3. \A q \in Requests \ {r} : Ordered(q)'
    BY <1>2, OthersOrdered DEF ReorderInv
  <2>. QED
    BY <2>2, <2>3 DEF ReorderInv
<1>3. CASE UNCHANGED vars
  BY <1>3 DEF vars, reqVars, ReorderInv, Ordered, Granted
<1>. QED
  BY <1>2, <1>3, Steps DEF Ends

-----------------------------------------------------------------------------
(* Places without gaps                                                     *)

\* The rows of an order f, and where each of them is to be
Standing(f) == {i \in Images : f[i] # NoPlace}

Spot(f, i) == Rank(Standing(f), f, i)

Order(f) == f \in [Images -> Places] /\ Unique(f) /\ IsFiniteSet(Standing(f))

\* The rows of an order are images, finitely many, at natural numbers of their own.
LEMMA StandingFacts ==
  ASSUME NEW f, Order(f)
  PROVE  /\ Distinct(Standing(f), f) /\ Cardinality(Standing(f)) \in Nat
         /\ \A i \in Standing(f) : i \in Images /\ f[i] \in Nat
<1>1. \A i \in Standing(f) : i \in Images /\ f[i] \in Nat /\ f[i] # NoPlace
  BY DEF Order, Standing, Places
<1>2. Distinct(Standing(f), f)
  BY <1>1 DEF Distinct, Order, Unique
<1>. QED
  BY <1>1, <1>2, FS_CardinalityType DEF Order

\* No element is below its rank.
LEMMA RankBelow ==
  ASSUME NEW S, IsFiniteSet(S), NEW f, Distinct(S, f), NEW i \in S, \A j \in S : f[j] \in Nat
  PROVE  Rank(S, f, i) <= f[i]
<1> DEFINE B == {j \in S : f[j] < f[i]}
           T == 0 .. f[i] - 1
           g == [j \in B |-> f[j]]
<1>1. g \in Injection(B, T)
  BY DEF Injection, IsInjective, Distinct
<1>2. IsFiniteSet(T) /\ Cardinality(T) = f[i]
  <2>1. f[i] \in Nat /\ f[i] - 1 \in Int /\ 0 \in Int
    OBVIOUS
  <2>2. IsFiniteSet(T) /\ Cardinality(T) = IF 0 > f[i] - 1 THEN 0 ELSE (f[i] - 1) - 0 + 1
    BY <2>1, FS_Interval
  <2>. QED
    BY <2>1, <2>2
<1>3. Cardinality(B) <= Cardinality(T)
  <2> HIDE DEF B, T, g
  <2>. QED
    BY <1>1, <1>2, FS_Injection
<1>. QED
  BY <1>2, <1>3 DEF Rank

\* Ranks depend on the order only.
LEMMA SameRank ==
  ASSUME NEW S, NEW f, NEW g, \A i, j \in S : f[i] < f[j] <=> g[i] < g[j]
  PROVE  \A i \in S : Rank(S, f, i) = Rank(S, g, i)
<1> SUFFICES ASSUME NEW i \in S PROVE Rank(S, f, i) = Rank(S, g, i)
  OBVIOUS
<1>1. {j \in S : f[j] < f[i]} = {j \in S : g[j] < g[i]}
  OBVIOUS
<1>. QED
  BY <1>1 DEF Rank

\* Places that are 0 to n - 1 have no gaps.
LEMMA ContiguousTo ==
  ASSUME NEW f, NEW n \in Nat, {f[i] : i \in Images} \ {NoPlace} = 0 .. n - 1
  PROVE  Contiguous(f)
<1>1. Cardinality(0 .. n - 1) = n
  <2>1. Cardinality(0 .. n - 1) = IF 0 > n - 1 THEN 0 ELSE (n - 1) - 0 + 1
    BY FS_Interval
  <2>. QED
    BY <2>1
<1>. QED
  BY <1>1 DEF Contiguous

\* Places without gaps are the numbers below how many rows there are.
LEMMA ContiguousIs ==
  ASSUME NEW f, Order(f), Contiguous(f)
  PROVE  /\ \A i \in Standing(f) : f[i] \in 0 .. Cardinality(Standing(f)) - 1
         /\ \A v \in 0 .. Cardinality(Standing(f)) - 1 : \E i \in Standing(f) : f[i] = v
<1> DEFINE S == Standing(f)
           used == {f[i] : i \in Images} \ {NoPlace}
           g == [i \in S |-> f[i]]
<1>1. used = 0 .. Cardinality(used) - 1
  BY DEF Contiguous
<1>2. used = {f[i] : i \in S}
  BY DEF Standing
<1>3. g \in Bijection(S, used)
  <2>1. g \in [S -> used] /\ \A v \in used : \E i \in S : g[i] = v
    BY <1>2
  <2>2. \A i, j \in S : g[i] = g[j] => i = j
    BY DEF Order, Unique, Standing
  <2>. QED
    BY <2>1, <2>2 DEF Bijection, Injection, Surjection, IsInjective
<1>4. Cardinality(used) = Cardinality(S)
  <2>1. IsFiniteSet(S) /\ ExistsBijection(S, used)
    BY <1>3 DEF Order, ExistsBijection
  <2> HIDE DEF S, used
  <2>. QED
    BY <2>1, FS_Bijection
<1>. QED
  BY <1>1, <1>2, <1>4

\* An order in which each row is at its rank has no gaps.
LEMMA Settled ==
  ASSUME NEW f, Order(f), \A i \in Standing(f) : f[i] = Spot(f, i)
  PROVE  Contiguous(f)
<1> DEFINE n == Cardinality(Standing(f))
<1>1. Distinct(Standing(f), f) /\ n \in Nat /\ IsFiniteSet(Standing(f))
  BY StandingFacts DEF Order
<1>2. /\ \A i \in Standing(f) : f[i] \in 0 .. n - 1
      /\ \A v \in 0 .. n - 1 : \E i \in Standing(f) : f[i] = v
  BY <1>1, Ranks DEF Spot
<1>3. {f[i] : i \in Images} \ {NoPlace} = 0 .. n - 1
  BY <1>1, <1>2, StandingFacts DEF Standing, NoPlace
<1>. QED
  BY <1>1, <1>3, ContiguousTo

\* s takes the rows of f that are not in their spots there, in order.
Shifts(s, f) ==
  /\ \A k \in DOMAIN s : \A i \in DOMAIN s[k] :
       i \in Standing(f) /\ DOMAIN s[k] = {i} /\ s[k][i] = Spot(f, i)
  /\ \A k, l \in DOMAIN s : \A i \in DOMAIN s[k], j \in DOMAIN s[l] : k < l => f[i] < f[j]
  /\ \A j \in Standing(f) : f[j] = Spot(f, j) \/ \E k \in DOMAIN s : j \in DOMAIN s[k]

\* The first statement takes its row to a free place, and leaves the order as it is.
LEMMA ShiftFirst ==
  ASSUME NEW f, Order(f), NEW s \in Seq(Tables), Shifts(s, f), 1 \in DOMAIN s, NEW i \in DOMAIN s[1],
         NEW g \in [Images -> Places], g[i] = s[1][i], \A j \in Images \ {i} : g[j] = f[j]
  PROVE  /\ \A j \in Images \ {i} : f[j] # s[1][i]
         /\ Standing(g) = Standing(f)
         /\ \A j \in Standing(f) : Spot(g, j) = Spot(f, j)
         /\ \A j, k \in Standing(f) : f[j] < f[k] <=> g[j] < g[k]
<1> DEFINE S == Standing(f)
           p == s[1][i]
<1>1. /\ Distinct(S, f) /\ IsFiniteSet(S)
      /\ \A j \in S : j \in Images /\ f[j] \in Nat
  BY StandingFacts DEF Order
<1>2. i \in S /\ DOMAIN s[1] = {i} /\ p = Rank(S, f, i)
  BY DEF Shifts, Spot
<1>3. \A j \in S : Rank(S, f, j) \in Nat
  BY <1>1, Ranks
<1>4. p <= f[i] /\ p \in Nat
  BY <1>1, <1>2, <1>3, RankBelow
<1>5. DOMAIN s = 1 .. Len(s) /\ Len(s) \in Nat
  OBVIOUS
<1>6. ASSUME NEW j \in S, f[j] < f[i] PROVE f[j] < p /\ f[j] \in Nat
  <2>1. ~\E k \in DOMAIN s : j \in DOMAIN s[k]
    <3> SUFFICES ASSUME NEW k \in DOMAIN s, j \in DOMAIN s[k] PROVE FALSE
      OBVIOUS
    <3>1. j # i
      BY <1>1, <1>2, <1>6
    <3>2. 1 < k
      BY <1>2, <1>5, <3>1
    <3>3. f[i] < f[j]
      BY <3>2 DEF Shifts
    <3>. QED
      BY <1>1, <1>2, <1>6, <3>3
  <2>2. f[j] = Rank(S, f, j)
    BY <2>1 DEF Shifts, Spot
  <2>3. Rank(S, f, j) < Rank(S, f, i)
    BY <1>1, <1>2, <1>6, Ranks
  <2>. QED
    BY <1>1, <1>2, <2>2, <2>3
<1>7. ASSUME NEW j \in S, j # i
      PROVE  /\ f[j] < f[i] \/ f[i] < f[j]
             /\ f[j] < f[i] <=> f[j] < p
             /\ f[i] < f[j] <=> p < f[j]
  <2>1. f[j] \in Nat /\ f[i] \in Nat /\ f[j] # f[i]
    BY <1>1, <1>2, <1>7 DEF Distinct
  <2>. QED
    BY <1>4, <1>6, <2>1
<1>8. \A j \in Images \ {i} : f[j] # p
  <2>1. ASSUME NEW j \in S, j # i PROVE f[j] # p
    BY <1>1, <1>2, <1>4, <1>7, <2>1
  <2>2. \A j \in Images \ S : f[j] = NoPlace
    BY DEF Standing
  <2>. QED
    BY <1>4, <2>1, <2>2 DEF NoPlace
<1>9. Standing(g) = S
  <2>1. \A j \in Images : g[j] # NoPlace <=> f[j] # NoPlace
    BY <1>2, <1>4 DEF Standing, NoPlace
  <2>. QED
    BY <2>1 DEF Standing
<1>10. \A j, k \in S : f[j] < f[k] <=> g[j] < g[k]
  BY <1>1, <1>2, <1>4, <1>7
<1>11. \A j \in S : Rank(S, f, j) = Rank(S, g, j)
  BY <1>10, SameRank
<1>. QED
  BY <1>8, <1>9, <1>10, <1>11 DEF Spot

\* When a deletion has written one row, the rest of its statements are right for what it then sees.
LEMMA ShiftOn ==
  ASSUME NEW f, Order(f), NEW s \in Seq(Tables), Shifts(s, f), 1 \in DOMAIN s, NEW i \in DOMAIN s[1],
         NEW g \in [Images -> Places], g[i] = s[1][i], \A j \in Images \ {i} : g[j] = f[j],
         NEW t \in Seq(Tables), Shorter(s, t, i)
  PROVE  Shifts(t, g)
<1>1. /\ Standing(g) = Standing(f)
      /\ \A j \in Standing(f) : Spot(g, j) = Spot(f, j)
      /\ \A j, k \in Standing(f) : f[j] < f[k] <=> g[j] < g[k]
  BY ShiftFirst
<1>2. DOMAIN s[1] = {i} /\ i \in Standing(f) /\ s[1][i] = Spot(f, i)
  BY DEF Shifts
<1>3. /\ Len(t) = Len(s) - 1 /\ Len(s) \in Nat /\ DOMAIN s = 1 .. Len(s) /\ DOMAIN t = 1 .. Len(t)
      /\ \A k \in DOMAIN t : k + 1 \in DOMAIN s /\ t[k] = s[k + 1]
  BY <1>2 DEF Shorter
<1>4. \A k \in DOMAIN t : \A j \in DOMAIN t[k] :
        j \in Standing(g) /\ DOMAIN t[k] = {j} /\ t[k][j] = Spot(g, j)
  BY <1>1, <1>3 DEF Shifts
<1>5. ASSUME NEW k \in DOMAIN t, NEW l \in DOMAIN t, NEW j \in DOMAIN t[k], NEW m \in DOMAIN t[l], k < l
      PROVE  g[j] < g[m]
  <2>1. f[j] < f[m] /\ j \in Standing(f) /\ m \in Standing(f)
    <3>1. k + 1 < l + 1 /\ k + 1 \in DOMAIN s /\ l + 1 \in DOMAIN s
      BY <1>3, <1>5
    <3>. QED
      BY <1>3, <3>1 DEF Shifts
  <2>. QED
    BY <1>1, <2>1
<1>6. ASSUME NEW j \in Standing(g) PROVE g[j] = Spot(g, j) \/ \E k \in DOMAIN t : j \in DOMAIN t[k]
  <2>1. CASE j = i
    BY <1>1, <1>2, <2>1
  <2>2. CASE j # i /\ f[j] = Spot(f, j)
    BY <1>1, <1>6, <2>2 DEF Standing
  <2>3. ASSUME j # i, NEW k \in DOMAIN s, j \in DOMAIN s[k] PROVE \E l \in DOMAIN t : j \in DOMAIN t[l]
    <3>1. k # 1
      BY <1>2, <2>3
    <3>2. k - 1 \in DOMAIN t /\ (k - 1) + 1 = k
      BY <1>3, <3>1
    <3>. QED
      BY <1>3, <2>3, <3>2
  <2>. QED
    BY <1>1, <1>6, <2>1, <2>2, <2>3 DEF Shifts
<1>. QED
  BY <1>4, <1>5, <1>6 DEF Shifts

\* What the transaction with the draft d sees where the rows are in the order f
Merged(d, f) == [i \in Images |-> IF i \in DOMAIN d THEN d[i] ELSE f[i]]

\* An upload by r has the rows d of its first files after the n rows it counted, and s
\* puts the rest behind.
Appends(r, s, d, n) ==
  \E m \in Nat :
    /\ \A i \in DOMAIN d : \E k \in 1 .. m : i = <<r, k>> /\ d[i] = n + k - 1
    /\ \A k \in 1 .. m : <<r, k>> \in DOMAIN d
    /\ \A k \in DOMAIN s : DOMAIN s[k] = {<<r, m + k>>} /\ s[k][<<r, m + k>>] = n + m + k - 1

\* The place an upload is about to write is free.
LEMMA AppendFree ==
  ASSUME NEW f, Order(f), Contiguous(f), NEW r, NEW s \in Seq(Tables), NEW d \in Tables,
         Appends(r, s, d, Cardinality(Standing(f))), 1 \in DOMAIN s, NEW i \in DOMAIN s[1],
         NEW j \in Images
  PROVE  Merged(d, f)[j] # s[1][i]
<1> DEFINE n == Cardinality(Standing(f))
<1>1. PICK m \in Nat :
        /\ \A x \in DOMAIN d : \E k \in 1 .. m : x = <<r, k>> /\ d[x] = n + k - 1
        /\ \A k \in DOMAIN s : DOMAIN s[k] = {<<r, m + k>>} /\ s[k][<<r, m + k>>] = n + m + k - 1
  BY DEF Appends
<1>2. s[1][i] = n + m /\ n \in Nat
  <2>1. DOMAIN s[1] = {<<r, m + 1>>} /\ s[1][<<r, m + 1>>] = n + m + 1 - 1
    BY <1>1
  <2>. QED
    BY <2>1, StandingFacts
<1>3. j \in DOMAIN d => d[j] < n + m
  BY <1>1, <1>2
<1>4. f[j] # NoPlace => f[j] < n
  <2>1. j \in Standing(f) => f[j] \in 0 .. n - 1
    BY ContiguousIs
  <2>. QED
    BY <1>2, <2>1 DEF Standing
<1>5. Merged(d, f)[j] = IF j \in DOMAIN d THEN d[j] ELSE f[j]
  BY DEF Merged
<1>. QED
  BY <1>2, <1>3, <1>4, <1>5, StandingFacts DEF Standing, NoPlace

\* When an upload has written one row, the rest of its statements are right behind it.
LEMMA AppendOn ==
  ASSUME NEW r, NEW n \in Nat, NEW s \in Seq(Tables), NEW d, Appends(r, s, d, n),
         1 \in DOMAIN s, NEW i \in DOMAIN s[1], NEW t \in Seq(Tables), Shorter(s, t, i),
         NEW e, DOMAIN e = DOMAIN d \cup {i}, e[i] = s[1][i], \A j \in DOMAIN d \ {i} : e[j] = d[j]
  PROVE  Appends(r, t, e, n)
<1>1. PICK m \in Nat :
        /\ \A x \in DOMAIN d : \E k \in 1 .. m : x = <<r, k>> /\ d[x] = n + k - 1
        /\ \A k \in 1 .. m : <<r, k>> \in DOMAIN d
        /\ \A k \in DOMAIN s : DOMAIN s[k] = {<<r, m + k>>} /\ s[k][<<r, m + k>>] = n + m + k - 1
  BY DEF Appends
<1>2. i = <<r, m + 1>> /\ DOMAIN s[1] = {i} /\ e[i] = n + (m + 1) - 1
  <2>1. DOMAIN s[1] = {<<r, m + 1>>} /\ s[1][<<r, m + 1>>] = n + m + 1 - 1
    BY <1>1
  <2>2. n + m + 1 - 1 = n + (m + 1) - 1
    OBVIOUS
  <2>3. i = <<r, m + 1>>
    BY <2>1
  <2>. QED
    BY <2>1, <2>2, <2>3
<1>3. \A k \in DOMAIN t : k + 1 \in DOMAIN s /\ t[k] = s[k + 1] /\ k \in Nat
  <2>1. DOMAIN t = 1 .. Len(t)
    OBVIOUS
  <2>. QED
    BY <1>2, <2>1 DEF Shorter
<1>4. ASSUME NEW k \in DOMAIN t
      PROVE  DOMAIN t[k] = {<<r, (m + 1) + k>>} /\ t[k][<<r, (m + 1) + k>>] = n + (m + 1) + k - 1
  <2>1. k + 1 \in DOMAIN s /\ t[k] = s[k + 1] /\ k \in Nat
    BY <1>3
  <2>2. m + (k + 1) = (m + 1) + k /\ n + m + (k + 1) - 1 = n + (m + 1) + k - 1
    <3>1. k \in Nat
      BY <2>1
    <3>2. \A x, y, z \in Nat : x + (y + 1) = (x + 1) + y /\ z + x + (y + 1) - 1 = z + (x + 1) + y - 1
      OBVIOUS
    <3>. QED
      BY <3>1, <3>2
  <2>3. DOMAIN s[k + 1] = {<<r, m + (k + 1)>>} /\ s[k + 1][<<r, m + (k + 1)>>] = n + m + (k + 1) - 1
    BY <1>1, <2>1
  <2>. QED
    BY <2>1, <2>2, <2>3
<1>5. \A x \in DOMAIN e : \E k \in 1 .. m + 1 : x = <<r, k>> /\ e[x] = n + k - 1
  <2>1. ASSUME NEW x \in DOMAIN e, x # i PROVE \E k \in 1 .. m + 1 : x = <<r, k>> /\ e[x] = n + k - 1
    <3>1. PICK k \in 1 .. m : x = <<r, k>> /\ d[x] = n + k - 1
      BY <1>1, <2>1
    <3>. QED
      BY <2>1, <3>1
  <2>2. m + 1 \in 1 .. m + 1
    OBVIOUS
  <2>. QED
    BY <1>2, <2>1, <2>2
<1>6. \A k \in 1 .. m + 1 : <<r, k>> \in DOMAIN e
  <2>1. ASSUME NEW k \in 1 .. m + 1 PROVE k \in 1 .. m \/ k = m + 1
    OBVIOUS
  <2>. QED
    BY <1>1, <1>2, <2>1
<1>7. m + 1 \in Nat
  OBVIOUS
<1>. QED
  BY <1>4, <1>5, <1>6, <1>7 DEF Appends

\* An upload that has written all its rows behind an order without gaps leaves none.
LEMMA AppendEnd ==
  ASSUME NEW f, Order(f), Contiguous(f), NEW r, NEW d \in Tables,
         Appends(r, <<>>, d, Cardinality(Standing(f))), DOMAIN d \cap Standing(f) = {}
  PROVE  Contiguous(Merged(d, f))
<1> DEFINE n == Cardinality(Standing(f))
           g == Merged(d, f)
           used == {g[i] : i \in Images} \ {NoPlace}
<1>1. PICK m \in Nat :
        /\ \A x \in DOMAIN d : \E k \in 1 .. m : x = <<r, k>> /\ d[x] = n + k - 1
        /\ \A k \in 1 .. m : <<r, k>> \in DOMAIN d
  BY DEF Appends
<1>2. /\ n \in Nat
      /\ \A i \in Standing(f) : f[i] \in 0 .. n - 1
      /\ \A v \in 0 .. n - 1 : \E i \in Standing(f) : f[i] = v
  BY ContiguousIs, StandingFacts
<1>3. \A i \in Images : g[i] = IF i \in DOMAIN d THEN d[i] ELSE f[i]
  BY DEF Merged
<1>4. Standing(f) \subseteq Images /\ DOMAIN d \subseteq Images
  BY TableFacts DEF Standing
<1> HIDE DEF g, n
<1>5. ASSUME NEW v \in used PROVE v \in 0 .. (n + m) - 1
  <2>1. PICK i \in Images : v = g[i] /\ g[i] # NoPlace
    OBVIOUS
  <2>2. CASE i \in DOMAIN d
    <3>1. PICK k \in 1 .. m : d[i] = n + k - 1
      BY <1>1, <2>2
    <3>. QED
      BY <1>2, <1>3, <2>1, <2>2, <3>1
  <2>3. CASE i \notin DOMAIN d
    <3>1. i \in Standing(f) /\ v = f[i]
      BY <1>3, <2>1, <2>3 DEF Standing
    <3>. QED
      BY <1>2, <3>1
  <2>. QED
    BY <2>2, <2>3
<1>6. ASSUME NEW v \in 0 .. (n + m) - 1 PROVE v \in used
  <2>1. CASE v < n
    <3>1. PICK i \in Standing(f) : f[i] = v
      BY <1>2, <2>1
    <3>2. i \in Images /\ i \notin DOMAIN d
      BY <1>4
    <3>. QED
      BY <1>3, <3>1, <3>2 DEF NoPlace
  <2>2. CASE v >= n
    <3>1. v - n + 1 \in 1 .. m
      BY <1>2, <2>2
    <3>2. <<r, v - n + 1>> \in DOMAIN d
      BY <1>1, <3>1
    <3>3. PICK k \in 1 .. m : <<r, v - n + 1>> = <<r, k>> /\ d[<<r, v - n + 1>>] = n + k - 1
      BY <1>1, <3>2
    <3>4. d[<<r, v - n + 1>>] = v
      BY <1>2, <3>1, <3>3
    <3>. QED
      BY <1>3, <1>4, <3>2, <3>4 DEF NoPlace
  <2>. QED
    BY <1>2, <2>1, <2>2
<1>7. used = 0 .. (n + m) - 1
  BY <1>5, <1>6
<1>8. n + m \in Nat
  BY <1>2
<1>. QED
  BY <1>7, <1>8, ContiguousTo DEF g

\* A reordering of the rows of f to the order w has the draft d and still the statements s.
Permutes(s, d, w, f) ==
  LET S == Standing(f)
      n == Cardinality(S)
  IN  /\ w \in Bijection(1 .. n, S)
      /\ Len(s) \in 0 .. 2
      /\ Len(s) = 2 =>
           /\ DOMAIN s[2] = S /\ \A k \in 1 .. n : s[2][w[k]] = k - 1
           /\ DOMAIN s[1] \cup DOMAIN d = S
           /\ \A i \in DOMAIN s[1] : s[1][i] = n + Spot(f, i)
           /\ \A i \in DOMAIN d : d[i] = n + Spot(f, i)
      /\ Len(s) < 2 => DOMAIN d = S
      /\ Len(s) = 1 =>
           /\ DOMAIN s[1] \subseteq S
           /\ \A k \in 1 .. n : IF w[k] \in DOMAIN s[1] THEN s[1][w[k]] = k - 1 /\ d[w[k]] >= n
                                                        ELSE d[w[k]] = k - 1
      /\ Len(s) = 0 => \A k \in 1 .. n : d[w[k]] = k - 1

\* The place a reordering is about to write is free.
LEMMA PermuteFree ==
  ASSUME NEW f, Order(f), NEW s \in Seq(Tables), NEW d \in Tables, NEW w, Permutes(s, d, w, f),
         Len(s) = 2 => Contiguous(f), 1 \in DOMAIN s, NEW i \in DOMAIN s[1], NEW j \in Images \ {i}
  PROVE  Merged(d, f)[j] # s[1][i]
<1> DEFINE S == Standing(f)
           n == Cardinality(S)
<1>1. n \in Nat /\ Distinct(S, f) /\ IsFiniteSet(S) /\ \A x \in S : x \in Images /\ f[x] \in Nat
  BY StandingFacts DEF Order
<1>2. Merged(d, f)[j] = IF j \in DOMAIN d THEN d[j] ELSE f[j]
  BY DEF Merged
<1>3. /\ w \in [1 .. n -> S] /\ \A x \in S : \E k \in 1 .. n : w[k] = x
      /\ \A k, l \in 1 .. n : w[k] = w[l] => k = l
  BY DEF Permutes, Bijection, Injection, Surjection, IsInjective
<1>4. j \notin S => f[j] = NoPlace
  BY DEF Standing
<1>5. /\ \A x \in S : Spot(f, x) \in Nat
      /\ \A x, y \in S : Spot(f, x) = Spot(f, y) => x = y
  BY <1>1, Ranks DEF Spot
<1>6. CASE Len(s) = 2
  <2>1. s[1][i] = n + Spot(f, i) /\ i \in S
    BY <1>6 DEF Permutes
  <2>2. j \in DOMAIN d => d[j] = n + Spot(f, j) /\ j \in S
    BY <1>6 DEF Permutes
  <2>3. j \in S => f[j] \in 0 .. n - 1
    BY <1>6, ContiguousIs
  <2>. QED
    BY <1>1, <1>2, <1>4, <1>5, <2>1, <2>2, <2>3 DEF NoPlace
<1>7. CASE Len(s) = 1
  <2>1. i \in S /\ DOMAIN d = S
    BY <1>7 DEF Permutes
  <2>2. PICK k \in 1 .. n : w[k] = i
    BY <1>3, <2>1
  <2>3. s[1][i] = k - 1
    BY <1>7, <2>2 DEF Permutes
  <2>4. CASE j \in S
    <3>1. PICK l \in 1 .. n : w[l] = j
      BY <1>3, <2>4
    <3>2. l # k
      BY <2>2, <3>1
    <3>3. d[j] = l - 1 \/ d[j] >= n
      BY <1>7, <3>1 DEF Permutes
    <3>4. d[j] \in Int
      BY <2>1, <2>4, TableFacts DEF Places, NoPlace
    <3>. QED
      BY <1>1, <1>2, <2>1, <2>3, <2>4, <3>2, <3>3, <3>4
  <2>5. CASE j \notin S
    BY <1>1, <1>2, <1>4, <2>1, <2>3, <2>5 DEF NoPlace
  <2>. QED
    BY <2>4, <2>5
<1>. QED
  <2>1. Len(s) \in 0 .. 2 /\ Len(s) # 0
    BY DEF Permutes
  <2>. QED
    BY <1>6, <1>7, <2>1

\* When a reordering has written one row, the rest of its statements are right behind it.
LEMMA PermuteOn ==
  ASSUME NEW f, Order(f), NEW s \in Seq(Tables), NEW d, NEW w, Permutes(s, d, w, f),
         1 \in DOMAIN s, NEW i \in DOMAIN s[1], NEW t \in Seq(Tables), Shorter(s, t, i),
         NEW e, DOMAIN e = DOMAIN d \cup {i}, e[i] = s[1][i], \A j \in DOMAIN d \ {i} : e[j] = d[j]
  PROVE  Permutes(t, e, w, f)
<1> DEFINE S == Standing(f)
           n == Cardinality(S)
<1>1. n \in Nat /\ Distinct(S, f) /\ IsFiniteSet(S)
  BY StandingFacts DEF Order
<1>2. w \in Bijection(1 .. n, S) /\ Len(s) \in {1, 2}
  <2>1. Len(s) \in 0 .. 2 /\ Len(s) # 0 /\ w \in Bijection(1 .. n, S)
    BY DEF Permutes
  <2>. QED
    BY <2>1
<1>3. w \in [1 .. n -> S] /\ \A k, l \in 1 .. n : w[k] = w[l] => k = l
  BY <1>2 DEF Bijection, Injection, IsInjective
<1>4. DOMAIN s = 1 .. Len(s) /\ DOMAIN t = 1 .. Len(t) /\ Len(t) \in Nat
  OBVIOUS
<1>5. CASE Len(s) = 2
  <2>1. /\ DOMAIN s[2] = S /\ \A k \in 1 .. n : s[2][w[k]] = k - 1
        /\ DOMAIN s[1] \cup DOMAIN d = S
        /\ \A x \in DOMAIN s[1] : s[1][x] = n + Spot(f, x)
        /\ \A x \in DOMAIN d : d[x] = n + Spot(f, x)
    BY <1>5 DEF Permutes
  <2>2. CASE DOMAIN s[1] = {i}
    <3>1. Len(t) = 1 /\ t[1] = s[2]
      <4>1. Len(t) = 1 /\ \A k \in DOMAIN t : t[k] = s[k + 1]
        BY <1>5, <2>2 DEF Shorter
      <4>. QED
        BY <1>4, <4>1
    <3>2. DOMAIN e = S
      BY <2>1, <2>2
    <3>3. \A x \in S : e[x] >= n
      <4>1. \A x \in S : e[x] = n + Spot(f, x)
        BY <2>1, <2>2
      <4>2. \A x \in S : Spot(f, x) \in Nat
        BY <1>1, Ranks DEF Spot
      <4>. QED
        BY <1>1, <4>1, <4>2
    <3>4. \A k \in 1 .. n : w[k] \in DOMAIN t[1] /\ t[1][w[k]] = k - 1 /\ e[w[k]] >= n
      BY <1>3, <2>1, <3>1, <3>3
    <3>. QED
      BY <1>2, <2>1, <3>1, <3>2, <3>4 DEF Permutes
  <2>3. CASE DOMAIN s[1] # {i}
    <3>1. /\ Len(t) = 2 /\ t[2] = s[2] /\ DOMAIN t[1] = DOMAIN s[1] \ {i}
          /\ \A x \in DOMAIN t[1] : t[1][x] = s[1][x]
      BY <1>4, <1>5, <2>3 DEF Shorter
    <3>2. DOMAIN t[1] \cup DOMAIN e = S /\ \A x \in DOMAIN e : e[x] = n + Spot(f, x)
      BY <2>1, <3>1
    <3>. QED
      BY <1>2, <2>1, <3>1, <3>2 DEF Permutes
  <2>. QED
    BY <2>2, <2>3
<1>6. CASE Len(s) = 1
  <2>1. /\ DOMAIN d = S /\ DOMAIN s[1] \subseteq S
        /\ \A k \in 1 .. n : IF w[k] \in DOMAIN s[1] THEN s[1][w[k]] = k - 1 /\ d[w[k]] >= n
                                                     ELSE d[w[k]] = k - 1
    BY <1>6 DEF Permutes
  <2>2. DOMAIN e = S
    BY <2>1
  <2>3. CASE DOMAIN s[1] = {i}
    <3>1. Len(t) = 0
      BY <1>6, <2>3 DEF Shorter
    <3>2. ASSUME NEW k \in 1 .. n PROVE e[w[k]] = k - 1
      BY <1>3, <2>1, <2>3
    <3>. QED
      BY <1>2, <2>2, <3>1, <3>2 DEF Permutes
  <2>4. CASE DOMAIN s[1] # {i}
    <3>1. Len(t) = 1 /\ DOMAIN t[1] = DOMAIN s[1] \ {i} /\ \A x \in DOMAIN t[1] : t[1][x] = s[1][x]
      BY <1>6, <2>4 DEF Shorter
    <3>2. ASSUME NEW k \in 1 .. n
          PROVE  IF w[k] \in DOMAIN t[1] THEN t[1][w[k]] = k - 1 /\ e[w[k]] >= n ELSE e[w[k]] = k - 1
      BY <1>3, <2>1, <3>1
    <3>. QED
      BY <1>2, <2>1, <2>2, <3>1, <3>2 DEF Permutes
  <2>. QED
    BY <2>3, <2>4
<1>. QED
  BY <1>2, <1>5, <1>6

\* A reordering that has written all its rows leaves no gaps.
LEMMA PermuteEnd ==
  ASSUME NEW f, Order(f), NEW d, NEW w, Permutes(<<>>, d, w, f)
  PROVE  Contiguous(Merged(d, f))
<1> DEFINE S == Standing(f)
           n == Cardinality(S)
           g == Merged(d, f)
<1>1. n \in Nat /\ \A i \in S : i \in Images
  BY StandingFacts
<1>2. DOMAIN d = S /\ \A k \in 1 .. n : d[w[k]] = k - 1
  BY DEF Permutes
<1>3. w \in [1 .. n -> S] /\ \A x \in S : \E k \in 1 .. n : w[k] = x
  BY DEF Permutes, Bijection, Injection, Surjection
<1>4. /\ \A i \in S : g[i] = d[i]
      /\ \A i \in Images \ S : g[i] = NoPlace
  BY <1>1, <1>2 DEF Merged, Standing
<1> HIDE DEF g, n, S
<1>5. ASSUME NEW i \in Images, g[i] # NoPlace PROVE g[i] \in 0 .. n - 1
  <2>1. i \in S
    BY <1>4, <1>5
  <2>2. PICK k \in 1 .. n : w[k] = i
    BY <1>3, <2>1
  <2>3. g[i] = k - 1
    BY <1>2, <1>4, <2>1, <2>2
  <2>. QED
    BY <1>1, <2>3
<1>6. ASSUME NEW v \in 0 .. n - 1 PROVE \E i \in Images : g[i] = v /\ v # NoPlace
  <2>1. v + 1 \in 1 .. n /\ (v + 1) - 1 = v /\ v # NoPlace
    BY <1>1 DEF NoPlace
  <2>2. w[v + 1] \in S /\ d[w[v + 1]] = (v + 1) - 1
    BY <1>2, <1>3, <2>1
  <2>. QED
    BY <1>1, <1>4, <2>1, <2>2
<1>7. {g[i] : i \in Images} \ {NoPlace} = 0 .. n - 1
  BY <1>5, <1>6
<1>. QED
  BY <1>1, <1>7, ContiguousTo DEF g

-----------------------------------------------------------------------------
(* Requests that run alone                                                 *)

Busy(r) == kind[r] \in OnListing /\ pc[r] \in Running

BusyInv == \A r \in Requests : \A q \in Requests \ {r} : Busy(r) /\ Busy(q) => r \in overlapped

\* Where a request on the listing is that has run alone so far
Alone(r) ==
  /\ kind[r] = "upload" /\ pc[r] \in {"put", "write", "commit"} =>
       Appends(r, todo[r], draft[r], Cardinality(Rows))
  /\ kind[r] = "delete" /\ (pc[r] = "commit" \/ (pc[r] = "write" /\ Renumbering(todo[r]))) =>
       Shifts(todo[r], Seen(r))
  /\ kind[r] = "reorder" /\ pc[r] \in {"write", "commit"} =>
       Permutes(todo[r], draft[r], wanted[r], place)

AloneInv ==
  /\ \A r \in Requests \ overlapped : Alone(r)
  /\ overlapped = {} => Contiguous(place)

RefusedInv ==
  \A r \in refused : /\ kind[r] # "none" /\ overlapped # {}
                     /\ kind[r] = "delete" => r \in overlapped

\* The committed rows are an order, and so are those a transaction sees.
LEMMA Orders ==
  ASSUME TypeInv, UniqueInv, NEW r \in Requests
  PROVE  /\ Types /\ Stage(r) /\ Rows = Standing(place) /\ Left(r) = Standing(Seen(r))
         /\ Order(place) /\ Order(Seen(r)) /\ Seen(r) = Merged(draft[r], place)
<1>1. Types /\ Stage(r) /\ Unique(place) /\ Unique(Seen(r))
  BY DEF TypeInv, UniqueInv
<1>2. Rows = Standing(place) /\ Left(r) = Standing(Seen(r))
  BY DEF Rows, Left, Standing
<1>3. Order(place)
  BY <1>1, <1>2 DEF Order, Types
<1>4. Order(Seen(r))
  <2>1. Seen(r) \in [Images -> Places] /\ IsFiniteSet(Left(r))
    BY <1>1, SeenFacts, SeenRows DEF Left
  <2>. QED
    BY <1>1, <1>2, <2>1 DEF Order
<1>. QED
  BY <1>1, <1>2, <1>3, <1>4 DEF Merged, Seen

\* A request that begins beside another is recorded with it, and no record is lost.
LEMMA OverlappedGrows ==
  ASSUME TypeInv, UniqueInv, NEW r \in Requests, Starts(r) \/ Works(r) \/ Ends(r)
  PROVE  /\ overlapped \subseteq overlapped'
         /\ ~Starts(r) => overlapped' = overlapped
         /\ Starts(r) => \/ kind'[r] \notin OnListing
                         \/ {q \in Requests : Busy(q)} = {}
                         \/ {q \in Requests : Busy(q)} \cup {r} \subseteq overlapped'
<1>1. ASSUME Starts(r)
      PROVE  /\ overlapped \subseteq overlapped'
             /\ \/ kind'[r] \notin OnListing
                \/ {q \in Requests : Busy(q)} = {}
                \/ {q \in Requests : Busy(q)} \cup {r} \subseteq overlapped'
  <2>1. PICK k : Begin(r, k)
    BY <1>1 DEF Starts, BeginUpload, BeginDelete, BeginReorder, BeginSet, BeginRemove
  <2>2. kind'[r] = k
    BY <2>1 DEF Begin, TypeInv, Types
  <2>. QED
    BY <2>1, <2>2 DEF Begin, Busy
<1>2. Works(r) => overlapped' = overlapped
  BY WorksFacts
<1>3. Ends(r) => overlapped' = overlapped
  BY DEF Ends, Commit, CommitUnanswered, Apply
<1>. QED
  BY <1>1, <1>2, <1>3

\* Every step leaves two requests that are both on the listing recorded as overlapping.
LEMMA StepBusy ==
  ASSUME TypeInv, UniqueInv, RowInv, BusyInv, [Next]_vars
  PROVE  BusyInv'
<1>1. ASSUME NEW r \in Requests, Starts(r) \/ Works(r) \/ Ends(r) PROVE BusyInv'
  <2>1. \A q \in Requests \ {r} : Busy(q)' <=> Busy(q)
    BY <1>1, Elsewhere DEF Busy
  <2>2. ~Starts(r) => (Busy(r)' => Busy(r))
    <3>1. Works(r) => kind' = kind /\ pc[r] \in Running
      BY WorksFacts
    <3>2. Ends(r) => kind' = kind /\ pc[r] \in Running
      BY DEF Ends, Commit, CommitUnanswered, Apply, reqVars, Running
    <3>. QED
      BY <1>1, <3>1, <3>2 DEF Busy
  <2>3. /\ overlapped \subseteq overlapped'
        /\ Starts(r) => \/ kind'[r] \notin OnListing
                        \/ {q \in Requests : Busy(q)} = {}
                        \/ {q \in Requests : Busy(q)} \cup {r} \subseteq overlapped'
    BY <1>1, OverlappedGrows
  <2>4. ASSUME Starts(r), Busy(r)', NEW q \in Requests \ {r}, Busy(q)'
        PROVE  q \in overlapped' /\ r \in overlapped'
    BY <2>1, <2>3, <2>4 DEF Busy
  <2>5. ASSUME NEW p \in Requests, NEW q \in Requests \ {p}, Busy(p)', Busy(q)' PROVE p \in overlapped'
    <3>1. CASE ~Starts(r) \/ (p # r /\ q # r)
      BY <2>1, <2>2, <2>3, <2>5, <3>1 DEF BusyInv
    <3>2. CASE Starts(r) /\ (p = r \/ q = r)
      BY <2>4, <2>5, <3>2
    <3>. QED
      BY <3>1, <3>2
  <2>. QED
    BY <2>5 DEF BusyInv
<1>2. CASE UNCHANGED vars
  BY <1>2 DEF vars, reqVars, history, BusyInv, Busy
<1>. QED
  BY <1>1, <1>2, Steps DEF Ends

\* Nobody moves a row beside a request that runs alone.
LEMMA OthersAlone ==
  ASSUME TypeInv, UniqueInv, RowInv, BusyInv, NEW r \in Requests, Starts(r) \/ Works(r) \/ Ends(r),
         NEW q \in Requests \ {r}, q \notin overlapped', Alone(q)
  PROVE  Alone(q)'
<1>1. /\ pc'[q] = pc[q] /\ kind'[q] = kind[q] /\ todo'[q] = todo[q] /\ draft'[q] = draft[q]
      /\ wanted'[q] = wanted[q] /\ overlapped \subseteq overlapped'
  BY Elsewhere, OverlappedGrows
<1>2. CASE ~Busy(q)
  BY <1>1, <1>2 DEF Alone, Busy, OnListing, Running
<1>3. CASE Busy(q)
  <2>1. place' = place
    <3>1. Starts(r) => place' = place
      BY StartsFacts DEF StartFacts
    <3>2. Works(r) => place' = place
      BY WorksFacts
    <3>3. ASSUME Ends(r) PROVE place' = place
      <4>1. Apply(r) /\ pc[r] = "commit" /\ Types /\ Stage(r) /\ place' = Seen(r)
        BY <3>3, EndsFacts DEF TypeInv, Apply
      <4>2. ~Busy(r)
        BY <1>1, <1>3 DEF BusyInv
      <4>3. draft[r] = <<>>
        BY <4>1, <4>2 DEF Busy, Running, Stage
      <4>. QED
        BY <4>1, <4>3, SeenFacts
    <3>. QED
      BY <3>1, <3>2, <3>3
  <2>2. Rows' = Rows /\ Seen(q)' = Seen(q)
    BY <1>1, <2>1 DEF Rows, Seen
  <2>3. Renumbering(todo'[q]) <=> Renumbering(todo[q])
    BY <1>1
  <2>4. Cardinality(Rows)' = Cardinality(Rows)
    BY <2>2
  <2>. QED
    BY <1>1, <2>1, <2>2, <2>4 DEF Alone
<1>. QED
  BY <1>2, <1>3

\* A request that begins is right for the rows that stand.
LEMMA StartsAlone ==
  ASSUME TypeInv, UniqueInv, NEW r \in Requests, Starts(r)
  PROVE  Alone(r)'
<1>1. Types /\ Unique(place) /\ draft'[r] = <<>> /\ place' = place /\ Rows = Standing(place)
  BY StartsFacts, Orders DEF StartFacts, UniqueInv
<1>2. Cardinality(Rows') = Cardinality(Rows) /\ Cardinality(Rows) \in Nat
  BY <1>1, FS_CardinalityType DEF Rows, Types
<1>3. ASSUME NEW n \in Files[r], BeginUpload(r, n) PROVE Alone(r)'
  <2>1. /\ kind'[r] = "upload"
        /\ todo'[r] = [k \in 1 .. n |-> Given(<<r, k>>, Cardinality(Rows) + k - 1)]
    BY <1>1, <1>3 DEF BeginUpload, Begin, Types
  <2>2. \A k \in DOMAIN todo'[r] :
          /\ DOMAIN todo'[r][k] = {<<r, 0 + k>>}
          /\ todo'[r][k][<<r, 0 + k>>] = Cardinality(Rows) + 0 + k - 1
    <3> SUFFICES ASSUME NEW k \in DOMAIN todo'[r]
                 PROVE  /\ DOMAIN todo'[r][k] = {<<r, 0 + k>>}
                        /\ todo'[r][k][<<r, 0 + k>>] = Cardinality(Rows) + 0 + k - 1
      OBVIOUS
    <3>1. k \in 1 .. n /\ todo'[r][k] = Given(<<r, k>>, Cardinality(Rows) + k - 1)
      BY <2>1
    <3>2. 0 + k = k /\ Cardinality(Rows) + 0 + k - 1 = Cardinality(Rows) + k - 1
      BY <1>2, <3>1
    <3>. QED
      BY <3>1, <3>2 DEF Given
  <2>3. Appends(r, todo'[r], draft'[r], Cardinality(Rows))
    <3>1. 0 \in Nat /\ 1 .. 0 = {} /\ DOMAIN draft'[r] = {}
      BY <1>1, EmptyTable
    <3>. QED
      BY <2>2, <3>1 DEF Appends
  <2>. QED
    BY <1>2, <2>1, <2>3 DEF Alone
<1>4. ASSUME NEW i \in Images, BeginDelete(r, i) PROVE Alone(r)'
  <2>1. kind'[r] = "delete" /\ pc'[r] = "write" /\ todo'[r] = <<Given(i, NoPlace)>>
    BY <1>1, <1>4 DEF BeginDelete, Begin, Types
  <2>2. ~Renumbering(todo'[r])
    <3>1. 1 \in DOMAIN todo'[r] /\ i \in DOMAIN todo'[r][1] /\ todo'[r][1][i] = NoPlace
      BY <2>1 DEF Given
    <3>2. NoPlace \notin Nat
      BY DEF NoPlace
    <3>. QED
      BY <3>1, <3>2 DEF Renumbering
  <2>. QED
    BY <2>1, <2>2 DEF Alone
<1>5. ASSUME NEW s \in Bijection(1 .. Cardinality(Rows), Rows), BeginReorder(r, s) PROVE Alone(r)'
  <2>1. kind'[r] = "reorder" /\ todo'[r] = Renumber(s) /\ wanted'[r] = s
    BY <1>1, <1>5 DEF BeginReorder, Begin, Types
  <2>2. /\ Len(Renumber(s)) = 2
        /\ \A k \in {1, 2} : DOMAIN Renumber(s)[k] = Rows
        /\ \A i \in Rows : Renumber(s)[1][i] = Cardinality(Rows) + Rank(Rows, place, i)
        /\ \A k \in 1 .. Cardinality(Rows) : Renumber(s)[2][s[k]] = k - 1
    BY <1>1, ReorderFacts
  <2>3. DOMAIN draft'[r] = {}
    BY <1>1, EmptyTable
  <2> DEFINE u == Renumber(s)
  <2>4. /\ Len(u) = 2 /\ DOMAIN u[1] = Rows /\ DOMAIN u[2] = Rows
        /\ \A i \in Rows : u[1][i] = Cardinality(Rows) + Rank(Rows, place, i)
        /\ \A k \in 1 .. Cardinality(Rows) : u[2][s[k]] = k - 1
    BY <2>2
  <2> HIDE DEF u
  <2>5. Permutes(u, draft'[r], s, place)
    BY <1>1, <2>3, <2>4 DEF Permutes, Spot
  <2>. QED
    BY <1>1, <2>1, <2>5 DEF Alone, u
<1>6. ASSUME BeginSet(r) \/ BeginRemove(r) PROVE Alone(r)'
  <2>1. kind'[r] \in {"set", "remove"}
    BY <1>1, <1>6 DEF BeginSet, BeginRemove, Begin, Types
  <2>. QED
    BY <2>1 DEF Alone
<1>. QED
  BY <1>3, <1>4, <1>5, <1>6 DEF Starts

\* What writing a row does to the statements of its request.
LEMMA WriteRest ==
  ASSUME TypeInv, NEW r \in Requests, NEW i \in Images, Write(r, i)
  PROVE  /\ todo[r] \in Seq(Tables) /\ 1 \in DOMAIN todo[r] /\ i \in DOMAIN todo[r][1]
         /\ todo[r][1][i] \in Places /\ Head(todo[r]) = todo[r][1]
         /\ todo'[r] \in Seq(Tables) /\ Shorter(todo[r], todo'[r], i)
         /\ pc[r] = "write" /\ pc'[r] = After(r, i) /\ kind[r] \in OnListing
         /\ UNCHANGED <<place, kind, wanted>>
<1>1. Types /\ Stage(r) /\ pc[r] = "write" /\ todo[r] # <<>> /\ kind[r] \in OnListing
  BY DEF TypeInv, Stage, Write
<1>2. todo'[r] = Without(r, i) /\ pc'[r] = After(r, i) /\ UNCHANGED <<place, kind, wanted>>
  BY <1>1 DEF Write, Types, reqVars
<1>3. todo[r] \in Seq(Tables) /\ \A k \in DOMAIN todo[r] : DOMAIN todo[r][k] # {}
  BY <1>1 DEF Types, Stage
<1>4. i \in DOMAIN Head(todo[r])
  BY DEF Write
<1>5. /\ Head(todo[r]) = todo[r][1] /\ 1 \in DOMAIN todo[r] /\ i \in DOMAIN todo[r][1]
      /\ todo[r][1][i] \in Places
      /\ Without(r, i) \in Seq(Tables) /\ Shorter(todo[r], Without(r, i), i)
  BY <1>1, <1>3, <1>4, WithoutFacts
<1>. QED
  BY <1>1, <1>2, <1>3, <1>5

\* What r sees when it has written the row i
LEMMA WriteSeen ==
  ASSUME TypeInv, NEW r \in Requests, NEW i \in Images, Write(r, i),
         image[i] = "none" \/ Seen(r)[i] # NoPlace
  PROVE  /\ DOMAIN draft'[r] = DOMAIN draft[r] \cup {i}
         /\ draft'[r][i] = todo[r][1][i]
         /\ \A j \in DOMAIN draft[r] \ {i} : draft'[r][j] = draft[r][j]
         /\ Seen(r)' \in [Images -> Places]
         /\ Seen(r)'[i] = todo[r][1][i]
         /\ \A j \in Images \ {i} : Seen(r)'[j] = Seen(r)[j]
<1>1. /\ DOMAIN draft'[r] = DOMAIN draft[r] \cup {i}
      /\ draft'[r][i] = todo[r][1][i] /\ todo[r][1][i] \in Places
      /\ \A j \in DOMAIN draft[r] \ {i} : draft'[r][j] = draft[r][j]
      /\ place' = place
  BY WriteFacts
<1>2. /\ Seen(r) \in [Images -> Places]
      /\ \A j \in DOMAIN draft[r] : Seen(r)[j] = draft[r][j]
      /\ \A j \in Images \ DOMAIN draft[r] : Seen(r)[j] = place[j]
  BY SeenFacts DEF TypeInv
<1>3. Seen(r)' = [j \in Images |-> IF j \in DOMAIN draft'[r] THEN draft'[r][j] ELSE place'[j]]
  BY DEF Seen
<1>4. \A j \in Images \ {i} : Seen(r)'[j] = Seen(r)[j]
  BY <1>1, <1>2, <1>3
<1>5. Seen(r)'[i] = todo[r][1][i]
  BY <1>1, <1>3
<1>6. Seen(r)' \in [Images -> Places]
  <2>1. \A j \in Images : Seen(r)'[j] \in Places
    BY <1>1, <1>2, <1>4, <1>5
  <2>. QED
    BY <1>3, <2>1
<1>. QED
  BY <1>1, <1>4, <1>5, <1>6

\* A request that runs alone goes on being right for the rows it sees when it has written one.
LEMMA WriteAlone ==
  ASSUME TypeInv, UniqueInv, RowInv, NEW r \in Requests, NEW i \in Images, Write(r, i), Alone(r)
  PROVE  Alone(r)'
<1>1. /\ Types /\ Stage(r) /\ Rows = Standing(place) /\ Left(r) = Standing(Seen(r))
      /\ Order(place) /\ Order(Seen(r)) /\ Seen(r) = Merged(draft[r], place)
  BY Orders
<1>2. /\ todo[r] \in Seq(Tables) /\ 1 \in DOMAIN todo[r] /\ i \in DOMAIN todo[r][1]
      /\ todo[r][1][i] \in Places /\ Head(todo[r]) = todo[r][1]
      /\ todo'[r] \in Seq(Tables) /\ Shorter(todo[r], todo'[r], i)
      /\ pc[r] = "write" /\ pc'[r] = After(r, i) /\ kind[r] \in OnListing
      /\ UNCHANGED <<place, kind, wanted>>
  BY WriteRest
<1>3. Cardinality(Rows') = Cardinality(Rows) /\ Cardinality(Rows) \in Nat
  BY <1>1, <1>2, StandingFacts DEF Rows
<1>4. image[i] = "none" \/ Seen(r)[i] # NoPlace =>
        /\ DOMAIN draft'[r] = DOMAIN draft[r] \cup {i}
        /\ draft'[r][i] = todo[r][1][i]
        /\ \A j \in DOMAIN draft[r] \ {i} : draft'[r][j] = draft[r][j]
        /\ Seen(r)' \in [Images -> Places]
        /\ Seen(r)'[i] = todo[r][1][i]
        /\ \A j \in Images \ {i} : Seen(r)'[j] = Seen(r)[j]
  BY WriteSeen
<1>5. ASSUME kind[r] = "upload" PROVE Alone(r)'
  <2>1. Appends(r, todo[r], draft[r], Cardinality(Rows))
    BY <1>2, <1>5 DEF Alone
  <2>2. image[i] = "none"
    <3>1. i \in Own(r)
      <4>1. PICK j \in Own(r), p \in Nat : todo[r][1] = Given(j, p)
        BY <1>1, <1>2, <1>5 DEF Stage, Upload
      <4>. QED
        BY <1>2, <4>1 DEF Given
    <3>2. ~Over(r)
      BY <1>2 DEF Over
    <3>. QED
      BY <3>1, <3>2 DEF RowInv
  <2>3. /\ DOMAIN draft'[r] = DOMAIN draft[r] \cup {i}
        /\ draft'[r][i] = todo[r][1][i]
        /\ \A j \in DOMAIN draft[r] \ {i} : draft'[r][j] = draft[r][j]
    BY <1>4, <2>2
  <2>4. Appends(r, todo'[r], draft'[r], Cardinality(Rows))
    <3>1. PICK t, e : t = todo'[r] /\ e = draft'[r]
      OBVIOUS
    <3>2. t \in Seq(Tables) /\ Shorter(todo[r], t, i)
      BY <1>2, <3>1
    <3>3. DOMAIN e = DOMAIN draft[r] \cup {i} /\ e[i] = todo[r][1][i] /\ \A j \in DOMAIN draft[r] \ {i} : e[j] = draft[r][j]
      BY <2>3, <3>1
    <3>4. Appends(r, t, e, Cardinality(Rows))
      <4>1. PICK s, d, n : s = todo[r] /\ d = draft[r] /\ n = Cardinality(Rows)
        OBVIOUS
      <4>2. /\ s \in Seq(Tables) /\ 1 \in DOMAIN s /\ i \in DOMAIN s[1] /\ n \in Nat /\ Appends(r, s, d, n)
            /\ Shorter(s, t, i) /\ DOMAIN e = DOMAIN d \cup {i} /\ e[i] = s[1][i]
            /\ \A j \in DOMAIN d \ {i} : e[j] = d[j]
        BY <1>2, <1>3, <2>1, <3>2, <3>3, <4>1
      <4>3. Appends(r, t, e, n)
        BY <3>2, <4>2, AppendOn
      <4>. QED
        BY <4>1, <4>3
    <3>. QED
      BY <3>1, <3>4
  <2>. QED
    BY <1>2, <1>3, <1>5, <2>4 DEF Alone
<1>6. ASSUME kind[r] = "delete" PROVE Alone(r)'
  <2>1. CASE todo[r][1][i] = NoPlace
    <3>1. pc'[r] = "read" /\ kind'[r] = "delete"
      BY <1>2, <1>6, <2>1 DEF After
    <3>. QED
      BY <3>1 DEF Alone
  <2>2. CASE todo[r][1][i] # NoPlace
    <3>1. Renumbering(todo[r])
      <4>1. ASSUME NEW j \in Images, todo[r] = <<Given(j, NoPlace)>> PROVE FALSE
        BY <1>2, <2>2, <4>1 DEF Given
      <4>. QED
        BY <1>1, <1>6, <4>1 DEF Stage
    <3>2. Shifts(todo[r], Seen(r))
      BY <1>2, <1>6, <3>1 DEF Alone
    <3>3. i \in Standing(Seen(r))
      BY <1>2, <3>2 DEF Shifts
    <3>4. /\ Seen(r)' \in [Images -> Places] /\ Seen(r)'[i] = todo[r][1][i]
          /\ \A j \in Images \ {i} : Seen(r)'[j] = Seen(r)[j]
      BY <1>4, <3>3 DEF Standing
    <3>5. PICK g : g = Seen(r)'
      OBVIOUS
    <3>6. Shifts(todo'[r], g)
      BY <1>1, <1>2, <3>2, <3>4, <3>5, ShiftOn
    <3>. QED
      BY <1>2, <1>6, <3>5, <3>6 DEF Alone
  <2>. QED
    BY <2>1, <2>2
<1>7. ASSUME kind[r] = "reorder" PROVE Alone(r)'
  <2>1. Permutes(todo[r], draft[r], wanted[r], place)
    BY <1>2, <1>7 DEF Alone
  <2>2. i \in Standing(place)
    <3>1. Len(todo[r]) \in {1, 2}
      BY <1>2, <2>1 DEF Permutes
    <3>. QED
      BY <1>2, <2>1, <3>1 DEF Permutes
  <2>3. Seen(r)[i] # NoPlace
    <3>1. i \in DOMAIN draft[r] => Seen(r)[i] \in Nat
      BY <1>1, <1>7, SeenFacts DEF Stage
    <3>2. i \notin DOMAIN draft[r] => Seen(r)[i] = place[i]
      BY <1>1, SeenFacts
    <3>. QED
      BY <2>2, <3>1, <3>2 DEF Standing, NoPlace
  <2>4. /\ DOMAIN draft'[r] = DOMAIN draft[r] \cup {i}
        /\ draft'[r][i] = todo[r][1][i]
        /\ \A j \in DOMAIN draft[r] \ {i} : draft'[r][j] = draft[r][j]
    BY <1>4, <2>3
  <2>5. Permutes(todo'[r], draft'[r], wanted[r], place)
    <3>1. PICK t, e : t = todo'[r] /\ e = draft'[r]
      OBVIOUS
    <3>2. t \in Seq(Tables) /\ Shorter(todo[r], t, i)
      BY <1>2, <3>1
    <3>3. DOMAIN e = DOMAIN draft[r] \cup {i} /\ e[i] = todo[r][1][i] /\ \A j \in DOMAIN draft[r] \ {i} : e[j] = draft[r][j]
      BY <2>4, <3>1
    <3>4. Permutes(t, e, wanted[r], place)
      <4>1. PICK s, d : s = todo[r] /\ d = draft[r]
        OBVIOUS
      <4>2. /\ s \in Seq(Tables) /\ 1 \in DOMAIN s /\ i \in DOMAIN s[1] /\ Order(place) /\ Permutes(s, d, wanted[r], place)
            /\ Shorter(s, t, i) /\ DOMAIN e = DOMAIN d \cup {i} /\ e[i] = s[1][i]
            /\ \A j \in DOMAIN d \ {i} : e[j] = d[j]
        BY <1>1, <1>2, <2>1, <3>2, <3>3, <4>1
      <4>3. Permutes(t, e, wanted[r], place)
        BY <3>2, <4>2, PermuteOn
      <4>. QED
        BY <4>1, <4>3
    <3>. QED
      BY <3>1, <3>4
  <2>. QED
    BY <1>2, <1>7, <2>5 DEF Alone
<1>. QED
  BY <1>2, <1>5, <1>6, <1>7 DEF OnListing

\* A deletion reads statements that are right for the rows it sees.
LEMMA ReadAlone ==
  ASSUME TypeInv, UniqueInv, NEW r \in Requests, ReadRest(r)
  PROVE  Alone(r)'
<1>1. Types /\ Stage(r) /\ Left(r) = Standing(Seen(r)) /\ Unique(Seen(r))
  BY Orders DEF UniqueInv
<1>2. kind'[r] = "delete" /\ draft' = draft /\ place' = place
  BY <1>1 DEF ReadRest, Stage, reqVars
<1> DEFINE f == Seen(r)
           s == Closing(r)
           m == Moved(r)
<1>3. todo'[r] = s
  BY <1>1, ReadRestFacts DEF Types
<1>4. /\ \A k \in DOMAIN s :
           /\ m[k] \in Astray(r) /\ DOMAIN s[k] = {m[k]} /\ s[k][m[k]] = Final(r)[m[k]]
      /\ \A i \in Astray(r) : \E k \in DOMAIN s : m[k] = i
      /\ \A k, l \in DOMAIN s : k < l => f[m[k]] < f[m[l]]
  BY <1>1, ReadRestFacts
<1>5. \A i \in Standing(f) : Final(r)[i] = Spot(f, i)
  BY <1>1, ReadFacts DEF Spot
<1>6. Astray(r) = {i \in Standing(f) : f[i] # Final(r)[i]}
  BY <1>1 DEF Astray
<1>7. f = Seen(r)'
  BY <1>2 DEF Seen
<1> HIDE DEF f, s, m
<1>8. \A k \in DOMAIN s : \A i \in DOMAIN s[k] :
        i \in Standing(f) /\ DOMAIN s[k] = {i} /\ s[k][i] = Spot(f, i)
  <2> SUFFICES ASSUME NEW k \in DOMAIN s, NEW i \in DOMAIN s[k]
               PROVE  i \in Standing(f) /\ DOMAIN s[k] = {i} /\ s[k][i] = Spot(f, i)
    OBVIOUS
  <2>1. m[k] \in Astray(r) /\ DOMAIN s[k] = {m[k]} /\ s[k][m[k]] = Final(r)[m[k]]
    BY <1>4
  <2>2. i = m[k]
    BY <2>1
  <2>. QED
    BY <1>5, <1>6, <2>1, <2>2
<1>9. \A k, l \in DOMAIN s : \A i \in DOMAIN s[k], j \in DOMAIN s[l] : k < l => f[i] < f[j]
  <2> SUFFICES ASSUME NEW k \in DOMAIN s, NEW l \in DOMAIN s, NEW i \in DOMAIN s[k], NEW j \in DOMAIN s[l], k < l
               PROVE  f[i] < f[j]
    OBVIOUS
  <2>1. DOMAIN s[k] = {m[k]} /\ DOMAIN s[l] = {m[l]} /\ f[m[k]] < f[m[l]]
    BY <1>4
  <2>2. i = m[k] /\ j = m[l]
    BY <2>1
  <2>. QED
    BY <2>1, <2>2
<1>10. \A j \in Standing(f) : f[j] = Spot(f, j) \/ \E k \in DOMAIN s : j \in DOMAIN s[k]
  BY <1>4, <1>5, <1>6, ZenonT(60)
<1>11. Shifts(s, f)
  BY <1>8, <1>9, <1>10 DEF Shifts
<1>. QED
  BY <1>2, <1>3, <1>7, <1>11 DEF Alone

\* A request at work that runs alone goes on being right for the rows it sees.
LEMMA WorksAlone ==
  ASSUME TypeInv, UniqueInv, RowInv, NEW r \in Requests, Works(r), Alone(r)
  PROVE  Alone(r)'
<1>1. Types /\ Stage(r)
  BY DEF TypeInv
<1>2. CASE PutObject(r)
  <2>1. /\ kind' = kind /\ todo' = todo /\ draft' = draft /\ place' = place
        /\ pc[r] = "put" /\ kind[r] \in {"upload", "set"}
    BY <1>1, <1>2 DEF PutObject, Stage, reqVars
  <2>2. Rows' = Rows
    BY <2>1 DEF Rows
  <2>3. Cardinality(Rows') = Cardinality(Rows)
    BY <2>2
  <2>. QED
    BY <2>1, <2>3 DEF Alone
<1>3. CASE Clean(r)
  <2>1. pc'[r] = "failed"
    BY <1>1, <1>3 DEF Clean, Types
  <2>. QED
    BY <2>1 DEF Alone
<1>4. CASE Gives(r)
  <2>1. pc'[r] \in {"clean", "failed"}
    BY <1>4, GivesFacts
  <2>. QED
    BY <2>1 DEF Alone
<1>. QED
  BY <1>2, <1>3, <1>4, WriteAlone, ReadAlone DEF Works

\* What a request that ran alone commits
LEMMA AloneCommits ==
  ASSUME TypeInv, UniqueInv, RowInv, NEW r \in Requests, Apply(r), Alone(r),
         kind[r] \in OnListing, kind[r] = "upload" => Contiguous(place)
  PROVE  Contiguous(place')
<1>1. /\ Types /\ Stage(r) /\ Rows = Standing(place)
      /\ Order(place) /\ Order(Seen(r)) /\ Seen(r) = Merged(draft[r], place)
  BY Orders
<1>2. pc[r] = "commit" /\ todo[r] = <<>> /\ place' = Seen(r) /\ draft[r] \in Tables
  BY <1>1 DEF Apply, Stage, Types
<1>3. CASE kind[r] = "upload"
  <2>1. Appends(r, <<>>, draft[r], Cardinality(Standing(place)))
    BY <1>1, <1>2, <1>3 DEF Alone
  <2>2. DOMAIN draft[r] \cap Standing(place) = {}
    <3>1. \A i \in DOMAIN draft[r] : image[i] = "none"
      BY <1>3, CommitFacts
    <3>2. \A i \in Standing(place) : image[i] = "live"
      BY <1>1 DEF RowInv
    <3>. QED
      BY <3>1, <3>2
  <2>3. Contiguous(Merged(draft[r], place))
    BY <1>1, <1>2, <1>3, <2>1, <2>2, AppendEnd
  <2>. QED
    BY <1>1, <1>2, <2>3
<1>4. CASE kind[r] = "delete"
  <2>1. Shifts(<<>>, Seen(r))
    BY <1>2, <1>4 DEF Alone
  <2>2. \A i \in Standing(Seen(r)) : Seen(r)[i] = Spot(Seen(r), i)
    BY <2>1 DEF Shifts
  <2>3. Contiguous(Seen(r))
    BY <1>1, <2>2, Settled
  <2>. QED
    BY <1>2, <2>3
<1>5. CASE kind[r] = "reorder"
  <2>1. Permutes(<<>>, draft[r], wanted[r], place)
    BY <1>2, <1>5 DEF Alone
  <2>2. Contiguous(Merged(draft[r], place))
    BY <1>1, <2>1, PermuteEnd
  <2>. QED
    BY <1>1, <1>2, <2>2
<1>. QED
  BY <1>3, <1>4, <1>5 DEF OnListing

\* Every step leaves a request that runs alone right, and the table without gaps if none overlapped.
LEMMA StepAlone ==
  ASSUME TypeInv, UniqueInv, RowInv, BusyInv, AloneInv, [Next]_vars
  PROVE  AloneInv'
<1>1. ASSUME NEW r \in Requests, Starts(r) \/ Works(r) \/ Ends(r) PROVE AloneInv'
  <2>1. overlapped \subseteq overlapped' /\ (~Starts(r) => overlapped' = overlapped)
    BY <1>1, OverlappedGrows
  <2>2. ASSUME r \notin overlapped' PROVE Alone(r)'
    <3>1. Alone(r)
      BY <2>1, <2>2 DEF AloneInv
    <3>2. CASE Ends(r)
      <4>1. pc'[r] \in {"done", "clean", "failed"}
        BY <3>2, EndsFacts
      <4>. QED
        BY <4>1 DEF Alone
    <3>. QED
      BY <1>1, <3>1, <3>2, StartsAlone, WorksAlone
  <2>3. ASSUME NEW q \in Requests \ {r}, q \notin overlapped' PROVE Alone(q)'
    <3>1. Alone(q)
      BY <2>1, <2>3 DEF AloneInv
    <3>. QED
      BY <1>1, <2>3, <3>1, OthersAlone
  <2>4. ASSUME overlapped' = {} PROVE Contiguous(place)'
    <3>1. overlapped = {} /\ Contiguous(place) /\ Alone(r)
      BY <2>1, <2>4 DEF AloneInv
    <3>2. CASE Starts(r)
      <4>1. place' = place
        BY <3>2, StartsFacts DEF StartFacts
      <4>. QED
        BY <3>1, <4>1
    <3>3. CASE Works(r)
      <4>1. place' = place
        BY <3>3, WorksFacts
      <4>. QED
        BY <3>1, <4>1
    <3>4. CASE Ends(r)
      <4>1. Apply(r) /\ place' = Seen(r)
        BY <3>4, EndsFacts DEF Apply
      <4>2. kind[r] \in OnListing => Contiguous(place')
        BY <3>1, <4>1, AloneCommits
      <4>3. kind[r] \notin OnListing => place' = place
        BY <4>1, SeenFacts DEF TypeInv, Stage
      <4>. QED
        BY <3>1, <4>2, <4>3
    <3>. QED
      BY <1>1, <3>2, <3>3, <3>4
  <2>. QED
    BY <2>2, <2>3, <2>4 DEF AloneInv
<1>2. CASE UNCHANGED vars
  <2>1. UNCHANGED <<place, kind, pc, todo, draft, wanted, overlapped>>
    BY <1>2 DEF vars, reqVars, history
  <2>2. Rows' = Rows /\ \A r \in Requests : Seen(r)' = Seen(r)
    BY <2>1 DEF Rows, Seen
  <2>3. Cardinality(Rows') = Cardinality(Rows)
    BY <2>2
  <2>4. \A r \in Requests \ overlapped' : Alone(r)'
    BY <2>1, <2>2, <2>3 DEF AloneInv, Alone
  <2>. QED
    BY <2>1, <2>4 DEF AloneInv
<1>. QED
  BY <1>1, <1>2, Steps DEF Ends

\* A request that runs alone is refused only if it is no deletion and the table already has gaps.
LEMMA RefuseAlone ==
  ASSUME TypeInv, UniqueInv, NEW r \in Requests, NEW i \in Images, Refuse(r, i), Alone(r)
  PROVE  kind[r] # "delete" /\ ~Contiguous(place)
<1>1. /\ Types /\ Stage(r) /\ Rows = Standing(place)
      /\ Order(place) /\ Order(Seen(r)) /\ Seen(r) = Merged(draft[r], place)
  BY Orders
<1>2. pc[r] = "write" /\ i \in DOMAIN Head(todo[r]) /\ Taken(r, i, Head(todo[r])[i])
  BY DEF Refuse
<1>3. /\ todo[r] \in Seq(Tables) /\ Head(todo[r]) = todo[r][1] /\ 1 \in DOMAIN todo[r]
      /\ kind[r] \in OnListing /\ draft[r] \in Tables
  <2>1. todo[r] \in Seq(Tables) /\ todo[r] # <<>> /\ kind[r] \in OnListing /\ draft[r] \in Tables
    BY <1>1, <1>2 DEF Types, Stage
  <2>. QED
    BY <2>1
<1> DEFINE p == todo[r][1][i]
<1>4. i \in DOMAIN todo[r][1] /\ p # NoPlace /\ p \in Places
  <2>1. todo[r][1] \in Tables
    BY <1>3
  <2>. QED
    BY <1>2, <1>3, <2>1, TableFacts DEF Taken
<1>5. PICK j \in Images \ {i} : Seen(r)[j] = p
  BY <1>2, <1>3 DEF Taken
<1>6. kind[r] # "delete"
  <2> SUFFICES ASSUME kind[r] = "delete" PROVE FALSE
    OBVIOUS
  <2>1. Renumbering(todo[r])
    <3>1. ASSUME NEW x \in Images, todo[r] = <<Given(x, NoPlace)>> PROVE FALSE
      BY <1>4, <3>1 DEF Given
    <3>. QED
      BY <1>1, <3>1 DEF Stage
  <2>2. Shifts(todo[r], Seen(r))
    BY <1>2, <2>1 DEF Alone
  <2> DEFINE g == [Seen(r) EXCEPT ![i] = p]
  <2>3. g \in [Images -> Places] /\ g[i] = p /\ \A x \in Images \ {i} : g[x] = Seen(r)[x]
    BY <1>1, <1>4 DEF Order
  <2> HIDE DEF g
  <2>4. \A x \in Images \ {i} : Seen(r)[x] # p
    BY <1>1, <1>3, <1>4, <2>2, <2>3, ShiftFirst
  <2>. QED
    BY <1>5, <2>4
<1>7. ASSUME Contiguous(place) PROVE FALSE
  <2>1. CASE kind[r] = "upload"
    <3>1. Appends(r, todo[r], draft[r], Cardinality(Standing(place)))
      BY <1>1, <1>2, <2>1 DEF Alone
    <3>2. Merged(draft[r], place)[j] # p
      BY <1>1, <1>3, <1>4, <1>7, <3>1, AppendFree
    <3>. QED
      BY <1>1, <1>5, <3>2
  <2>2. CASE kind[r] = "reorder"
    <3>1. Permutes(todo[r], draft[r], wanted[r], place)
      BY <1>2, <2>2 DEF Alone
    <3>2. Merged(draft[r], place)[j] # p
      BY <1>1, <1>3, <1>4, <1>7, <3>1, PermuteFree
    <3>. QED
      BY <1>1, <1>5, <3>2
  <2>. QED
    BY <1>3, <1>6, <2>1, <2>2 DEF OnListing
<1>. QED
  BY <1>6, <1>7

\* Every step leaves a refusal explained by requests that overlapped.
LEMMA StepRefused ==
  ASSUME TypeInv, UniqueInv, RowInv, AloneInv, RefusedInv, [Next]_vars
  PROVE  RefusedInv'
<1>1. ASSUME NEW r \in Requests, Starts(r) \/ Works(r) \/ Ends(r) PROVE RefusedInv'
  <2>1. overlapped \subseteq overlapped' /\ \A q \in Requests \ {r} : kind'[q] = kind[q]
    BY <1>1, OverlappedGrows, Elsewhere
  <2>2. kind'[r] = kind[r] \/ (Starts(r) /\ kind[r] = "none")
    <3>1. Starts(r) => kind[r] = "none"
      BY StartsFacts DEF StartFacts
    <3>2. Works(r) => kind' = kind
      BY WorksFacts
    <3>3. Ends(r) => kind' = kind
      BY DEF Ends, Commit, CommitUnanswered, Apply, reqVars
    <3>. QED
      BY <1>1, <3>1, <3>2, <3>3
  <2>3. ASSUME NEW q \in refused
        PROVE  kind'[q] # "none" /\ overlapped' # {} /\ (kind'[q] = "delete" => q \in overlapped')
    <3>1. /\ q \in Requests /\ kind[q] # "none" /\ overlapped # {}
          /\ kind[q] = "delete" => q \in overlapped
      BY DEF RefusedInv, TypeInv, Types
    <3>2. kind'[q] = kind[q]
      BY <2>1, <2>2, <3>1
    <3>. QED
      BY <2>1, <3>1, <3>2
  <2>4. CASE refused' = refused
    BY <2>3, <2>4 DEF RefusedInv
  <2>5. ASSUME NEW i \in Images, Refuse(r, i) PROVE RefusedInv'
    <3>1. refused' = refused \cup {r} /\ kind' = kind /\ overlapped' = overlapped
      BY <2>5 DEF Refuse, GiveUp, reqVars
    <3>2. kind[r] # "none"
      BY <2>5 DEF Refuse, TypeInv, Stage
    <3>3. r \in overlapped \/ (kind[r] # "delete" /\ ~Contiguous(place))
      BY <2>5, RefuseAlone DEF AloneInv
    <3>4. overlapped # {}
      BY <3>3 DEF AloneInv
    <3>. QED
      BY <2>3, <3>1, <3>2, <3>3, <3>4 DEF RefusedInv
  <2>6. refused' = refused \/ \E i \in Images : Refuse(r, i)
    <3>1. Starts(r) => refused' = refused
      BY StartsFacts DEF StartFacts
    <3>2. Ends(r) => refused' = refused
      BY DEF Ends, Commit, CommitUnanswered, Apply
    <3>3. Works(r) => refused' = refused \/ \E i \in Images : Refuse(r, i)
      BY DEF Works, Gives, PutObject, Clean, ReadRest, Write, PutFails, DatabaseFails, Die, history
    <3>. QED
      BY <1>1, <3>1, <3>2, <3>3
  <2>. QED
    BY <2>4, <2>5, <2>6
<1>2. CASE UNCHANGED vars
  BY <1>2 DEF vars, reqVars, history, RefusedInv
<1>. QED
  BY <1>1, <1>2, Steps DEF Ends
-----------------------------------------------------------------------------
(* The theorems                                                            *)

Inv == TypeInv /\ UniqueInv /\ RowInv /\ PresentInv /\ ObjectInv /\ OrphanInv /\ ReorderInv
       /\ BusyInv /\ AloneInv /\ RefusedInv

\* The initial states satisfy the invariant.
LEMMA InitInv == Init => Inv
<1> SUFFICES ASSUME Init PROVE Inv
  OBVIOUS
<1> DEFINE n == Cardinality(Posted)
<1>1. PICK f \in Bijection(Posted, 0 .. n - 1) :
        place = [i \in Images |-> IF i \in Posted THEN f[i] ELSE NoPlace]
  BY DEF Init
<1>2. /\ n \in Nat /\ f \in [Posted -> 0 .. n - 1]
      /\ \A i, j \in Posted : f[i] = f[j] => i = j
  BY ImagesAssumption, FS_CardinalityType DEF Bijection, Injection, IsInjective
<1>3. Posted \subseteq Images
  BY DEF Images
<1> HIDE DEF n
<1>4. \A i \in Posted : f[i] \in Nat /\ f[i] # NoPlace
  BY <1>2 DEF NoPlace
<1>5. place \in [Images -> Places] /\ Rows = Posted /\ IsFiniteSet(Rows) /\ Unique(place)
  <2>1. place \in [Images -> Places]
    BY <1>1, <1>4 DEF Places
  <2>2. Rows = Posted
    BY <1>1, <1>3, <1>4 DEF Rows
  <2>3. Unique(place)
    BY <1>1, <1>2 DEF Unique
  <2>. QED
    BY <2>1, <2>2, <2>3, ImagesAssumption
<1>6. <<>> \in Tables /\ DOMAIN <<>> = {} /\ IsFiniteSet({}) /\ <<>> \in Seq(Tables) /\ <<>> \in Seq(Images)
  BY EmptyTable, FS_EmptySet
<1>7. Types
  BY <1>3, <1>5, <1>6 DEF Types, Init, Kinds
<1>8. \A r \in Requests : Stage(r)
  BY <1>6 DEF Stage, Init, OnListing, Renumbering
<1>9. TypeInv
  BY <1>7, <1>8 DEF TypeInv
<1>10. \A r \in Requests : draft[r] = <<>> /\ DOMAIN draft[r] = {} /\ todo[r] = <<>> /\ Seen(r) = place
  <2>1. \A r \in Requests : draft[r] = <<>> /\ todo[r] = <<>>
    BY DEF Init
  <2>. QED
    BY <1>6, <1>7, <2>1, SeenFacts
<1>11. UniqueInv
  BY <1>5, <1>10 DEF UniqueInv, Unique
<1>12. PresentInv /\ ReorderInv
  BY <1>10 DEF PresentInv, ReorderInv, Ordered, Init
<1>13. \A r \in Requests : \A i \in Own(r) : image[i] = "none" /\ i \notin objects
  BY OwnImages DEF Init
<1>14. RowInv
  <2>1. \A i \in Rows : image[i] = "live" /\ Listed(i)
    BY <1>3, <1>5 DEF Init, Listed
  <2>. QED
    BY <1>13, <2>1 DEF RowInv, Init
<1>15. ObjectInv /\ OrphanInv
  <2>1. \A r \in Requests : Objects(r) /\ Orphans(r)
    BY <1>13 DEF Objects, Orphans, Init
  <2>. QED
    BY <2>1 DEF ObjectInv, OrphanInv, Init
<1>16. Contiguous(place)
  <2>1. {place[i] : i \in Images} \ {NoPlace} = 0 .. n - 1
    <3>1. \A v \in 0 .. n - 1 : v # NoPlace /\ \E i \in Posted : f[i] = v
      BY <1>1, <1>2 DEF Bijection, Surjection, NoPlace
    <3>2. \A i \in Images : place[i] = IF i \in Posted THEN f[i] ELSE NoPlace
      BY <1>1
    <3>. QED
      BY <1>2, <1>3, <1>4, <3>1, <3>2
  <2>. QED
    BY <1>2, <2>1, ContiguousTo
<1>17. BusyInv /\ AloneInv /\ RefusedInv
  <2>1. \A r \in Requests : kind[r] = "none" /\ pc[r] = "new"
    BY DEF Init
  <2>2. refused = {}
    BY DEF Init
  <2>. QED
    BY <1>16, <2>1, <2>2 DEF BusyInv, Busy, OnListing, AloneInv, Alone, RefusedInv
<1>. QED
  BY <1>9, <1>11, <1>12, <1>14, <1>15, <1>17 DEF Inv

\* Every step keeps the invariant.
LEMMA StepInv == Inv /\ [Next]_vars => Inv'
<1> SUFFICES ASSUME Inv, [Next]_vars PROVE Inv'
  OBVIOUS
<1>1. TypeInv' /\ UniqueInv' /\ RowInv' /\ PresentInv' /\ ObjectInv' /\ OrphanInv' /\ ReorderInv'
  BY StepTypes, StepUnique, StepRows, StepPresent, StepObjects, StepOrdered DEF Inv
<1>2. BusyInv' /\ AloneInv' /\ RefusedInv'
  BY StepBusy, StepAlone, StepRefused DEF Inv
<1>. QED
  BY <1>1, <1>2 DEF Inv

\* The invariant holds in every state.
LEMMA Invariant == Spec => []Inv
  BY InitInv, StepInv, PTL DEF Spec

\* The invariant gives the type invariant the run checks.
LEMMA InvTypeOK == TypeInv /\ UniqueInv => TypeOK
<1> SUFFICES ASSUME TypeInv, UniqueInv PROVE TypeOK
  OBVIOUS
<1>1. Types
  BY DEF TypeInv
<1>2. ASSUME NEW r \in Requests
      PROVE  /\ DOMAIN draft[r] \subseteq Images
             /\ \A i \in DOMAIN draft[r] : draft[r][i] \in Nat \cup {NoPlace}
             /\ pc[r] \notin Running \ {"clean"} => draft[r] = <<>> /\ todo[r] = <<>>
  <2>1. DOMAIN draft[r] \subseteq Images /\ \A i \in DOMAIN draft[r] : draft[r][i] \in Nat \cup {NoPlace}
    BY <1>1, SeenFacts DEF Places
  <2>. QED
    BY <2>1 DEF TypeInv, Stage, Running
<1>. QED
  BY <1>1, <1>2 DEF TypeOK, Types, UniqueInv, Unique, Places, Kinds

\* Every variable has its type, no two rows of listing_images have one sort_order, and
\* what a transaction has written is gone when the request is over.
THEOREM ImagesTypeCorrect == Spec => []TypeOK
<1>1. Inv => TypeOK
  BY InvTypeOK DEF Inv
<1>. QED
  BY <1>1, Invariant, PTL

\* The listing's rows and the avatar refer to live images whose object can be downloaded,
\* but for those of a request that cleaned up after an unanswered commit.
THEOREM RowsKeepObjects == Spec => []RowsHaveObjects
<1>1. ASSUME Inv PROVE RowsHaveObjects
  <2> DEFINE doubtful == UNION {{r} \X Files[r] : r \in unanswered}
  <2>1. ASSUME NEW r \in Requests, NEW i \in Own(r), image[i] = "live"
        PROVE  i \in doubtful \/ i \in objects
    BY <1>1, <2>1 DEF Inv, ObjectInv, Objects, Own
  <2>2. ASSUME NEW i \in Rows PROVE image[i] = "live" /\ (i \in doubtful \/ Downloadable(i))
    <3>1. image[i] = "live" /\ Listed(i)
      BY <1>1 DEF Inv, RowInv
    <3>2. i \in doubtful \/ i \in objects
      BY <1>1, <2>1, <3>1 DEF Listed, Inv, ObjectInv
    <3>. QED
      BY <3>1, <3>2 DEF Downloadable
  <2>3. ASSUME avatar # NoImage
        PROVE  image[avatar] = "live" /\ (avatar \in doubtful \/ AvatarDownloadable)
    <3>1. image[avatar] = "live" /\ Worn(avatar)
      BY <1>1, <2>3 DEF Inv, RowInv
    <3>2. \E r \in Requests : avatar \in Own(r)
      BY <3>1, OwnImages DEF Worn
    <3>3. avatar \in doubtful \/ avatar \in objects
      BY <2>1, <3>1, <3>2
    <3>. QED
      BY <2>3, <3>1, <3>3 DEF AvatarDownloadable
  <2>. QED
    BY <2>2, <2>3 DEF RowsHaveObjects
<1>. QED
  BY <1>1, Invariant, PTL

\* An object without a row belongs to a request that still runs, whatever failed, unless a
\* death, a failed clean-up or S3 itself left it.
THEOREM NoOrphans == Spec => []NoOrphanObject
<1>1. ASSUME Inv PROVE NoOrphanObject
  <2>1. \A r \in Requests : \A k \in Files[r] : <<r, k>> \in Own(r)
    BY OwnImages
  <2>2. \A r \in Requests : \A i \in Own(r) :
          i \in objects \ strays /\ image[i] = "none" => pc[r] \in Running
    BY <1>1 DEF Inv, OrphanInv, Orphans
  <2>. QED
    BY <2>1, <2>2 DEF NoOrphanObject
<1>. QED
  BY <1>1, Invariant, PTL

\* The unique constraint refuses nobody before requests on the listing have run beside each
\* other, and a deletion only when it did so itself.
THEOREM RefusalsAreRaces == Spec => []RefusedOnlyWhenRaced
<1>1. Inv => RefusedOnlyWhenRaced
  BY DEF Inv, RefusedInv, RefusedOnlyWhenRaced
<1>. QED
  BY <1>1, Invariant, PTL

\* A request goes from its commit to done by applying its transaction.
LEMMA CommitApplies ==
  ASSUME Inv, [Next]_vars, NEW r \in Requests, pc[r] = "commit", pc'[r] = "done"
  PROVE  Apply(r) /\ overlapped' = overlapped
<1>1. TypeInv /\ UniqueInv /\ RowInv
  BY DEF Inv
<1>2. PICK q \in Requests : Starts(q) \/ Works(q) \/ Ends(q)
  <2>1. pc' # pc
    OBVIOUS
  <2>2. ~UNCHANGED vars
    BY <2>1 DEF vars
  <2>. QED
    BY <2>2, Steps DEF Ends
<1>3. q = r
  BY <1>1, <1>2, Elsewhere
<1>4. ~Starts(r) /\ ~Works(r)
  BY <1>1, StartsFacts, WorksFacts DEF StartFacts
<1>. QED
  BY <1>1, <1>2, <1>3, <1>4, EndsFacts, OverlappedGrows

\* What a reordering that commits asked for
LEMMA CommitOrdered ==
  ASSUME Inv, [Next]_vars, NEW r \in Requests, pc[r] = "commit", pc'[r] = "done",
         NEW k \in DOMAIN wanted[r]
  PROVE  place'[wanted[r][k]] \in {k - 1, NoPlace}
<1>1. TypeInv /\ Types /\ Stage(r) /\ Ordered(r)
  BY DEF Inv, TypeInv, ReorderInv
<1>5. Apply(r)
  BY CommitApplies
<1>6. wanted[r] # <<>> /\ kind[r] = "reorder" /\ todo[r] = <<>>
  BY <1>1 DEF Stage
<1>7. Granted(r, wanted[r][k], k - 1) /\ wanted[r][k] \in Images
  BY <1>1, <1>6 DEF Ordered
<1>8. /\ \A i \in DOMAIN draft[r] : place'[i] = draft[r][i]
      /\ \A i \in Images \ DOMAIN draft[r] : place'[i] = place[i]
  BY <1>1, <1>5, ApplyFacts
<1>. QED
  BY <1>6, <1>7, <1>8 DEF Granted

\* A reordering that commits leaves each image where it asked for it, or the image is gone.
THEOREM ReorderingsTakeEffect == Spec => ReorderTakesEffect
<1>1. ASSUME Inv, [Next]_vars
      PROVE  [\A r \in Requests : pc[r] = "commit" /\ pc'[r] = "done" =>
                \A k \in DOMAIN wanted[r] : place'[wanted[r][k]] \in {k - 1, NoPlace}]_vars
  BY <1>1, CommitOrdered
<1>. QED
  BY <1>1, Invariant, PTL DEF ReorderTakesEffect, Spec

\* A deletion or a reordering that ran alone commits places without gaps, whatever it found,
\* and so does an upload that found them so.
THEOREM RepairsStand == Spec => RepairedAlone
<1>1. ASSUME Inv, [Next]_vars, NEW r \in Requests \ overlapped',
             pc[r] = "commit", pc'[r] = "done", kind[r] \in OnListing,
             kind[r] = "upload" => Contiguous(place)
      PROVE  Contiguous(place')
  <2>1. Apply(r) /\ overlapped' = overlapped
    BY <1>1, CommitApplies
  <2>2. TypeInv /\ UniqueInv /\ RowInv /\ Alone(r)
    BY <1>1, <2>1 DEF Inv, AloneInv
  <2>. QED
    BY <1>1, <2>1, <2>2, AloneCommits
<1>2. ASSUME Inv, [Next]_vars
      PROVE  [\A r \in Requests \ overlapped' :
                /\ pc[r] = "commit" /\ pc'[r] = "done" /\ kind[r] \in OnListing
                /\ kind[r] = "upload" => Contiguous(place)
                => Contiguous(place')]_vars
  BY <1>1, <1>2
<1>. QED
  BY <1>2, Invariant, PTL DEF RepairedAlone, Spec
=============================================================================
