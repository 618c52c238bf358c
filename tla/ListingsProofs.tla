--------------------------- MODULE ListingsProofs ---------------------------
(***************************************************************************)
(* Proofs about Pages, for any rows, limits and changes, and about         *)
(* Filters, for any definitions and requests.                              *)
(***************************************************************************)
EXTENDS Pages, Filters, FiniteSetTheorems, TLAPS

-----------------------------------------------------------------------------
(* Pages: the order of a list                                              *)

Cursors == Ranks \X Values \X Rows

\* A cursor has three numbers, and is not the absence of one.
LEMMA CursorParts ==
  ASSUME NEW c \in Cursors
  PROVE  c[1] \in Nat /\ c[2] \in Nat /\ c[3] \in Nat /\ c = <<c[1], c[2], c[3]>> /\ c # NoCursor
<1>1. PICK x \in Ranks, y \in Values, z \in Rows : c = <<x, y, z>>
  BY DEF Cursors
<1>2. x \in Nat /\ y \in Nat /\ z \in Nat
  BY PagesAssumption
<1>3. <<x, y, z>> # <<>>
  <2>1. 1 \in DOMAIN <<x, y, z>> /\ 1 \notin DOMAIN <<>>
    OBVIOUS
  <2>. QED
    BY <2>1
<1>. QED
  BY <1>1, <1>2, <1>3 DEF NoCursor

\* The sort key of a row is a cursor, and ends in the row.
LEMMA KeyIsCursor ==
  ASSUME TypeOK, NEW r \in Rows
  PROVE  Key(r) \in Cursors /\ Key(r)[3] = r
  BY DEF TypeOK, Key, Cursors

\* The cursors are in a strict order, one after another.
LEMMA AheadIrreflexive == \A a \in Cursors : ~Ahead(a, a)
  BY CursorParts DEF Ahead

\* Being ahead is transitive.
LEMMA AheadTransitive ==
  \A a, b, c \in Cursors : Ahead(a, b) /\ Ahead(b, c) => Ahead(a, c)
  BY CursorParts DEF Ahead

\* Of two different keys one is ahead: the row breaks every tie.
LEMMA AheadTotal ==
  \A a, b \in Cursors : a = b \/ Ahead(a, b) \/ Ahead(b, a)
<1> SUFFICES ASSUME NEW a \in Cursors, NEW b \in Cursors, ~Ahead(a, b), ~Ahead(b, a)
             PROVE  a = b
  OBVIOUS
<1>1. a[1] \in Nat /\ a[2] \in Nat /\ a[3] \in Nat /\ b[1] \in Nat /\ b[2] \in Nat /\ b[3] \in Nat
  BY CursorParts
<1>2. a[1] = b[1]
  BY <1>1 DEF Ahead
<1>3. a[2] = b[2]
  BY <1>1, <1>2 DEF Ahead
<1>4. a[3] = b[3]
  BY <1>1, <1>2, <1>3 DEF Ahead
<1>. QED
  BY <1>2, <1>3, <1>4, CursorParts

\* How many rows of S are ahead of r
Position(S, r) == Cardinality({q \in S : Ahead(Key(q), Key(r))})

\* The rows of a set take the positions from 0, each one its own, in the order of their keys.
LEMMA Positions ==
  ASSUME TypeOK, NEW S \in SUBSET Rows
  PROVE  /\ IsFiniteSet(S) /\ Cardinality(S) \in Nat
         /\ \A r \in S : Position(S, r) \in 0 .. Cardinality(S) - 1
         /\ \A q, r \in S : Ahead(Key(q), Key(r)) => Position(S, q) < Position(S, r)
         /\ \A q, r \in S : Position(S, q) = Position(S, r) => q = r
         /\ \A k \in 0 .. Cardinality(S) - 1 : \E r \in S : Position(S, r) = k
<1> DEFINE n == Cardinality(S)
           Before(r) == {q \in S : Ahead(Key(q), Key(r))}
<1>1. IsFiniteSet(S) /\ n \in Nat
  BY PagesAssumption, FS_Subset, FS_CardinalityType
<1>2. \A T \in SUBSET S : IsFiniteSet(T) /\ Cardinality(T) \in Nat /\ Cardinality(T) <= n
  BY <1>1, FS_Subset, FS_CardinalityType
<1>3. ASSUME NEW T \in SUBSET S, NEW r \in T, NEW U \in SUBSET T, r \notin U
      PROVE  Cardinality(U) < Cardinality(T)
  <2>1. IsFiniteSet(T \ {r}) /\ Cardinality(T \ {r}) = Cardinality(T) - 1
    BY <1>2, FS_RemoveElement
  <2>2. U \in SUBSET (T \ {r})
    BY <1>3
  <2>3. Cardinality(U) <= Cardinality(T \ {r})
    BY <2>1, <2>2, FS_Subset
  <2>4. Cardinality(U) \in Nat /\ Cardinality(T) \in Nat
    BY <1>2, <1>3
  <2>. QED
    BY <2>1, <2>3, <2>4
<1>4. \A r \in S : Position(S, r) = Cardinality(Before(r)) /\ Position(S, r) \in Nat
  BY <1>2 DEF Position
<1>5. \A r \in S : Key(r) \in Cursors /\ Key(r)[3] = r
  BY KeyIsCursor
<1>6. ASSUME NEW r \in S PROVE Position(S, r) \in 0 .. n - 1
  <2>1. Before(r) \in SUBSET S /\ r \notin Before(r)
    BY <1>5, AheadIrreflexive
  <2>2. Cardinality(Before(r)) < Cardinality(S)
    BY <1>3, <2>1
  <2>. QED
    BY <1>1, <1>4, <2>2
<1>7. ASSUME NEW q \in S, NEW r \in S, Ahead(Key(q), Key(r))
      PROVE  Position(S, q) < Position(S, r)
  <2>1. q \in Before(r) /\ q \notin Before(q)
    BY <1>5, <1>7, AheadIrreflexive
  <2>2. Before(q) \in SUBSET Before(r) /\ Before(r) \in SUBSET S
    <3>1. ASSUME NEW x \in S, Ahead(Key(x), Key(q)) PROVE Ahead(Key(x), Key(r))
      BY <1>5, <1>7, <3>1, AheadTransitive
    <3>. QED
      BY <3>1
  <2>. QED
    BY <1>3, <1>4, <2>1, <2>2
<1>8. ASSUME NEW q \in S, NEW r \in S, Position(S, q) = Position(S, r)
      PROVE  q = r
  <2>1. Key(q) = Key(r) \/ Ahead(Key(q), Key(r)) \/ Ahead(Key(r), Key(q))
    BY <1>5, AheadTotal
  <2>2. ~Ahead(Key(q), Key(r)) /\ ~Ahead(Key(r), Key(q))
    <3>1. PICK x \in Nat : x = Position(S, q) /\ x = Position(S, r)
      BY <1>4, <1>8
    <3>2. ~(x < x)
      OBVIOUS
    <3>. QED
      BY <1>7, <3>1, <3>2
  <2>3. Key(q) = Key(r)
    BY <2>1, <2>2
  <2>. QED
    BY <1>5, <2>3
<1>9. ASSUME NEW k \in 0 .. n - 1 PROVE \E r \in S : Position(S, r) = k
  <2> SUFFICES ASSUME \A r \in S : Position(S, r) # k PROVE FALSE
    OBVIOUS
  <2> DEFINE T == (0 .. n - 1) \ {k}
             g == [r \in S |-> Position(S, r)]
  <2>1. g \in [S -> T]
    BY <1>6
  <2>2. IsFiniteSet(0 .. n - 1) /\ Cardinality(0 .. n - 1) = n
    BY <1>1, FS_Interval
  <2>3. IsFiniteSet(T) /\ Cardinality(T) = n - 1
    BY <2>2, FS_RemoveElement
  <2>4. \E x, y \in S : x # y /\ g[x] = g[y]
    <3>1. Cardinality(T) < Cardinality(S)
      BY <1>1, <2>3
    <3> HIDE DEF T, g
    <3>. QED
      BY <1>1, <2>1, <2>3, <3>1, FS_PigeonHole
  <2>. QED
    BY <1>8, <2>4
<1>. QED
  BY <1>1, <1>6, <1>7, <1>8, <1>9

\* ORDER BY puts each row of S once, in the order of the list.
LEMMA SortedFacts ==
  ASSUME TypeOK, NEW S \in SUBSET Rows
  PROVE  /\ Cardinality(S) \in Nat
         /\ Sorted(S) \in [1 .. Cardinality(S) -> S] /\ Len(Sorted(S)) = Cardinality(S)
         /\ \A r \in S : \E k \in 1 .. Cardinality(S) : Sorted(S)[k] = r
         /\ \A k, l \in 1 .. Cardinality(S) : k < l => Ahead(Key(Sorted(S)[k]), Key(Sorted(S)[l]))
<1> DEFINE n == Cardinality(S)
           s == Sorted(S)
<1>1. n \in Nat
  BY Positions
<1>2. ASSUME NEW k \in 1 .. n PROVE s[k] \in S /\ Position(S, s[k]) = k - 1
  <2>1. k - 1 \in 0 .. n - 1
    BY <1>1
  <2>2. \E r \in S : Position(S, r) = k - 1
    BY <2>1, Positions
  <2>3. s[k] = CHOOSE r \in S : Position(S, r) = k - 1
    BY DEF Sorted, Position
  <2>. QED
    BY <2>2, <2>3
<1>3. s \in [1 .. n -> S]
  BY <1>2 DEF Sorted
<1>4. Len(s) = n
  BY <1>1, <1>3
<1>5. ASSUME NEW r \in S PROVE \E k \in 1 .. n : s[k] = r
  <2>1. Position(S, r) \in 0 .. n - 1
    BY Positions
  <2>2. Position(S, r) + 1 \in 1 .. n /\ (Position(S, r) + 1) - 1 = Position(S, r)
    BY <1>1, <2>1
  <2>3. Position(S, s[Position(S, r) + 1]) = Position(S, r) /\ s[Position(S, r) + 1] \in S
    BY <1>2, <2>2
  <2>. QED
    BY <2>2, <2>3, Positions
<1>6. ASSUME NEW k \in 1 .. n, NEW l \in 1 .. n, k < l PROVE Ahead(Key(s[k]), Key(s[l]))
  <2>1. s[k] \in S /\ s[l] \in S /\ Position(S, s[k]) = k - 1 /\ Position(S, s[l]) = l - 1
    BY <1>2
  <2>2. ~Ahead(Key(s[l]), Key(s[k]))
    <3>1. Ahead(Key(s[l]), Key(s[k])) => Position(S, s[l]) < Position(S, s[k])
      BY <2>1, Positions
    <3>. QED
      BY <1>6, <2>1, <3>1
  <2>3. Key(s[k]) # Key(s[l])
    <3>1. Key(s[k])[3] = s[k] /\ Key(s[l])[3] = s[l]
      BY <2>1, KeyIsCursor
    <3>2. s[k] # s[l]
      BY <1>6, <2>1
    <3>. QED
      BY <3>1, <3>2
  <2>4. Key(s[k]) \in Cursors /\ Key(s[l]) \in Cursors
    BY <2>1, KeyIsCursor
  <2>. QED
    BY <2>2, <2>3, <2>4, AheadTotal
<1>. QED
  BY <1>1, <1>3, <1>4, <1>5, <1>6

\* The rows a query with the cursor finds
Found == {r \in listed : PastCursor(r)}

\* A page has the rows past the cursor that come first, in order; a row it leaves out comes after a full page.
LEMMA PageFacts ==
  ASSUME TypeOK, NEW limit \in 1 .. MaxLimit
  PROVE  /\ Page(limit) \in Seq(Rows) /\ Len(Page(limit)) <= limit
         /\ \A k \in DOMAIN Page(limit) : Page(limit)[k] \in Found
         /\ \A k, l \in DOMAIN Page(limit) : k < l => Ahead(Key(Page(limit)[k]), Key(Page(limit)[l]))
         /\ \A r \in Found : \/ \E k \in DOMAIN Page(limit) : Page(limit)[k] = r
                             \/ /\ Len(Page(limit)) = limit
                                /\ Ahead(Key(Page(limit)[limit]), Key(r))
         /\ limit \in Nat \ {0}
<1> DEFINE n == Cardinality(Found)
           s == Sorted(Found)
           m == IF n < limit THEN n ELSE limit
           p == Page(limit)
<1>1. Found \in SUBSET Rows /\ limit \in Nat /\ limit >= 1
  <2>1. Found \subseteq listed /\ listed \subseteq Rows
    BY DEF Found, TypeOK
  <2>2. MaxLimit \in Nat
    BY PagesAssumption
  <2>. QED
    BY <2>1, <2>2
<1>2. /\ n \in Nat /\ s \in [1 .. n -> Found] /\ Len(s) = n
      /\ \A r \in Found : \E k \in 1 .. n : s[k] = r
      /\ \A k, l \in 1 .. n : k < l => Ahead(Key(s[k]), Key(s[l]))
  BY <1>1, SortedFacts
<1>3. p = SubSeq(s, 1, m)
  BY <1>2 DEF Page, Found
<1>4. m \in Nat /\ m <= n /\ m <= limit /\ (m < n => m = limit)
  BY <1>1, <1>2
<1> HIDE DEF n, s, m, p
<1>5. s \in Seq(Found)
  BY <1>2
<1>6. p \in Seq(Found) /\ Len(p) = m /\ DOMAIN p = 1 .. m /\ \A k \in 1 .. m : p[k] = s[k]
  BY <1>2, <1>3, <1>4, <1>5
<1>7. p \in Seq(Rows)
  BY <1>1, <1>6
<1>8. \A k \in DOMAIN p : p[k] \in Found
  BY <1>6
<1>9. \A k, l \in DOMAIN p : k < l => Ahead(Key(p[k]), Key(p[l]))
  BY <1>2, <1>4, <1>6
<1>10. ASSUME NEW r \in Found
       PROVE  \/ \E k \in DOMAIN p : p[k] = r
              \/ Len(p) = limit /\ Ahead(Key(p[limit]), Key(r))
  <2>1. PICK k \in 1 .. n : s[k] = r
    BY <1>2
  <2>2. CASE k <= m
    BY <1>4, <1>6, <2>1, <2>2
  <2>3. CASE m < k
    <3>1. m = limit /\ limit \in 1 .. n /\ limit < k
      BY <1>1, <1>2, <1>4, <2>3
    <3>2. p[limit] = s[limit]
      BY <1>1, <1>6, <3>1
    <3>. QED
      BY <1>2, <1>6, <2>1, <3>1, <3>2
  <2>. QED
    BY <1>4, <2>2, <2>3
<1>. QED
  BY <1>1, <1>4, <1>6, <1>7, <1>8, <1>9, <1>10 DEF p

-----------------------------------------------------------------------------
(* Pages: the walk                                                         *)

\* What the client was sent is not behind the cursor it goes on from.
BehindInv ==
  IF cursor = NoCursor
    THEN over \/ shown = <<>>
    ELSE ~over /\ \A i \in DOMAIN shown :
           shown[i] \in moved \/ Key(shown[i]) = cursor \/ Ahead(Key(shown[i]), cursor)

\* What was listed all the time, in its place, was sent or is past the cursor.
CoverInv ==
  \A r \in Rows \ (moved \cup missing) :
    /\ r \in listed
    /\ (over \/ cursor # NoCursor) => r \in Range(shown) \/ (~over /\ Ahead(cursor, Key(r)))

PagesInv == TypeOK /\ BehindInv /\ CoverInv /\ PagesInOrder

\* A reader that has asked for nothing has missed nothing.
LEMMA InitPages == Init => PagesInv
<1> SUFFICES ASSUME Init PROVE PagesInv
  OBVIOUS
<1>1. <<>> \in Seq(Rows) /\ DOMAIN <<>> = {}
  OBVIOUS
<1>2. rank \in [Rows -> Ranks] /\ 0 \in 0 .. MaxChanges
  BY PagesAssumption DEF Init
<1>. QED
  BY <1>1, <1>2 DEF Init, PagesInv, TypeOK, BehindInv, CoverInv, PagesInOrder

\* The next page keeps the invariant of the pages.
LEMMA FetchKeeps ==
  ASSUME PagesInv, NEW limit \in 1 .. MaxLimit, FetchPage(limit)
  PROVE  PagesInv'
<1> DEFINE p == Page(limit)
           s == shown \o p
           c == NextCursor(p, limit)
<1>1. TypeOK /\ BehindInv /\ CoverInv /\ PagesInOrder
  BY DEF PagesInv
<1>2. /\ ~over /\ shown' = s /\ cursor' = c /\ over' = (cursor' = NoCursor)
      /\ list' = list /\ rank' = rank /\ value' = value /\ listed' = listed /\ changes' = changes
      /\ moved' = moved /\ missing' = missing
  BY DEF FetchPage, rows
<1>3. /\ p \in Seq(Rows) /\ Len(p) <= limit /\ limit \in Nat \ {0}
      /\ \A k \in DOMAIN p : p[k] \in Found
      /\ \A k, l \in DOMAIN p : k < l => Ahead(Key(p[k]), Key(p[l]))
      /\ \A r \in Found : \/ \E k \in DOMAIN p : p[k] = r
                          \/ Len(p) = limit /\ Ahead(Key(p[limit]), Key(r))
  BY <1>1, PageFacts
<1>4. shown \in Seq(Rows) /\ (cursor = NoCursor \/ cursor \in Cursors)
  BY <1>1 DEF TypeOK, Cursors
<1>5. \A a, b : Ahead(a, b)' <=> Ahead(a, b)
  BY <1>2 DEF Ahead
<1>6. \A r : Key(r)' = Key(r)
  BY <1>2 DEF Key
<1>7. c = IF Len(p) = limit THEN Key(p[limit]) ELSE NoCursor
  BY DEF NextCursor, Last
<1> HIDE DEF p
<1>8. /\ s \in Seq(Rows) /\ Len(s) = Len(shown) + Len(p)
      /\ DOMAIN s = 1 .. Len(shown) + Len(p) /\ DOMAIN shown = 1 .. Len(shown) /\ DOMAIN p = 1 .. Len(p)
      /\ Len(shown) \in Nat /\ Len(p) \in Nat
      /\ \A i \in DOMAIN shown : s[i] = shown[i]
      /\ \A k \in DOMAIN p : s[Len(shown) + k] = p[k]
  BY <1>3, <1>4
<1> HIDE DEF s, c
<1>9. ASSUME NEW i \in DOMAIN s
      PROVE  \/ i \in DOMAIN shown /\ s[i] = shown[i]
             \/ \E k \in DOMAIN p : i = Len(shown) + k /\ s[i] = p[k]
  <2>1. CASE i <= Len(shown)
    BY <1>8, <2>1
  <2>2. CASE i > Len(shown)
    <3>1. i - Len(shown) \in DOMAIN p /\ i = Len(shown) + (i - Len(shown))
      BY <1>8, <2>2
    <3>. QED
      BY <1>8, <3>1
  <2>. QED
    BY <1>8, <2>1, <2>2
<1>10. \A r \in Rows : Key(r) \in Cursors
  BY <1>1, KeyIsCursor
<1>11. c # NoCursor => limit \in DOMAIN p /\ c = Key(p[limit]) /\ c \in Cursors /\ p[limit] \in Rows
  <2> SUFFICES ASSUME c # NoCursor
               PROVE  limit \in DOMAIN p /\ c = Key(p[limit]) /\ c \in Cursors /\ p[limit] \in Rows
    OBVIOUS
  <2>1. Len(p) = limit /\ c = Key(p[limit])
    BY <1>7
  <2>2. limit \in DOMAIN p
    BY <1>3, <1>8, <2>1
  <2>3. p[limit] \in Rows
    BY <1>3, <2>2
  <2>. QED
    BY <1>10, <2>1, <2>2, <2>3
<1>12. \A k \in DOMAIN p : p[k] \in Rows /\ p[k] \in listed /\ (cursor = NoCursor \/ Ahead(cursor, Key(p[k])))
  BY <1>3 DEF Found, PastCursor
\* What was sent before is ahead of the page.
<1>13. ASSUME NEW i \in DOMAIN shown, shown[i] \notin moved, NEW k \in DOMAIN p
       PROVE  Ahead(Key(shown[i]), Key(p[k]))
  <2>1. cursor # NoCursor /\ cursor \in Cursors
    <3>1. shown # <<>>
      BY <1>8
    <3>. QED
      BY <1>1, <1>2, <1>4, <3>1 DEF BehindInv
  <2>2. Key(shown[i]) = cursor \/ Ahead(Key(shown[i]), cursor)
    BY <1>1, <1>13, <2>1 DEF BehindInv
  <2>3. Ahead(cursor, Key(p[k]))
    BY <1>12, <2>1
  <2>4. Key(shown[i]) \in Cursors /\ Key(p[k]) \in Cursors
    BY <1>4, <1>10, <1>12
  <2>. QED
    BY <2>1, <2>2, <2>3, <2>4, AheadTransitive
<1>14. TypeOK'
  <2>1. cursor' = NoCursor \/ cursor' \in Cursors
    BY <1>2, <1>11
  <2>2. over' \in BOOLEAN
    BY <1>2
  <2>. QED
    BY <1>1, <1>2, <1>8, <2>1, <2>2 DEF TypeOK, Cursors
<1>15. BehindInv'
  <2>1. ASSUME c # NoCursor, NEW i \in DOMAIN s, s[i] \notin moved
        PROVE  Key(s[i]) = c \/ Ahead(Key(s[i]), c)
    <3>1. CASE i \in DOMAIN shown /\ s[i] = shown[i]
      BY <1>11, <1>13, <2>1, <3>1
    <3>2. ASSUME NEW k \in DOMAIN p, s[i] = p[k] PROVE Key(s[i]) = c \/ Ahead(Key(s[i]), c)
      <4>1. limit \in DOMAIN p /\ c = Key(p[limit])
        BY <1>11, <2>1
      <4>2. k < limit \/ k = limit
        <5>1. k \in 1 .. Len(p) /\ Len(p) \in Nat /\ Len(p) <= limit /\ limit \in Nat
          BY <1>3, <1>8
        <5>. QED
          BY <5>1
      <4>. QED
        BY <1>3, <3>2, <4>1, <4>2
    <3>. QED
      BY <1>9, <3>1, <3>2
  <2>. QED
    BY <1>2, <1>5, <1>6, <2>1 DEF BehindInv
<1>16. CoverInv'
  <2>1. \A r \in Rows \ (moved \cup missing) : r \in listed
    BY <1>1 DEF CoverInv
  <2>2. ASSUME NEW r \in Rows \ (moved \cup missing)
        PROVE  r \in Range(s) \/ (c # NoCursor /\ Ahead(c, Key(r)))
    <3>1. CASE r \in Range(shown)
      <4>1. PICK i \in DOMAIN shown : shown[i] = r
        BY <3>1 DEF Range
      <4>2. i \in DOMAIN s /\ s[i] = r
        BY <1>8, <4>1
      <4>. QED
        BY <4>2 DEF Range
    <3>2. CASE r \notin Range(shown)
      <4>1. r \in Found
        BY <1>1, <1>2, <2>1, <3>2 DEF CoverInv, Found, PastCursor
      <4>2. ASSUME NEW k \in DOMAIN p, p[k] = r PROVE r \in Range(s)
        <5>1. Len(shown) + k \in DOMAIN s /\ s[Len(shown) + k] = r
          BY <1>8, <4>2
        <5>. QED
          BY <5>1 DEF Range
      <4>3. CASE Len(p) = limit /\ Ahead(Key(p[limit]), Key(r))
        <5>1. limit \in DOMAIN p
          BY <1>3, <1>8, <4>3
        <5>2. Key(p[limit]) # NoCursor
          BY <1>10, <1>12, <5>1, CursorParts
        <5>. QED
          BY <1>7, <4>3, <5>2 DEF c
      <4>. QED
        BY <1>3, <4>1, <4>2, <4>3
    <3>. QED
      BY <3>1, <3>2
  <2>. QED
    BY <1>2, <1>5, <1>6, <2>1, <2>2 DEF CoverInv
<1>17. PagesInOrder'
  <2>1. ASSUME NEW i \in DOMAIN s, NEW j \in DOMAIN s, i < j, s[i] \notin moved, s[j] \notin moved
        PROVE  Ahead(Key(s[i]), Key(s[j]))
    <3>1. CASE j \in DOMAIN shown
      <4>1. i \in DOMAIN shown /\ s[i] = shown[i] /\ s[j] = shown[j]
        BY <1>8, <2>1, <3>1
      <4>2. {shown[i], shown[j]} \cap moved = {}
        BY <2>1, <4>1
      <4>. QED
        BY <1>1, <2>1, <3>1, <4>1, <4>2 DEF PagesInOrder
    <3>2. ASSUME NEW l \in DOMAIN p, j = Len(shown) + l, s[j] = p[l]
          PROVE  Ahead(Key(s[i]), Key(s[j]))
      <4>1. CASE i \in DOMAIN shown /\ s[i] = shown[i]
        BY <1>13, <2>1, <3>2, <4>1
      <4>2. ASSUME NEW k \in DOMAIN p, i = Len(shown) + k, s[i] = p[k]
            PROVE  Ahead(Key(s[i]), Key(s[j]))
        <5>1. k < l
          BY <1>8, <2>1, <3>2, <4>2
        <5>. QED
          BY <1>3, <3>2, <4>2, <5>1
      <4>. QED
        BY <1>9, <4>1, <4>2
    <3>. QED
      BY <1>9, <3>1, <3>2
  <2>. QED
    BY <1>2, <1>5, <1>6, <2>1 DEF PagesInOrder
<1>. QED
  BY <1>14, <1>15, <1>16, <1>17 DEF PagesInv

\* A change to a row takes it out of its place, or leaves its key as it was.
LEMMA ChangeKeeps ==
  ASSUME PagesInv, Change, TypeOK',
         moved \subseteq moved', missing \subseteq missing',
         \A r \in Rows \ moved' : rank'[r] = rank[r] /\ value'[r] = value[r],
         \A r \in Rows \ missing' : r \in listed => r \in listed'
  PROVE  PagesInv'
<1>1. TypeOK /\ BehindInv /\ CoverInv /\ PagesInOrder
  BY DEF PagesInv
<1>2. UNCHANGED <<list, cursor, shown, over>> /\ shown \in Seq(Rows)
  BY <1>1 DEF Change, walk, TypeOK
<1>3. \A a, b : Ahead(a, b)' <=> Ahead(a, b)
  BY <1>2 DEF Ahead
<1>4. \A r \in Rows \ moved' : Key(r)' = Key(r)
  BY DEF Key
<1>5. \A i \in DOMAIN shown : shown[i] \in Rows
  BY <1>2
<1>6. BehindInv'
  BY <1>1, <1>2, <1>3, <1>4, <1>5 DEF BehindInv
<1>7. CoverInv'
  <2> SUFFICES ASSUME NEW r \in Rows \ (moved' \cup missing')
               PROVE  /\ r \in listed'
                      /\ (over' \/ cursor' # NoCursor) => r \in Range(shown') \/ (~over' /\ Ahead(cursor', Key(r)'))
    BY <1>3 DEF CoverInv
  <2>. QED
    BY <1>1, <1>2, <1>3, <1>4 DEF CoverInv
<1>8. PagesInOrder'
  BY <1>1, <1>2, <1>3, <1>4, <1>5 DEF PagesInOrder
<1>. QED
  BY <1>6, <1>7, <1>8 DEF PagesInv

\* Every step keeps the invariant of the pages.
LEMMA StepPages == PagesInv /\ [Next]_vars => PagesInv'
<1> SUFFICES ASSUME PagesInv, [Next]_vars PROVE PagesInv'
  OBVIOUS
<1>1. TypeOK
  BY DEF PagesInv
<1>2. Change => changes' \in 0 .. MaxChanges
  BY <1>1, PagesAssumption DEF Change, TypeOK
<1>3. ASSUME NEW r \in Rows, NEW k \in Ranks, Promote(r, k) \/ Demote(r, k) PROVE PagesInv'
  <2>1. /\ Change /\ rank' = [rank EXCEPT ![r] = k] /\ moved' = moved \cup {r}
        /\ UNCHANGED <<value, listed, missing>>
    BY <1>3 DEF Promote, Demote
  <2>2. TypeOK'
    BY <1>1, <1>2, <2>1 DEF TypeOK, Change, walk
  <2>. QED
    BY <1>1, <2>1, <2>2, ChangeKeeps DEF TypeOK
<1>4. ASSUME NEW r \in Rows, NEW v \in Values, Reprice(r, v) PROVE PagesInv'
  <2>1. /\ Change /\ value' = [value EXCEPT ![r] = v] /\ moved' = moved \cup {r}
        /\ UNCHANGED <<rank, listed, missing>>
    BY <1>4 DEF Reprice
  <2>2. TypeOK'
    BY <1>1, <1>2, <2>1 DEF TypeOK, Change, walk
  <2>. QED
    BY <1>1, <2>1, <2>2, ChangeKeeps DEF TypeOK
<1>5. ASSUME NEW r \in Rows, Leave(r) PROVE PagesInv'
  <2>1. /\ Change /\ listed' = listed \ {r} /\ missing' = missing \cup {r}
        /\ UNCHANGED <<rank, value, moved>>
    BY <1>5 DEF Leave
  <2>2. TypeOK'
    BY <1>1, <1>2, <2>1 DEF TypeOK, Change, walk
  <2>. QED
    BY <2>1, <2>2, ChangeKeeps
<1>6. ASSUME NEW r \in Rows, Enter(r) PROVE PagesInv'
  <2>1. /\ Change /\ listed' = listed \cup {r} /\ UNCHANGED <<rank, missing>>
        /\ \/ UNCHANGED <<value, moved>>
           \/ /\ \E v \in Values : value' = [value EXCEPT ![r] = v]
              /\ moved' = moved \cup {r}
    BY <1>6 DEF Enter
  <2>2. /\ value' \in [Rows -> Values] /\ moved \subseteq moved' /\ moved' \subseteq Rows
        /\ \A q \in Rows \ moved' : value'[q] = value[q]
    BY <1>1, <2>1 DEF TypeOK
  <2>3. TypeOK'
    BY <1>1, <1>2, <2>1, <2>2 DEF TypeOK, Change, walk
  <2>. QED
    BY <2>1, <2>2, <2>3, ChangeKeeps
<1>7. CASE UNCHANGED vars
  BY <1>7 DEF vars, rows, walk, PagesInv, TypeOK, BehindInv, CoverInv, PagesInOrder, Ahead, Key
<1>. QED
  BY <1>3, <1>4, <1>5, <1>6, <1>7, FetchKeeps DEF Next

\* The invariant of the pages holds in every state.
LEMMA PagesInvariant == Spec => []PagesInv
  BY InitPages, StepPages, PTL DEF Spec

\* The variables of a walk keep their types, for any rows, limits and changes.
THEOREM PagesTyped == Spec => []TypeOK
  BY PagesInvariant, PTL DEF PagesInv

\* A walk that has come to its end has sent every row that was listed all the time and kept
\* its place.
THEOREM WalksAreWhole == Spec => []NothingSkipped
<1>1. PagesInv => NothingSkipped
  BY DEF PagesInv, CoverInv, NothingSkipped
<1>. QED
  BY <1>1, PagesInvariant, PTL

\* The pages of a walk are in the order of the list one after another, and have no row
\* twice, but for rows that change their place.
THEOREM WalksAreOrdered == Spec => []PagesInOrder
  BY PagesInvariant, PTL DEF PagesInv

-----------------------------------------------------------------------------
(* Filters: types                                                          *)

\* A PATCH that is under way
Patching(q) == step[q] \in {"twin", "update"} /\ aim[q] # q

\* What a request is about in each of its steps
Ready(q) ==
  /\ defs[q] # None => step[q] = "done"
  /\ step[q] = "insert" => aim[q] = q
  /\ step[q] \in {"twin", "insert"} /\ aim[q] = q =>
       body[q] \in Definitions /\ (body[q].type = "SELECT" => HasValues(body[q].options))
  /\ step[q] = "update" => aim[q] # q
  /\ Patching(q) => /\ body[q] \in PatchBodies
                    /\ aim[q] \in DefIds
                    /\ aim[q] \in Callers => step[aim[q]] = "done"
  /\ step[q] \in {"definitions", "write"} => body[q] \in Contents

ShopInv == \A q \in Callers : Ready(q)

FiltersTypeInv == FiltersTypeOK /\ ShopInv

-----------------------------------------------------------------------------
\* A PATCH changes the fields it comes with, and leaves the others.
LEMMA PatchedIs ==
  ASSUME NEW def \in Definitions, NEW patch \in PatchBodies
  PROVE  /\ Patched(def, patch) \in Definitions
         /\ Patched(def, patch).type = IF patch.type = None THEN def.type ELSE patch.type
         /\ Patched(def, patch).options = IF patch.options = None THEN def.options ELSE patch.options
<1>1. DOMAIN def = {"category", "slug", "type", "options", "required"}
  BY DEF Definitions
<1>2. patch.category \in Kinds /\ def.category \in Kinds
  BY DEF Definitions, PatchBodies
<1>3. patch.slug \in Slugs \cup {None} /\ def.slug \in Slugs
  BY DEF Definitions, PatchBodies
<1>4. patch.type \in Types \cup {None} /\ def.type \in Types
  BY DEF Definitions, PatchBodies
<1>5. patch.options \in Options \cup {None} /\ def.options \in Options
  BY DEF Definitions, PatchBodies
<1>6. patch.required \in BOOLEAN \cup {None} /\ def.required \in BOOLEAN
  BY DEF Definitions, PatchBodies
<1>7. Patched(def, patch) =
        [category |-> IF patch.category = None THEN def.category ELSE patch.category,
         slug |-> IF patch.slug = None THEN def.slug ELSE patch.slug,
         type |-> IF patch.type = None THEN def.type ELSE patch.type,
         options |-> IF patch.options = None THEN def.options ELSE patch.options,
         required |-> IF patch.required = None THEN def.required ELSE patch.required]
  BY <1>1 DEF Patched
<1>. QED
  BY <1>2, <1>3, <1>4, <1>5, <1>6, <1>7 DEF Definitions

\* The initial states have the right types, and no request has begun.
LEMMA FiltersInitTypes == FiltersInit => FiltersTypeInv
<1> SUFFICES ASSUME FiltersInit PROVE FiltersTypeInv
  OBVIOUS
<1> USE FiltersAssumption DEF FiltersInit
<1>1. defs \in [DefIds -> Definitions \cup {None}]
  BY DEF DefIds
<1>2. listing \in Contents \cup {None} /\ fitted \subseteq Contents
  BY DEF Fitting
<1>3. FiltersTypeOK
  BY <1>1, <1>2 DEF FiltersTypeOK
<1>4. ShopInv
  BY DEF ShopInv, Ready, Patching, DefIds
<1>. QED
  BY <1>3, <1>4 DEF FiltersTypeInv

\* A request that begins with a body of its own kind keeps the types.
LEMMA BeginAtTypes ==
  ASSUME FiltersTypeInv, NEW q \in Callers, NEW d \in DefIds \cup {None}, NEW where,
         NEW data \in Definitions \cup PatchBodies \cup Contents, BeginAt(q, d, data, where),
         \/ d = q /\ where = "twin" /\ data \in Definitions /\ (data.type = "SELECT" => HasValues(data.options))
         \/ d \in DefIds /\ defs[d] # None /\ data \in PatchBodies /\ where \in {"refused", "twin", "update"}
         \/ d = None /\ data \in Contents /\ where \in {"definitions", "write"}
  PROVE  FiltersTypeInv'
<1> USE DEF FiltersTypeInv
<1>1. /\ step[q] = "new"
      /\ step' = [step EXCEPT ![q] = where]
      /\ aim' = [aim EXCEPT ![q] = d]
      /\ body' = [body EXCEPT ![q] = data]
      /\ raced' = raced \cup {{q, o} : o \in {o \in Callers : step[o] \in Underway}}
      /\ UNCHANGED <<defs, listing, fitted>>
  BY DEF BeginAt, shop
<1>2. where \in Underway \cup {"refused"}
  BY DEF Underway
<1>3. raced' \subseteq SUBSET Callers
  BY <1>1 DEF FiltersTypeOK
<1>4. FiltersTypeOK'
  BY <1>1, <1>2, <1>3 DEF FiltersTypeOK
<1>5. defs[q] = None
  BY <1>1 DEF ShopInv, Ready
<1>6. ASSUME NEW o \in Callers PROVE Ready(o)'
  <2>1. /\ step'[o] = IF o = q THEN where ELSE step[o]
        /\ aim'[o] = IF o = q THEN d ELSE aim[o]
        /\ body'[o] = IF o = q THEN data ELSE body[o]
        /\ Ready(o)
    BY <1>1, <1>4 DEF FiltersTypeOK, ShopInv
  <2>2. CASE o = q
    <3>1. d \in Callers \ {q} /\ defs[d] # None => step'[d] = "done"
      BY <1>1 DEF FiltersTypeOK, ShopInv, Ready
    <3>. QED
      BY <1>1, <1>5, <2>1, <2>2, <3>1 DEF Ready, Patching, DefIds
  <2>3. CASE o # q
    <3>1. aim[o] \in Callers /\ aim[o] # q => step'[aim[o]] = step[aim[o]]
      BY <1>1 DEF FiltersTypeOK
    <3>2. Patching(o) => aim[o] # q
      BY <1>1, <2>1 DEF Ready
    <3>. QED
      BY <1>1, <2>1, <2>3, <3>1, <3>2 DEF Ready, Patching
  <2>. QED
    BY <2>2, <2>3
<1>. QED
  BY <1>4, <1>6 DEF ShopInv

\* Every step keeps the types, and what the step of a request says of its body.
LEMMA FiltersStepTypes == FiltersTypeInv /\ [FiltersNext]_filters => FiltersTypeInv'
<1> SUFFICES ASSUME FiltersTypeInv, [FiltersNext]_filters PROVE FiltersTypeInv'
  OBVIOUS
<1>a. FiltersTypeOK /\ ShopInv
  BY DEF FiltersTypeInv
<1>1. ASSUME NEW q \in Callers, NEW def \in Posted, BeginDefine(q, def)
      PROVE  FiltersTypeInv'
  BY <1>1, BeginAtTypes, FiltersAssumption DEF BeginDefine, DefIds
<1>2. ASSUME NEW q \in Callers, NEW d \in DefIds, NEW patch \in Patches, BeginPatch(q, d, patch)
      PROVE  FiltersTypeInv'
  BY <1>2, BeginAtTypes, FiltersAssumption DEF BeginPatch
<1>3. ASSUME NEW q \in Callers, NEW content \in Contents, BeginPost(q, content) \/ BeginEdit(q, content)
      PROVE  FiltersTypeInv'
  BY <1>3, BeginAtTypes, FiltersAssumption DEF BeginPost, BeginEdit
\* A request that moves on to another step
<1>4. ASSUME NEW q \in Callers, NEW where, MoveTo(q, where), step[q] \in Underway,
             where \in {"update", "insert", "write", "refused", "failed", "done"},
             where = "update" => step[q] = "twin" /\ aim[q] # q,
             where = "insert" => step[q] = "twin" /\ aim[q] = q,
             where = "write" => step[q] = "definitions",
             defs' \in [DefIds -> Definitions \cup {None}], listing' \in Contents \cup {None},
             fitted' \subseteq Contents,
             \A o \in Callers : defs'[o] # None => defs[o] # None \/ (o = q /\ where = "done")
      PROVE  FiltersTypeInv'
  <2>1. step' = [step EXCEPT ![q] = where] /\ UNCHANGED <<aim, body, raced>>
    BY <1>4 DEF MoveTo
  <2>2. FiltersTypeOK'
    BY <1>a, <1>4, <2>1 DEF FiltersTypeOK, Underway
  <2>3. ASSUME NEW o \in Callers PROVE Ready(o)'
    <3>1. step'[o] = IF o = q THEN where ELSE step[o]
      BY <1>a, <2>1 DEF FiltersTypeOK
    <3>2. Ready(o) /\ aim'[o] = aim[o] /\ body'[o] = body[o]
      BY <1>a, <2>1 DEF ShopInv
    <3>3. defs'[o] # None => step'[o] = "done"
      BY <1>4, <3>1, <3>2 DEF Ready, Underway
    <3>4. Patching(o) /\ aim[o] \in Callers => step'[aim[o]] = "done"
      BY <1>a, <1>4, <2>1, <3>2 DEF FiltersTypeOK, Ready, Underway
    <3>5. Patching(o)' => Patching(o)
      BY <1>4, <3>1, <3>2 DEF Patching
    <3>. QED
      BY <1>4, <3>1, <3>2, <3>3, <3>4, <3>5 DEF Ready, Patching
  <2>. QED
    BY <2>2, <2>3 DEF FiltersTypeInv, ShopInv
<1>5. ASSUME NEW q \in Callers, NEW where, MoveTo(q, where), step[q] \in Underway, UNCHANGED shop,
             where \in {"update", "insert", "write", "refused", "failed"},
             where = "update" => step[q] = "twin" /\ aim[q] # q,
             where = "insert" => step[q] = "twin" /\ aim[q] = q,
             where = "write" => step[q] = "definitions"
      PROVE  FiltersTypeInv'
  <2>1. UNCHANGED <<defs, listing, fitted>>
    BY <1>5 DEF shop
  <2>2. /\ defs' \in [DefIds -> Definitions \cup {None}]
        /\ listing' \in Contents \cup {None}
        /\ fitted' \subseteq Contents
    BY <1>a, <2>1 DEF FiltersTypeOK
  <2>3. \A o \in Callers : defs'[o] # None => defs[o] # None \/ (o = q /\ where = "done")
    BY <2>1
  <2>4. where \in {"update", "insert", "write", "refused", "failed", "done"}
    BY <1>5
  <2>. QED
    BY <1>4, <1>5, <2>2, <2>3, <2>4
<1>6. ASSUME NEW q \in Callers, FindTwin(q)
      PROVE  FiltersTypeInv'
  <2>1. PICK where \in {"refused", "insert", "update"} :
          /\ MoveTo(q, where)
          /\ where = "update" => aim[q] # q
          /\ where = "insert" => aim[q] = q
    BY <1>6 DEF FindTwin
  <2>. QED
    BY <1>5, <1>6, <2>1 DEF FindTwin, Underway
<1>7. ASSUME NEW q \in Callers, NEW d \in DefIds, NEW r \in Definitions, SetDefinition(q, d, r),
             step[q] \in Underway, d \in Callers => d = q \/ defs[d] # None
      PROVE  FiltersTypeInv'
  <2>1. CASE MoveTo(q, "failed") /\ UNCHANGED shop
    BY <1>5, <1>7, <2>1
  <2>2. CASE /\ defs' = [defs EXCEPT ![d] = r]
             /\ fitted' = fitted \cup Fitting'
             /\ MoveTo(q, "done")
             /\ UNCHANGED listing
    <3>1. defs' \in [DefIds -> Definitions \cup {None}]
      BY <1>a, <2>2 DEF FiltersTypeOK
    <3>2. fitted' \subseteq Contents /\ listing' \in Contents \cup {None}
      BY <1>a, <2>2 DEF FiltersTypeOK, Fitting
    <3>3. \A o \in Callers : defs'[o] # None => defs[o] # None \/ o = q
      BY <1>a, <1>7, <2>2 DEF FiltersTypeOK, DefIds
    <3>. QED
      BY <1>4, <1>7, <2>2, <3>1, <3>2, <3>3
  <2>. QED
    BY <1>7, <2>1, <2>2 DEF SetDefinition
<1>8. ASSUME NEW q \in Callers, InsertDefinition(q)
      PROVE  FiltersTypeInv'
  BY <1>a, <1>7, <1>8 DEF InsertDefinition, ShopInv, Ready, DefIds, Underway
<1>9. ASSUME NEW q \in Callers, UpdateDefinition(q)
      PROVE  FiltersTypeInv'
  <2>1. step[q] = "update" /\ body[q] \in PatchBodies /\ aim[q] \in DefIds
    BY <1>a, <1>9 DEF UpdateDefinition, ShopInv, Ready, Patching
  <2>2. CASE MoveTo(q, "failed") /\ UNCHANGED shop
    BY <1>5, <2>1, <2>2 DEF Underway
  <2>3. CASE defs[aim[q]] # None /\ SetDefinition(q, aim[q], Patched(defs[aim[q]], body[q]))
    <3>1. Patched(defs[aim[q]], body[q]) \in Definitions
      BY <1>a, <2>1, <2>3, PatchedIs DEF FiltersTypeOK
    <3>. QED
      BY <1>7, <2>1, <2>3, <3>1 DEF Underway
  <2>. QED
    BY <1>9, <2>2, <2>3 DEF UpdateDefinition
<1>10. ASSUME NEW d \in DefIds, DeleteDefinition(d)
       PROVE  FiltersTypeInv'
  <2>1. FiltersTypeOK'
    BY <1>a, <1>10 DEF DeleteDefinition, FiltersTypeOK, Fitting
  <2>2. \A o \in Callers : defs'[o] # None => defs[o] # None
    BY <1>a, <1>10 DEF DeleteDefinition, FiltersTypeOK, DefIds
  <2>3. ShopInv'
    BY <1>a, <1>10, <2>2 DEF DeleteDefinition, ShopInv, Ready, Patching
  <2>. QED
    BY <2>1, <2>3 DEF FiltersTypeInv
<1>11. ASSUME NEW q \in Callers, ReadDefinitions(q)
       PROVE  FiltersTypeInv'
  BY <1>5, <1>11 DEF ReadDefinitions, Underway
<1>12. ASSUME NEW q \in Callers, WriteListing(q)
       PROVE  FiltersTypeInv'
  <2>1. body[q] \in Contents
    BY <1>a, <1>12 DEF WriteListing, ShopInv, Ready
  <2>. QED
    BY <1>a, <1>4, <1>12, <2>1 DEF WriteListing, Underway, FiltersTypeOK
<1>13. ASSUME NEW q \in Callers, FailRequest(q)
       PROVE  FiltersTypeInv'
  BY <1>5, <1>13 DEF FailRequest
<1>14. CASE UNCHANGED filters
  <2>1. UNCHANGED <<defs, listing, fitted, step, aim, body, raced>>
    BY <1>14 DEF filters, shop
  <2>. QED
    BY <1>a, <2>1 DEF FiltersTypeInv, FiltersTypeOK, ShopInv, Ready, Patching
<1>. QED
  BY <1>1, <1>2, <1>3, <1>6, <1>8, <1>9, <1>10, <1>11, <1>12, <1>13, <1>14 DEF FiltersNext

\* The definitions, the listing and the requests keep their types: an UPDATE with the fields
\* of a PATCH leaves a definition.
THEOREM FiltersTyped == FiltersSpec => []FiltersTypeOK
<1>1. FiltersSpec => []FiltersTypeInv
  BY FiltersInitTypes, FiltersStepTypes, PTL DEF FiltersSpec
<1>. QED
  BY <1>1, PTL DEF FiltersTypeInv

-----------------------------------------------------------------------------
(* A listing and the definitions of its category                           *)

\* Python's == relates any values, and any contents, as an equality does.
LEMMA EqualIsEquivalence ==
  /\ \A v : Equal(v, v)
  /\ \A v, w : Equal(v, w) => Equal(w, v)
  /\ \A u, v, w : Equal(u, v) /\ Equal(v, w) => Equal(u, w)
  BY DEF Equal

\* Contents are equal to themselves, and contents equal to the same are equal.
LEMMA SameIsEquivalence ==
  /\ \A c : SameContent(c, c)
  /\ \A c, d, e : SameContent(c, d) /\ SameContent(e, d) => SameContent(c, e)
<1>1. ASSUME NEW c
      PROVE  SameContent(c, c)
  BY EqualIsEquivalence DEF SameContent, SameFilters
<1>2. ASSUME NEW f, NEW g, NEW h, SameFilters(f, g), SameFilters(h, g)
      PROVE  SameFilters(f, h)
  <2>1. ASSUME NEW x \in f
        PROVE  \E z \in h : x[1] = z[1] /\ Equal(x[2], z[2])
    <3>1. PICK y \in g : x[1] = y[1] /\ Equal(x[2], y[2])
      BY <1>2 DEF SameFilters
    <3>2. PICK z \in h : z[1] = y[1] /\ Equal(z[2], y[2])
      BY <1>2 DEF SameFilters
    <3>. QED
      BY <3>1, <3>2, EqualIsEquivalence
  <2>2. ASSUME NEW z \in h
        PROVE  \E x \in f : x[1] = z[1] /\ Equal(x[2], z[2])
    <3>1. PICK y \in g : z[1] = y[1] /\ Equal(z[2], y[2])
      BY <1>2 DEF SameFilters
    <3>2. PICK x \in f : x[1] = y[1] /\ Equal(x[2], y[2])
      BY <1>2 DEF SameFilters
    <3>. QED
      BY <3>1, <3>2, EqualIsEquivalence
  <2>. QED
    BY <2>1, <2>2 DEF SameFilters
<1>. QED
  BY <1>1, <1>2 DEF SameContent

\* content is equal to one that has fitted.
HasFitted(content) == \E c \in fitted : SameContent(c, content)

FittedInv ==
  /\ Fitting \subseteq fitted
  /\ \A q \in Callers : step[q] = "write" => HasFitted(body[q])
  /\ listing # None => HasFitted(listing)

\* What a step may do to the contents that fit and to what is going to be written
LEMMA FittedKept ==
  ASSUME FiltersTypeInv, FittedInv, Fitting' \subseteq fitted', fitted \subseteq fitted',
         \A q \in Callers : step'[q] = "write" => step[q] = "write" /\ body'[q] = body[q],
         listing' = listing \/ \E q \in Callers : step[q] = "write" /\ listing' = body[q]
  PROVE  FittedInv'
<1>1. \A content : HasFitted(content) => HasFitted(content)'
  BY DEF HasFitted
<1>2. ASSUME NEW q \in Callers, step'[q] = "write"
      PROVE  HasFitted(body[q]) /\ body'[q] = body[q]
  BY <1>2 DEF FittedInv
<1>3. ASSUME NEW q \in Callers, step'[q] = "write"
      PROVE  HasFitted(body[q])'
  BY <1>1, <1>2, <1>3 DEF HasFitted
<1>4. listing' # None => HasFitted(listing')
  BY DEF FittedInv
<1>5. listing' # None => HasFitted(listing)'
  BY <1>4 DEF HasFitted
<1>. QED
  BY <1>3, <1>5 DEF FittedInv

\* Which contents fit depends on the definitions alone.
LEMMA FittingIsOfDefinitions == UNCHANGED defs => Fitting' = Fitting
  BY DEF Fitting, Fits, Of

\* Every step leaves what is going to be written among what has fitted at some time.
LEMMA FittedStep == FiltersTypeInv /\ FittedInv /\ [FiltersNext]_filters => FittedInv'
<1> SUFFICES ASSUME FiltersTypeInv, FittedInv, [FiltersNext]_filters PROVE FittedInv'
  OBVIOUS
<1>a. FiltersTypeOK /\ ShopInv
  BY DEF FiltersTypeInv
<1>b. UNCHANGED shop => UNCHANGED listing /\ Fitting' \subseteq fitted' /\ fitted \subseteq fitted'
  BY FittingIsOfDefinitions DEF FittedInv, shop
<1>1. ASSUME NEW q \in Callers, NEW d, NEW data, NEW where, BeginAt(q, d, data, where),
             where = "write" => listing # None /\ SameContent(data, listing)
      PROVE  FittedInv'
  <2>1. /\ step' = [step EXCEPT ![q] = where]
        /\ body' = [body EXCEPT ![q] = data]
        /\ UNCHANGED shop
    BY <1>1 DEF BeginAt
  <2>2. ASSUME NEW o \in Callers, step'[o] = "write"
        PROVE  HasFitted(body'[o])
    <3>1. CASE o = q
      <4>1. body'[o] = data /\ where = "write"
        BY <1>a, <2>1, <2>2, <3>1 DEF FiltersTypeOK
      <4>2. PICK c \in fitted : SameContent(c, listing)
        BY <1>1, <4>1 DEF FittedInv, HasFitted
      <4>3. SameContent(c, data)
        BY <1>1, <4>1, <4>2, SameIsEquivalence
      <4>. QED
        BY <4>1, <4>3 DEF HasFitted
    <3>2. CASE o # q
      BY <1>a, <2>1, <2>2, <3>2 DEF FiltersTypeOK, FittedInv
    <3>. QED
      BY <3>1, <3>2
  <2>3. UNCHANGED <<listing, fitted>>
    BY <2>1 DEF shop
  <2>. QED
    BY <1>b, <2>1, <2>2, <2>3 DEF FittedInv, HasFitted
<1>2. ASSUME NEW q \in Callers, NEW def \in Posted, BeginDefine(q, def)
      PROVE  FittedInv'
  BY <1>1, <1>2 DEF BeginDefine
<1>3. ASSUME NEW q \in Callers, NEW d \in DefIds, NEW patch \in Patches, BeginPatch(q, d, patch)
      PROVE  FittedInv'
  <2>1. PICK where \in {"refused", "update", "twin"} : BeginAt(q, d, patch, where)
    BY <1>3 DEF BeginPatch
  <2>. QED
    BY <1>1, <2>1
<1>4. ASSUME NEW q \in Callers, NEW content \in Contents, BeginPost(q, content) \/ BeginEdit(q, content)
      PROVE  FittedInv'
  BY <1>1, <1>4 DEF BeginPost, BeginEdit
\* A request that moves on to a step other than "write"
<1>5. ASSUME NEW q \in Callers, NEW where, where # "write", MoveTo(q, where)
      PROVE  \A o \in Callers : step'[o] = "write" => step[o] = "write" /\ body'[o] = body[o]
  BY <1>a, <1>5 DEF MoveTo, FiltersTypeOK
<1>6. ASSUME NEW q \in Callers, NEW where, where # "write", MoveTo(q, where), UNCHANGED shop
      PROVE  FittedInv'
  BY <1>b, <1>5, <1>6, FittedKept
<1>7. ASSUME NEW q \in Callers, FindTwin(q)
      PROVE  FittedInv'
  <2>1. PICK where \in {"refused", "insert", "update"} : MoveTo(q, where)
    BY <1>7 DEF FindTwin
  <2>. QED
    BY <1>6, <1>7, <2>1 DEF FindTwin
<1>8. ASSUME NEW q \in Callers, NEW d, NEW r, SetDefinition(q, d, r)
      PROVE  FittedInv'
  <2>1. CASE MoveTo(q, "failed") /\ UNCHANGED shop
    BY <1>6, <2>1
  <2>2. CASE fitted' = fitted \cup Fitting' /\ MoveTo(q, "done") /\ UNCHANGED listing
    BY <1>5, <2>2, FittedKept
  <2>. QED
    BY <1>8, <2>1, <2>2 DEF SetDefinition
<1>9. ASSUME NEW q \in Callers, InsertDefinition(q) \/ UpdateDefinition(q) \/ FailRequest(q)
      PROVE  FittedInv'
  BY <1>6, <1>8, <1>9 DEF InsertDefinition, UpdateDefinition, FailRequest
<1>10. ASSUME NEW d \in DefIds, DeleteDefinition(d)
       PROVE  FittedInv'
  BY <1>10, FittedKept DEF DeleteDefinition
<1>11. ASSUME NEW q \in Callers, ReadDefinitions(q)
       PROVE  FittedInv'
  <2>1. CASE MoveTo(q, "refused")
    BY <1>6, <1>11, <2>1 DEF ReadDefinitions
  <2>2. CASE Fits(body[q]) /\ MoveTo(q, "write")
    <3>1. HasFitted(body[q])
      <4>1. body[q] \in fitted
        BY <1>a, <1>11, <2>2 DEF ReadDefinitions, ShopInv, Ready, Fitting, FittedInv
      <4>. QED
        BY <4>1, SameIsEquivalence DEF HasFitted
    <3>2. step' = [step EXCEPT ![q] = "write"] /\ body' = body
      BY <2>2 DEF MoveTo
    <3>3. \A o \in Callers : step'[o] = "write" => o = q \/ step[o] = "write"
      BY <1>a, <3>2 DEF FiltersTypeOK
    <3>4. UNCHANGED <<listing, fitted>>
      BY <1>11 DEF ReadDefinitions, shop
    <3>. QED
      BY <1>b, <1>11, <3>1, <3>2, <3>3, <3>4 DEF ReadDefinitions, FittedInv, HasFitted
  <2>. QED
    BY <1>11, <2>1, <2>2 DEF ReadDefinitions
<1>12. ASSUME NEW q \in Callers, WriteListing(q)
       PROVE  FittedInv'
  <2>1. Fitting' \subseteq fitted' /\ fitted \subseteq fitted'
    BY <1>12, FittingIsOfDefinitions DEF WriteListing, FittedInv
  <2>. QED
    BY <1>5, <1>12, <2>1, FittedKept DEF WriteListing
<1>13. CASE UNCHANGED filters
  BY <1>b, <1>13, FittedKept DEF filters
<1>. QED
  BY <1>2, <1>3, <1>4, <1>7, <1>9, <1>10, <1>11, <1>12, <1>13 DEF FiltersNext

\* What a listing shows is equal, in Python, to contents that have fitted the definitions of
\* its category at one moment.
THEOREM ListingsHaveFitted == FiltersSpec => []ListingHasFitted
<1>1. FiltersInit => FittedInv
  BY SameIsEquivalence DEF FiltersInit, FittedInv, HasFitted
<1>2. FittedInv => ListingHasFitted
  BY DEF FittedInv, HasFitted, ListingHasFitted
<1>. QED
  BY <1>1, <1>2, FiltersInitTypes, FiltersStepTypes, FittedStep, PTL DEF FiltersSpec

-----------------------------------------------------------------------------
(* The values of a SELECT                                                  *)

OverlapInv ==
  \A q, o \in Callers : q # o /\ step[q] \in Underway /\ step[o] \in Underway => {q, o} \in raced

\* o has changed definition d, beside request q.
Beside(o, d, q) == o \notin {q, d} /\ step[o] = "done" /\ aim[o] = d /\ {q, o} \in raced

NoValues(options) == options # None /\ ~HasValues(options)

\* A PATCH that is going to take the values of d
Taker(p, d) ==
  Patching(p) /\ aim[p] = d /\ defs[d] # None /\ NoValues(body[p].options) /\ body[p].options # Empty =>
    /\ body[p].type # "SELECT"
    /\ \/ body[p].type # None
       \/ defs[d].type # "SELECT"
       \/ \E o \in Callers : Beside(o, d, p) /\ body[o].type = "SELECT"

\* A PATCH that is going to make d a SELECT
Maker(p, d) ==
  /\ Patching(p) /\ aim[p] = d /\ defs[d] # None
  /\ body[p].type = "SELECT" /\ body[p].options = None
  => \/ HasValues(defs[d].options)
     \/ \E o \in Callers : Beside(o, d, p) /\ NoValues(body[o].options)

\* Whoever has left d without values, as SelectHasValuesUnlessRaced says
Blamed(q, d) ==
  /\ step[q] = "done" /\ aim[q] = d /\ q # d
  /\ NoValues(body[q].options)
  /\ \/ body[q].options = Empty
     \/ \E o \in Callers : Beside(o, d, q) /\ body[o].type = "SELECT"

Emptied(d) == defs[d] # None /\ defs[d].type = "SELECT" /\ ~HasValues(defs[d].options)

SelectInv ==
  /\ \A p \in Callers, d \in DefIds : Taker(p, d) /\ Maker(p, d)
  /\ \A d \in DefIds : Emptied(d) => \E q \in Callers : Blamed(q, d)

\* The invariant gives the property the run checks.
LEMMA SelectInvSuffices == SelectInv => SelectHasValuesUnlessRaced
<1> SUFFICES ASSUME SelectInv, NEW d \in DefIds, Emptied(d)
             PROVE  \E q \in Callers :
                      /\ step[q] = "done" /\ aim[q] = d /\ q # d
                      /\ body[q].options # None /\ ~HasValues(body[q].options)
                      /\ \/ body[q].options = Empty
                         \/ \E o \in Callers \ {q, d} :
                              {q, o} \in raced /\ step[o] = "done" /\ aim[o] = d /\ body[o].type = "SELECT"
  BY DEF SelectHasValuesUnlessRaced, Emptied
<1>1. PICK q \in Callers : Blamed(q, d)
  BY DEF SelectInv
<1>2. \A o \in Callers : Beside(o, d, q) =>
        o \in Callers \ {q, d} /\ {q, o} \in raced /\ step[o] = "done" /\ aim[o] = d
  BY DEF Beside
<1>. QED
  BY <1>1, <1>2 DEF Blamed, NoValues

\* Every step leaves two requests that are both under way recorded as having raced.
LEMMA OverlapStep == FiltersTypeInv /\ OverlapInv /\ [FiltersNext]_filters => OverlapInv' /\ raced \subseteq raced'
<1> SUFFICES ASSUME FiltersTypeInv, OverlapInv, [FiltersNext]_filters PROVE OverlapInv' /\ raced \subseteq raced'
  OBVIOUS
<1>a. FiltersTypeOK
  BY DEF FiltersTypeInv
<1>1. ASSUME NEW q \in Callers, NEW d, NEW data, NEW where, BeginAt(q, d, data, where)
      PROVE  OverlapInv' /\ raced \subseteq raced'
  <2>1. /\ step' = [step EXCEPT ![q] = where]
        /\ raced' = raced \cup {{q, o} : o \in {o \in Callers : step[o] \in Underway}}
    BY <1>1 DEF BeginAt
  <2>2. ASSUME NEW o \in Callers, NEW p \in Callers, o # p, step'[o] \in Underway, step'[p] \in Underway
        PROVE  {o, p} \in raced'
    <3>1. CASE o # q /\ p # q
      BY <1>a, <2>1, <2>2, <3>1 DEF FiltersTypeOK, OverlapInv
    <3>2. CASE o = q
      BY <1>a, <2>1, <2>2, <3>2 DEF FiltersTypeOK
    <3>3. CASE p = q
      <4>1. {q, o} \in raced'
        BY <1>a, <2>1, <2>2, <3>3 DEF FiltersTypeOK
      <4>. QED
        BY <3>3, <4>1
    <3>. QED
      BY <3>1, <3>2, <3>3
  <2>. QED
    BY <2>1, <2>2 DEF OverlapInv
<1>2. ASSUME NEW q \in Callers, NEW where, MoveTo(q, where), step[q] \in Underway
      PROVE  OverlapInv' /\ raced \subseteq raced'
  BY <1>a, <1>2 DEF MoveTo, FiltersTypeOK, OverlapInv
<1>3. ASSUME UNCHANGED <<step, raced>>
      PROVE  OverlapInv' /\ raced \subseteq raced'
  BY <1>3 DEF OverlapInv
<1>4. ASSUME NEW q \in Callers, FindTwin(q) \/ ReadDefinitions(q) \/ WriteListing(q) \/ FailRequest(q)
      PROVE  \E where : MoveTo(q, where) /\ step[q] \in Underway
  BY <1>4 DEF FindTwin, ReadDefinitions, WriteListing, FailRequest, Underway
<1>5. ASSUME NEW q \in Callers, InsertDefinition(q) \/ UpdateDefinition(q)
      PROVE  \E where : MoveTo(q, where) /\ step[q] \in Underway
  BY <1>5 DEF InsertDefinition, UpdateDefinition, SetDefinition, Underway
<1>6. ASSUME NEW q \in Callers, NEW def \in Posted, BeginDefine(q, def)
      PROVE  OverlapInv' /\ raced \subseteq raced'
  BY <1>1, <1>6 DEF BeginDefine
<1>7. ASSUME NEW q \in Callers, NEW d \in DefIds, NEW patch \in Patches, BeginPatch(q, d, patch)
      PROVE  OverlapInv' /\ raced \subseteq raced'
  BY <1>1, <1>7 DEF BeginPatch
<1>8. ASSUME NEW q \in Callers, NEW content \in Contents, BeginPost(q, content) \/ BeginEdit(q, content)
      PROVE  OverlapInv' /\ raced \subseteq raced'
  BY <1>1, <1>8 DEF BeginPost, BeginEdit
<1>9. ASSUME NEW d \in DefIds, DeleteDefinition(d)
      PROVE  OverlapInv' /\ raced \subseteq raced'
  BY <1>3, <1>9 DEF DeleteDefinition
<1>10. CASE UNCHANGED filters
  BY <1>3, <1>10 DEF filters
<1>. QED
  BY <1>2, <1>4, <1>5, <1>6, <1>7, <1>8, <1>9, <1>10 DEF FiltersNext

\* What stands at the end of a request stands for ever.
Kept == /\ raced \subseteq raced'
        /\ \A o \in Callers : step[o] = "done" =>
             step'[o] = "done" /\ aim'[o] = aim[o] /\ body'[o] = body[o]

\* Whoever has left a definition without values stays to blame.
LEMMA BlameStays ==
  ASSUME Kept, NEW q \in Callers, NEW d, Blamed(q, d)
  PROVE  Blamed(q, d)'
  BY DEF Kept, Blamed, Beside

\* Whoever has changed a definition beside a request has done so for good.
LEMMA BesideStays ==
  ASSUME Kept, NEW o \in Callers, NEW d, NEW q, Beside(o, d, q)
  PROVE  Beside(o, d, q)' /\ body'[o] = body[o]
  BY DEF Kept, Beside

\* A step that sets no definition, and begins no PATCH but as it should
LEMMA SelectKept ==
  ASSUME SelectInv, Kept, \A d \in DefIds : defs'[d] \in {defs[d], None},
         \A p \in Callers : Patching(p)' =>
           \/ Patching(p) /\ aim'[p] = aim[p] /\ body'[p] = body[p]
           \/ defs[aim'[p]] # None /\ Passes(defs[aim'[p]], body'[p])
  PROVE  SelectInv'
<1>1. ASSUME NEW p \in Callers, NEW d \in DefIds, Patching(p)', aim'[p] = d, defs'[d] # None
      PROVE  Taker(p, d)' /\ Maker(p, d)'
  <2>1. defs'[d] = defs[d]
    BY <1>1
  <2>2. CASE Patching(p) /\ aim'[p] = aim[p] /\ body'[p] = body[p]
    <3>1. Taker(p, d)'
      <4>1. Taker(p, d) /\ Patching(p) /\ aim[p] = d /\ defs[d] # None
        BY <1>1, <2>1, <2>2 DEF SelectInv
      <4>2. \A o \in Callers : Beside(o, d, p) => Beside(o, d, p)' /\ body'[o] = body[o]
        BY BesideStays
      <4>. QED
        BY <2>1, <2>2, <4>1, <4>2 DEF Taker
    <3>2. Maker(p, d)'
      BY <1>1, <2>1, <2>2, BesideStays DEF SelectInv, Maker
    <3>. QED
      BY <3>1, <3>2
  <2>3. CASE Passes(defs[d], body'[p])
    <3>1. None # "SELECT"
      BY FiltersAssumption DEF Types
    <3>2. Taker(p, d)'
      BY <1>1, <2>1, <2>3, <3>1 DEF Taker, Passes, NoValues
    <3>3. Maker(p, d)'
      BY <1>1, <2>1, <2>3, <3>1 DEF Maker, Passes
    <3>. QED
      BY <3>2, <3>3
  <2>. QED
    BY <1>1, <2>2, <2>3
<1>2. \A p \in Callers, d \in DefIds : Taker(p, d)' /\ Maker(p, d)'
  BY <1>1 DEF Taker, Maker
<1>3. ASSUME NEW d \in DefIds, Emptied(d)'
      PROVE  (\E q \in Callers : Blamed(q, d))'
  <2>1. Emptied(d)
    BY <1>3 DEF Emptied
  <2>. QED
    BY <2>1, BlameStays DEF SelectInv
<1>. QED
  BY <1>2, <1>3 DEF SelectInv

\* A request that moves on takes nothing back from the ones that are done.
LEMMA MoveKeeps ==
  ASSUME FiltersTypeInv, NEW q \in Callers, NEW where, MoveTo(q, where), step[q] \in Underway,
         where \in {"twin", "update"} => Patching(q)
  PROVE  /\ Kept
         /\ \A p \in Callers : Patching(p)' => Patching(p) /\ aim'[p] = aim[p] /\ body'[p] = body[p]
<1>1. /\ step' = [step EXCEPT ![q] = where] /\ UNCHANGED <<aim, body, raced>>
      /\ step \in [Callers -> Underway \cup {"new", "done", "refused", "failed"}]
  BY DEF MoveTo, FiltersTypeInv, FiltersTypeOK
<1>2. Kept
  BY <1>1 DEF Kept, Underway
<1>3. ASSUME NEW p \in Callers, Patching(p)'
      PROVE  Patching(p)
  <2>1. CASE p = q
    BY <1>1, <1>3, <2>1 DEF Patching
  <2>2. CASE p # q
    BY <1>1, <1>3, <2>2 DEF Patching
  <2>. QED
    BY <2>1, <2>2
<1>. QED
  BY <1>1, <1>2, <1>3

\* The statement that a PATCH ends with
LEMMA SelectPatched ==
  ASSUME FiltersTypeInv, OverlapInv, SelectInv, NEW q \in Callers, step[q] = "update",
         NEW d, aim[q] = d, defs[d] # None,
         defs' = [defs EXCEPT ![d] = Patched(defs[d], body[q])], MoveTo(q, "done")
  PROVE  SelectInv'
<1>a. FiltersTypeOK /\ ShopInv
  BY DEF FiltersTypeInv
<1>b. None # "SELECT"
  BY FiltersAssumption DEF Types
<1>1. Patching(q) /\ d \in DefIds /\ d # q /\ body[q] \in PatchBodies /\ defs[d] \in Definitions
  BY <1>a DEF ShopInv, Ready, Patching, FiltersTypeOK
<1>2. /\ defs'[d].type = IF body[q].type = None THEN defs[d].type ELSE body[q].type
      /\ defs'[d].options = IF body[q].options = None THEN defs[d].options ELSE body[q].options
      /\ \A e \in DefIds \ {d} : defs'[e] = defs[e]
  BY <1>a, <1>1, PatchedIs DEF FiltersTypeOK
<1>3. /\ Kept
      /\ \A p \in Callers : Patching(p)' => Patching(p) /\ aim'[p] = aim[p] /\ body'[p] = body[p]
  BY MoveKeeps DEF Underway
<1>4. step'[q] = "done" /\ aim'[q] = d /\ body'[q] = body[q]
  BY <1>a DEF MoveTo, FiltersTypeOK
<1>5. ASSUME NEW p \in Callers, Patching(p)', aim'[p] = d
      PROVE  Beside(q, d, p)'
  <2>1. Patching(p) /\ p # q
    BY <1>3, <1>4, <1>5 DEF Patching
  <2>2. {p, q} \in raced
    BY <1>1, <2>1 DEF OverlapInv, Patching, Underway
  <2>. QED
    BY <1>1, <1>3, <1>4, <2>1, <2>2 DEF Beside, Kept
<1>6. ASSUME NEW p \in Callers, NEW e \in DefIds, Patching(p)', aim'[p] = e, defs'[e] # None
      PROVE  Taker(p, e)' /\ Maker(p, e)'
  <2>0. /\ Patching(p) /\ aim[p] = e /\ body'[p] = body[p]
        /\ \A o \in Callers : Beside(o, e, p) => Beside(o, e, p)' /\ body'[o] = body[o]
    BY <1>3, <1>6, BesideStays
  <2>1. defs[e] # None /\ Taker(p, e) /\ Maker(p, e)
    BY <1>2, <1>6 DEF SelectInv
  <2>2. CASE e # d
    <3>1. defs'[e] = defs[e]
      BY <1>2, <2>2
    <3>2. Taker(p, e)'
      BY <2>0, <2>1, <3>1 DEF Taker
    <3>3. Maker(p, e)'
      BY <2>0, <2>1, <3>1 DEF Maker
    <3>. QED
      BY <3>2, <3>3
  <2>3. CASE e = d
    <3>1. Beside(q, d, p)'
      BY <1>5, <1>6, <2>3
    <3>2. Taker(p, d)'
      <4>1. CASE body[q].type = "SELECT"
        BY <1>4, <2>0, <2>1, <2>3, <3>1, <4>1 DEF Taker
      <4>2. CASE body[q].type # "SELECT"
        <5>1. defs'[d].type = "SELECT" => defs[d].type = "SELECT"
          BY <1>2, <4>2
        <5>. QED
          BY <2>0, <2>1, <2>3, <5>1 DEF Taker
      <4>. QED
        BY <4>1, <4>2
    <3>3. Maker(p, d)'
      <4>1. CASE NoValues(body[q].options)
        BY <1>4, <2>0, <2>1, <2>3, <3>1, <4>1 DEF Maker
      <4>2. CASE ~NoValues(body[q].options)
        <5>1. HasValues(defs[d].options) => HasValues(defs'[d].options)
          BY <1>2, <4>2 DEF NoValues
        <5>. QED
          BY <2>0, <2>1, <2>3, <5>1 DEF Maker, HasValues
      <4>. QED
        BY <4>1, <4>2
    <3>. QED
      BY <2>3, <3>2, <3>3
  <2>. QED
    BY <2>2, <2>3
<1>7. ASSUME NEW e \in DefIds, Emptied(e)'
      PROVE  (\E o \in Callers : Blamed(o, e))'
  <2>1. CASE Emptied(e)
    BY <1>3, <2>1, BlameStays DEF SelectInv
  <2>2. CASE ~Emptied(e)
    <3>1. e = d
      BY <1>2, <1>7, <2>2 DEF Emptied
    <3>2. Taker(q, d) /\ Maker(q, d)
      BY <1>1 DEF SelectInv
    <3>3. /\ defs'[d].type = "SELECT" /\ ~HasValues(defs'[d].options)
          /\ defs[d].type = "SELECT" => HasValues(defs[d].options)
      BY <1>7, <2>2, <3>1 DEF Emptied, HasValues
    <3>4. \A o \in Callers : Beside(o, d, q) => Beside(o, d, q)' /\ body'[o] = body[o]
      BY <1>3, BesideStays
    <3>5. CASE body[q].options # None
      <4>1. NoValues(body[q].options)
        BY <1>2, <3>3, <3>5 DEF NoValues
      <4>2. body[q].options = Empty \/ \E o \in Callers : Beside(o, d, q) /\ body[o].type = "SELECT"
        BY <1>1, <1>2, <1>b, <3>2, <3>3, <4>1 DEF Taker
      <4>3. Blamed(q, d)'
        BY <1>1, <1>4, <3>4, <4>1, <4>2 DEF Blamed
      <4>. QED
        BY <3>1, <4>3
    <3>6. CASE body[q].options = None
      <4>1. body[q].type = "SELECT"
        BY <1>2, <3>3, <3>6
      <4>2. PICK o \in Callers : Beside(o, d, q) /\ NoValues(body[o].options)
        BY <1>1, <1>2, <3>2, <3>3, <3>6, <4>1 DEF Maker
      <4>3. Beside(o, d, q)' /\ body'[o] = body[o]
        BY <3>4, <4>2
      <4>4. {o, q} = {q, o}
        OBVIOUS
      <4>5. Beside(q, d, o)'
        BY <1>1, <1>4, <4>3, <4>4 DEF Beside
      <4>6. Blamed(o, d)'
        BY <1>4, <4>1, <4>2, <4>3, <4>5 DEF Blamed, Beside
      <4>. QED
        BY <3>1, <4>6
    <3>. QED
      BY <3>5, <3>6
  <2>. QED
    BY <2>1, <2>2
<1>8. \A p \in Callers, e \in DefIds : Taker(p, e)' /\ Maker(p, e)'
  BY <1>6 DEF Taker, Maker
<1>. QED
  BY <1>7, <1>8 DEF SelectInv

\* The statement that a creation ends with
LEMMA SelectInserted ==
  ASSUME FiltersTypeInv, SelectInv, NEW q \in Callers, step[q] = "insert",
         defs' = [defs EXCEPT ![q] = body[q]], MoveTo(q, "done")
  PROVE  SelectInv'
<1>a. FiltersTypeOK /\ ShopInv
  BY DEF FiltersTypeInv
<1>1. body[q].type = "SELECT" => HasValues(body[q].options)
  BY <1>a DEF ShopInv, Ready
<1>2. defs'[q] = body[q] /\ \A e \in DefIds \ {q} : defs'[e] = defs[e]
  BY <1>a DEF FiltersTypeOK, DefIds
<1>3. /\ Kept
      /\ \A p \in Callers : Patching(p)' => Patching(p) /\ aim'[p] = aim[p] /\ body'[p] = body[p]
  BY MoveKeeps DEF Underway
<1>4. ASSUME NEW p \in Callers, NEW e \in DefIds, Patching(p)', aim'[p] = e, defs'[e] # None
      PROVE  Taker(p, e)' /\ Maker(p, e)'
  <2>1. /\ Patching(p) /\ aim[p] = e /\ body'[p] = body[p]
        /\ \A o \in Callers : Beside(o, e, p) => Beside(o, e, p)' /\ body'[o] = body[o]
    BY <1>3, <1>4, BesideStays
  <2>2. e # q
    BY <1>a, <2>1 DEF ShopInv, Ready
  <2>3. defs'[e] = defs[e] /\ Taker(p, e) /\ Maker(p, e)
    BY <1>2, <2>2 DEF SelectInv
  <2>4. Taker(p, e)'
    BY <1>4, <2>1, <2>3 DEF Taker
  <2>5. Maker(p, e)'
    BY <1>4, <2>1, <2>3 DEF Maker
  <2>. QED
    BY <2>4, <2>5
<1>5. ASSUME NEW e \in DefIds, Emptied(e)'
      PROVE  (\E o \in Callers : Blamed(o, e))'
  <2>1. Emptied(e)
    BY <1>1, <1>2, <1>5 DEF Emptied
  <2>. QED
    BY <1>3, <2>1, BlameStays DEF SelectInv
<1>6. \A p \in Callers, e \in DefIds : Taker(p, e)' /\ Maker(p, e)'
  BY <1>4 DEF Taker, Maker
<1>. QED
  BY <1>5, <1>6 DEF SelectInv

\* Every step leaves someone to blame for each SELECT without values.
LEMMA SelectStep == FiltersTypeInv /\ OverlapInv /\ SelectInv /\ [FiltersNext]_filters => SelectInv'
<1> SUFFICES ASSUME FiltersTypeInv, OverlapInv, SelectInv, [FiltersNext]_filters PROVE SelectInv'
  OBVIOUS
<1>a. FiltersTypeOK /\ ShopInv
  BY DEF FiltersTypeInv
<1>1. ASSUME NEW q \in Callers, NEW d, NEW data, NEW where, BeginAt(q, d, data, where),
             where \in {"twin", "update"} => d = q \/ (defs[d] # None /\ Passes(defs[d], data))
      PROVE  SelectInv'
  <2>1. /\ step[q] = "new"
        /\ step' = [step EXCEPT ![q] = where]
        /\ aim' = [aim EXCEPT ![q] = d]
        /\ body' = [body EXCEPT ![q] = data]
        /\ raced \subseteq raced'
        /\ UNCHANGED defs
    BY <1>1 DEF BeginAt, shop
  <2>2. \A o \in Callers : o # q => step'[o] = step[o] /\ aim'[o] = aim[o] /\ body'[o] = body[o]
    BY <1>a, <2>1 DEF FiltersTypeOK
  <2>3. step'[q] = where /\ aim'[q] = d /\ body'[q] = data
    BY <1>a, <2>1 DEF FiltersTypeOK
  <2>4. Kept
    BY <2>1, <2>2 DEF Kept
  <2>5. ASSUME NEW p \in Callers, Patching(p)'
        PROVE  \/ Patching(p) /\ aim'[p] = aim[p] /\ body'[p] = body[p]
               \/ defs[aim'[p]] # None /\ Passes(defs[aim'[p]], body'[p])
    BY <1>1, <2>2, <2>3, <2>5 DEF Patching
  <2>6. \A e \in DefIds : defs'[e] \in {defs[e], None}
    BY <2>1
  <2>. QED
    BY <2>4, <2>5, <2>6, SelectKept
<1>2. ASSUME NEW q \in Callers, NEW def \in Posted, BeginDefine(q, def)
      PROVE  SelectInv'
  BY <1>1, <1>2 DEF BeginDefine
<1>3. ASSUME NEW q \in Callers, NEW d \in DefIds, NEW patch \in Patches, BeginPatch(q, d, patch)
      PROVE  SelectInv'
  BY <1>1, <1>3 DEF BeginPatch
<1>4. ASSUME NEW q \in Callers, NEW content \in Contents, BeginPost(q, content) \/ BeginEdit(q, content)
      PROVE  SelectInv'
  BY <1>1, <1>4 DEF BeginPost, BeginEdit
<1>5. ASSUME NEW q \in Callers, NEW where, MoveTo(q, where), step[q] \in Underway,
             where \in {"twin", "update"} => Patching(q), UNCHANGED defs
      PROVE  SelectInv'
  <2>1. \A e \in DefIds : defs'[e] \in {defs[e], None}
    BY <1>5
  <2>. QED
    BY <1>5, <2>1, MoveKeeps, SelectKept
<1>6. ASSUME NEW q \in Callers, FindTwin(q)
      PROVE  SelectInv'
  <2>1. PICK where \in {"refused", "insert", "update"} :
          MoveTo(q, where) /\ (where = "update" => aim[q] # q)
    BY <1>6 DEF FindTwin
  <2>2. step[q] = "twin" /\ UNCHANGED defs
    BY <1>6 DEF FindTwin, shop
  <2>. QED
    BY <1>5, <2>1, <2>2 DEF Patching, Underway
<1>7. ASSUME NEW q \in Callers, InsertDefinition(q)
      PROVE  SelectInv'
  <2>1. step[q] = "insert"
    BY <1>7 DEF InsertDefinition
  <2>2. CASE MoveTo(q, "failed") /\ UNCHANGED shop
    BY <1>5, <2>1, <2>2 DEF Underway, shop
  <2>3. CASE defs' = [defs EXCEPT ![q] = body[q]] /\ MoveTo(q, "done")
    BY <2>1, <2>3, SelectInserted
  <2>. QED
    BY <1>7, <2>2, <2>3 DEF InsertDefinition, SetDefinition
<1>8. ASSUME NEW q \in Callers, UpdateDefinition(q)
      PROVE  SelectInv'
  <2>1. step[q] = "update"
    BY <1>8 DEF UpdateDefinition
  <2>2. CASE MoveTo(q, "failed") /\ UNCHANGED shop
    BY <1>5, <2>1, <2>2 DEF Underway, shop
  <2>3. CASE /\ defs[aim[q]] # None /\ MoveTo(q, "done")
             /\ defs' = [defs EXCEPT ![aim[q]] = Patched(defs[aim[q]], body[q])]
    BY <2>1, <2>3, SelectPatched
  <2>. QED
    BY <1>8, <2>2, <2>3 DEF UpdateDefinition, SetDefinition
<1>9. ASSUME NEW d \in DefIds, DeleteDefinition(d)
      PROVE  SelectInv'
  <2>1. \A e \in DefIds : defs'[e] \in {defs[e], None}
    BY <1>a, <1>9 DEF DeleteDefinition, FiltersTypeOK
  <2>2. UNCHANGED <<step, aim, body, raced>>
    BY <1>9 DEF DeleteDefinition
  <2>3. Kept /\ \A p \in Callers : Patching(p)' => Patching(p) /\ aim'[p] = aim[p] /\ body'[p] = body[p]
    BY <2>2 DEF Kept, Patching
  <2>. QED
    BY <2>1, <2>3, SelectKept
<1>10. ASSUME NEW q \in Callers, ReadDefinitions(q) \/ WriteListing(q) \/ FailRequest(q)
       PROVE  SelectInv'
  <2>1. PICK where \in {"write", "refused", "done", "failed"} : MoveTo(q, where)
    BY <1>10 DEF ReadDefinitions, WriteListing, FailRequest
  <2>2. step[q] \in Underway /\ UNCHANGED defs
    BY <1>10 DEF ReadDefinitions, WriteListing, FailRequest, Underway, shop
  <2>. QED
    BY <1>5, <2>1, <2>2
<1>11. CASE UNCHANGED filters
  <2>1. UNCHANGED <<step, aim, body, raced, defs>>
    BY <1>11 DEF filters, shop
  <2>2. Kept /\ \A p \in Callers : Patching(p)' => Patching(p) /\ aim'[p] = aim[p] /\ body'[p] = body[p]
    BY <2>1 DEF Kept, Patching
  <2>3. \A e \in DefIds : defs'[e] \in {defs[e], None}
    BY <2>1
  <2>. QED
    BY <2>2, <2>3, SelectKept
<1>. QED
  BY <1>2, <1>3, <1>4, <1>6, <1>7, <1>8, <1>9, <1>10, <1>11 DEF FiltersNext

\* The service's check keeps the values of a SELECT, but for null or {} options and for two
\* PATCHes that race.
THEOREM SelectsHaveValues == FiltersSpec => []SelectHasValuesUnlessRaced
<1>1. FiltersInit => OverlapInv /\ SelectInv
  <2> SUFFICES ASSUME FiltersInit PROVE OverlapInv /\ SelectInv
    OBVIOUS
  <2>1. OverlapInv
    BY DEF FiltersInit, OverlapInv, Underway
  <2>2. \A p \in Callers : ~Patching(p)
    BY DEF FiltersInit, Patching
  <2>3. \A d \in DefIds : ~Emptied(d)
    BY DEF FiltersInit, Emptied, DefIds
  <2>. QED
    BY <2>1, <2>2, <2>3 DEF SelectInv, Taker, Maker
<1>. QED
  BY <1>1, SelectInvSuffices, FiltersInitTypes, FiltersStepTypes, OverlapStep, SelectStep, PTL DEF FiltersSpec
=============================================================================
