------------------------------- MODULE Pages -------------------------------
(***************************************************************************)
(* A client walks through a list page by page, by the cursor of the last   *)
(* row it was sent, while rows come, go and change places: list_listings   *)
(* and the other endpoints that core/utils/pagination.py serves.           *)
(*                                                                         *)
(* Every list is ordered by a promotion rank (0 but in the search), then   *)
(* by a value (a time of creation, or a price), then by id.  The endpoints *)
(* differ in the direction and in what may happen to a row meanwhile.      *)
(***************************************************************************)
EXTENDS Naturals, FiniteSets, SequencesExt

CONSTANTS
  Rows,       \* ids
  Values,     \* times or prices
  Ranks,      \* 2 for a live VIP promotion, 1 for TOP, 0 for none of them
  MaxLimit,   \* bound on the size of a page
  MaxChanges  \* bound on the changes made meanwhile

ASSUME PagesAssumption ==
  /\ Rows \subseteq Nat /\ IsFiniteSet(Rows)
  /\ Values \subseteq Nat /\ Values # {}
  /\ Ranks \subseteq 0 .. 2 /\ 0 \in Ranks
  /\ MaxLimit \in Nat \ {0}
  /\ MaxChanges \in Nat

VARIABLES
  list,     \* the endpoint
  rank,     \* rank[r]  : by the highest of its live promotions
  value,    \* value[r] : the column the list is ordered by
  listed,   \* rows that meet the conditions of the query
  cursor,   \* the cursor the next page is asked for with
  shown,    \* the rows the client has been sent, page after page
  over,     \* a page came without a next_cursor
  changes,
  moved,    \* history: rows whose place in the order has changed during the walk
  missing   \* history: rows that were not listed at some time of the walk

rows == <<rank, value, listed>>
walk == <<cursor, shown, over>>
vars == <<list, rows, walk, changes, moved, missing>>

-----------------------------------------------------------------------------
(* The endpoints.  ranked: ordered by promotions first; ascending: the      *)
(* order of values and ids; repriced: a value can be changed in place;      *)
(* leaves: a row can cease to be listed; readded: a row comes back under a  *)
(* new value.                                                               *)

Endpoint(ranked, ascending, repriced, leaves, readded) ==
  [ranked |-> ranked, ascending |-> ascending, repriced |-> repriced,
   leaves |-> leaves, readded |-> readded]

\* search_all by RECOMMENDED or NEWEST, which are one order
Newest == Endpoint(TRUE, FALSE, FALSE, TRUE, FALSE)

\* search_all by effective price
PriceAsc  == Endpoint(TRUE, TRUE, TRUE, TRUE, FALSE)
PriceDesc == Endpoint(TRUE, FALSE, TRUE, TRUE, FALSE)

\* An owner's listings, of one status
OwnedListings == Endpoint(FALSE, FALSE, FALSE, TRUE, FALSE)

\* A user's promotions, until their listing is deleted
MyPromotions == Endpoint(FALSE, FALSE, FALSE, TRUE, FALSE)

\* The moderators' reports, of one status or not seen yet
Reports == Endpoint(FALSE, FALSE, FALSE, TRUE, FALSE)

\* A favourite that is removed and added again has a new created_at.
Favourites == Endpoint(FALSE, FALSE, FALSE, TRUE, TRUE)

\* Conversations are ordered by their creation, not by their last message.
Conversations == Endpoint(FALSE, FALSE, FALSE, FALSE, FALSE)

\* A deleted message stays in the history, without its text.
History == Endpoint(FALSE, FALSE, FALSE, FALSE, FALSE)

Lists == {Newest, PriceAsc, PriceDesc, OwnedListings, MyPromotions, Reports, Favourites,
          Conversations, History}

-----------------------------------------------------------------------------
(* Cursors                                                                 *)

NoCursor == <<>>

\* What encode_cursor, encode_ranked_cursor and encode_ranked_price_cursor keep of a row.
\* created_at and the price are decoded as they were encoded.
Key(r) == <<rank[r], value[r], r>>

\* The order of the list
Ahead(a, b) ==
  \/ a[1] > b[1]
  \/ a[1] = b[1] /\ IF list.ascending THEN a[2] < b[2] ELSE a[2] > b[2]
  \/ a[1] = b[1] /\ a[2] = b[2] /\ IF list.ascending THEN a[3] < b[3] ELSE a[3] > b[3]

TypeOK ==
  /\ list \in Lists
  /\ rank \in [Rows -> Ranks]
  /\ value \in [Rows -> Values]
  /\ listed \subseteq Rows
  /\ cursor = NoCursor \/ cursor \in Ranks \X Values \X Rows
  /\ shown \in Seq(Rows)
  /\ over \in BOOLEAN
  /\ changes \in 0 .. MaxChanges
  /\ moved \subseteq Rows /\ missing \subseteq Rows

Init ==
  /\ list \in Lists
  /\ rank \in [Rows -> IF list.ranked THEN Ranks ELSE {0}]
  /\ value \in [Rows -> Values]
  /\ listed \in SUBSET Rows
  /\ cursor = NoCursor /\ shown = <<>> /\ over = FALSE
  /\ changes = 0
  /\ moved = {} /\ missing = Rows \ listed

-----------------------------------------------------------------------------
(* The walk                                                                *)

\* Mutant: the cursor's row again.
FromCursor(r) == cursor = NoCursor \/ ~Ahead(Key(r), cursor)

\* Mutant: without the tie-break by id.
PastValue(r) ==
  \/ cursor = NoCursor
  \/ rank[r] < cursor[1]
  \/ rank[r] = cursor[1] /\ IF list.ascending THEN value[r] > cursor[2] ELSE value[r] < cursor[2]

\* The condition a query adds for its cursor
PastCursor(r) == cursor = NoCursor \/ Ahead(cursor, Key(r))

\* Mutant: ORDER BY forgets the rank.
SortedByValue(S) ==
  [k \in 1 .. Cardinality(S) |-> CHOOSE r \in S :
     Cardinality({q \in S : Ahead(<<0, value[q], q>>, <<0, value[r], r>>)}) = k - 1]

\* ORDER BY
Sorted(S) ==
  [k \in 1 .. Cardinality(S) |-> CHOOSE r \in S :
     Cardinality({q \in S : Ahead(Key(q), Key(r))}) = k - 1]

\* The rows a query returns
Page(limit) ==
  LET found == Sorted({r \in listed : PastCursor(r)})
  IN  SubSeq(found, 1, IF Len(found) < limit THEN Len(found) ELSE limit)

\* A page that is not full has none.
NextCursor(page, limit) == IF Len(page) = limit THEN Key(Last(page)) ELSE NoCursor

\* One request, for limit rows
FetchPage(limit) ==
  LET page == Page(limit) IN
  /\ ~over
  /\ shown' = shown \o page
  /\ cursor' = NextCursor(page, limit)
  /\ over' = (cursor' = NoCursor)
  /\ UNCHANGED <<list, rows, changes, moved, missing>>

-----------------------------------------------------------------------------
(* What happens to the rows meanwhile                                      *)

Change ==
  /\ ~over
  /\ changes < MaxChanges
  /\ changes' = changes + 1
  /\ UNCHANGED <<list, walk>>

\* A promotion of rank k is bought.
Promote(r, k) ==
  /\ list.ranked
  /\ k > rank[r]
  /\ Change
  /\ rank' = [rank EXCEPT ![r] = k]
  /\ moved' = moved \cup {r}
  /\ UNCHANGED <<value, listed, missing>>

\* The highest promotion of r runs out, and another may go on.
Demote(r, k) ==
  /\ list.ranked
  /\ k < rank[r]
  /\ Change
  /\ rank' = [rank EXCEPT ![r] = k]
  /\ moved' = moved \cup {r}
  /\ UNCHANGED <<value, listed, missing>>

\* The owner changes the price.
Reprice(r, v) ==
  /\ list.repriced
  /\ v # value[r]
  /\ Change
  /\ value' = [value EXCEPT ![r] = v]
  /\ moved' = moved \cup {r}
  /\ UNCHANGED <<rank, listed, missing>>

\* r is deleted, hidden, decided, edited, or removed from the favourites.
Leave(r) ==
  /\ list.leaves
  /\ r \in listed
  /\ Change
  /\ listed' = listed \ {r}
  /\ missing' = missing \cup {r}
  /\ UNCHANGED <<rank, value, moved>>

\* r is inserted, or meets the conditions again.
Enter(r) ==
  /\ r \notin listed
  /\ Change
  /\ listed' = listed \cup {r}
  /\ \/ UNCHANGED <<value, moved>>
     \/ /\ list.readded
        /\ \E v \in Values \ {value[r]} : value' = [value EXCEPT ![r] = v]
        /\ moved' = moved \cup {r}
  /\ UNCHANGED <<rank, missing>>

-----------------------------------------------------------------------------
Next ==
  \/ \E limit \in 1 .. MaxLimit : FetchPage(limit)
  \/ \E r \in Rows, k \in Ranks : Promote(r, k)
  \/ \E r \in Rows, k \in Ranks : Demote(r, k)
  \/ \E r \in Rows, v \in Values : Reprice(r, v)
  \/ \E r \in Rows : Leave(r)
  \/ \E r \in Rows : Enter(r)

Spec == Init /\ [][Next]_vars

-----------------------------------------------------------------------------
(* Properties                                                              *)

\* A walk to the end has sent every row that was listed all the time and kept its place,
\* whatever was inserted, deleted or moved around it, and however long its pages were.
NothingSkipped == over => Rows \ (moved \cup missing) \subseteq Range(shown)

\* The pages together are in the list's order, and send no row twice, but for rows that have
\* changed their place in it: with promotions, prices or favourites, and never in the lists
\* by creation, rows that leave and return included.
PagesInOrder ==
  \A i, j \in DOMAIN shown :
    i < j /\ {shown[i], shown[j]} \cap moved = {} => Ahead(Key(shown[i]), Key(shown[j]))
=============================================================================
