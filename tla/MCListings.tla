----------------------------- MODULE MCListings -----------------------------
(***************************************************************************)
(* Small instances of Pages and Filters for TLC.  The two share no state:  *)
(* part says which of them moves, so that the states are the sum of theirs *)
(* and not the product.                                                    *)
(***************************************************************************)
EXTENDS Pages, Filters

VARIABLE part

\* 1 and true, which are equal
One       == [kind |-> "num", n |-> 1]
True      == [kind |-> "bool", n |-> 1]
OneOnly   == [Empty EXCEPT !.values = {One}]
OneAtMost == [Empty EXCEPT !.max = 1]

MCValues  == {One, True}
MCOptions == {Empty, OneOnly, OneAtMost}

\* A required SELECT that takes both values, or a required RANGE that takes 1, under one slug
MCPosted ==
  {def \in [category : Kinds, slug : {CHOOSE slug \in Slugs : TRUE},
            type : {"SELECT", "RANGE"}, options : {OneOnly, OneAtMost}, required : {TRUE}] :
     def.type = "SELECT" <=> def.options = OneOnly}

\* A PATCH of the type and the options, or of the slug
MCPatches ==
  {patch \in [category : Kinds, slug : Slugs \cup {None}, type : {"SELECT", "RANGE", None},
              options : MCOptions \cup {None}, required : {None}] :
     patch.slug # None => patch.type = None /\ patch.options = None}

\* Listings give a value to one filter at most.
MCSingle(content) == content \in Contents => Cardinality(content.filters) <= 1

\* Each part begins as it may while the other is at one of its first states.
MCInit ==
  \/ /\ part = "pages"
     /\ Init
     /\ FiltersInit /\ listing = None /\ \A d \in Given : defs[d] = None
  \/ /\ part = "filters"
     /\ FiltersInit /\ \E d \in Given : defs[d] # None
     /\ MCSingle(listing)
     /\ Init /\ list = History /\ listed = {}
     /\ \A r \in Rows : value[r] = CHOOSE v \in Values : TRUE

MCNext ==
  \/ part = "pages" /\ Next /\ UNCHANGED <<filters, part>>
  \/ /\ part = "filters" /\ FiltersNext /\ UNCHANGED <<vars, part>>
     /\ \A q \in Callers : MCSingle(body'[q])

MCSpec == MCInit /\ [][MCNext]_<<vars, filters, part>>
=============================================================================
