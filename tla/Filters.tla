------------------------------ MODULE Filters -------------------------------
(***************************************************************************)
(* The custom filters of a category, which moderators define, and the      *)
(* values a seller gives them in a listing: FilterDefinitionsService, and  *)
(* ListingsService.create_listing and update_listing as far as they go.    *)
(*                                                                         *)
(* A listing is checked against the definitions in a query of its own, a   *)
(* definition against its row as it was loaded, and then one statement     *)
(* writes.  Nothing is locked, and listings are not checked again when     *)
(* their definitions change.                                               *)
(*                                                                         *)
(* The definition that request r creates is called r too.                  *)
(***************************************************************************)
EXTENDS Integers, FiniteSets

CONSTANTS
  Given,       \* definitions there may be at first
  Callers,     \* the requests
  Kinds,       \* categories
  Slugs,
  FilterValues,  \* [kind : {"str", "num", "bool"}, n : Int]; n tells values of a kind apart
  Options,     \* what "options" may hold: the values to select from, a min and a max
  Posted,      \* the definitions moderators post
  Patches,     \* what they send to change one, with the category in the URL
  None         \* an absent min or max, a field that a PATCH leaves out, no row

Types  == {"TEXT", "NUMBER", "BOOLEAN", "SELECT", "RANGE"}
DefIds == Given \cup Callers
Empty  == [values |-> {}, min |-> None, max |-> None]

Definitions == [category : Kinds, slug : Slugs, type : Types, options : Options,
                required : BOOLEAN]
PatchBodies == [category : Kinds, slug : Slugs \cup {None}, type : Types \cup {None},
                options : Options \cup {None}, required : BOOLEAN \cup {None}]

\* custom_filters: the values given, at most one for a slug
CustomFilters == {f \in SUBSET (Slugs \X FilterValues) :
                    \A x, y \in f : x[1] = y[1] => x = y}
Contents      == [category : Kinds, filters : CustomFilters]

ASSUME FiltersAssumption ==
  /\ Given \cap Callers = {}
  /\ FilterValues \subseteq [kind : {"str", "num", "bool"}, n : Int]
  /\ Empty \in Options
  /\ Options \subseteq [values : SUBSET FilterValues, min : Int \cup {None}, max : Int \cup {None}]
  /\ Posted \subseteq Definitions /\ Patches \subseteq PatchBodies
  /\ None \notin Slugs /\ None \notin Types /\ None \notin Options /\ None \notin BOOLEAN
  /\ None \notin Definitions /\ None \notin Contents

VARIABLES
  defs,     \* defs[d]  : its row, or None
  listing,  \* a listing's category and custom_filters, None before it is posted
  step,     \* step[q]  : where request q is
  aim,      \* aim[q]   : the definition it is about, or None for the listing
  body,     \* body[q]  : its data
  raced,    \* history: pairs of requests of which one began while the other ran
  fitted    \* history: the contents that have fitted the definitions at some time

shop    == <<defs, listing, fitted>>
filters == <<shop, step, aim, body, raced>>

Underway == {"twin", "definitions", "insert", "update", "write"}

FiltersTypeOK ==
  /\ defs \in [DefIds -> Definitions \cup {None}]
  /\ listing \in Contents \cup {None}
  /\ step \in [Callers -> Underway \cup {"new", "done", "refused", "failed"}]
  /\ aim \in [Callers -> DefIds \cup {None}]
  /\ body \in [Callers -> Definitions \cup PatchBodies \cup Contents \cup {None}]
  /\ raced \subseteq SUBSET Callers
  /\ fitted \subseteq Contents

-----------------------------------------------------------------------------
(* Validation                                                              *)

\* Python's ==, for which True is 1
Equal(v, w) == v.n = w.n /\ (v.kind = w.kind \/ "str" \notin {v.kind, w.kind})

\* and of two dicts of filters: the same slugs, with equal values
SameFilters(f, g) ==
  /\ \A x \in f : \E y \in g : x[1] = y[1] /\ Equal(x[2], y[2])
  /\ \A y \in g : \E x \in f : x[1] = y[1] /\ Equal(x[2], y[2])

SameContent(c, e) == c.category = e.category /\ SameFilters(c.filters, e.filters)

\* validate_select_options
HasValues(options) == options.values # {}

\* validate_filter_value
Accepts(type, options, v) ==
  CASE type = "TEXT"    -> v.kind = "str"
    [] type = "NUMBER"  -> v.kind = "num"
    [] type = "BOOLEAN" -> v.kind = "bool"
    [] type = "SELECT"  -> \E o \in options.values : Equal(o, v)
    [] type = "RANGE"   -> /\ v.kind = "num"
                           /\ options.min # None => options.min <= v.n
                           /\ options.max # None => v.n <= options.max

\* get_by_category_id
Of(category) == {d \in DefIds : defs[d] # None /\ defs[d].category = category}

\* validate_custom_filters.  A category without definitions takes anything.
Fits(content) ==
  LET ids == Of(content.category) IN
  ids # {} =>
    /\ \A d \in ids : defs[d].required => \E x \in content.filters : x[1] = defs[d].slug
    /\ \A x \in content.filters :
         \E d \in ids : defs[d].slug = x[1] /\ Accepts(defs[d].type, defs[d].options, x[2])

Fitting == {content \in Contents : Fits(content)}

FiltersInit ==
  /\ \E given \in [Given -> Posted \cup {None}] :
       defs = [d \in DefIds |-> IF d \in Given THEN given[d] ELSE None]
  /\ \A d \in Given : defs[d] # None /\ defs[d].type = "SELECT" => HasValues(defs[d].options)
  /\ \A d, e \in {d \in Given : defs[d] # None} :
       defs[d].category = defs[e].category /\ defs[d].slug = defs[e].slug => d = e
  /\ listing \in Fitting \cup {None}
  /\ step = [q \in Callers |-> "new"]
  /\ aim = [q \in Callers |-> None]
  /\ body = [q \in Callers |-> None]
  /\ raced = {}
  /\ fitted = Fitting

-----------------------------------------------------------------------------
(* Definitions                                                             *)

BeginAt(q, d, data, where) ==
  /\ step[q] = "new"
  /\ step' = [step EXCEPT ![q] = where]
  /\ aim' = [aim EXCEPT ![q] = d]
  /\ body' = [body EXCEPT ![q] = data]
  /\ raced' = raced \cup {{q, o} : o \in {o \in Callers : step[o] \in Underway}}
  /\ UNCHANGED shop

MoveTo(q, where) ==
  /\ step' = [step EXCEPT ![q] = where]
  /\ UNCHANGED <<aim, body, raced>>

\* create_definition.  The schema has checked the options of a SELECT.
BeginDefine(q, def) ==
  /\ def.type = "SELECT" => HasValues(def.options)
  /\ BeginAt(q, q, def, "twin")

\* Mutant: looks only at the options that the PATCH has.
PassesAlone(def, patch) ==
  patch.type = "SELECT" /\ patch.options # None => HasValues(patch.options)

\* The service's check, on the row it has loaded.  Options that are null or {} are falsy, so
\* that the row's are looked at in their place.
Passes(def, patch) ==
  LET type    == IF patch.type = None THEN def.type ELSE patch.type
      options == IF patch.options \in {None, Empty} THEN def.options ELSE patch.options
  IN type = "SELECT" => HasValues(options)

\* update_definition.  A twin is looked for, if the slug is to change, before the options.
BeginPatch(q, d, patch) ==
  /\ defs[d] # None /\ patch.category = defs[d].category
  /\ BeginAt(q, d, patch,
             IF ~Passes(defs[d], patch) THEN "refused"
             ELSE IF patch.slug \in {None, defs[d].slug} THEN "update" ELSE "twin")

\* get_by_category_and_slug
FindTwin(q) ==
  /\ step[q] = "twin"
  /\ MoveTo(q, IF \E d \in Of(body[q].category) : defs[d].slug = body[q].slug THEN "refused"
               ELSE IF aim[q] = q THEN "insert" ELSE "update")
  /\ UNCHANGED shop

\* One statement, with the unique constraint on category and slug
SetDefinition(q, d, row) ==
  \/ /\ \E e \in Of(row.category) \ {d} : defs[e].slug = row.slug
     /\ MoveTo(q, "failed")
     /\ UNCHANGED shop
  \/ /\ \A e \in Of(row.category) \ {d} : defs[e].slug # row.slug
     /\ defs' = [defs EXCEPT ![d] = row]
     /\ fitted' = fitted \cup Fitting'
     /\ MoveTo(q, "done")
     /\ UNCHANGED listing

InsertDefinition(q) == step[q] = "insert" /\ SetDefinition(q, q, body[q])

\* The fields of the PATCH.  A null slug is one left out.
Patched(def, patch) ==
  [f \in DOMAIN def |-> IF patch[f] = None THEN def[f] ELSE patch[f]]

\* update_by_id.  A row that is gone is not there to answer with.
UpdateDefinition(q) ==
  /\ step[q] = "update"
  /\ \/ defs[aim[q]] = None /\ MoveTo(q, "failed") /\ UNCHANGED shop
     \/ defs[aim[q]] # None /\ SetDefinition(q, aim[q], Patched(defs[aim[q]], body[q]))

\* delete_definition
DeleteDefinition(d) ==
  /\ defs[d] # None
  /\ defs' = [defs EXCEPT ![d] = None]
  /\ fitted' = fitted \cup Fitting'
  /\ UNCHANGED <<listing, step, aim, body, raced>>

-----------------------------------------------------------------------------
(* The listing                                                             *)

\* create_listing
BeginPost(q, content) ==
  /\ listing = None
  /\ BeginAt(q, None, content, "definitions")

\* Mutant: not checked if the filters are the same, whatever the category.
BeginEditByFilters(q, content) ==
  /\ listing # None
  /\ BeginAt(q, None, content,
             IF SameFilters(content.filters, listing.filters) THEN "write" ELSE "definitions")

\* update_listing, with the listing that get_owned_listing_by_id has loaded.  Contents equal to
\* what they were are not checked again: not those either that put true in the place of 1.
BeginEdit(q, content) ==
  /\ listing # None
  /\ BeginAt(q, None, content, IF SameContent(content, listing) THEN "write" ELSE "definitions")

ReadDefinitions(q) ==
  /\ step[q] = "definitions"
  /\ MoveTo(q, IF Fits(body[q]) THEN "write" ELSE "refused")
  /\ UNCHANGED shop

\* Posts go to listings of their own: there is one here.
WriteListing(q) ==
  /\ step[q] = "write"
  /\ listing' = body[q]
  /\ MoveTo(q, "done")
  /\ UNCHANGED <<defs, fitted>>

\* Another error, or a death
FailRequest(q) ==
  /\ step[q] \in Underway
  /\ MoveTo(q, "failed")
  /\ UNCHANGED shop

-----------------------------------------------------------------------------
FiltersNext ==
  \/ \E q \in Callers, def \in Posted : BeginDefine(q, def)
  \/ \E q \in Callers, d \in DefIds, patch \in Patches : BeginPatch(q, d, patch)
  \/ \E q \in Callers : FindTwin(q)
  \/ \E q \in Callers : InsertDefinition(q)
  \/ \E q \in Callers : UpdateDefinition(q)
  \/ \E d \in DefIds : DeleteDefinition(d)
  \/ \E q \in Callers, content \in Contents : BeginPost(q, content)
  \/ \E q \in Callers, content \in Contents : BeginEdit(q, content)
  \/ \E q \in Callers : ReadDefinitions(q)
  \/ \E q \in Callers : WriteListing(q)
  \/ \E q \in Callers : FailRequest(q)

FiltersSpec == FiltersInit /\ [][FiltersNext]_filters

-----------------------------------------------------------------------------
(* Properties                                                              *)

\* A SELECT is left without values only by a PATCH that sends options null or {}, or by two
\* that raced, one of which made it a SELECT and one took its values.
SelectHasValuesUnlessRaced ==
  \A d \in DefIds : defs[d] # None /\ defs[d].type = "SELECT" /\ ~HasValues(defs[d].options) =>
    \E q \in Callers :
      /\ step[q] = "done" /\ aim[q] = d /\ q # d
      /\ body[q].options # None /\ ~HasValues(body[q].options)
      /\ \/ body[q].options = Empty
         \/ \E o \in Callers \ {q, d} :
              {q, o} \in raced /\ step[o] = "done" /\ aim[o] = d /\ body[o].type = "SELECT"

\* The category and the filters a listing shows are equal to contents that have fitted one
\* another under definitions that stood together at some moment, however edits and changes
\* of definitions overlap.  They are equal in Python, and need not have fitted themselves:
\* an edit of a NUMBER or a RANGE from 1 to true is not checked, though true would be refused.
ListingHasFitted ==
  listing # None => \E content \in fitted : SameContent(content, listing)
=============================================================================
