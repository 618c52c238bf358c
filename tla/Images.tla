------------------------------- MODULE Images -------------------------------
(***************************************************************************)
(* The images of one listing, in the order its page shows them, the avatar *)
(* of one user, and the objects in S3 behind both: ImageService.           *)
(*                                                                         *)
(* A request r works through todo[r], a sequence of statements.  A         *)
(* statement gives rows of listing_images a sort_order (or takes it away,  *)
(* when it deletes the row), one row after another; a row that is not      *)
(* there yet is inserted, one that is gone by then is skipped.  What the   *)
(* open transaction of r has written is draft[r].  PostgreSQL makes r wait *)
(* for a row another transaction has written and for a sort_order another  *)
(* gives or takes away, and refuses a sort_order that is in use.           *)
(*                                                                         *)
(* The image that request r makes of its k-th file is <<r, k>>, and so is  *)
(* the key of its object.                                                  *)
(***************************************************************************)
EXTENDS Integers, FiniteSets, Sequences, Functions

CONSTANTS
  Requests,
  Posted,    \* the images the listing starts with
  Size,      \* Size[r] : bound on the files r uploads
  NoImage

Files  == [r \in Requests |-> 1 .. Size[r]]
Images == Posted \cup UNION {{r} \X Files[r] : r \in Requests}

ASSUME ImagesAssumption ==
  /\ IsFiniteSet(Posted)
  /\ \A r \in Requests : Posted \cap ({r} \X Files[r]) = {}
  /\ Size \in [Requests -> Nat \ {0}]
  /\ NoImage \notin Images

VARIABLES
  place,    \* place[i] : the sort_order of i's row in listing_images
  image,    \* image[i] : i's row in images
  avatar,   \* users.avatar_image_id
  objects,  \* keys in S3
  kind,     \* kind[r]  : what the request r asks for
  pc,
  todo,     \* todo[r]  : the statements r has still to execute
  draft,    \* draft[r] : the rows r has written and not committed
  old,      \* old[r]   : the avatar r read when it began
  wanted,   \* wanted[r]: the order a reordering asks for
  keys,     \* keys[r]  : the objects r deletes when it fails
  overlapped,  \* history: requests on the listing that ran beside another
  refused,     \* history: requests that met a sort_order in use
  unanswered,  \* history: requests whose commit succeeded and reported failure
  strays       \* history: objects left by a death, a failed clean-up, a lost answer of S3

reqVars == <<kind, old, wanted>>
history == <<overlapped, refused, unanswered, strays>>
vars == <<place, image, avatar, objects, pc, todo, draft, keys, reqVars, history>>

NoPlace == -1

OnListing == {"upload", "delete", "reorder"}

Running == {"put", "write", "read", "commit", "clean"}

TypeOK ==
  /\ place \in [Images -> Nat \cup {NoPlace}]
  /\ \A i, j \in Images : place[i] = place[j] /\ place[i] # NoPlace => i = j
  /\ image \in [Images -> {"none", "live", "deleted"}]
  /\ avatar \in Images \cup {NoImage}
  /\ objects \subseteq Images
  /\ kind \in [Requests -> OnListing \cup {"none", "set", "remove"}]
  /\ pc \in [Requests -> Running \cup {"new", "done", "failed"}]
  /\ \A r \in Requests :
       /\ DOMAIN draft[r] \subseteq Images
       /\ \A i \in DOMAIN draft[r] : draft[r][i] \in Nat \cup {NoPlace}
       /\ pc[r] \notin Running \ {"clean"} => draft[r] = <<>> /\ todo[r] = <<>>
  /\ old \in [Requests -> Images \cup {NoImage}]
  /\ wanted \in [Requests -> Seq(Images)]
  /\ keys \in [Requests -> SUBSET Images]
  /\ overlapped \subseteq Requests /\ refused \subseteq Requests
  /\ unanswered \subseteq Requests /\ strays \subseteq Images

\* The listing's images are in some order without gaps, and the user has no avatar.
Init ==
  /\ \E f \in Bijection(Posted, 0 .. Cardinality(Posted) - 1) :
       place = [i \in Images |-> IF i \in Posted THEN f[i] ELSE NoPlace]
  /\ image = [i \in Images |-> IF i \in Posted THEN "live" ELSE "none"]
  /\ avatar = NoImage
  /\ objects = Posted
  /\ kind = [r \in Requests |-> "none"]
  /\ pc = [r \in Requests |-> "new"]
  /\ todo = [r \in Requests |-> <<>>]
  /\ draft = [r \in Requests |-> <<>>]
  /\ old = [r \in Requests |-> NoImage]
  /\ wanted = [r \in Requests |-> <<>>]
  /\ keys = [r \in Requests |-> {}]
  /\ overlapped = {} /\ refused = {} /\ unanswered = {} /\ strays = {}

-----------------------------------------------------------------------------
(* listing_images                                                          *)

\* The committed rows, by sort_order: get_by_listing
Rows == {i \in Images : place[i] # NoPlace}

InOrder(S, f) ==
  [k \in 1 .. Cardinality(S) |-> CHOOSE i \in S : Cardinality({j \in S : f[j] < f[i]}) = k - 1]

\* The statement about the one row i
Given(i, p) == [j \in {i} |-> p]

\* f with i at p
Placed(f, i, p) == [j \in DOMAIN f \cup {i} |-> IF j = i THEN p ELSE f[j]]

\* The places as the transaction of r sees them
Seen(r) == [i \in Images |-> IF i \in DOMAIN draft[r] THEN draft[r][i] ELSE place[i]]

RowLocked(r, i) == \E q \in Requests \ {r} : i \in DOMAIN draft[q]

\* Whether p is in use depends on how another transaction ends.  A place that one has
\* left again is taken to be free.
Contended(r, p) ==
  /\ p # NoPlace
  /\ \E q \in Requests \ {r} : \E i \in DOMAIN draft[q] : p \in {place[i], draft[q][i]}

\* uq_listing_images_listing_id_sort_order
Taken(r, i, p) == p # NoPlace /\ \E j \in Images \ {i} : Seen(r)[j] = p

\* Contiguous from 0, which is the cover
Contiguous(f) ==
  LET used == {f[i] : i \in Images} \ {NoPlace}
  IN  used = 0 .. Cardinality(used) - 1

\* download_listing_image and download_user_avatar answer with an object.
Downloadable(i) == i \in Rows /\ image[i] = "live" /\ i \in objects

AvatarDownloadable == avatar # NoImage /\ image[avatar] = "live" /\ avatar \in objects

-----------------------------------------------------------------------------
(* The requests up to their first write                                    *)

\* r begins; a request on the listing notes which others are running beside it.
Begin(r, k) ==
  LET others == {q \in Requests : kind[q] \in OnListing /\ pc[q] \in Running} IN
  /\ pc[r] = "new"
  /\ kind' = [kind EXCEPT ![r] = k]
  /\ overlapped' = IF k \in OnListing /\ others # {} THEN overlapped \cup others \cup {r}
                                                     ELSE overlapped
  /\ UNCHANGED <<place, image, avatar, objects, draft, refused, unanswered, strays>>

\* upload_listing_images: the new images go after those it counts.
BeginUpload(r, n) ==
  /\ Begin(r, "upload")
  /\ pc' = [pc EXCEPT ![r] = "put"]
  /\ todo' = [todo EXCEPT ![r] = [k \in 1 .. n |-> Given(<<r, k>>, Cardinality(Rows) + k - 1)]]
  /\ UNCHANGED <<old, wanted, keys>>

\* delete_listing_image
BeginDelete(r, i) ==
  /\ i \in Rows
  /\ Begin(r, "delete")
  /\ pc' = [pc EXCEPT ![r] = "write"]
  /\ todo' = [todo EXCEPT ![r] = <<Given(i, NoPlace)>>]
  /\ UNCHANGED <<old, wanted, keys>>

\* Places from first on, in the order of s
Numbered(s, first) ==
  [i \in Range(s) |-> (CHOOSE k \in DOMAIN s : s[k] = i) - 1 + first]

\* Mutant: the final places at once.
RenumberAtOnce(s) == <<Numbered(s, 0)>>

\* Mutant: the final places by the rows as they were read.
RenumberAsRead(s) ==
  <<Numbered(InOrder(Rows, place), Cardinality(Rows)), Numbered(InOrder(Rows, place), 0)>>

\* reorder_listing_images takes the rows out of the way first.
Renumber(s) ==
  <<Numbered(InOrder(Rows, place), Cardinality(Rows)), Numbered(s, 0)>>

\* The client sends all the rows, in any order.
BeginReorder(r, s) ==
  /\ s # <<>>
  /\ Begin(r, "reorder")
  /\ pc' = [pc EXCEPT ![r] = "write"]
  /\ todo' = [todo EXCEPT ![r] = Renumber(s)]
  /\ wanted' = [wanted EXCEPT ![r] = s]
  /\ UNCHANGED <<old, keys>>

\* set_user_avatar deletes its object whatever fails.
BeginSet(r) ==
  /\ Begin(r, "set")
  /\ pc' = [pc EXCEPT ![r] = "put"]
  /\ old' = [old EXCEPT ![r] = avatar]
  /\ keys' = [keys EXCEPT ![r] = {<<r, 1>>}]
  /\ UNCHANGED <<todo, wanted>>

\* remove_user_avatar
BeginRemove(r) ==
  /\ avatar # NoImage /\ image[avatar] = "live"
  /\ Begin(r, "remove")
  /\ pc' = [pc EXCEPT ![r] = "commit"]
  /\ old' = [old EXCEPT ![r] = avatar]
  /\ UNCHANGED <<todo, wanted, keys>>

-----------------------------------------------------------------------------
(* Objects                                                                 *)

\* The file that an upload puts next, or the one of an avatar
NextFile(r) == IF kind[r] = "upload" THEN CHOOSE i \in DOMAIN Head(todo[r]) : TRUE ELSE <<r, 1>>

PutObject(r) ==
  /\ pc[r] = "put"
  /\ objects' = objects \cup {NextFile(r)}
  /\ keys' = [keys EXCEPT ![r] = @ \cup {NextFile(r)}]
  /\ pc' = [pc EXCEPT ![r] = IF kind[r] = "upload" THEN "write" ELSE "commit"]
  /\ UNCHANGED <<place, image, avatar, todo, draft, reqVars, history>>

\* The transaction of r is rolled back.
RollBack(r) ==
  /\ todo' = [todo EXCEPT ![r] = <<>>]
  /\ draft' = [draft EXCEPT ![r] = <<>>]

\* Mutant: errors of the database are not caught.
GiveUpUncaught(r) ==
  /\ RollBack(r)
  /\ pc' = [pc EXCEPT ![r] = "failed"]
  /\ UNCHANGED <<place, image, avatar, keys, reqVars>>

\* An error: whoever has put objects cleans up.
GiveUp(r) ==
  /\ RollBack(r)
  /\ pc' = [pc EXCEPT ![r] = IF kind[r] \in {"upload", "set"} THEN "clean" ELSE "failed"]
  /\ UNCHANGED <<place, image, avatar, keys, reqVars>>

\* S3 fails, or stores the object and its answer is lost.  An upload does not clean up
\* a key it has no answer for.
PutFails(r) ==
  /\ pc[r] = "put"
  /\ \/ UNCHANGED <<objects, strays>>
     \/ /\ objects' = objects \cup {NextFile(r)}
        /\ strays' = strays \cup ({NextFile(r)} \ keys[r])
  /\ GiveUp(r)
  /\ UNCHANGED <<overlapped, refused, unanswered>>

\* The clean-up, each deletion of which may fail
Clean(r) ==
  /\ pc[r] = "clean"
  /\ \E kept \in SUBSET (keys[r] \cap objects) :
       /\ objects' = objects \ (keys[r] \ kept)
       /\ strays' = strays \cup kept
  /\ pc' = [pc EXCEPT ![r] = "failed"]
  /\ UNCHANGED <<place, image, avatar, todo, draft, keys, reqVars, overlapped, refused, unanswered>>

-----------------------------------------------------------------------------
(* The unit of work on a listing                                           *)

\* todo[r] without the row i of its first statement
Without(r, i) ==
  LET rest == DOMAIN Head(todo[r]) \ {i} IN
  IF rest = {} THEN Tail(todo[r]) ELSE [todo[r] EXCEPT ![1] = Restrict(@, rest)]

\* Where r goes on when its first statement has written the row i
After(r, i) ==
  IF kind[r] = "delete" /\ Head(todo[r])[i] = NoPlace THEN "read"
  ELSE IF Without(r, i) = <<>> THEN "commit"
  ELSE IF kind[r] = "upload" THEN "put"
  ELSE "write"

\* ListingImagesRepository.create, update_order, bulk_update_order and delete, one row
Write(r, i) ==
  LET p == Head(todo[r])[i] IN
  /\ pc[r] = "write"
  /\ i \in DOMAIN Head(todo[r])
  /\ ~RowLocked(r, i) /\ ~Contended(r, p)
  /\ \/ /\ image[i] # "none" /\ Seen(r)[i] = NoPlace   \* it is gone
        /\ UNCHANGED draft
     \/ /\ image[i] = "none" \/ Seen(r)[i] # NoPlace
        /\ ~Taken(r, i, p)
        /\ draft' = [draft EXCEPT ![r] = Placed(@, i, p)]
  /\ todo' = [todo EXCEPT ![r] = Without(r, i)]
  /\ pc' = [pc EXCEPT ![r] = After(r, i)]
  /\ UNCHANGED <<place, image, avatar, objects, keys, reqVars, history>>

\* An IntegrityError
Refuse(r, i) ==
  LET p == Head(todo[r])[i] IN
  /\ pc[r] = "write"
  /\ i \in DOMAIN Head(todo[r])
  /\ ~RowLocked(r, i) /\ ~Contended(r, p)
  /\ image[i] = "none" \/ Seen(r)[i] # NoPlace
  /\ Taken(r, i, p)
  /\ refused' = refused \cup {r}
  /\ GiveUp(r)
  /\ UNCHANGED <<objects, overlapped, unanswered, strays>>

\* Mutant: what is left keeps its places.
LeaveRest(r) ==
  /\ pc[r] = "read"
  /\ pc' = [pc EXCEPT ![r] = "commit"]
  /\ UNCHANGED <<place, image, avatar, objects, todo, draft, keys, reqVars, history>>

\* delete_listing_image reads what is left and closes the gaps, from the first on.
ReadRest(r) ==
  LET left  == {i \in Images : Seen(r)[i] # NoPlace}
      final == Numbered(InOrder(left, Seen(r)), 0)
      moved == InOrder({i \in left : Seen(r)[i] # final[i]}, Seen(r))
  IN
  /\ pc[r] = "read"
  /\ todo' = [todo EXCEPT ![r] = [k \in DOMAIN moved |-> Given(moved[k], final[moved[k]])]]
  /\ pc' = [pc EXCEPT ![r] = IF moved = <<>> THEN "commit" ELSE "write"]
  /\ UNCHANGED <<place, image, avatar, objects, draft, keys, reqVars, history>>

-----------------------------------------------------------------------------
(* The end of a unit of work                                               *)

\* Images the unit of work of r deletes
Gone(r) ==
  IF kind[r] \in OnListing THEN {i \in DOMAIN draft[r] : draft[r][i] = NoPlace} ELSE {old[r]}

\* Images it inserts
Made(r) ==
  CASE kind[r] = "upload" -> DOMAIN draft[r]
    [] kind[r] = "set"    -> {<<r, 1>>}
    [] OTHER              -> {}

\* What the commit of r makes visible.  The unit of work of an avatar locks the user row
\* with its first UPDATE and is one step with its commit.
Apply(r) ==
  /\ pc[r] = "commit"
  /\ place' = Seen(r)
  /\ image' = [i \in Images |-> IF i \in Gone(r) THEN "deleted"
                                 ELSE IF i \in Made(r) THEN "live" ELSE image[i]]
  /\ avatar' = CASE kind[r] = "set" -> <<r, 1>> [] kind[r] = "remove" -> NoImage [] OTHER -> avatar
  /\ RollBack(r)
  /\ UNCHANGED <<objects, keys, reqVars, overlapped, refused, strays>>

\* Mutant: the clean-up stands in a finally block.
CommitFinally(r) ==
  /\ Apply(r)
  /\ pc' = [pc EXCEPT ![r] = IF kind[r] = "upload" THEN "clean" ELSE "done"]
  /\ UNCHANGED unanswered

Commit(r) ==
  /\ Apply(r)
  /\ pc' = [pc EXCEPT ![r] = "done"]
  /\ UNCHANGED unanswered

\* The connection breaks when PostgreSQL has committed: an error like any other.
CommitUnanswered(r) ==
  /\ Apply(r)
  /\ pc' = [pc EXCEPT ![r] = IF kind[r] \in {"upload", "set"} THEN "clean" ELSE "failed"]
  /\ unanswered' = unanswered \cup {r}

\* A statement or the commit fails, a deadlock included.
DatabaseFails(r) ==
  /\ pc[r] \in {"write", "read", "commit"}
  /\ GiveUp(r)
  /\ UNCHANGED <<objects, history>>

\* The request dies, with its clean-up.  The thread that puts an object goes on.
Die(r) ==
  /\ pc[r] \in Running
  /\ \E more \in {{}} \cup (IF pc[r] = "put" THEN {{NextFile(r)}} ELSE {}) :
       /\ objects' = objects \cup more
       /\ strays' = strays \cup more \cup (keys[r] \cap objects)
  /\ RollBack(r)
  /\ pc' = [pc EXCEPT ![r] = "failed"]
  /\ UNCHANGED <<place, image, avatar, keys, reqVars, overlapped, refused, unanswered>>

-----------------------------------------------------------------------------
Next ==
  \/ \E r \in Requests : \E n \in Files[r] : BeginUpload(r, n)
  \/ \E r \in Requests, i \in Images : BeginDelete(r, i)
  \/ \E r \in Requests, s \in Bijection(1 .. Cardinality(Rows), Rows) : BeginReorder(r, s)
  \/ \E r \in Requests : BeginSet(r)
  \/ \E r \in Requests : BeginRemove(r)
  \/ \E r \in Requests : PutObject(r)
  \/ \E r \in Requests : PutFails(r)
  \/ \E r \in Requests : Clean(r)
  \/ \E r \in Requests, i \in Images : Write(r, i)
  \/ \E r \in Requests, i \in Images : Refuse(r, i)
  \/ \E r \in Requests : ReadRest(r)
  \/ \E r \in Requests : Commit(r)
  \/ \E r \in Requests : CommitUnanswered(r)
  \/ \E r \in Requests : DatabaseFails(r)
  \/ \E r \in Requests : Die(r)

Spec == Init /\ [][Next]_vars

-----------------------------------------------------------------------------
(* Properties                                                              *)

\* The listing's rows and the user's avatar never refer to a deleted image, although
\* requests delete the avatar they read when they began, and each of them can be
\* downloaded, unless the request that made it was told that its commit failed and
\* cleaned up.
RowsHaveObjects ==
  LET doubtful == UNION {{r} \X Files[r] : r \in unanswered} IN
  /\ \A i \in Rows : image[i] = "live" /\ (i \in doubtful \/ Downloadable(i))
  /\ avatar # NoImage => image[avatar] = "live" /\ (avatar \in doubtful \/ AvatarDownloadable)

\* An object without a row belongs to a request that is not over yet, but for those that
\* a death, a failed clean-up or S3 left: no way through the error handling leaves one.
NoOrphanObject ==
  \A r \in Requests : \A k \in Files[r] :
    <<r, k>> \in objects \ strays /\ image[<<r, k>>] = "none" => pc[r] \in Running

\* A deletion or a reordering that ran beside no other request leaves the places
\* contiguous, whatever gaps and whatever missing cover earlier races left; an upload
\* that did leaves them contiguous if it found them so.
RepairedAlone ==
  [][\A r \in Requests \ overlapped' :
       /\ pc[r] = "commit" /\ pc'[r] = "done" /\ kind[r] \in OnListing
       /\ kind[r] = "upload" => Contiguous(place)
       => Contiguous(place')]_vars

\* The unique constraint refuses nobody before requests on the listing have raced, and a
\* deletion only when it raced itself.
RefusedOnlyWhenRaced ==
  \A r \in refused : overlapped # {} /\ (kind[r] = "delete" => r \in overlapped)

\* When a reordering commits, the images that are left are in the order it asked for,
\* and where it asked for them, whatever ran beside it.
ReorderTakesEffect ==
  [][\A r \in Requests : pc[r] = "commit" /\ pc'[r] = "done" =>
       \A k \in DOMAIN wanted[r] : place'[wanted[r][k]] \in {k - 1, NoPlace}]_vars
=============================================================================
