------------------------------ MODULE Listings ------------------------------
(***************************************************************************)
(* One truck listing (TruckListingsService, TruckMediaService): whether it *)
(* is offered, its images with the one that is its cover, and its reviews  *)
(* with the rating computed from them.  The cover is kept twice, as a flag *)
(* of an image and as an address in the listing; both and the rating are   *)
(* written by statements of their own.                                     *)
(***************************************************************************)
EXTENDS Naturals, FiniteSets

CONSTANTS
  Images,      \* images and their addresses
  Reviews,     \* reviews that may be written
  MAX_IMAGES,  \* images a listing may have
  Requests,    \* handlers that may be in flight at once
  None         \* SQL NULL, no row

VARIABLES
  status,   \* truck_listings.listing_status; None before the row exists
  enabled,  \* truck_listings.is_listing_enabled
  image,    \* truck_listing_images: "new" before, "gone" after the row
  cover,    \* truck_listings.cover_image_url
  review,   \* truck_reviews
  rating,   \* the reviews avg_rating and review_count were computed from
  pc,       \* where each handler stands
  req       \* what it was called with and what it read

gallery  == << image, cover >>
opinion  == << review, rating >>
listing  == << status, enabled >>
handlers == << pc, req >>
vars     == << listing, gallery, opinion, handlers >>

ListingStatus == { "draft", "pending_approval", "approved", "rejected", "suspended" }

\* files is what is left to store; flag says that the listing had no image
\* (upload), or that the image was the cover (delete).
RequestType ==
  [ op : { "upload", "delete", "cover", "review", "moderate", "submit" }, files : Nat,
    image : Images \union {None}, flag : BOOLEAN, seen : SUBSET Reviews ]

TypeOK ==
  /\ status  \in ListingStatus \union {None}
  /\ enabled \in BOOLEAN
  /\ image   \in [Images -> { "new", "plain", "cover", "gone" }]
  /\ cover   \in Images \union {None}
  /\ review  \in [Reviews -> { "new", "visible", "hidden" }]
  /\ rating  \subseteq Reviews
  /\ pc  \in [Requests -> { "idle", "write", "insert", "shown", "next", "hide",
                            "find", "clear", "mark", "show", "count", "rate" }]
  /\ req \in [Requests -> RequestType \union {None}]

Init ==
  /\ status = None /\ enabled = TRUE
  /\ image  = [i \in Images |-> "new"] /\ cover = None
  /\ review = [v \in Reviews |-> "new"] /\ rating = {}
  /\ pc  = [r \in Requests |-> "idle"]
  /\ req = [r \in Requests |-> None]

Rows    == { i \in Images : image[i] \in { "plain", "cover" } }
Visible == { v \in Reviews : review[v] = "visible" }

\* PUBLIC_LISTING_WHERE
Offered == status = "approved" /\ enabled

Begin(r, at, op, i, n, flag) ==
  /\ pc[r] = "idle" /\ status # None
  /\ pc'  = [pc  EXCEPT ![r] = at]
  /\ req' = [req EXCEPT ![r] = [ op |-> op, files |-> n, image |-> i, flag |-> flag, seen |-> {} ]]
  /\ UNCHANGED << listing, gallery, opinion >>

Goto(r, at) == pc' = [pc EXCEPT ![r] = at]

Finish(r) ==
  /\ pc'  = [pc  EXCEPT ![r] = "idle"]
  /\ req' = [req EXCEPT ![r] = None]

-----------------------------------------------------------------------------
(* TruckListingsService: the listing itself, one statement or transaction each *)

\* The addresses in a form become images, the first one the cover if none is given.
Create(given, first, url) ==
  /\ status = None /\ status' = "draft"
  /\ image' = [i \in Images |->
                 IF i \notin given THEN "new"
                 ELSE IF i = first /\ url = None THEN "cover" ELSE "plain"]
  /\ cover' = url
  /\ UNCHANGED << enabled, opinion, handlers >>

\* The owner's edit: replaces the gallery, the cover's address, or the switch.
UpdateGallery(given, url) ==
  /\ status # None
  /\ cover' = url
  /\ image' = [i \in Images |->
                 IF i \in given THEN IF i = url THEN "cover" ELSE "plain"
                 ELSE IF i \in Rows THEN "gone" ELSE image[i]]
  /\ UNCHANGED << listing, opinion, handlers >>

UpdateCover(url) ==
  status # None /\ cover' = url /\ UNCHANGED << listing, image, opinion, handlers >>

\* setCoverImage names the cover by its address.
SetCoverImage(url) ==
  /\ status # None
  /\ cover' = url
  /\ image' = [i \in Images |->
                 IF i \in Rows THEN IF i = url THEN "cover" ELSE "plain" ELSE image[i]]
  /\ UNCHANGED << listing, opinion, handlers >>

\* The owner's switch and adminSetListingEnabled write the same column.
SetEnabled ==
  status # None /\ enabled' = ~ enabled /\ UNCHANGED << status, gallery, opinion, handlers >>

\* adminApprove, adminReject and adminSuspend look at nothing.
AdminDecide(to) ==
  /\ status # None /\ status' = to
  /\ UNCHANGED << enabled, gallery, opinion, handlers >>

SubmitCall(r) ==
  status \in { "draft", "rejected" } /\ Begin(r, "write", "submit", None, 0, FALSE)

SubmitWrite(r) ==
  /\ pc[r] = "write" /\ req[r].op = "submit"
  /\ status' = "pending_approval"
  /\ Finish(r)
  /\ UNCHANGED << enabled, gallery, opinion >>

-----------------------------------------------------------------------------
(* TruckMediaService: uploadImages *)

UploadCall(r, n) ==
  /\ Cardinality(Rows) + n <= MAX_IMAGES
  /\ Begin(r, "insert", "upload", None, n, Rows = {})

\* One file after the other; image remembers the first.
UploadInsert(r) ==
  /\ pc[r] = "insert"
  /\ \E i \in Images :
       LET c == req[r]  first == c.image = None IN
       /\ image[i] = "new"
       /\ image' = [image EXCEPT ![i] = IF c.flag /\ first THEN "cover" ELSE "plain"]
       /\ req' = [req EXCEPT ![r].files = c.files - 1, ![r].image = IF first THEN i ELSE c.image]
  /\ Goto(r, IF req[r].files = 1 THEN "shown" ELSE "insert")
  /\ UNCHANGED << listing, cover, opinion >>

UploadShown_Always(r) ==
  /\ pc[r] = "shown"
  /\ Goto(r, "show") /\ UNCHANGED << listing, gallery, opinion, req >>

\* The first image is shown unless the listing shows one.
UploadShown(r) ==
  /\ pc[r] = "shown"
  /\ IF cover # None THEN Finish(r) ELSE Goto(r, "show") /\ UNCHANGED req
  /\ UNCHANGED << listing, gallery, opinion >>

-----------------------------------------------------------------------------
(* deleteImage, setCover *)

DeleteCall(r, i) == i \in Rows /\ Begin(r, "write", "delete", i, 0, image[i] = "cover")

\* The row is deleted by its id: one that is gone throws.
DeleteWrite(r) ==
  LET c == req[r]  there == c.image \in Rows IN
  /\ pc[r] = "write" /\ c.op = "delete"
  /\ image' = IF there THEN [image EXCEPT ![c.image] = "gone"] ELSE image
  /\ IF there /\ c.flag THEN Goto(r, "next") /\ UNCHANGED req ELSE Finish(r)
  /\ UNCHANGED << listing, cover, opinion >>

DeleteNext(r) ==
  /\ pc[r] = "next"
  /\ \/ Rows = {} /\ Goto(r, "hide") /\ UNCHANGED req
     \/ \E i \in Rows : Goto(r, "find") /\ req' = [req EXCEPT ![r].image = i]
  /\ UNCHANGED << listing, gallery, opinion >>

DeleteHide(r) ==
  pc[r] = "hide" /\ cover' = None /\ Finish(r) /\ UNCHANGED << listing, image, opinion >>

SetCoverCall(r, i) == i \in Rows /\ Begin(r, "clear", "cover", i, 0, FALSE)

\* setCoverInternal, for an image deleteImage has chosen.
CoverFind(r) ==
  /\ pc[r] = "find"
  /\ IF req[r].image \in Rows THEN Goto(r, "clear") /\ UNCHANGED req ELSE Finish(r)
  /\ UNCHANGED << listing, gallery, opinion >>

CoverClear(r) ==
  /\ pc[r] = "clear"
  /\ image' = [i \in Images |-> IF image[i] = "cover" THEN "plain" ELSE image[i]]
  /\ Goto(r, "mark")
  /\ UNCHANGED << listing, cover, opinion, req >>

CoverMark(r) ==
  LET i == req[r].image IN
  /\ pc[r] = "mark"
  /\ IF i \in Rows
     THEN image' = [image EXCEPT ![i] = "cover"] /\ Goto(r, "show") /\ UNCHANGED req
     ELSE UNCHANGED image /\ Finish(r)
  /\ UNCHANGED << listing, cover, opinion >>

CoverShow(r) ==
  /\ pc[r] = "show"
  /\ cover' = req[r].image
  /\ Finish(r)
  /\ UNCHANGED << listing, image, opinion >>

-----------------------------------------------------------------------------
(* createReview, adminModerateReview, recalculateListingRating *)

ReviewCall(r) == Offered /\ Begin(r, "write", "review", None, 0, FALSE)

ReviewInsert(r) ==
  /\ pc[r] = "write" /\ req[r].op = "review"
  /\ \E v \in Reviews : review[v] = "new" /\ review' = [review EXCEPT ![v] = "visible"]
  /\ Goto(r, "count")
  /\ UNCHANGED << listing, gallery, rating, req >>

ModerateCall_NoRating(r, v, to) ==
  /\ pc[r] = "idle" /\ review[v] # "new"
  /\ review' = [review EXCEPT ![v] = to]
  /\ UNCHANGED << listing, gallery, rating, handlers >>

ModerateCall(r, v, to) ==
  /\ pc[r] = "idle" /\ review[v] # "new"
  /\ review' = [review EXCEPT ![v] = to]
  /\ Goto(r, "count")
  /\ req' = [req EXCEPT ![r] = [ op |-> "moderate", files |-> 0, image |-> None, flag |-> FALSE, seen |-> {} ]]
  /\ UNCHANGED << listing, gallery, rating >>

RatingCount(r) ==
  /\ pc[r] = "count"
  /\ req' = [req EXCEPT ![r].seen = Visible]
  /\ Goto(r, "rate")
  /\ UNCHANGED << listing, gallery, opinion >>

RatingWrite(r) ==
  /\ pc[r] = "rate"
  /\ rating' = req[r].seen
  /\ Finish(r)
  /\ UNCHANGED << listing, gallery, review >>

-----------------------------------------------------------------------------
\* A crash, or a statement or a file that is refused: the rest does not happen.
Abort(r) == pc[r] # "idle" /\ Finish(r) /\ UNCHANGED << listing, gallery, opinion >>

Arrive(r) ==
  \/ SubmitCall(r) \/ ReviewCall(r)
  \/ \E n \in 1..2 : UploadCall(r, n)
  \/ \E i \in Images : DeleteCall(r, i) \/ SetCoverCall(r, i)
  \/ \E v \in Reviews, to \in { "visible", "hidden" } : ModerateCall(r, v, to)

Proceed(r) ==
  \/ SubmitWrite(r)
  \/ UploadInsert(r) \/ UploadShown(r)
  \/ DeleteWrite(r) \/ DeleteNext(r) \/ DeleteHide(r)
  \/ CoverFind(r) \/ CoverClear(r) \/ CoverMark(r) \/ CoverShow(r)
  \/ ReviewInsert(r) \/ RatingCount(r) \/ RatingWrite(r)

\* Forms in which the owner types the addresses of images himself.
Typed ==
  \E given \in SUBSET Images, url \in Images \union {None} :
    \/ \E first \in given : Create(given, first, url)
    \/ url # None /\ Create({}, None, url)
    \/ UpdateGallery(given, url) \/ UpdateCover(url)
    \/ url \in Images \ Rows /\ SetCoverImage(url)

Decide ==
  \/ Create({}, None, None)
  \/ \E i \in Rows : SetCoverImage(i)
  \/ SetEnabled
  \/ \E to \in { "approved", "rejected", "suspended" } : AdminDecide(to)

Next ==
  \/ \E r \in Requests : Arrive(r) \/ Proceed(r) \/ Abort(r)
  \/ Typed \/ Decide

Spec == Init /\ [][Next]_vars
=============================================================================
