---------------------------- MODULE MCListings ----------------------------
(***************************************************************************)
(* An instance of Listings for TLC: two images, a review, two handlers at  *)
(* once, MaxCalls calls and decisions.                                     *)
(***************************************************************************)
EXTENDS Listings

CONSTANT MaxCalls   \* bounds the handlers called and the decisions taken

VARIABLES
  disturbed,   \* history variable: two handlers were in flight at once, or one was lost
  typed,       \* history variable: the owner typed the address of an image
  calls        \* handlers called and decisions taken

Busy == { r \in Requests : pc[r] # "idle" }

Overlapping == \E r, s \in Busy : r # s

MCInit == Init /\ disturbed = FALSE /\ typed = FALSE /\ calls = 0

MCNext ==
  /\ \/ (\E r \in Requests : Arrive(r)) /\ calls < MaxCalls /\ calls' = calls + 1
     \/ Decide /\ calls < MaxCalls /\ calls' = calls + 1
     \/ (\E r \in Requests : Proceed(r)) /\ UNCHANGED calls
  /\ disturbed' = (disturbed \/ Overlapping' \/ (Decide /\ Busy # {}))
  /\ UNCHANGED typed

MCTyped ==
  /\ Typed /\ calls < MaxCalls /\ calls' = calls + 1
  /\ typed' = TRUE
  /\ disturbed' = (disturbed \/ Busy # {})

MCLost ==
  /\ \E r \in Requests : Abort(r)
  /\ disturbed' = TRUE
  /\ UNCHANGED << typed, calls >>

-----------------------------------------------------------------------------
Settled == ~ disturbed /\ Busy = {}

\* As long as handlers run one at a time and end and the owner types no
\* addresses, the image flagged as the cover is the one the listing shows, and
\* a listing that has images shows one.
MarkedIsShown ==
  Settled /\ ~ typed =>
    /\ \A i \in Images : image[i] = "cover" <=> cover = i
    /\ Rows # {} => cover # None

\* As long as handlers run one at a time and end, the rating was computed from
\* the reviews that are visible now.
RatingIsCurrent == Settled => rating = Visible
=============================================================================
