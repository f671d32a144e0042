---------------------------- MODULE MCLogistics ----------------------------
(***************************************************************************)
(* An instance of Logistics for TLC: one request, two handlers at once,    *)
(* MaxCalls calls.                                                         *)
(***************************************************************************)
EXTENDS Logistics, TLC

CONSTANT MaxCalls   \* how many calls are made

VARIABLES
  disturbed,   \* history variable: two handlers were in flight at once, or one was lost
  revived,     \* history variable: a closed or replaced quote was answered or amended
  undone,      \* history variable: charges were removed by hand, or an answer lost
               \* its handler or its order before it was charged
  calls        \* handlers called

Symmetry == Permutations(Quotes) \union Permutations(Docs) \union Permutations(Requests)

Busy == { r \in Requests : pc[r] # "idle" }

Overlapping == \E r, s \in Busy : r # s

MCInit == Init /\ disturbed = FALSE /\ revived = FALSE /\ undone = FALSE /\ calls = 0

Open(q) == quote[q] # None /\ quote[q].status \in { "sent", "countered" }

\* A call that amends a quote which is not open, or changes its status.
Revives ==
  \E q \in Quotes :
    /\ quote[q] # None /\ ~ Open(q)
    /\ \/ quote'[q] # quote[q]
       \/ \E r \in Requests : pc'[r] = "insert" /\ req'[r].q = q

MCCall == (\E r \in Requests : Arrive(r)) /\ calls < MaxCalls /\ calls' = calls + 1

MCNext ==
  /\ \/ MCCall
     \/ (\E r \in Requests : Proceed(r)) /\ UNCHANGED calls
  /\ disturbed' = (disturbed \/ Overlapping' \/ (MCCall /\ Busy # {}))
  /\ revived' = (revived \/ (MCCall /\ Revives))
  /\ UNCHANGED undone

Answering(r) == pc[r] \in { "accept", "charge" }

\* A PATCH of the request while an answer is under way may take its order.
MCUpdate ==
  /\ calls < MaxCalls /\ calls' = calls + 1
  /\ \E l \in BOOLEAN, to \in Status : Update(l, to)
  /\ undone' = (undone \/ (linked /\ ~ linked' /\ \E r \in Requests : Answering(r)))
  /\ UNCHANGED << disturbed, revived >>

MCRemove ==
  /\ \E q \in Quotes : RemoveCharges(q)
  /\ undone' = TRUE
  /\ UNCHANGED << disturbed, revived, calls >>

MCLost ==
  /\ \E r \in Requests : Abort(r) /\ undone' = (undone \/ Answering(r))
  /\ disturbed' = TRUE
  /\ UNCHANGED << revived, calls >>

mcVars == << vars, disturbed, revived, undone, calls >>

MCSpec == MCInit /\ [][MCNext \/ MCUpdate \/ MCRemove \/ MCLost]_mcVars

-----------------------------------------------------------------------------
Settled == ~ disturbed /\ Busy = {}

\* As long as handlers run one at a time and end, an item with a document shows
\* what became of the newest one, unless staff marked the item missing.
ItemFollowsDocument ==
  Settled /\ item # None /\ item.doc # None /\ item.status # "missing" =>
    item.status = IF doc[item.doc] = "pending" THEN "uploaded" ELSE doc[item.doc]

\* As long as handlers run one at a time and end and nobody answers or amends a
\* quote that is closed, at most one quote is open: the newest version.
OneOpenQuote ==
  Settled /\ ~ revived =>
    \A p, q \in Quotes : Open(p) /\ Open(q) => p = q

Answered(q) == \A r \in Requests : Answering(r) => req[r].q # q

\* What an administrator accepted while the request had an order is charged once
\* the answer is through, however handlers overlap, unless charges were removed
\* or an answer lost its handler or its order on the way.
AdminAcceptedIsCharged ==
  ~ undone =>
    \A q \in Quotes :
      Answered(q) /\ [ admin |-> TRUE, linked |-> TRUE ] \in accepted[q] => charged[q] > 0

\* The same of everybody's acceptance, the customer's included.
AcceptedIsCharged ==
  ~ undone =>
    \A q \in Quotes :
      Answered(q) /\ (\E a \in accepted[q] : a.linked) => charged[q] > 0
=============================================================================
