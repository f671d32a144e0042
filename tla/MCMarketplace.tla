---------------------------- MODULE MCMarketplace ----------------------------
(***************************************************************************)
(* Instances of Marketplace for TLC: two days, two bookings, one quote.    *)
(***************************************************************************)
EXTENDS Marketplace, TLC

CONSTANTS b1, b2, q1, k1, s1, s2, r1, r2

CONSTANT MaxCalls   \* how many calls are made

VARIABLES
  disturbed,   \* history variable: two handlers were in flight at once, or one was lost
  calls        \* handlers called and owner's actions taken

Symmetry == Permutations(Bookings) \union Permutations(Shipments) \union Permutations(Requests)

\* The quote's preferred date is the first day, for the listing's minimal stay.
MCQuoteDays == q1 :> { [ from |-> 1, to |-> 1 ] }

Busy == { r \in Requests : pc[r] # "idle" }

Overlapping == \E r, s \in Busy : r # s

MCInit == Init /\ disturbed = FALSE /\ calls = 0

Arrival == Owner \/ \E r \in Requests : BookingCall(r) \/ QuoteCall(r)

MCNext ==
  /\ \/ Arrival /\ calls < MaxCalls /\ calls' = calls + 1
     \/ (\E r \in Requests : Proceed(r)) /\ UNCHANGED calls
  /\ disturbed' = (disturbed \/ Overlapping')

MCLost == (\E r \in Requests : Abort(r)) /\ disturbed' = TRUE /\ UNCHANGED calls

MCSpec == MCInit /\ [][MCNext \/ MCLost]_<< vars, disturbed, calls >>

-----------------------------------------------------------------------------
\* As long as handlers run one at a time, two live bookings never share a day
\* (assertRangeAvailable): what the check of the dates is for.
CalendarIsFree ==
  ~ disturbed => \A b, c \in Bookings :
    /\ b # c
    /\ Has(b, BookingStatus \ { "cancelled" }) /\ Has(c, BookingStatus \ { "cancelled" })
    => ~ Overlap(booking[b].days, booking[c].days)

\* As long as handlers run one at a time and end, a closed quote stays closed
\* (fleetAction, customerAction, convertToBooking).
ClosedStaysClosed ==
  [][~ disturbed' => \A q \in Quotes : quote[q] \in ClosedQuote => quote'[q] \in ClosedQuote]_vars

-----------------------------------------------------------------------------
\* For liveness: one customer's booking, and an owner who answers each pending
\* booking, on a calendar nobody else touches.
ConfirmNext ==
  \/ CreateCall(r1, [ from |-> 1, to |-> 1 ]) /\ booking[b1] = None
  \/ ConfirmCall(r1, b1)
  \/ Proceed(r1)

ConfirmSpec ==
  /\ MCInit /\ [][ConfirmNext /\ UNCHANGED << disturbed, calls >>]_<< vars, disturbed, calls >>
  /\ WF_vars(Proceed(r1)) /\ SF_vars(ConfirmCall(r1, b1))

\* The owner confirms a pending booking whose days nobody else takes.
PendingIsConfirmed ==
  Has(b1, { "pending" }) ~> Has(b1, { "confirmed" })
=============================================================================
