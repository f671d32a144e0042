---------------------------- MODULE MCFulfilment ----------------------------
(***************************************************************************)
(* An instance of Fulfilment for TLC: one shipment, its history and        *)
(* MaxCalls calls.                                                         *)
(***************************************************************************)
EXTENDS Fulfilment

CONSTANT MaxCalls   \* bounds the handlers called

VARIABLES
  disturbed,   \* history variable: two handlers were in flight at once, or one was lost
  unordered,   \* history variable: a point was stored after one taken later
  crashed,     \* history variable: the process ended
  confirmed,   \* history variable: a payment confirmed the shipment
  calls        \* handlers called

Busy == { r \in Requests : pc[r] # "idle" }

Overlapping == \E r, s \in Busy : r # s

MCInit == Init /\ disturbed = FALSE /\ unordered = FALSE /\ crashed = FALSE
          /\ confirmed = FALSE /\ calls = 0

MCNext ==
  /\ \/ (\E r \in Requests : Arrive(r)) /\ calls < MaxCalls /\ calls' = calls + 1
     \/ (\E r \in Requests : Proceed(r)) /\ UNCHANGED calls
     \/ (Move \/ LiveExpires \/ HourPasses) /\ UNCHANGED calls
  /\ disturbed' = (disturbed \/ Overlapping')
  /\ unordered' = (unordered \/ \E p \in stored' \ stored, q \in stored : p < q)
  /\ confirmed' = (confirmed \/ \E r \in Requests : pc[r] = "confirm" /\ pc'[r] = "contract")
  /\ UNCHANGED crashed

MCDown ==
  /\ Busy # {}
  /\ Down \/ \E r \in Requests : Unhandled(r)
  /\ disturbed' = TRUE /\ crashed' = TRUE
  /\ UNCHANGED << unordered, confirmed, calls >>

MCSpec == MCInit /\ [][MCNext \/ MCDown]_<< vars, disturbed, unordered, crashed, confirmed, calls >>

-----------------------------------------------------------------------------
Commerce == { r \in Busy : req[r].op = "commerce" }

\* Unless the process ended, a shipment that a payment confirmed has its contract
\* and invoice once nothing of its confirmations is under way, however many
\* there were and wherever administrators moved it meanwhile.
ConfirmedIsInvoiced ==
  ~ crashed /\ confirmed /\ Commerce = {} => contract /\ invoice

\* As long as handlers run one at a time and end, and points arrive in the order
\* they were taken, the live position is the newest one or has expired.
LiveIsNewest ==
  ~ disturbed /\ ~ unordered /\ Busy = {} /\ live # None => live = Newest
=============================================================================
