----------------------------- MODULE Fulfilment -----------------------------
(***************************************************************************)
(* What surrounds one shipment: its contract and invoice                   *)
(* (ShipmentCommerceService), the points its driver reports with the live  *)
(* position and the events they raise (TrackingService and its Redis       *)
(* cache), its rating (RatingsService) and its conversation                *)
(* (MessagingService).  The shipment itself takes any step of its table    *)
(* here, by whoever's hand; ShipmentLifecycle says how.                    *)
(***************************************************************************)
EXTENDS Naturals, ShipmentStatus

CONSTANTS
  Points,     \* points that may be recorded, numbered by the time they were taken
  Stops,      \* stops of the shipment
  AtStop,     \* the stop each point is within the radius of, or None
  OffRoute,   \* points too far from the line between pickup and delivery
  Requests,   \* handlers that may be in flight at once
  None        \* nothing

VARIABLES
  status,        \* shipments.status
  carrier,       \* "none", "owner" (fleet_owner_id is set) or "driver" (driver_id too)
  contract,      \* the shipment_contracts row exists
  invoice,       \* the shipment_invoices row exists
  stored,        \* tracking_points: the points stored
  arrived,       \* shipment_stops: the stops with an arrived_at
  arrivals,      \* geofence_events: arrivals at each stop
  deviations,    \* geofence_events: route deviations, not older than an hour
  live,          \* the position in Redis, or None
  rating,        \* carrier_ratings rows
  conversation,  \* conversations rows for this shipment
  pc,            \* where each handler stands
  req            \* what it was called with and what it read

order    == << status, carrier >>
commerce == << contract, invoice >>
tracking == << stored, arrived, arrivals, deviations, live >>
talk     == << rating, conversation >>
handlers == << pc, req >>
vars     == << order, commerce, tracking, talk, handlers >>

RequestType ==
  [ op : { "commerce", "point", "live", "rate", "open" }, point : Points \union {None},
    seen : BOOLEAN, warned : BOOLEAN, at : Status ]

TypeOK ==
  /\ status \in Status /\ carrier \in { "none", "owner", "driver" }
  /\ contract \in BOOLEAN /\ invoice \in BOOLEAN
  /\ stored \subseteq Points /\ arrived \subseteq Stops
  /\ arrivals \in [Stops -> Nat] /\ deviations \in Nat
  /\ live \in Points \union {None}
  /\ rating \in Nat /\ conversation \in Nat
  /\ pc  \in [Requests -> { "idle", "confirm", "contract", "sign", "invoice", "issue", "events", "cache", "write" }]
  /\ req \in [Requests -> RequestType \union {None}]

\* A customer drafts it, or a fleet owner makes it from a booking (create,
\* convertToShipment).
Init ==
  /\ \/ status = "draft" /\ carrier = "none"
     \/ status = "pending_assignment" /\ carrier = "owner"
  /\ contract = FALSE /\ invoice = FALSE
  /\ stored = {} /\ arrived = {} /\ live = None
  /\ arrivals = [s \in Stops |-> 0] /\ deviations = 0
  /\ rating = 0 /\ conversation = 0
  /\ pc  = [r \in Requests |-> "idle"]
  /\ req = [r \in Requests |-> None]

Call(op, point, seen) == [ op |-> op, point |-> point, seen |-> seen, warned |-> FALSE, at |-> status ]

Begin(r, at, call) ==
  /\ pc[r] = "idle"
  /\ pc'  = [pc  EXCEPT ![r] = at]
  /\ req' = [req EXCEPT ![r] = call]

Goto(r, to) == pc' = [pc EXCEPT ![r] = to] /\ UNCHANGED req

Finish(r) ==
  /\ pc'  = [pc  EXCEPT ![r] = "idle"]
  /\ req' = [req EXCEPT ![r] = None]

At(r, at, op) == pc[r] = at /\ req[r].op = op

-----------------------------------------------------------------------------
(* The shipment, and the contract and invoice its confirmation leaves to run *)

ConfirmCall(r) ==
  /\ status = "draft"
  /\ Begin(r, "confirm", Call("commerce", None, FALSE))
  /\ UNCHANGED << order, commerce, tracking, talk >>

\* The second of two confirmations that both read a draft finds the shipment
\* confirmed under the lock and carries on.
Confirm(r) ==
  /\ pc[r] = "confirm"
  /\ IF status \in { "draft", "pending_assignment" }
     THEN status' = "pending_assignment" /\ Goto(r, "contract")
     ELSE UNCHANGED status /\ Finish(r)
  /\ UNCHANGED << carrier, commerce, tracking, talk >>

\* Any step of the table: administrators confirm, assign, cancel and complete
\* past the services that do.  Only an assignment brings a driver, and nothing
\* takes the carrier away.
Move ==
  /\ \E to \in Status :
       /\ CanTransition(status, to)
       /\ status' = to
       /\ carrier' \in IF to = "assigned" THEN { carrier, "driver" } ELSE {carrier}
  /\ UNCHANGED << commerce, tracking, talk, handlers >>

\* ensureContract, then ensureInvoice: each looks for its row and creates it
\* only when there is none.
LookForContract(r) ==
  /\ pc[r] = "contract"
  /\ Goto(r, IF contract THEN "invoice" ELSE "sign")
  /\ UNCHANGED << order, commerce, tracking, talk >>

LookForInvoice(r) ==
  /\ pc[r] = "invoice"
  /\ IF invoice THEN Finish(r) ELSE Goto(r, "issue")
  /\ UNCHANGED << order, commerce, tracking, talk >>

CreateContract_Last(r) ==
  /\ pc[r] = "sign" /\ ~ contract
  /\ contract' = TRUE
  /\ Finish(r)
  /\ UNCHANGED << order, invoice, tracking, talk >>

CreateContract(r) ==
  /\ pc[r] = "sign" /\ ~ contract
  /\ contract' = TRUE
  /\ Goto(r, "invoice")
  /\ UNCHANGED << order, invoice, tracking, talk >>

CreateInvoice(r) ==
  /\ pc[r] = "issue" /\ ~ invoice
  /\ invoice' = TRUE
  /\ Finish(r)
  /\ UNCHANGED << order, contract, tracking, talk >>

\* The process ends: every handler of it is lost.
Down ==
  /\ pc'  = [r \in Requests |-> "idle"]
  /\ req' = [r \in Requests |-> None]
  /\ UNCHANGED << order, commerce, tracking, talk >>

\* A second row breaks the unique index and its insert throws.  Nobody awaits
\* or catches that promise: an unhandled rejection ends the process.
Unhandled(r) ==
  /\ (pc[r] = "sign" /\ contract) \/ (pc[r] = "issue" /\ invoice)
  /\ Down

-----------------------------------------------------------------------------
(* recordPoint, getLivePosition *)

TRACKABLE_STATUSES == { "assigned", "picked_up", "in_transit" }

Trackable == carrier = "driver" /\ status \in TRACKABLE_STATUSES

PointCall(r, p) ==
  /\ Trackable
  /\ p \notin stored
  /\ Begin(r, "write", Call("point", p, FALSE))
  /\ UNCHANGED << order, commerce, tracking, talk >>

\* The transaction stores the point and reads what its stop and the last hour
\* hold; another transaction that has not committed is not seen.
PointRead(r) ==
  LET p == req[r].point IN
  /\ At(r, "write", "point")
  /\ pc'  = [pc  EXCEPT ![r] = "events"]
  /\ req' = [req EXCEPT ![r].seen = AtStop[p] \in arrived, ![r].warned = deviations > 0]
  /\ UNCHANGED << order, commerce, tracking, talk >>

Arrives(r)  == AtStop[req[r].point] # None /\ ~ req[r].seen
Deviates(r) == req[r].point \in OffRoute /\ req[r].at = "in_transit" /\ ~ req[r].warned

\* The point, an arrival at its stop and a deviation, all or nothing.
Commit(r) ==
  LET p == req[r].point s == AtStop[p] IN
  /\ pc[r] = "events"
  /\ stored'     = stored \union {p}
  /\ arrived'    = IF Arrives(r) THEN arrived \union {s} ELSE arrived
  /\ arrivals'   = IF Arrives(r) THEN [arrivals EXCEPT ![s] = @ + 1] ELSE arrivals
  /\ deviations' = IF Deviates(r) THEN deviations + 1 ELSE deviations
  /\ Goto(r, "cache")
  /\ UNCHANGED << order, commerce, live, talk >>

\* setLivePosition: whatever is there is replaced.
SetLive(r) ==
  /\ pc[r] = "cache"
  /\ live' = req[r].point
  /\ Finish(r)
  /\ UNCHANGED << order, commerce, stored, arrived, arrivals, deviations, talk >>

Newest == CHOOSE p \in stored : \A q \in stored : q <= p

LiveCall_Oldest(r) ==
  /\ live = None /\ stored # {}
  /\ Begin(r, "cache", Call("live", CHOOSE p \in stored : \A q \in stored : p <= q, FALSE))
  /\ UNCHANGED << order, commerce, tracking, talk >>

\* A miss reads the newest point and caches it in a later step.
LiveCall(r) ==
  /\ live = None /\ stored # {}
  /\ Begin(r, "cache", Call("live", Newest, FALSE))
  /\ UNCHANGED << order, commerce, tracking, talk >>

\* The cached position outlives its time; the deviations are older than an hour.
LiveExpires ==
  /\ live # None
  /\ live' = None
  /\ UNCHANGED << order, commerce, stored, arrived, arrivals, deviations, talk, handlers >>

HourPasses ==
  /\ deviations > 0
  /\ deviations' = 0
  /\ UNCHANGED << order, commerce, stored, arrived, arrivals, live, talk, handlers >>

-----------------------------------------------------------------------------
(* createRating, openConversation *)

RateCall(r) ==
  /\ status \in { "delivered", "completed" } /\ carrier # "none" /\ rating = 0
  /\ Begin(r, "write", Call("rate", None, FALSE))
  /\ UNCHANGED << order, commerce, tracking, talk >>

\* One rating per shipment: a second insert throws to its caller.
Rate(r) ==
  /\ At(r, "write", "rate")
  /\ rating' = IF rating = 0 THEN 1 ELSE rating
  /\ Finish(r)
  /\ UNCHANGED << order, commerce, tracking, conversation >>

\* Whatever the status is.  No index forbids a second conversation.
OpenCall(r) ==
  /\ carrier # "none"
  /\ Begin(r, "write", Call("open", None, conversation > 0))
  /\ UNCHANGED << order, commerce, tracking, talk >>

Open(r) ==
  /\ At(r, "write", "open")
  /\ conversation' = IF req[r].seen THEN conversation ELSE conversation + 1
  /\ Finish(r)
  /\ UNCHANGED << order, commerce, tracking, rating >>

-----------------------------------------------------------------------------

Arrive(r) ==
  \/ ConfirmCall(r) \/ LiveCall(r) \/ RateCall(r) \/ OpenCall(r)
  \/ \E p \in Points : PointCall(r, p)

Proceed(r) ==
  \/ Confirm(r) \/ LookForContract(r) \/ CreateContract(r) \/ LookForInvoice(r) \/ CreateInvoice(r)
  \/ PointRead(r) \/ Commit(r) \/ SetLive(r)
  \/ Rate(r) \/ Open(r)

Next ==
  \/ \E r \in Requests : Arrive(r) \/ Proceed(r) \/ Unhandled(r)
  \/ Move
  \/ LiveExpires
  \/ HourPasses
  \/ Down

Spec == Init /\ [][Next]_vars
=============================================================================
