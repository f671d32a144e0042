--------------------------- MODULE ShipmentStatus ---------------------------
(***************************************************************************)
(* The status machine of a shipment, shared by every module that handles   *)
(* shipments: the table of ShipmentStateService and the two lists of       *)
(* statuses that ShipmentsService keeps beside it.                         *)
(***************************************************************************)

Status == { "draft", "pending_assignment", "assigned", "picked_up",
            "in_transit", "delivered", "completed", "cancelled" }

TRANSITIONS ==
  [ from \in Status |->
      CASE from = "draft"              -> { "pending_assignment", "cancelled" }
        [] from = "pending_assignment" -> { "assigned", "cancelled" }
        [] from = "assigned"           -> { "picked_up", "cancelled" }
        [] from = "picked_up"          -> { "in_transit" }
        [] from = "in_transit"         -> { "delivered" }
        [] from = "delivered"          -> { "completed" }
        [] OTHER                       -> { } ]

\* assertTransition throws unless this holds.
CanTransition(from, to) == from \in Status /\ to \in TRANSITIONS[from]

\* The statuses in which the driver is busy with the shipment.
ACTIVE_DRIVER_STATUSES == { "assigned", "picked_up", "in_transit" }

\* The statuses whose cancellation refunds the customer.
PAID_CANCELLATION_STATUSES == { "pending_assignment", "assigned" }
=============================================================================
