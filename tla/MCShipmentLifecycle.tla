------------------------ MODULE MCShipmentLifecycle ------------------------
(***************************************************************************)
(* Instances of ShipmentLifecycle for TLC: two shipments that compete for  *)
(* the one driver of a fleet, with two handlers in flight.  The first      *)
(* shipment can be paid, the second is confirmed by the administrator.     *)
(***************************************************************************)
EXTENDS ShipmentLifecycle, FiniteSets, TLC

CONSTANTS s1, s2, d1, v1, f1, i1, c1, c2, r1, r2

MCFleetOf    == (d1 :> f1) @@ (v1 :> f1)
MCIntentOf   == i1 :> s1
MCNoIntentOf == << >>

RequestSymmetry == Permutations(Requests)

\* A payment settled again after its refund can be refunded again, with one
\* more history row each time: MaxRefunds rows are enough to see a second one.
MaxRefunds == 2

RefundRows(h) == { n \in DOMAIN h : h[n] = << "cancelled", "cancelled" >> }

BoundedNext ==
  /\ Next
  /\ \A s \in Shipments : Cardinality(RefundRows(history'[s])) <= MaxRefunds

BoundedSpec == Init /\ [][BoundedNext]_vars

\* For the liveness run: drivers and vehicles stay in service, which leaves
\* every lock and every other check of the assignment as it is.
InService == Next /\ UNCHANGED fleetRows
=============================================================================
