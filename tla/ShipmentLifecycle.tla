-------------------------- MODULE ShipmentLifecycle --------------------------
(***************************************************************************)
(* The life of a shipment in ShipmentsService: creation, edits of a draft, *)
(* confirmation after payment, assignment to a driver and a vehicle, the   *)
(* driver's own steps, completion with the fleet owner's earning, and      *)
(* cancellation with the customer's refund.                                *)
(*                                                                         *)
(* An HTTP handler is a request.  Most handlers first read the shipment    *)
(* outside any transaction and check it, then run a database transaction   *)
(* that takes the shipment's row lock (SELECT ... FOR UPDATE) and checks   *)
(* again.  Other requests run between the two, so the read and the         *)
(* transaction are separate steps and what was read is kept in req.  A     *)
(* transaction that holds no other lock than the shipment's is one step;   *)
(* the one that assigns a driver also waits for the driver's row lock and  *)
(* is three: both locks are variables.                                     *)
(***************************************************************************)
EXTENDS ShipmentStatus, Naturals, Sequences

CONSTANTS
  Shipments,    \* ids of shipments that may be created
  Drivers,      \* driver profiles
  Vehicles,     \* vehicles
  FleetOf,      \* the fleet owner of each driver and each vehicle
  Intents,      \* payment intents
  IntentOf,     \* the shipment each payment intent pays for
  Cargo,        \* what the price depends on: stops, cargo, weight
  Requests,     \* handlers that may be in flight at once
  None          \* SQL NULL

ASSUME ConstantsAssumption ==
  /\ IntentOf \in [Intents -> Shipments]
  /\ DOMAIN FleetOf = Drivers \union Vehicles
  /\ None \notin Shipments \union Drivers \union Vehicles \union Cargo
                   \union Requests \union Status
  /\ \A x \in Drivers \union Vehicles : FleetOf[x] # None

VARIABLES
  status,           \* shipments.status; None before the row exists
  fleet,            \* shipments.fleet_owner_id
  driver,           \* shipments.driver_id
  vehicle,          \* shipments.vehicle_id
  cargo,            \* stops and cargo columns
  price,            \* the cargo the PriceCalculation row was computed from
  history,          \* rows <<from, to>> of shipment_status_history, oldest first
  credited,         \* ledger rows with the key shipment-earning-<id>
  intent,           \* payment_intents.status: "open" stands for the unsettled ones
  driverAvailable,  \* driver_profiles.is_available
  vehicleActive,    \* vehicles.is_active
  shipmentLock,     \* the request whose transaction holds the shipment's row
  driverLock,       \* the request whose transaction holds the driver's row
  pc,               \* where each request stands
  req               \* what each request was called with and has read

shipmentRow == << status, fleet, driver, vehicle, cargo, price, history >>
moneyRows   == << credited, intent >>
fleetRows   == << driverAvailable, vehicleActive >>
locks       == << shipmentLock, driverLock >>
handlers    == << pc, req >>

vars == << shipmentRow, moneyRows, fleetRows, locks, handlers >>

-----------------------------------------------------------------------------
(* Types *)

Ops    == { "assign", "admin_update", "driver", "complete", "confirm", "update" }
Phases == { "idle", "read", "locked", "checked" }

Request(op, s, to, pre, d, v, c) ==
  [ op |-> op, s |-> s, to |-> to, pre |-> pre, d |-> d, v |-> v, c |-> c ]

NoRequest == Request(None, None, None, None, None, None, None)

RequestType ==
  [ op : Ops \union {None}, s : Shipments \union {None},
    to : Status \union {None}, pre : Status \union {None},
    d : Drivers \union {None}, v : Vehicles \union {None},
    c : Cargo \union {None} ]

HistoryRow == (Status \union {None}) \X Status

\* Every variable has the type of its database column or of its handler.
TypeOK ==
  /\ status   \in [Shipments -> Status \union {None}]
  /\ fleet    \in [Shipments -> {FleetOf[x] : x \in Drivers \union Vehicles} \union {None}]
  /\ driver   \in [Shipments -> Drivers \union {None}]
  /\ vehicle  \in [Shipments -> Vehicles \union {None}]
  /\ cargo    \in [Shipments -> Cargo \union {None}]
  /\ price    \in [Shipments -> Cargo \union {None}]
  /\ history  \in [Shipments -> Seq(HistoryRow)]
  /\ credited \in [Shipments -> Nat]
  /\ intent   \in [Intents -> {"open", "succeeded", "refunded"}]
  /\ driverAvailable \in [Drivers -> BOOLEAN]
  /\ vehicleActive   \in [Vehicles -> BOOLEAN]
  /\ shipmentLock \in [Shipments -> Requests \union {None}]
  /\ driverLock   \in [Drivers -> Requests \union {None}]
  /\ pc  \in [Requests -> Phases]
  /\ req \in [Requests -> RequestType]

Init ==
  /\ status   = [s \in Shipments |-> None]
  /\ fleet    = [s \in Shipments |-> None]
  /\ driver   = [s \in Shipments |-> None]
  /\ vehicle  = [s \in Shipments |-> None]
  /\ cargo    = [s \in Shipments |-> None]
  /\ price    = [s \in Shipments |-> None]
  /\ history  = [s \in Shipments |-> << >>]
  /\ credited = [s \in Shipments |-> 0]
  /\ intent   = [i \in Intents |-> "open"]
  /\ driverAvailable = [d \in Drivers |-> TRUE]
  /\ vehicleActive   = [v \in Vehicles |-> TRUE]
  /\ shipmentLock = [s \in Shipments |-> None]
  /\ driverLock   = [d \in Drivers |-> None]
  /\ pc  = [r \in Requests |-> "idle"]
  /\ req = [r \in Requests |-> NoRequest]

-----------------------------------------------------------------------------
(* Requests, rows and locks *)

\* The handler has read what it needs and is about to open its transaction.
Begin(r, request) ==
  /\ pc[r] = "idle"
  /\ pc'  = [pc  EXCEPT ![r] = "read"]
  /\ req' = [req EXCEPT ![r] = request]

Pending(r, op) == pc[r] = "read" /\ req[r].op = op

\* The handler returns or throws.
Finish(r) ==
  /\ pc'  = [pc  EXCEPT ![r] = "idle"]
  /\ req' = [req EXCEPT ![r] = NoRequest]

\* lockShipmentForUpdate waits until no other transaction holds the row.
RowFree(s) == shipmentLock[s] = None

\* COMMIT and ROLLBACK both release every row lock of the transaction.
ReleaseLocks(r) ==
  /\ shipmentLock' = [s \in Shipments |-> IF shipmentLock[s] = r THEN None ELSE shipmentLock[s]]
  /\ driverLock'   = [d \in Drivers   |-> IF driverLock[d] = r THEN None ELSE driverLock[d]]

\* recordTransitionInTransaction: one more row of the status history.
Record(s, from, to) == history' = [history EXCEPT ![s] = Append(@, << from, to >>)]

SetStatus(s, to) == status' = [status EXCEPT ![s] = to]

-----------------------------------------------------------------------------
(* Creation, edits of a draft, confirmation after payment *)

\* create: the row, its stops and the first history row in one transaction.
Create(s) ==
  /\ status[s] = None
  /\ SetStatus(s, "draft")
  /\ \E c \in Cargo : cargo' = [cargo EXCEPT ![s] = c]
  /\ Record(s, None, "draft")
  /\ UNCHANGED << fleet, driver, vehicle, price, moneyRows, fleetRows, locks, handlers >>

\* update: only a draft may be edited, and that is checked before the
\* transaction; the transaction takes no lock and reads no status.
UpdateRead(r, s, c) ==
  /\ status[s] = "draft"
  /\ Begin(r, Request("update", s, None, None, None, None, c))
  /\ UNCHANGED << shipmentRow, moneyRows, fleetRows, locks >>

UpdateCommit(r) ==
  /\ Pending(r, "update")
  /\ RowFree(req[r].s)
  /\ cargo' = [cargo EXCEPT ![req[r].s] = req[r].c]
  /\ Finish(r)
  /\ UNCHANGED << status, fleet, driver, vehicle, price, history,
                  moneyRows, fleetRows, locks >>

\* confirmAfterCardPayment, up to its transaction: the intent has succeeded,
\* the shipment may still be confirmed, and the price is computed from the
\* stops as they are now.
ConfirmRead(r, i) ==
  LET s == IntentOf[i] IN
  /\ intent[i] = "succeeded"
  /\ CanTransition(status[s], "pending_assignment")
  /\ Begin(r, Request("confirm", s, None, None, None, None, cargo[s]))
  /\ UNCHANGED << shipmentRow, moneyRows, fleetRows, locks >>

\* Its transaction: a shipment that was confirmed meanwhile is left alone,
\* one that left draft otherwise is refused.
ConfirmCommit(r) ==
  LET s == req[r].s IN
  /\ Pending(r, "confirm")
  /\ RowFree(s)
  /\ \/ /\ status[s] = "draft"
        /\ price' = [price EXCEPT ![s] = req[r].c]
        /\ SetStatus(s, "pending_assignment")
        /\ Record(s, "draft", "pending_assignment")
     \/ /\ status[s] # "draft"
        /\ UNCHANGED << price, status, history >>
  /\ Finish(r)
  /\ UNCHANGED << fleet, driver, vehicle, cargo, moneyRows, fleetRows, locks >>

-----------------------------------------------------------------------------
(* Assignment *)

\* accept: the fleet owner owns the driver and the vehicle, and the shipment
\* waits for assignment.
AcceptRead(r, s, v, d) ==
  /\ status[s] = "pending_assignment"
  /\ FleetOf[v] = FleetOf[d]
  /\ Begin(r, Request("assign", s, None, None, d, v, None))
  /\ UNCHANGED << shipmentRow, moneyRows, fleetRows, locks >>

\* adminAssign: the same for any fleet, with an active vehicle.
AdminAssignRead(r, s, v, d) == vehicleActive[v] /\ AcceptRead(r, s, v, d)

\* assignShipmentInTransaction: lock the shipment, check it again, and check
\* the vehicle, whose row is not locked.
LockShipment(r) ==
  LET s == req[r].s IN
  /\ Pending(r, "assign")
  /\ RowFree(s)
  /\ \/ /\ status[s] = "pending_assignment"
        /\ vehicleActive[req[r].v]
        /\ shipmentLock' = [shipmentLock EXCEPT ![s] = r]
        /\ pc' = [pc EXCEPT ![r] = "locked"]
        /\ UNCHANGED req
     \/ /\ ~ (status[s] = "pending_assignment" /\ vehicleActive[req[r].v])
        /\ Finish(r)
        /\ UNCHANGED shipmentLock
  /\ UNCHANGED << shipmentRow, moneyRows, fleetRows, driverLock >>

\* No other shipment keeps driver d busy.
DriverFree(d, s) ==
  \A t \in Shipments \ {s} : ~ (driver[t] = d /\ status[t] \in ACTIVE_DRIVER_STATUSES)

\* lockDriverForUpdate: the lock that makes the check below hold until COMMIT.
TakeDriverLock_NoLock(r, d) == UNCHANGED driverLock

TakeDriverLock(r, d) ==
  /\ driverLock[d] = None
  /\ driverLock' = [driverLock EXCEPT ![d] = r]

\* assertDriverAvailableInTransaction: the driver is available and free, or
\* the transaction rolls back.
LockDriver(r) ==
  LET d == req[r].d IN
  /\ pc[r] = "locked"
  /\ \/ /\ driverAvailable[d] /\ DriverFree(d, req[r].s)
        /\ TakeDriverLock(r, d)
        /\ pc' = [pc EXCEPT ![r] = "checked"]
        /\ UNCHANGED << shipmentLock, req >>
     \/ /\ driverLock[d] = None
        /\ ~ (driverAvailable[d] /\ DriverFree(d, req[r].s))
        /\ ReleaseLocks(r)
        /\ Finish(r)
  /\ UNCHANGED << shipmentRow, moneyRows, fleetRows >>

\* The write runs on the connection of the transaction that locked the row; on
\* another one it would wait for that lock.
MayWrite_OtherConnection(r, s) == shipmentLock[s] = None

MayWrite(r, s) == shipmentLock[s] \in {None, r}

\* The write and COMMIT.
CommitAssign(r) ==
  LET s == req[r].s
      d == req[r].d IN
  /\ pc[r] = "checked"
  /\ MayWrite(r, s)
  /\ SetStatus(s, "assigned")
  /\ fleet'   = [fleet   EXCEPT ![s] = FleetOf[d]]
  /\ driver'  = [driver  EXCEPT ![s] = d]
  /\ vehicle' = [vehicle EXCEPT ![s] = req[r].v]
  /\ Record(s, "pending_assignment", "assigned")
  /\ ReleaseLocks(r)
  /\ Finish(r)
  /\ UNCHANGED << cargo, price, moneyRows, fleetRows >>

-----------------------------------------------------------------------------
(* Money: the fleet owner's earning and the customer's refund *)

\* The ledger looks its idempotency key up before it posts anything.
EarningPosted_NoKey(s) == FALSE

EarningPosted(s) == credited[s] > 0

\* creditFleetOwnerInTransaction posts the earning of a shipment that has a
\* fleet owner and a price.
CreditFleetOwner_Debit(s) == credited' = [credited EXCEPT ![s] = @ - 1]

CreditFleetOwner(s) ==
  credited' = IF fleet[s] = None \/ price[s] = None \/ EarningPosted(s)
              THEN credited
              ELSE [credited EXCEPT ![s] = @ + 1]

\* refundCustomerInTransaction refunds one succeeded intent, the latest one;
\* creation times are abstracted to a choice.
Refundable_Any(s) == { i \in Intents : intent[i] = "succeeded" }

Refundable(s) == { i \in Intents : IntentOf[i] = s /\ intent[i] = "succeeded" }

Refund(i) == intent' = [intent EXCEPT ![i] = "refunded"]

\* cancel reads nothing it uses later: it is its transaction.  A shipment
\* already cancelled gets the refund it may have missed.
CancelAgain(s) ==
  /\ RowFree(s)
  /\ status[s] = "cancelled"
  /\ \E i \in Refundable(s) : Refund(i)
  /\ Record(s, "cancelled", "cancelled")
  /\ UNCHANGED << status, fleet, driver, vehicle, cargo, price, credited,
                  fleetRows, locks, handlers >>

\* What cancel may cancel.
Cancellable(s) == CanTransition(status[s], "cancelled")

Cancel(s) ==
  /\ RowFree(s)
  /\ Cancellable(s)
  /\ SetStatus(s, "cancelled")
  /\ IF status[s] \in PAID_CANCELLATION_STATUSES /\ Refundable(s) # {}
     THEN /\ \E i \in Refundable(s) : Refund(i)
          /\ history' = [history EXCEPT ![s] =
                           Append(Append(@, << status[s], "cancelled" >>),
                                  << "cancelled", "cancelled" >>)]
     ELSE /\ UNCHANGED intent
          /\ Record(s, status[s], "cancelled")
  /\ UNCHANGED << fleet, driver, vehicle, cargo, price, credited, fleetRows, locks, handlers >>

-----------------------------------------------------------------------------
(* The driver's steps, completion, and the administrator's override *)

\* driverPickup, driverStartTransit and driverDeliver: the caller is the
\* shipment's driver, before and under the lock.
DriverRead(r, s, to) ==
  /\ driver[s] # None
  /\ Begin(r, Request("driver", s, to, None, driver[s], None, None))
  /\ UNCHANGED << shipmentRow, moneyRows, fleetRows, locks >>

DriverCommit(r) ==
  LET s  == req[r].s
      to == req[r].to IN
  /\ Pending(r, "driver")
  /\ RowFree(s)
  /\ IF driver[s] = req[r].d /\ CanTransition(status[s], to)
     THEN SetStatus(s, to) /\ Record(s, status[s], to)
     ELSE UNCHANGED << status, history >>
  /\ Finish(r)
  /\ UNCHANGED << fleet, driver, vehicle, cargo, price, moneyRows, fleetRows, locks >>

\* complete: the shipment was delivered when it was read.  A shipment found
\* completed under the lock is credited again, which the ledger makes a no-op.
CompleteRead(r, s) ==
  /\ status[s] = "delivered"
  /\ Begin(r, Request("complete", s, None, None, None, None, None))
  /\ UNCHANGED << shipmentRow, moneyRows, fleetRows, locks >>

CompleteCommit(r) ==
  LET s == req[r].s IN
  /\ Pending(r, "complete")
  /\ RowFree(s)
  /\ \/ /\ status[s] = "delivered"
        /\ SetStatus(s, "completed")
        /\ CreditFleetOwner(s)
        /\ Record(s, "delivered", "completed")
     \/ /\ status[s] = "completed"
        /\ CreditFleetOwner(s)
        /\ UNCHANGED << status, history >>
     \/ /\ status[s] \notin { "delivered", "completed" }
        /\ UNCHANGED << status, history, credited >>
  /\ Finish(r)
  /\ UNCHANGED << fleet, driver, vehicle, cargo, price, intent, fleetRows, locks >>

\* adminUpdateStatus: any transition of the table, for a shipment read
\* before the transaction.
AdminUpdateRead(r, s, to) ==
  /\ CanTransition(status[s], to)
  /\ Begin(r, Request("admin_update", s, to, status[s], None, None, None))
  /\ UNCHANGED << shipmentRow, moneyRows, fleetRows, locks >>

\* The transition is checked again under the lock.
StillAllowed_Unchecked(s, to) == TRUE

StillAllowed(s, to) == CanTransition(status[s], to)

\* The history row keeps the status read before the transaction.  Assigning
\* this way sets no driver, cancelling this way refunds nothing.
AdminUpdateCommit(r) ==
  LET s  == req[r].s
      to == req[r].to IN
  /\ Pending(r, "admin_update")
  /\ RowFree(s)
  /\ IF status[s] # to /\ StillAllowed(s, to)
     THEN /\ SetStatus(s, to)
          /\ Record(s, req[r].pre, to)
          /\ IF to = "completed" THEN CreditFleetOwner(s) ELSE UNCHANGED credited
     ELSE UNCHANGED << status, history, credited >>
  /\ Finish(r)
  /\ UNCHANGED << fleet, driver, vehicle, cargo, price, intent, fleetRows, locks >>

-----------------------------------------------------------------------------
(* The rest of the system *)

\* DriversService.update and remove: UPDATE waits for the driver's row lock.
SetDriverAvailable(d, available) ==
  /\ driverLock[d] = None
  /\ driverAvailable[d] # available
  /\ driverAvailable' = [driverAvailable EXCEPT ![d] = available]
  /\ UNCHANGED << shipmentRow, moneyRows, vehicleActive, locks, handlers >>

\* VehiclesService.update and remove: nothing else locks the vehicle's row.
SetVehicleActive(v, active) ==
  /\ vehicleActive[v] # active
  /\ vehicleActive' = [vehicleActive EXCEPT ![v] = active]
  /\ UNCHANGED << shipmentRow, moneyRows, driverAvailable, locks, handlers >>

\* PaymentsService settles an intent of an existing shipment: a callback, a
\* webhook or a failed attempt may overwrite any earlier status, a refund too.
SettleIntent(i, outcome) ==
  /\ status[IntentOf[i]] # None
  /\ intent[i] # outcome
  /\ intent' = [intent EXCEPT ![i] = outcome]
  /\ UNCHANGED << shipmentRow, credited, fleetRows, locks, handlers >>

\* An error, a timeout or a restart ends a request: its transaction rolls back.
Abort(r) ==
  /\ pc[r] # "idle"
  /\ ReleaseLocks(r)
  /\ Finish(r)
  /\ UNCHANGED << shipmentRow, moneyRows, fleetRows >>

-----------------------------------------------------------------------------

\* The statements of a request after the read that started it.
Proceed(r) ==
  \/ UpdateCommit(r)
  \/ ConfirmCommit(r)
  \/ LockShipment(r) \/ LockDriver(r) \/ CommitAssign(r)
  \/ DriverCommit(r)
  \/ CompleteCommit(r)
  \/ AdminUpdateCommit(r)

\* A new request: its handler reads and checks.
Arrive(r) ==
  \/ \E s \in Shipments, c \in Cargo : UpdateRead(r, s, c)
  \/ \E i \in Intents : ConfirmRead(r, i)
  \/ \E s \in Shipments, v \in Vehicles, d \in Drivers : AcceptRead(r, s, v, d)
  \/ \E s \in Shipments, v \in Vehicles, d \in Drivers : AdminAssignRead(r, s, v, d)
  \/ \E s \in Shipments, to \in { "picked_up", "in_transit", "delivered" } : DriverRead(r, s, to)
  \/ \E s \in Shipments : CompleteRead(r, s)
  \/ \E s \in Shipments, to \in Status : AdminUpdateRead(r, s, to)

Next ==
  \/ \E s \in Shipments : Create(s)
  \/ \E s \in Shipments : Cancel(s)
  \/ \E s \in Shipments : CancelAgain(s)
  \/ \E r \in Requests : Arrive(r)
  \/ \E r \in Requests : Proceed(r)
  \/ \E r \in Requests : Abort(r)
  \/ \E d \in Drivers, available \in BOOLEAN : SetDriverAvailable(d, available)
  \/ \E v \in Vehicles, active \in BOOLEAN : SetVehicleActive(v, active)
  \/ \E i \in Intents, outcome \in { "open", "succeeded" } : SettleIntent(i, outcome)

Spec == Init /\ [][Next]_vars

\* PostgreSQL queues the transactions that wait for a row, so a request whose
\* next statement is enabled again and again runs it.
Fairness == \A r \in Requests : SF_vars(Proceed(r))

-----------------------------------------------------------------------------
(* Properties *)

\* A driver is on at most one active shipment, whatever two fleet owners and
\* an administrator assign at the same time: assignShipmentInTransaction
\* locks the driver before it looks for other shipments.
DriverExclusive ==
  \A s, t \in Shipments :
    /\ s # t
    /\ driver[s] # None
    /\ status[s] \in ACTIVE_DRIVER_STATUSES
    /\ status[t] \in ACTIVE_DRIVER_STATUSES
    => driver[s] # driver[t]

\* The earning of a shipment is in the ledger exactly when the shipment is
\* completed, priced and has a fleet owner, and once, however many complete
\* and adminUpdateStatus calls ran.
EarningExactlyOnce ==
  \A s \in Shipments :
    credited[s] = IF status[s] = "completed" /\ fleet[s] # None /\ price[s] # None
                  THEN 1 ELSE 0

\* Only a cancelled shipment is refunded, so no shipment both pays its fleet
\* owner and refunds its customer.
RefundOnlyCancelled ==
  \A i \in Intents :
    intent[i] = "refunded" => status[IntentOf[i]] = "cancelled" /\ credited[IntentOf[i]] = 0

\* The status history tells the shipment's life: it ends at the current
\* status, every row is a transition of the table (or a refund), and rows
\* follow each other, except that adminUpdateStatus may note a cancellation
\* with the status it had read before.
AuditTrail ==
  \A s \in Shipments :
    LET h == history[s] IN
    /\ status[s] = IF h = << >> THEN None ELSE h[Len(h)][2]
    /\ \A n \in DOMAIN h :
         /\ \/ CanTransition(h[n][1], h[n][2])
            \/ h[n] = << "cancelled", "cancelled" >>
            \/ n = 1 /\ h[n] = << None, "draft" >>
         /\ n > 1 => h[n][1] = h[n-1][2] \/ h[n][2] = "cancelled"

\* A driver is put on a shipment once, and is available and free in the very
\* step that does it: no switch of is_available slips in after the check.
AssignedWhileAvailable ==
  [][ \A s \in Shipments :
        driver'[s] # driver[s] =>
          /\ driver[s] = None
          /\ status[s] = "pending_assignment" /\ status'[s] = "assigned"
          /\ driverAvailable[driver'[s]]
          /\ DriverFree(driver'[s], s) ]_vars

\* Every handler ends, also when no transaction is timed out: the two row locks of
\* an assignment are taken in one order, so transactions never wait for each
\* other in a circle, and no statement waits for its own transaction.
RequestsEnd == \A r \in Requests : pc[r] # "idle" ~> pc[r] = "idle"
=============================================================================
