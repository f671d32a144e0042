---------------------- MODULE ShipmentLifecycle_proofs ----------------------
(***************************************************************************)
(* Theorems about ShipmentLifecycle, for any number of shipments, drivers, *)
(* vehicles, payments and handlers in flight.                              *)
(***************************************************************************)
EXTENDS ShipmentLifecycle, SequenceTheorems, TLAPS

\* What a handler carries from its read to its transaction is what its
\* operation needs.
RequestOK ==
  \A r \in Requests :
    pc[r] # "idle" =>
      /\ req[r].op \in Ops
      /\ req[r].s \in Shipments
      /\ req[r].op = "assign" => req[r].d \in Drivers /\ req[r].v \in Vehicles
      /\ req[r].op \in { "driver", "admin_update" } => req[r].to \in Status
      /\ req[r].op = "driver" => req[r].to # "completed"
      /\ req[r].op = "admin_update" => req[r].pre \in Status
      /\ pc[r] \in { "locked", "checked" } => req[r].op = "assign"

TypeInv == TypeOK /\ RequestOK

LEMMA InitType == Init => TypeInv
  BY ConstantsAssumption
  DEF Init, TypeInv, TypeOK, RequestOK, NoRequest, Request, RequestType, HistoryRow, Phases

\* Starting a request keeps the types when what it carries is well typed.
LEMMA BeginType ==
  ASSUME TypeInv, NEW r \in Requests, NEW request \in RequestType, Begin(r, request),
         UNCHANGED << shipmentRow, moneyRows, fleetRows, locks >>,
         request.op \in Ops, request.s \in Shipments,
         request.op = "assign" => request.d \in Drivers /\ request.v \in Vehicles,
         request.op \in { "driver", "admin_update" } => request.to \in Status,
         request.op = "driver" => request.to # "completed",
         request.op = "admin_update" => request.pre \in Status
  PROVE  TypeInv'
  BY DEF TypeInv, TypeOK, RequestOK, Begin, Phases, shipmentRow, moneyRows, fleetRows, locks

\* Ending one keeps them too.
LEMMA FinishType ==
  ASSUME TypeInv, NEW r \in Requests, Finish(r)
  PROVE  /\ pc'  \in [Requests -> Phases]
         /\ req' \in [Requests -> RequestType]
         /\ RequestOK'
  BY DEF TypeInv, TypeOK, RequestOK, Finish, Phases, NoRequest, Request, RequestType

\* A status history stays one when a row is appended.
LEMMA RecordType ==
  ASSUME TypeOK, NEW s \in Shipments, NEW from \in Status \union {None},
         NEW to \in Status, Record(s, from, to)
  PROVE  history' \in [Shipments -> Seq(HistoryRow)]
  BY DEF TypeOK, Record, HistoryRow

LEMMA StatusType ==
  ASSUME TypeOK, NEW s \in Shipments, NEW to \in Status, SetStatus(s, to)
  PROVE  status' \in [Shipments -> Status \union {None}]
  BY DEF TypeOK, SetStatus

LEMMA ReleaseType ==
  ASSUME TypeOK, NEW r \in Requests, ReleaseLocks(r)
  PROVE  /\ shipmentLock' \in [Shipments -> Requests \union {None}]
         /\ driverLock'   \in [Drivers -> Requests \union {None}]
  BY DEF TypeOK, ReleaseLocks

LEMMA CreditType ==
  ASSUME TypeOK, NEW s \in Shipments, CreditFleetOwner(s)
  PROVE  credited' \in [Shipments -> Nat]
  BY DEF TypeOK, CreditFleetOwner, EarningPosted

LEMMA RefundType ==
  ASSUME TypeOK, NEW i \in Intents, Refund(i)
  PROVE  intent' \in [Intents -> {"open", "succeeded", "refunded"}]
  BY DEF TypeOK, Refund

LEMMA StatusMembers ==
  /\ "draft" \in Status /\ "pending_assignment" \in Status /\ "assigned" \in Status
  /\ "picked_up" \in Status /\ "in_transit" \in Status /\ "delivered" \in Status
  /\ "completed" \in Status /\ "cancelled" \in Status
  BY DEF Status

\* A transition of the table leads from a status to a status.
LEMMA TransitionType ==
  ASSUME NEW from, NEW to, CanTransition(from, to)
  PROVE  from \in Status /\ to \in Status
  BY DEF CanTransition, TRANSITIONS, Status

\* The steps that begin a handler.
LEMMA ArriveType ==
  ASSUME TypeInv, NEW r \in Requests, Arrive(r)
  PROVE  TypeInv'
<1> USE DEF Request, RequestType, Ops
<1>1. ASSUME NEW s \in Shipments, NEW c \in Cargo, UpdateRead(r, s, c) PROVE TypeInv'
  BY <1>1, BeginType DEF UpdateRead
<1>2. ASSUME NEW i \in Intents, ConfirmRead(r, i) PROVE TypeInv'
  BY <1>2, BeginType, ConstantsAssumption DEF ConfirmRead, TypeInv, TypeOK
<1>3. ASSUME NEW s \in Shipments, NEW v \in Vehicles, NEW d \in Drivers, AcceptRead(r, s, v, d)
      PROVE  TypeInv'
  BY <1>3, BeginType DEF AcceptRead
<1>4. ASSUME NEW s \in Shipments, NEW v \in Vehicles, NEW d \in Drivers,
             AdminAssignRead(r, s, v, d)
      PROVE  TypeInv'
  BY <1>3, <1>4 DEF AdminAssignRead
<1>5. ASSUME NEW s \in Shipments, NEW to \in { "picked_up", "in_transit", "delivered" },
             DriverRead(r, s, to)
      PROVE  TypeInv'
  BY <1>5, BeginType, StatusMembers DEF DriverRead, TypeInv, TypeOK
<1>6. ASSUME NEW s \in Shipments, CompleteRead(r, s) PROVE TypeInv'
  BY <1>6, BeginType DEF CompleteRead
<1>7. ASSUME NEW s \in Shipments, NEW to \in Status, AdminUpdateRead(r, s, to) PROVE TypeInv'
  BY <1>7, BeginType, TransitionType DEF AdminUpdateRead
<1>8. QED
  BY <1>1, <1>2, <1>3, <1>4, <1>5, <1>6, <1>7 DEF Arrive

\* The steps that follow.
LEMMA ProceedType ==
  ASSUME TypeInv, NEW r \in Requests, Proceed(r)
  PROVE  TypeInv'
<1> USE DEF shipmentRow, moneyRows, fleetRows, locks
<1>0. TypeOK /\ RequestOK
  BY DEF TypeInv
<1>1. CASE UpdateCommit(r)
  <2>1. req[r].c \in Cargo \union {None}
    BY <1>0 DEF TypeOK, RequestType
  <2>2. QED
    BY <1>0, <1>1, <2>1, FinishType DEF UpdateCommit, TypeInv, TypeOK
<1>2. CASE ConfirmCommit(r)
  <2>1. req[r].c \in Cargo \union {None} /\ req[r].s \in Shipments
    BY <1>0, <1>2 DEF TypeOK, RequestType, RequestOK, ConfirmCommit, Pending
  <2>2. history' \in [Shipments -> Seq(HistoryRow)] /\ status' \in [Shipments -> Status \union {None}]
    BY <1>0, <1>2, <2>1, RecordType, StatusType, StatusMembers DEF ConfirmCommit, TypeOK
  <2>3. QED
    BY <1>0, <1>2, <2>1, <2>2, FinishType DEF ConfirmCommit, TypeInv, TypeOK
<1>3. CASE LockShipment(r)
  <2>1. CASE Finish(r) /\ UNCHANGED shipmentLock
    BY <1>0, <1>3, <2>1, FinishType DEF LockShipment, TypeInv, TypeOK
  <2>2. CASE /\ shipmentLock' = [shipmentLock EXCEPT ![req[r].s] = r]
             /\ pc' = [pc EXCEPT ![r] = "locked"]
             /\ UNCHANGED req
    BY <1>0, <1>3, <2>2 DEF LockShipment, Pending, TypeInv, TypeOK, RequestOK, Phases
  <2>3. QED
    BY <1>3, <2>1, <2>2 DEF LockShipment
<1>4. CASE LockDriver(r)
  <2>1. CASE Finish(r) /\ ReleaseLocks(r)
    BY <1>0, <1>4, <2>1, FinishType, ReleaseType DEF LockDriver, TypeInv, TypeOK
  <2>2. CASE /\ TakeDriverLock(r, req[r].d)
             /\ pc' = [pc EXCEPT ![r] = "checked"]
             /\ UNCHANGED << shipmentLock, req >>
    BY <1>0, <1>4, <2>2 DEF LockDriver, TakeDriverLock, TypeInv, TypeOK, RequestOK, Phases
  <2>3. QED
    BY <1>4, <2>1, <2>2 DEF LockDriver
<1>5. CASE CommitAssign(r)
  <2>1. req[r].s \in Shipments /\ req[r].d \in Drivers /\ req[r].v \in Vehicles
    BY <1>0, <1>5 DEF RequestOK, CommitAssign
  <2>2. history' \in [Shipments -> Seq(HistoryRow)] /\ status' \in [Shipments -> Status \union {None}]
    BY <1>0, <1>5, <2>1, RecordType, StatusType, StatusMembers DEF CommitAssign
  <2>3. QED
    BY <1>0, <1>5, <2>1, <2>2, FinishType, ReleaseType DEF CommitAssign, TypeInv, TypeOK
<1>6. CASE DriverCommit(r)
  <2>1. req[r].s \in Shipments /\ req[r].to \in Status
    BY <1>0, <1>6 DEF RequestOK, DriverCommit, Pending
  <2>2. history' \in [Shipments -> Seq(HistoryRow)] /\ status' \in [Shipments -> Status \union {None}]
    BY <1>0, <1>6, <2>1, RecordType, StatusType DEF DriverCommit, TypeOK
  <2>3. QED
    BY <1>0, <1>6, <2>1, <2>2, FinishType DEF DriverCommit, TypeInv, TypeOK
<1>7. CASE CompleteCommit(r)
  <2>1. req[r].s \in Shipments
    BY <1>0, <1>7 DEF RequestOK, CompleteCommit, Pending
  <2>2. history' \in [Shipments -> Seq(HistoryRow)] /\ status' \in [Shipments -> Status \union {None}]
    BY <1>0, <1>7, <2>1, RecordType, StatusType, StatusMembers DEF CompleteCommit, TypeOK
  <2>3. credited' \in [Shipments -> Nat]
    BY <1>0, <1>7, <2>1, CreditType DEF CompleteCommit, TypeOK
  <2>4. QED
    BY <1>0, <1>7, <2>2, <2>3, FinishType DEF CompleteCommit, TypeInv, TypeOK
<1>8. CASE AdminUpdateCommit(r)
  <2>1. req[r].s \in Shipments /\ req[r].to \in Status /\ req[r].pre \in Status
    BY <1>0, <1>8 DEF RequestOK, AdminUpdateCommit, Pending
  <2>2. history' \in [Shipments -> Seq(HistoryRow)] /\ status' \in [Shipments -> Status \union {None}]
    BY <1>0, <1>8, <2>1, RecordType, StatusType DEF AdminUpdateCommit, TypeOK
  <2>3. credited' \in [Shipments -> Nat]
    BY <1>0, <1>8, <2>1, CreditType DEF AdminUpdateCommit, TypeOK
  <2>4. QED
    BY <1>0, <1>8, <2>2, <2>3, FinishType DEF AdminUpdateCommit, TypeInv, TypeOK
<1>9. QED
  BY <1>1, <1>2, <1>3, <1>4, <1>5, <1>6, <1>7, <1>8 DEF Proceed

\* Every step of the system.
LEMMA NextType == TypeInv /\ [Next]_vars => TypeInv'
<1> SUFFICES ASSUME TypeInv, [Next]_vars PROVE TypeInv'
  OBVIOUS
<1> USE DEF shipmentRow, moneyRows, fleetRows, locks, handlers
<1>0. TypeOK /\ RequestOK
  BY DEF TypeInv
<1>1. ASSUME NEW s \in Shipments, Create(s) PROVE TypeInv'
  <2>1. history' \in [Shipments -> Seq(HistoryRow)] /\ status' \in [Shipments -> Status \union {None}]
    BY <1>0, <1>1, RecordType, StatusType, StatusMembers DEF Create
  <2>2. cargo' \in [Shipments -> Cargo \union {None}]
    BY <1>0, <1>1 DEF Create, TypeOK
  <2>3. RequestOK'
    BY <1>0, <1>1 DEF Create, RequestOK
  <2>4. QED
    BY <1>0, <1>1, <2>1, <2>2, <2>3 DEF Create, TypeInv, TypeOK
<1>2. ASSUME NEW s \in Shipments, Cancel(s) PROVE TypeInv'
  <2>1. status[s] \in Status
    BY <1>2, TransitionType DEF Cancel, Cancellable
  <2>2. << status[s], "cancelled" >> \in HistoryRow /\ << "cancelled", "cancelled" >> \in HistoryRow
    BY <2>1, StatusMembers DEF HistoryRow
  <2>3. history' \in [Shipments -> Seq(HistoryRow)]
    <3>1. history[s] \in Seq(HistoryRow)
      BY <1>0 DEF TypeOK
    <3>2. Append(history[s], << status[s], "cancelled" >>) \in Seq(HistoryRow)
      BY <3>1, <2>2
    <3>3. Append(Append(history[s], << status[s], "cancelled" >>),
                 << "cancelled", "cancelled" >>) \in Seq(HistoryRow)
      BY <3>2, <2>2
    <3>4. CASE Record(s, status[s], "cancelled")
      BY <1>0, <2>1, <3>4, RecordType, StatusMembers
    <3>5. QED
      BY <1>0, <1>2, <3>3, <3>4 DEF Cancel, TypeOK
  <2>4. status' \in [Shipments -> Status \union {None}]
    BY <1>0, <1>2, StatusType, StatusMembers DEF Cancel
  <2>5. intent' \in [Intents -> {"open", "succeeded", "refunded"}]
    BY <1>0, <1>2, RefundType DEF Cancel, TypeOK, Refundable
  <2>6. QED
    BY <1>0, <1>2, <2>3, <2>4, <2>5 DEF Cancel, TypeInv, TypeOK, RequestOK
<1>3. ASSUME NEW s \in Shipments, CancelAgain(s) PROVE TypeInv'
  <2>1. history' \in [Shipments -> Seq(HistoryRow)]
    BY <1>0, <1>3, RecordType, StatusMembers DEF CancelAgain
  <2>2. intent' \in [Intents -> {"open", "succeeded", "refunded"}]
    BY <1>0, <1>3, RefundType DEF CancelAgain, Refundable
  <2>3. QED
    BY <1>0, <1>3, <2>1, <2>2 DEF CancelAgain, TypeInv, TypeOK, RequestOK
<1>4. ASSUME NEW r \in Requests, Arrive(r) PROVE TypeInv'
  BY <1>4, ArriveType
<1>5. ASSUME NEW r \in Requests, Proceed(r) PROVE TypeInv'
  BY <1>5, ProceedType
<1>6. ASSUME NEW r \in Requests, Abort(r) PROVE TypeInv'
  BY <1>0, <1>6, FinishType, ReleaseType DEF Abort, TypeInv, TypeOK
<1>7. ASSUME NEW d \in Drivers, NEW available \in BOOLEAN, SetDriverAvailable(d, available)
      PROVE  TypeInv'
  BY <1>0, <1>7 DEF SetDriverAvailable, TypeInv, TypeOK, RequestOK
<1>8. ASSUME NEW v \in Vehicles, NEW active \in BOOLEAN, SetVehicleActive(v, active)
      PROVE  TypeInv'
  BY <1>0, <1>8 DEF SetVehicleActive, TypeInv, TypeOK, RequestOK
<1>9. ASSUME NEW i \in Intents, NEW outcome \in { "open", "succeeded" }, SettleIntent(i, outcome)
      PROVE TypeInv'
  BY <1>0, <1>9 DEF SettleIntent, TypeInv, TypeOK, RequestOK
<1>10. CASE UNCHANGED vars
  BY <1>0, <1>10 DEF vars, TypeInv, TypeOK, RequestOK
<1>11. QED
  BY <1>1, <1>2, <1>3, <1>4, <1>5, <1>6, <1>7, <1>8, <1>9, <1>10 DEF Next

\* The types hold in every reachable state, whatever the handlers read before
\* they wrote.
THEOREM TypeCorrect == Spec => []TypeOK
<1>1. TypeInv => TypeOK
  BY DEF TypeInv
<1>2. QED
  BY InitType, NextType, <1>1, PTL DEF Spec

-----------------------------------------------------------------------------
(* One active shipment per driver *)

\* A transaction past its first lock holds the row of a shipment that still
\* waits; past its second it holds the row of a driver who is available and
\* free.  A shipment that was never assigned has neither driver nor fleet.
LocksHeld ==
  /\ \A r \in Requests :
       pc[r] \in { "locked", "checked" } =>
         /\ shipmentLock[req[r].s] = r
         /\ status[req[r].s] = "pending_assignment"
  /\ \A r \in Requests :
       pc[r] = "checked" =>
         /\ driverLock[req[r].d] = r
         /\ driverAvailable[req[r].d]
         /\ DriverFree(req[r].d, req[r].s)

UnassignedBare ==
  \A s \in Shipments :
    status[s] \in { None, "draft", "pending_assignment" } => driver[s] = None /\ fleet[s] = None

Inv == TypeInv /\ LocksHeld /\ UnassignedBare /\ DriverExclusive

\* What a step may do to the rows of shipments and drivers, whoever takes it:
\* assign a waiting shipment under both locks, or move a shipment none of
\* whose locks are held without touching who drives it.
AssignStep(r) ==
  /\ pc[r] = "checked"
  /\ status' = [status EXCEPT ![req[r].s] = "assigned"]
  /\ driver' = [driver EXCEPT ![req[r].s] = req[r].d]
  /\ fleet'  = [fleet EXCEPT ![req[r].s] = FleetOf[req[r].d]]
  /\ ReleaseLocks(r)
  /\ Finish(r)
  /\ UNCHANGED driverAvailable

MoveStep(s, to) ==
  /\ status' = [status EXCEPT ![s] = to]
  /\ \/ RowFree(s) /\ CanTransition(status[s], to)
     \/ status[s] = None /\ to = "draft"
  /\ UNCHANGED << driver, fleet, driverAvailable, locks >>

LEMMA AssignKeeps ==
  ASSUME Inv, NEW r \in Requests, AssignStep(r), TypeInv'
  PROVE  Inv'
<1> DEFINE s == req[r].s
           d == req[r].d
<1>1. /\ s \in Shipments /\ d \in Drivers
      /\ shipmentLock[s] = r /\ driverLock[d] = r
      /\ status[s] = "pending_assignment" /\ DriverFree(d, s)
  BY DEF Inv, TypeInv, RequestOK, LocksHeld, AssignStep
<1>2. ASSUME NEW q \in Requests, pc'[q] \in { "locked", "checked" }
      PROVE  /\ q # r /\ pc[q] = pc'[q] /\ req'[q] = req[q]
             /\ req[q].s \in Shipments /\ req[q].s # s
             /\ req[q].op = "assign"
  BY <1>1, <1>2 DEF AssignStep, Finish, Inv, TypeInv, TypeOK, RequestOK, LocksHeld
<1>3. ASSUME NEW q \in Requests, pc'[q] = "checked"
      PROVE  req[q].d \in Drivers /\ req[q].d # d
  BY <1>1, <1>2, <1>3 DEF Inv, TypeInv, RequestOK, LocksHeld
<1>4. LocksHeld'
  <2>1. ASSUME NEW q \in Requests, pc'[q] \in { "locked", "checked" }
        PROVE  shipmentLock'[req'[q].s] = q /\ status'[req'[q].s] = "pending_assignment"
    BY <1>1, <1>2, <2>1 DEF AssignStep, ReleaseLocks, Inv, LocksHeld, TypeInv, TypeOK
  <2>2. ASSUME NEW q \in Requests, pc'[q] = "checked"
        PROVE  driverLock'[req'[q].d] = q /\ driverAvailable'[req'[q].d]
    BY <1>1, <1>2, <1>3, <2>2 DEF AssignStep, ReleaseLocks, Inv, LocksHeld, TypeInv, TypeOK
  <2>3. ASSUME NEW q \in Requests, pc'[q] = "checked"
        PROVE  DriverFree(req[q].d, req[q].s)'
    BY <1>1, <1>2, <1>3, <2>3 DEF AssignStep, Inv, LocksHeld, DriverFree, TypeInv, TypeOK
  <2>4. QED
    BY <1>2, <2>1, <2>2, <2>3 DEF LocksHeld, DriverFree
<1>5. UnassignedBare'
  BY <1>1, ConstantsAssumption, StatusMembers
  DEF AssignStep, Inv, UnassignedBare, TypeInv, TypeOK
<1>6. DriverExclusive'
  BY <1>1 DEF AssignStep, Inv, DriverExclusive, DriverFree, TypeInv, TypeOK
<1>7. QED
  BY <1>4, <1>5, <1>6 DEF Inv

\* No request past its first lock is touched by the step.
HoldersKept ==
  \A q \in Requests :
    pc'[q] \in { "locked", "checked" } =>
      /\ pc'[q] = pc[q] /\ req'[q] = req[q]
      /\ shipmentLock'[req[q].s] = shipmentLock[req[q].s]
      /\ pc[q] = "checked" =>
           /\ driverLock'[req[q].d] = driverLock[req[q].d]
           /\ driverAvailable'[req[q].d] = driverAvailable[req[q].d]

LEMMA MoveKeeps ==
  ASSUME Inv, TypeInv', HoldersKept, NEW s \in Shipments, NEW to \in Status, MoveStep(s, to)
  PROVE  Inv'
<1>1. ASSUME to \in ACTIVE_DRIVER_STATUSES PROVE status[s] \in ACTIVE_DRIVER_STATUSES \/ driver[s] = None
  BY <1>1, ConstantsAssumption
  DEF MoveStep, CanTransition, TRANSITIONS, Status, ACTIVE_DRIVER_STATUSES, Inv, UnassignedBare
<1>2. ASSUME to \in { None, "draft", "pending_assignment" } PROVE driver[s] = None /\ fleet[s] = None
  BY <1>2, ConstantsAssumption
  DEF MoveStep, CanTransition, TRANSITIONS, Status, Inv, UnassignedBare
<1>3. UnassignedBare'
  BY <1>2 DEF MoveStep, Inv, UnassignedBare, TypeInv, TypeOK
<1>4. DriverExclusive'
  BY <1>1 DEF MoveStep, Inv, DriverExclusive, TypeInv, TypeOK
<1>5. LocksHeld'
  <2>1. ASSUME NEW q \in Requests, pc'[q] \in { "locked", "checked" }
        PROVE  shipmentLock'[req'[q].s] = q /\ status'[req'[q].s] = "pending_assignment"
    <3>1. req[q].s \in Shipments /\ shipmentLock[req[q].s] = q /\ status[req[q].s] = "pending_assignment"
      BY <2>1 DEF HoldersKept, Inv, LocksHeld, TypeInv, RequestOK
    <3>2. req[q].s # s
      BY <3>1, ConstantsAssumption, StatusMembers DEF MoveStep, RowFree
    <3>3. QED
      BY <2>1, <3>1, <3>2 DEF HoldersKept, MoveStep, Inv, TypeInv, TypeOK
  <2>2. ASSUME NEW q \in Requests, pc'[q] = "checked"
        PROVE  /\ driverLock'[req'[q].d] = q
               /\ driverAvailable'[req'[q].d]
               /\ DriverFree(req[q].d, req[q].s)'
    <3>1. /\ req'[q] = req[q] /\ pc[q] = "checked" /\ req[q].d \in Drivers
          /\ driverLock[req[q].d] = q /\ driverAvailable[req[q].d]
          /\ DriverFree(req[q].d, req[q].s)
      BY <2>2 DEF HoldersKept, Inv, LocksHeld, TypeInv, RequestOK
    <3>2. DriverFree(req[q].d, req[q].s)'
      BY <1>1, <3>1, ConstantsAssumption DEF DriverFree, MoveStep, Inv, TypeInv, TypeOK
    <3>3. QED
      BY <2>2, <3>1, <3>2 DEF HoldersKept
  <2>3. QED
    <3>1. ASSUME NEW q \in Requests, pc'[q] = "checked" PROVE req'[q] = req[q]
      BY <3>1 DEF HoldersKept
    <3>2. QED
      BY <2>1, <2>2, <3>1 DEF LocksHeld, DriverFree
<1>6. QED
  BY <1>3, <1>4, <1>5 DEF Inv

LEMMA QuietKeeps ==
  ASSUME Inv, TypeInv', HoldersKept, UNCHANGED << status, driver, fleet >>
  PROVE  Inv'
<1>1. LocksHeld'
  <2>1. ASSUME NEW q \in Requests, pc'[q] \in { "locked", "checked" }
        PROVE  shipmentLock'[req'[q].s] = q /\ status'[req'[q].s] = "pending_assignment"
    BY <2>1 DEF HoldersKept, Inv, LocksHeld
  <2>2. ASSUME NEW q \in Requests, pc'[q] = "checked"
        PROVE  /\ req'[q] = req[q]
               /\ driverLock'[req'[q].d] = q
               /\ driverAvailable'[req'[q].d]
               /\ DriverFree(req[q].d, req[q].s)
    BY <2>2 DEF HoldersKept, Inv, LocksHeld
  <2>3. QED
    BY <2>1, <2>2 DEF LocksHeld, DriverFree
<1>2. UnassignedBare' /\ DriverExclusive'
  BY DEF Inv, UnassignedBare, DriverExclusive
<1>3. QED
  BY <1>1, <1>2 DEF Inv

\* Taking the shipment's row.
LEMMA LockShipmentKeeps ==
  ASSUME Inv, TypeInv', NEW r \in Requests, LockShipment(r)
  PROVE  Inv'
<1>1. CASE Finish(r) /\ UNCHANGED shipmentLock
  <2>1. HoldersKept
    BY <1>1 DEF LockShipment, Finish, HoldersKept, Inv, TypeInv, TypeOK, fleetRows
  <2>2. QED
    BY <1>1, <2>1, QuietKeeps DEF LockShipment, shipmentRow
<1>2. CASE /\ status[req[r].s] = "pending_assignment"
           /\ shipmentLock' = [shipmentLock EXCEPT ![req[r].s] = r]
           /\ pc' = [pc EXCEPT ![r] = "locked"]
           /\ UNCHANGED req
  <2> USE DEF LockShipment, Pending, shipmentRow, fleetRows
  <2>0. req[r].s \in Shipments /\ shipmentLock[req[r].s] = None
    BY DEF Inv, TypeInv, RequestOK, RowFree
  <2>1. ASSUME NEW q \in Requests, pc'[q] \in { "locked", "checked" }
        PROVE  shipmentLock'[req'[q].s] = q /\ status'[req'[q].s] = "pending_assignment"
    <3>1. CASE q = r
      BY <1>2, <2>0, <3>1 DEF Inv, TypeInv, TypeOK
    <3>2. CASE q # r
      <4>1. pc[q] \in { "locked", "checked" }
        BY <1>2, <2>1, <3>2 DEF Inv, TypeInv, TypeOK
      <4>2. req[q].s # req[r].s
        BY <2>0, <4>1, ConstantsAssumption DEF Inv, LocksHeld
      <4>3. QED
        BY <1>2, <4>1, <4>2, <2>0 DEF Inv, LocksHeld, TypeInv, TypeOK, RequestOK
    <3>3. QED
      BY <3>1, <3>2
  <2>2. ASSUME NEW q \in Requests, pc'[q] = "checked"
        PROVE  pc[q] = "checked"
    BY <1>2, <2>2 DEF Inv, TypeInv, TypeOK
  <2>3. LocksHeld'
    BY <1>2, <2>1, <2>2 DEF Inv, LocksHeld, DriverFree
  <2>4. UnassignedBare' /\ DriverExclusive'
    BY DEF Inv, UnassignedBare, DriverExclusive
  <2>5. QED
    BY <2>3, <2>4 DEF Inv
<1>3. QED
  BY <1>1, <1>2 DEF LockShipment

\* Taking the driver's row, after which the check stays true.
LEMMA LockDriverKeeps ==
  ASSUME Inv, TypeInv', NEW r \in Requests, LockDriver(r)
  PROVE  Inv'
<1>1. CASE Finish(r) /\ ReleaseLocks(r)
  <2>1. HoldersKept
    BY <1>1 DEF LockDriver, Finish, ReleaseLocks, HoldersKept, Inv, TypeInv, TypeOK, RequestOK,
                LocksHeld, fleetRows
  <2>2. QED
    BY <1>1, <2>1, QuietKeeps DEF LockDriver, shipmentRow
<1>2. CASE /\ driverAvailable[req[r].d] /\ DriverFree(req[r].d, req[r].s)
           /\ TakeDriverLock(r, req[r].d)
           /\ pc' = [pc EXCEPT ![r] = "checked"]
           /\ UNCHANGED << shipmentLock, req >>
  <2> USE DEF LockDriver, shipmentRow, fleetRows
  <2>0. req[r].d \in Drivers /\ driverLock[req[r].d] = None
    BY <1>2 DEF Inv, TypeInv, RequestOK, TakeDriverLock
  <2>1. ASSUME NEW q \in Requests, pc'[q] \in { "locked", "checked" }
        PROVE  pc[q] \in { "locked", "checked" }
    BY <1>2, <2>1 DEF Inv, TypeInv, TypeOK
  <2>2. ASSUME NEW q \in Requests, pc'[q] = "checked"
        PROVE  /\ driverLock'[req[q].d] = q /\ driverAvailable[req[q].d]
               /\ DriverFree(req[q].d, req[q].s)
    <3>1. CASE q = r
      BY <1>2, <2>0, <3>1 DEF TakeDriverLock, Inv, TypeInv, TypeOK
    <3>2. CASE q # r
      <4>1. pc[q] = "checked"
        BY <1>2, <2>2, <3>2 DEF Inv, TypeInv, TypeOK
      <4>2. req[q].d # req[r].d
        BY <2>0, <4>1, ConstantsAssumption DEF Inv, LocksHeld
      <4>3. QED
        BY <1>2, <4>1, <4>2, <2>0 DEF TakeDriverLock, Inv, LocksHeld, TypeInv, TypeOK, RequestOK
    <3>3. QED
      BY <3>1, <3>2
  <2>3. LocksHeld'
    BY <1>2, <2>1, <2>2 DEF Inv, LocksHeld, DriverFree
  <2>4. UnassignedBare' /\ DriverExclusive'
    BY DEF Inv, UnassignedBare, DriverExclusive
  <2>5. QED
    BY <2>3, <2>4 DEF Inv
<1>3. QED
  BY <1>1, <1>2 DEF LockDriver

LEMMA InitInv == Init => Inv
<1> SUFFICES ASSUME Init PROVE Inv
  OBVIOUS
<1>1. TypeInv
  BY InitType
<1>2. LocksHeld
  BY DEF Init, LocksHeld
<1>3. UnassignedBare /\ DriverExclusive
  BY DEF Init, UnassignedBare, DriverExclusive
<1>4. QED
  BY <1>1, <1>2, <1>3 DEF Inv

\* A handler that holds no lock and ends, or moves only its own status, leaves
\* the holders of locks alone.
LEMMA FinishKeepsHolders ==
  ASSUME TypeInv, NEW r \in Requests, Finish(r), UNCHANGED << locks, driverAvailable >>
  PROVE  HoldersKept
  BY DEF TypeInv, TypeOK, Finish, HoldersKept, locks

LEMMA ProceedInv ==
  ASSUME Inv, TypeInv', NEW r \in Requests, Proceed(r)
  PROVE  Inv'
<1> USE DEF fleetRows
<1>0. TypeInv
  BY DEF Inv
<1>1. CASE UpdateCommit(r)
  <2>1. HoldersKept
    BY <1>0, <1>1, FinishKeepsHolders DEF UpdateCommit
  <2>2. QED
    BY <1>1, <2>1, QuietKeeps DEF UpdateCommit
<1>2. CASE ConfirmCommit(r)
  <2>1. HoldersKept
    BY <1>0, <1>2, FinishKeepsHolders DEF ConfirmCommit
  <2>2. CASE UNCHANGED status
    BY <1>2, <2>1, <2>2, QuietKeeps DEF ConfirmCommit
  <2>3. CASE status[req[r].s] = "draft" /\ SetStatus(req[r].s, "pending_assignment")
    <3>1. req[r].s \in Shipments
      BY <1>0, <1>2 DEF TypeInv, RequestOK, ConfirmCommit, Pending
    <3>2. MoveStep(req[r].s, "pending_assignment")
      BY <1>2, <2>3 DEF ConfirmCommit, MoveStep, SetStatus, CanTransition, TRANSITIONS, Status
    <3>3. QED
      BY <2>1, <3>1, <3>2, StatusMembers, MoveKeeps
  <2>4. QED
    BY <1>2, <2>2, <2>3 DEF ConfirmCommit
<1>3. CASE LockShipment(r)
  BY <1>3, LockShipmentKeeps
<1>4. CASE LockDriver(r)
  BY <1>4, LockDriverKeeps
<1>5. CASE CommitAssign(r)
  <2>1. AssignStep(r)
    BY <1>5 DEF CommitAssign, AssignStep, SetStatus
  <2>2. QED
    BY <2>1, AssignKeeps
<1>6. CASE DriverCommit(r)
  <2>1. HoldersKept
    BY <1>0, <1>6, FinishKeepsHolders DEF DriverCommit
  <2>2. CASE UNCHANGED status
    BY <1>6, <2>1, <2>2, QuietKeeps DEF DriverCommit
  <2>3. CASE CanTransition(status[req[r].s], req[r].to) /\ SetStatus(req[r].s, req[r].to)
    <3>1. req[r].s \in Shipments /\ req[r].to \in Status
      BY <1>0, <1>6 DEF TypeInv, RequestOK, DriverCommit, Pending
    <3>2. MoveStep(req[r].s, req[r].to)
      BY <1>6, <2>3 DEF DriverCommit, MoveStep, SetStatus
    <3>3. QED
      BY <2>1, <3>1, <3>2, MoveKeeps
  <2>4. QED
    BY <1>6, <2>2, <2>3 DEF DriverCommit
<1>7. CASE CompleteCommit(r)
  <2>1. HoldersKept
    BY <1>0, <1>7, FinishKeepsHolders DEF CompleteCommit
  <2>2. CASE UNCHANGED status
    BY <1>7, <2>1, <2>2, QuietKeeps DEF CompleteCommit
  <2>3. CASE status[req[r].s] = "delivered" /\ SetStatus(req[r].s, "completed")
    <3>1. req[r].s \in Shipments
      BY <1>0, <1>7 DEF TypeInv, RequestOK, CompleteCommit, Pending
    <3>2. MoveStep(req[r].s, "completed")
      BY <1>7, <2>3 DEF CompleteCommit, MoveStep, SetStatus, CanTransition, TRANSITIONS, Status
    <3>3. QED
      BY <2>1, <3>1, <3>2, StatusMembers, MoveKeeps
  <2>4. QED
    BY <1>7, <2>2, <2>3 DEF CompleteCommit
<1>8. CASE AdminUpdateCommit(r)
  <2>1. HoldersKept
    BY <1>0, <1>8, FinishKeepsHolders DEF AdminUpdateCommit
  <2>2. CASE UNCHANGED status
    BY <1>8, <2>1, <2>2, QuietKeeps DEF AdminUpdateCommit
  <2>3. CASE StillAllowed(req[r].s, req[r].to) /\ SetStatus(req[r].s, req[r].to)
    <3>1. req[r].s \in Shipments /\ req[r].to \in Status
      BY <1>0, <1>8 DEF TypeInv, RequestOK, AdminUpdateCommit, Pending
    <3>2. MoveStep(req[r].s, req[r].to)
      BY <1>8, <2>3 DEF AdminUpdateCommit, MoveStep, SetStatus, StillAllowed
    <3>3. QED
      BY <2>1, <3>1, <3>2, MoveKeeps
  <2>4. QED
    BY <1>8, <2>2, <2>3 DEF AdminUpdateCommit
<1>9. QED
  BY <1>1, <1>2, <1>3, <1>4, <1>5, <1>6, <1>7, <1>8 DEF Proceed

LEMMA NextInv == Inv /\ [Next]_vars => Inv'
<1> SUFFICES ASSUME Inv, [Next]_vars PROVE Inv'
  OBVIOUS
<1> USE DEF shipmentRow, fleetRows, locks, handlers
<1>0. TypeInv /\ TypeInv'
  BY NextType DEF Inv
<1>1. ASSUME NEW s \in Shipments, Create(s) PROVE Inv'
  <2>1. HoldersKept
    BY <1>1 DEF Create, HoldersKept
  <2>2. MoveStep(s, "draft")
    BY <1>1 DEF Create, MoveStep, SetStatus
  <2>3. QED
    BY <1>0, <2>1, <2>2, MoveKeeps, StatusMembers
<1>2. ASSUME NEW s \in Shipments, Cancel(s) PROVE Inv'
  <2>1. HoldersKept
    BY <1>2 DEF Cancel, HoldersKept
  <2>2. MoveStep(s, "cancelled")
    BY <1>2 DEF Cancel, Cancellable, MoveStep, SetStatus
  <2>3. QED
    BY <1>0, <2>1, <2>2, MoveKeeps, StatusMembers
<1>3. ASSUME NEW s \in Shipments, CancelAgain(s) PROVE Inv'
  <2>1. HoldersKept
    BY <1>3 DEF CancelAgain, HoldersKept
  <2>2. QED
    BY <1>0, <1>3, <2>1, QuietKeeps DEF CancelAgain
<1>4. ASSUME NEW r \in Requests, Arrive(r) PROVE Inv'
  <2>1. ASSUME NEW request, Begin(r, request), UNCHANGED << shipmentRow, fleetRows, locks >>
        PROVE  Inv'
    <3>1. HoldersKept
      BY <1>0, <2>1 DEF Begin, HoldersKept, TypeInv, TypeOK
    <3>2. QED
      BY <1>0, <2>1, <3>1, QuietKeeps
  <2>2. QED
    BY <1>4, <2>1
    DEF Arrive, UpdateRead, ConfirmRead, AcceptRead, AdminAssignRead, DriverRead, CompleteRead,
        AdminUpdateRead
<1>5. ASSUME NEW r \in Requests, Proceed(r) PROVE Inv'
  BY <1>0, <1>5, ProceedInv
<1>6. ASSUME NEW r \in Requests, Abort(r) PROVE Inv'
  <2>1. HoldersKept
    BY <1>0, <1>6 DEF Abort, Finish, ReleaseLocks, HoldersKept, Inv, LocksHeld, TypeInv, TypeOK, RequestOK
  <2>2. QED
    BY <1>0, <1>6, <2>1, QuietKeeps DEF Abort
<1>7. ASSUME NEW d \in Drivers, NEW available \in BOOLEAN, SetDriverAvailable(d, available)
      PROVE  Inv'
  <2>1. HoldersKept
    BY <1>0, <1>7, ConstantsAssumption
    DEF SetDriverAvailable, HoldersKept, Inv, LocksHeld, TypeInv, TypeOK
  <2>2. QED
    BY <1>0, <1>7, <2>1, QuietKeeps DEF SetDriverAvailable
<1>8. ASSUME NEW v \in Vehicles, NEW active \in BOOLEAN, SetVehicleActive(v, active)
      PROVE  Inv'
  <2>1. HoldersKept
    BY <1>8 DEF SetVehicleActive, HoldersKept
  <2>2. QED
    BY <1>0, <1>8, <2>1, QuietKeeps DEF SetVehicleActive
<1>9. ASSUME NEW i \in Intents, NEW outcome \in { "open", "succeeded" }, SettleIntent(i, outcome)
      PROVE Inv'
  <2>1. HoldersKept
    BY <1>9 DEF SettleIntent, HoldersKept
  <2>2. QED
    BY <1>0, <1>9, <2>1, QuietKeeps DEF SettleIntent
<1>10. CASE UNCHANGED vars
  <2>1. HoldersKept
    BY <1>10 DEF vars, HoldersKept
  <2>2. QED
    BY <1>0, <1>10, <2>1, QuietKeeps DEF vars
<1>11. QED
  BY <1>1, <1>2, <1>3, <1>4, <1>5, <1>6, <1>7, <1>8, <1>9, <1>10 DEF Next

\* No driver is ever on two active shipments, for any number of concurrent
\* assignments by fleet owners and administrators.
THEOREM OneShipmentPerDriver == Spec => []DriverExclusive
<1>1. Inv => DriverExclusive
  BY DEF Inv
<1>2. QED
  BY InitInv, NextInv, <1>1, PTL DEF Spec

\* The step that puts a driver on a shipment finds it as the property says:
\* the check of assertDriverAvailableInTransaction still holds at COMMIT.
LEMMA AssignedStep ==
  ASSUME Inv, [Next]_vars, NEW s \in Shipments, driver'[s] # driver[s]
  PROVE  /\ driver[s] = None
         /\ status[s] = "pending_assignment" /\ status'[s] = "assigned"
         /\ driverAvailable[driver'[s]]
         /\ DriverFree(driver'[s], s)
<1>1. PICK r \in Requests : CommitAssign(r)
  <2>1. CASE \E r \in Requests : Proceed(r)
    BY <2>1 DEF Proceed, UpdateCommit, ConfirmCommit, LockShipment, LockDriver, DriverCommit,
                CompleteCommit, AdminUpdateCommit, shipmentRow
  <2>2. CASE \E r \in Requests : Arrive(r)
    BY <2>2 DEF Arrive, UpdateRead, ConfirmRead, AcceptRead, AdminAssignRead, DriverRead,
                CompleteRead, AdminUpdateRead, shipmentRow
  <2>3. CASE UNCHANGED vars
    BY <2>3 DEF vars, shipmentRow
  <2>4. CASE \/ \E t \in Shipments : Create(t) \/ Cancel(t) \/ CancelAgain(t)
             \/ \E r \in Requests : Abort(r)
             \/ \E d \in Drivers, available \in BOOLEAN : SetDriverAvailable(d, available)
             \/ \E v \in Vehicles, active \in BOOLEAN : SetVehicleActive(v, active)
             \/ \E i \in Intents, outcome \in { "open", "succeeded" } : SettleIntent(i, outcome)
    BY <2>4 DEF Create, Cancel, CancelAgain, Abort, SetDriverAvailable, SetVehicleActive,
                SettleIntent, shipmentRow
  <2>5. QED
    BY <2>1, <2>2, <2>3, <2>4 DEF Next
<1>2. /\ status[req[r].s] = "pending_assignment"
      /\ driverAvailable[req[r].d]
      /\ DriverFree(req[r].d, req[r].s)
  BY <1>1 DEF CommitAssign, Inv, LocksHeld
<1>3. s = req[r].s /\ driver'[s] = req[r].d /\ status'[s] = "assigned"
  BY <1>1 DEF CommitAssign, SetStatus, Inv, TypeInv, TypeOK
<1>4. QED
  BY <1>2, <1>3 DEF Inv, UnassignedBare

\* Every assignment takes effect on a waiting shipment without a driver, with
\* a driver who is available and free at COMMIT and not only when the
\* transaction looked.
THEOREM AssignmentsHold == Spec => AssignedWhileAvailable
<1>1. Inv /\ [Next]_vars =>
        [ \A s \in Shipments :
            driver'[s] # driver[s] =>
              /\ driver[s] = None
              /\ status[s] = "pending_assignment" /\ status'[s] = "assigned"
              /\ driverAvailable[driver'[s]]
              /\ DriverFree(driver'[s], s) ]_vars
  BY AssignedStep
<1>2. QED
  BY InitInv, NextInv, <1>1, PTL DEF Spec, AssignedWhileAvailable

-----------------------------------------------------------------------------
(* One earning per completed shipment, one side paid *)

MoneyInv == TypeInv /\ EarningExactlyOnce /\ RefundOnlyCancelled

\* What a step may do to the money of shipment s: nothing; anything to the row
\* of a shipment that is not and does not get completed; or complete it and
\* credit its owner.
Untouched(s) ==
  /\ status'[s] = status[s] /\ fleet'[s] = fleet[s] /\ price'[s] = price[s]
  /\ credited'[s] = credited[s]

Unfinished(s) ==
  /\ status[s] # "completed" /\ status'[s] # "completed"
  /\ status[s] = "cancelled" => status'[s] = "cancelled"
  /\ credited'[s] = credited[s]

Completed(s) ==
  /\ status'[s] = "completed" /\ status[s] # "cancelled"
  /\ fleet'[s] = fleet[s] /\ price'[s] = price[s]
  /\ credited'[s] = IF fleet[s] = None \/ price[s] = None \/ credited[s] > 0
                    THEN credited[s] ELSE credited[s] + 1

MoneyStep ==
  /\ \A s \in Shipments : Untouched(s) \/ Unfinished(s) \/ Completed(s)
  /\ \A i \in Intents : intent'[i] = "refunded" =>
       intent[i] = "refunded" \/ status'[IntentOf[i]] = "cancelled"

LEMMA MoneyKeeps ==
  ASSUME MoneyInv, TypeInv', MoneyStep
  PROVE  MoneyInv'
<1>1. ASSUME NEW s \in Shipments
      PROVE  credited'[s] = IF status'[s] = "completed" /\ fleet'[s] # None /\ price'[s] # None
                            THEN 1 ELSE 0
  <2>1. credited[s] = IF status[s] = "completed" /\ fleet[s] # None /\ price[s] # None
                      THEN 1 ELSE 0
    BY DEF MoneyInv, EarningExactlyOnce
  <2>2. QED
    BY <2>1 DEF MoneyStep, Untouched, Unfinished, Completed
<1>2. ASSUME NEW i \in Intents, intent'[i] = "refunded"
      PROVE  status'[IntentOf[i]] = "cancelled" /\ credited'[IntentOf[i]] = 0
  <2>1. IntentOf[i] \in Shipments
    BY ConstantsAssumption
  <2>2. status'[IntentOf[i]] = "cancelled"
    BY <1>2, <2>1 DEF MoneyInv, RefundOnlyCancelled, MoneyStep, Untouched, Unfinished, Completed
  <2>3. QED
    BY <1>1, <2>1, <2>2
<1>3. QED
  BY <1>1, <1>2 DEF MoneyInv, EarningExactlyOnce, RefundOnlyCancelled

\* A status moves along the table, which keeps completed and cancelled final.
LEMMA TerminalStatus ==
  ASSUME NEW from, NEW to, CanTransition(from, to)
  PROVE  /\ from # "completed" /\ from # "cancelled"
         /\ to = "completed" => from = "delivered"
  BY DEF CanTransition, TRANSITIONS, Status

LEMMA ProceedMoney ==
  ASSUME Inv, MoneyInv, NEW r \in Requests, Proceed(r)
  PROVE  MoneyStep
<1> USE DEF moneyRows, shipmentRow, MoneyStep
<1>0. TypeOK /\ RequestOK
  BY DEF MoneyInv, TypeInv
<1>1. CASE UpdateCommit(r)
  BY <1>1 DEF UpdateCommit, Untouched
<1>2. CASE ConfirmCommit(r)
  <2>1. req[r].s \in Shipments
    BY <1>0, <1>2 DEF RequestOK, ConfirmCommit, Pending
  <2>2. ASSUME NEW s \in Shipments PROVE Untouched(s) \/ Unfinished(s)
    BY <1>0, <1>2, <2>1 DEF ConfirmCommit, SetStatus, TypeOK, Untouched, Unfinished
  <2>3. QED
    BY <1>2, <2>2 DEF ConfirmCommit
<1>3. CASE LockShipment(r)
  BY <1>3 DEF LockShipment, Untouched
<1>4. CASE LockDriver(r)
  BY <1>4 DEF LockDriver, Untouched
<1>5. CASE CommitAssign(r)
  <2>1. req[r].s \in Shipments /\ status[req[r].s] = "pending_assignment"
    BY <1>0, <1>5 DEF RequestOK, CommitAssign, Inv, LocksHeld
  <2>2. ASSUME NEW s \in Shipments PROVE Untouched(s) \/ Unfinished(s)
    BY <1>0, <1>5, <2>1 DEF CommitAssign, SetStatus, TypeOK, Untouched, Unfinished
  <2>3. QED
    BY <1>5, <2>2 DEF CommitAssign
<1>6. CASE DriverCommit(r)
  <2>1. req[r].s \in Shipments
    BY <1>0, <1>6 DEF RequestOK, DriverCommit, Pending
  <2>2. req[r].to # "completed"
    BY <1>6 DEF DriverCommit, Pending, MoneyInv, TypeInv, RequestOK
  <2>3. QED
    BY <1>0, <1>6, <2>1, <2>2, TerminalStatus DEF DriverCommit, SetStatus, TypeOK, Untouched, Unfinished
<1>7. CASE CompleteCommit(r)
  <2>1. req[r].s \in Shipments
    BY <1>0, <1>7 DEF RequestOK, CompleteCommit, Pending
  <2>2. ASSUME NEW s \in Shipments PROVE Untouched(s) \/ Completed(s)
    BY <1>0, <1>7, <2>1
    DEF CompleteCommit, SetStatus, CreditFleetOwner, EarningPosted, TypeOK, Untouched, Completed
  <2>3. QED
    BY <1>7, <2>2 DEF CompleteCommit
<1>8. CASE AdminUpdateCommit(r)
  <2>1. req[r].s \in Shipments
    BY <1>0, <1>8 DEF RequestOK, AdminUpdateCommit, Pending
  <2>2. ASSUME NEW s \in Shipments PROVE Untouched(s) \/ Unfinished(s) \/ Completed(s)
    BY <1>0, <1>8, <2>1, TerminalStatus
    DEF AdminUpdateCommit, StillAllowed, SetStatus, CreditFleetOwner, EarningPosted, TypeOK,
        Untouched, Unfinished, Completed
  <2>3. QED
    BY <1>8, <2>2 DEF AdminUpdateCommit
<1>9. QED
  BY <1>1, <1>2, <1>3, <1>4, <1>5, <1>6, <1>7, <1>8 DEF Proceed

LEMMA NextMoney == Inv /\ MoneyInv /\ [Next]_vars => MoneyInv'
<1> SUFFICES ASSUME Inv, MoneyInv, [Next]_vars PROVE MoneyInv'
  OBVIOUS
<1> USE DEF moneyRows, shipmentRow, fleetRows, MoneyStep
<1>0. TypeOK /\ RequestOK /\ TypeInv'
  BY NextType DEF MoneyInv, TypeInv
<1>1. ASSUME NEW t \in Shipments, Create(t) PROVE MoneyStep
  BY <1>0, <1>1, ConstantsAssumption, StatusMembers
  DEF Create, SetStatus, TypeOK, Untouched, Unfinished
<1>2. ASSUME NEW t \in Shipments, Cancel(t) PROVE MoneyStep
  <2>1. ASSUME NEW s \in Shipments PROVE Untouched(s) \/ Unfinished(s)
    BY <1>0, <1>2, TerminalStatus DEF Cancel, Cancellable, SetStatus, TypeOK, Untouched, Unfinished
  <2>2. ASSUME NEW i \in Intents, intent'[i] = "refunded"
        PROVE  intent[i] = "refunded" \/ status'[IntentOf[i]] = "cancelled"
    BY <1>0, <1>2, <2>2, ConstantsAssumption
    DEF Cancel, Refund, Refundable, SetStatus, TypeOK
  <2>3. QED
    BY <2>1, <2>2
<1>3. ASSUME NEW t \in Shipments, CancelAgain(t) PROVE MoneyStep
  BY <1>0, <1>3, ConstantsAssumption DEF CancelAgain, Refund, Refundable, TypeOK, Untouched
<1>4. ASSUME NEW r \in Requests, Arrive(r) PROVE MoneyStep
  BY <1>4 DEF Arrive, UpdateRead, ConfirmRead, AcceptRead, AdminAssignRead, DriverRead,
              CompleteRead, AdminUpdateRead, Untouched
<1>5. ASSUME NEW r \in Requests, Proceed(r) PROVE MoneyStep
  BY <1>5, ProceedMoney
<1>6. ASSUME NEW r \in Requests, Abort(r) PROVE MoneyStep
  BY <1>6 DEF Abort, Untouched
<1>7. ASSUME \/ \E d \in Drivers, available \in BOOLEAN : SetDriverAvailable(d, available)
             \/ \E v \in Vehicles, active \in BOOLEAN : SetVehicleActive(v, active)
      PROVE  MoneyStep
  BY <1>7 DEF SetDriverAvailable, SetVehicleActive, Untouched
<1>8. ASSUME NEW i \in Intents, NEW outcome \in { "open", "succeeded" }, SettleIntent(i, outcome)
      PROVE MoneyStep
  BY <1>0, <1>8 DEF SettleIntent, TypeOK, Untouched
<1>9. ASSUME UNCHANGED vars PROVE MoneyStep
  BY <1>9 DEF vars, Untouched
<1>10. MoneyStep
  BY <1>1, <1>2, <1>3, <1>4, <1>5, <1>6, <1>7, <1>8, <1>9 DEF Next
<1>11. QED
  BY <1>0, <1>10, MoneyKeeps

LEMMA SpecMoney == Spec => []MoneyInv
<1>1. Init => MoneyInv
  <2>1. Init => EarningExactlyOnce /\ RefundOnlyCancelled
    BY ConstantsAssumption, StatusMembers DEF Init, EarningExactlyOnce, RefundOnlyCancelled
  <2>2. QED
    BY <2>1, InitType DEF MoneyInv
<1>2. QED
  BY InitInv, NextInv, <1>1, NextMoney, PTL DEF Spec

\* The fleet owner's earning is in the ledger exactly for completed, priced
\* and assigned shipments, and once: for any interleaving of complete,
\* adminUpdateStatus, cancel and their retries.
THEOREM EarnedOnce == Spec => []EarningExactlyOnce
<1>1. MoneyInv => EarningExactlyOnce
  BY DEF MoneyInv
<1>2. QED
  BY SpecMoney, <1>1, PTL

\* Only a cancelled shipment is refunded, and never one with an earning (cancel,
\* refundCustomerInTransaction, adminUpdateStatus).
THEOREM RefundsCancelled == Spec => []RefundOnlyCancelled
<1>1. MoneyInv => RefundOnlyCancelled
  BY DEF MoneyInv
<1>2. QED
  BY SpecMoney, <1>1, PTL
-----------------------------------------------------------------------------
(* The status history *)

\* AuditTrail, for a history and the status it should end at.
Trail(h, at) ==
  /\ at = IF h = << >> THEN None ELSE h[Len(h)][2]
  /\ \A n \in DOMAIN h :
       /\ \/ CanTransition(h[n][1], h[n][2])
          \/ h[n] = << "cancelled", "cancelled" >>
          \/ n = 1 /\ h[n] = << None, "draft" >>
       /\ n > 1 => h[n][1] = h[n-1][2] \/ h[n][2] = "cancelled"

\* adminUpdateStatus notes the status it read, and the table allowed it then.
ReadAllowed ==
  \A r \in Requests :
    pc[r] # "idle" /\ req[r].op = "admin_update" => CanTransition(req[r].pre, req[r].to)

TrailInv == AuditTrail /\ ReadAllowed

LEMMA TrailOfShipment == AuditTrail <=> \A s \in Shipments : Trail(history[s], status[s])
  BY DEF AuditTrail, Trail

\* Every status but cancelled is reached from one status only.
LEMMA OneWayIn ==
  ASSUME NEW a, NEW b, NEW to, CanTransition(a, to), CanTransition(b, to)
  PROVE  a = b \/ to = "cancelled"
  BY DEF CanTransition, TRANSITIONS, Status

\* A history stays one when a row is appended that the table allows, or that
\* notes a refund or the creation.
LEMMA TrailAppends ==
  ASSUME NEW h \in Seq(HistoryRow), NEW at, Trail(h, at),
         NEW from \in Status \union {None}, NEW to \in Status,
         \/ CanTransition(from, to)
         \/ from = "cancelled" /\ to = "cancelled"
         \/ at = None /\ from = None /\ to = "draft",
         from = at \/ to = "cancelled"
  PROVE  Trail(Append(h, << from, to >>), to)
<1> DEFINE row == << from, to >>
           k == Append(h, row)
<1>1. /\ row \in HistoryRow /\ Len(h) \in Nat /\ DOMAIN h = 1..Len(h)
      /\ k \in Seq(HistoryRow) /\ Len(k) = Len(h) + 1 /\ DOMAIN k = 1..(Len(h) + 1)
  BY DEF HistoryRow
<1>2. k[Len(h) + 1] = row /\ \A n \in 1..Len(h) : k[n] = h[n]
  BY <1>1
<1>3. h # << >> => Len(h) > 0 /\ at = h[Len(h)][2] /\ at # None
  <2>1. h # << >> => Len(h) \in 1..Len(h) /\ h[Len(h)] \in HistoryRow
    BY <1>1
  <2>2. QED
    BY <2>1, ConstantsAssumption DEF Trail, HistoryRow
<1>4. k # << >> /\ to = k[Len(k)][2]
  BY <1>1, <1>2
<1>5. ASSUME NEW n \in DOMAIN k
      PROVE  /\ \/ CanTransition(k[n][1], k[n][2])
                \/ k[n] = << "cancelled", "cancelled" >>
                \/ n = 1 /\ k[n] = << None, "draft" >>
             /\ n > 1 => k[n][1] = k[n-1][2] \/ k[n][2] = "cancelled"
  <2>1. CASE n \in 1..Len(h)
    <3>1. k[n] = h[n] /\ (n > 1 => n - 1 \in 1..Len(h) /\ k[n-1] = h[n-1])
      BY <1>1, <1>2, <2>1
    <3>2. QED
      BY <1>1, <2>1, <3>1 DEF Trail
  <2>2. CASE n = Len(h) + 1
    <3>1. k[n] = row
      BY <1>2, <2>2
    <3>2. k[n][1] = from /\ k[n][2] = to
      BY <3>1
    <3> HIDE DEF k
    <3>3. n > 1 => h # << >> /\ k[n-1] = h[Len(h)]
      <4>1. n > 1 => Len(h) # 0 /\ n - 1 = Len(h) /\ Len(h) \in 1..Len(h)
        BY <1>1, <2>2
      <4>2. h = << >> => Len(h) = 0
        OBVIOUS
      <4>3. QED
        BY <1>2, <4>1, <4>2
    <3>4. h = << >> => n = 1
      <4>1. h = << >> => Len(h) = 0
        OBVIOUS
      <4>2. QED
        BY <2>2, <4>1
    <3>5. at = None => n = 1
      BY <1>3, <3>4
    <3>6. \/ CanTransition(k[n][1], k[n][2])
          \/ k[n] = << "cancelled", "cancelled" >>
          \/ n = 1 /\ k[n] = << None, "draft" >>
      BY <3>1, <3>2, <3>5
    <3>7. n > 1 => k[n][1] = k[n-1][2] \/ k[n][2] = "cancelled"
      BY <1>3, <3>2, <3>3
    <3>8. QED
      BY <3>6, <3>7
  <2>3. QED
    BY <1>1, <2>1, <2>2
<1>6. QED
  BY <1>4, <1>5 DEF Trail

\* A step that moves one shipment and records the move keeps all histories.
LEMMA RecordKeeps ==
  ASSUME TypeOK, AuditTrail, NEW s \in Shipments,
         NEW from \in Status \union {None}, NEW to \in Status,
         status' = [status EXCEPT ![s] = to], Record(s, from, to),
         \/ CanTransition(from, to)
         \/ from = "cancelled" /\ to = "cancelled"
         \/ status[s] = None /\ from = None /\ to = "draft",
         from = status[s] \/ to = "cancelled"
  PROVE  AuditTrail'
<1>1. history[s] \in Seq(HistoryRow) /\ Trail(history[s], status[s])
  BY TrailOfShipment DEF TypeOK
<1>2. Trail(Append(history[s], << from, to >>), to)
  BY <1>1, TrailAppends
<1>3. ASSUME NEW t \in Shipments PROVE Trail(history'[t], status'[t])
  <2>1. CASE t = s
    <3>1. history'[s] = Append(history[s], << from, to >>) /\ status'[s] = to
      BY DEF TypeOK, Record
    <3>2. QED
      BY <1>2, <2>1, <3>1
  <2>2. CASE t # s
    <3>1. history'[t] = history[t] /\ status'[t] = status[t]
      BY <2>2 DEF TypeOK, Record
    <3>2. QED
      BY <3>1, TrailOfShipment
  <2>3. QED
    BY <2>1, <2>2
<1>4. QED
  BY <1>3 DEF AuditTrail, Trail

LEMMA CancelKeepsTrail ==
  ASSUME TypeOK, AuditTrail, NEW s \in Shipments, Cancel(s)
  PROVE  AuditTrail'
<1>1. /\ status' = [status EXCEPT ![s] = "cancelled"]
      /\ CanTransition(status[s], "cancelled") /\ status[s] \in Status
  BY TransitionType DEF Cancel, Cancellable, SetStatus
<1>2. CASE Record(s, status[s], "cancelled")
  BY <1>1, <1>2, RecordKeeps, StatusMembers
<1>3. CASE history' = [history EXCEPT ![s] =
                         Append(Append(@, << status[s], "cancelled" >>),
                                << "cancelled", "cancelled" >>)]
  <2> DEFINE h == Append(history[s], << status[s], "cancelled" >>)
             k == Append(h, << "cancelled", "cancelled" >>)
  <2>1. history[s] \in Seq(HistoryRow) /\ Trail(history[s], status[s])
    BY TrailOfShipment DEF TypeOK
  <2>2. Trail(h, "cancelled")
    BY <1>1, <2>1, TrailAppends, StatusMembers
  <2>3. h \in Seq(HistoryRow)
    BY <1>1, <2>1, StatusMembers DEF HistoryRow
  <2>4. Trail(k, "cancelled")
    BY <2>2, <2>3, TrailAppends, StatusMembers
  <2>5. ASSUME NEW t \in Shipments PROVE Trail(history'[t], status'[t])
    <3>1. CASE t = s
      <4>1. history'[s] = k /\ status'[s] = "cancelled"
        BY <1>1, <1>3 DEF TypeOK
      <4>2. QED
        BY <2>4, <3>1, <4>1
    <3>2. CASE t # s
      <4>1. history'[t] = history[t] /\ status'[t] = status[t]
        BY <1>1, <1>3, <3>2 DEF TypeOK
      <4>2. QED
        BY <4>1, TrailOfShipment
    <3>3. QED
      BY <3>1, <3>2
  <2>6. QED
    BY <2>5 DEF AuditTrail, Trail
<1>4. QED
  BY <1>2, <1>3 DEF Cancel

LEMMA ProceedTrail ==
  ASSUME Inv, TrailInv, NEW r \in Requests, Proceed(r)
  PROVE  AuditTrail'
<1> DEFINE s == req[r].s
           to == req[r].to
<1>0. TypeOK /\ RequestOK /\ AuditTrail /\ ReadAllowed
  BY DEF Inv, TypeInv, TrailInv
<1>1. CASE UNCHANGED << status, history >>
  BY <1>0, <1>1 DEF AuditTrail
<1>2. CASE ConfirmCommit(r)
  <2>1. s \in Shipments
    BY <1>0, <1>2 DEF RequestOK, ConfirmCommit, Pending
  <2>2. CanTransition("draft", "pending_assignment")
    BY DEF CanTransition, TRANSITIONS, Status
  <2>3. QED
    BY <1>0, <1>1, <1>2, <2>1, <2>2, RecordKeeps, StatusMembers DEF ConfirmCommit, SetStatus
<1>3. CASE CommitAssign(r)
  <2>1. s \in Shipments /\ status[s] = "pending_assignment"
    BY <1>0, <1>3 DEF RequestOK, CommitAssign, Inv, LocksHeld
  <2>2. CanTransition("pending_assignment", "assigned")
    BY DEF CanTransition, TRANSITIONS, Status
  <2>3. QED
    BY <1>0, <1>3, <2>1, <2>2, RecordKeeps, StatusMembers DEF CommitAssign, SetStatus
<1>4. CASE DriverCommit(r)
  <2>1. s \in Shipments
    BY <1>0, <1>4 DEF RequestOK, DriverCommit, Pending
  <2>2. QED
    BY <1>0, <1>1, <1>4, <2>1, RecordKeeps, TransitionType DEF DriverCommit, SetStatus
<1>5. CASE CompleteCommit(r)
  <2>1. s \in Shipments
    BY <1>0, <1>5 DEF RequestOK, CompleteCommit, Pending
  <2>2. CanTransition("delivered", "completed")
    BY DEF CanTransition, TRANSITIONS, Status
  <2>3. QED
    BY <1>0, <1>1, <1>5, <2>1, <2>2, RecordKeeps, StatusMembers DEF CompleteCommit, SetStatus
<1>6. CASE AdminUpdateCommit(r)
  <2>1. s \in Shipments /\ req[r].pre \in Status /\ CanTransition(req[r].pre, to)
    BY <1>0, <1>6 DEF RequestOK, ReadAllowed, AdminUpdateCommit, Pending
  <2>2. CanTransition(status[s], to) => req[r].pre = status[s] \/ to = "cancelled"
    BY <2>1, OneWayIn
  <2>3. QED
    BY <1>0, <1>1, <1>6, <2>1, <2>2, RecordKeeps, TransitionType
    DEF AdminUpdateCommit, SetStatus, StillAllowed
<1>7. CASE UpdateCommit(r) \/ LockShipment(r) \/ LockDriver(r)
  BY <1>1, <1>7 DEF UpdateCommit, LockShipment, LockDriver, shipmentRow
<1>8. QED
  BY <1>2, <1>3, <1>4, <1>5, <1>6, <1>7 DEF Proceed

\* No step changes what a handler read, but the one that ends it.
LEMMA ReadKeeps ==
  ASSUME TypeOK, ReadAllowed, NEW r \in Requests,
         \/ Finish(r)
         \/ pc[r] # "idle" /\ req' = req /\ \A q \in Requests \ {r} : pc'[q] = pc[q]
  PROVE  ReadAllowed'
  BY DEF TypeOK, ReadAllowed, Finish

LEMMA ArriveReads ==
  ASSUME TypeOK, ReadAllowed, NEW r \in Requests, Arrive(r)
  PROVE  ReadAllowed'
<1>1. ASSUME NEW request, Begin(r, request),
             request.op = "admin_update" => CanTransition(request.pre, request.to)
      PROVE  ReadAllowed'
  BY <1>1 DEF Begin, TypeOK, ReadAllowed
<1>2. QED
  BY <1>1 DEF Arrive, UpdateRead, ConfirmRead, AcceptRead, AdminAssignRead, DriverRead,
              CompleteRead, AdminUpdateRead, Request

LEMMA NextTrail == Inv /\ TrailInv /\ [Next]_vars => TrailInv'
<1> SUFFICES ASSUME Inv, TrailInv, [Next]_vars PROVE TrailInv'
  OBVIOUS
<1>0. TypeOK /\ AuditTrail /\ ReadAllowed
  BY DEF Inv, TypeInv, TrailInv
<1>1. CASE UNCHANGED << status, history, handlers >>
  BY <1>0, <1>1 DEF TrailInv, AuditTrail, ReadAllowed, handlers
<1>2. ASSUME NEW s \in Shipments, Create(s) PROVE TrailInv'
  <2>1. AuditTrail'
    BY <1>0, <1>2, RecordKeeps, StatusMembers DEF Create, SetStatus
  <2>2. QED
    BY <1>0, <1>2, <2>1 DEF Create, TrailInv, ReadAllowed, handlers
<1>3. ASSUME NEW s \in Shipments, Cancel(s) PROVE TrailInv'
  <2>1. AuditTrail'
    BY <1>0, <1>3, CancelKeepsTrail
  <2>2. QED
    BY <1>0, <1>3, <2>1 DEF Cancel, TrailInv, ReadAllowed, handlers
<1>4. ASSUME NEW s \in Shipments, CancelAgain(s) PROVE TrailInv'
  <2>1. status' = [status EXCEPT ![s] = "cancelled"]
    BY <1>0, <1>4 DEF CancelAgain, TypeOK
  <2>2. AuditTrail'
    BY <1>0, <1>4, <2>1, RecordKeeps, StatusMembers DEF CancelAgain
  <2>3. QED
    BY <1>0, <1>4, <2>2 DEF CancelAgain, TrailInv, ReadAllowed, handlers
<1>5. ASSUME NEW r \in Requests, Arrive(r) PROVE TrailInv'
  <2>1. UNCHANGED << status, history >>
    BY <1>5 DEF Arrive, UpdateRead, ConfirmRead, AcceptRead, AdminAssignRead, DriverRead,
                CompleteRead, AdminUpdateRead, shipmentRow
  <2>2. QED
    BY <1>0, <1>5, <2>1, ArriveReads DEF TrailInv, AuditTrail
<1>6. ASSUME NEW r \in Requests, Proceed(r) PROVE TrailInv'
  <2>1. \/ Finish(r)
        \/ pc[r] # "idle" /\ req' = req /\ \A q \in Requests \ {r} : pc'[q] = pc[q]
    BY <1>0, <1>6
    DEF Proceed, UpdateCommit, ConfirmCommit, LockShipment, LockDriver, CommitAssign,
        DriverCommit, CompleteCommit, AdminUpdateCommit, Pending, TypeOK
  <2>2. QED
    BY <1>0, <1>6, <2>1, ReadKeeps, ProceedTrail DEF TrailInv
<1>7. ASSUME NEW r \in Requests, Abort(r) PROVE TrailInv'
  BY <1>0, <1>7, ReadKeeps DEF Abort, shipmentRow, TrailInv, AuditTrail
<1>8. ASSUME \/ \E d \in Drivers, available \in BOOLEAN : SetDriverAvailable(d, available)
             \/ \E v \in Vehicles, active \in BOOLEAN : SetVehicleActive(v, active)
             \/ \E i \in Intents, outcome \in { "open", "succeeded" } : SettleIntent(i, outcome)
      PROVE  TrailInv'
  BY <1>1, <1>8 DEF SetDriverAvailable, SetVehicleActive, SettleIntent, shipmentRow
<1>9. CASE UNCHANGED vars
  BY <1>1, <1>9 DEF vars, shipmentRow
<1>10. QED
  BY <1>2, <1>3, <1>4, <1>5, <1>6, <1>7, <1>8, <1>9 DEF Next

\* The history of every shipment ends at its status and leads there along the
\* table, whatever recordTransitionInTransaction was called by and however late:
\* only a cancellation may be noted after a status that is no longer the last.
THEOREM HistoryTrue == Spec => []AuditTrail
<1>1. Init => TrailInv
  <2>1. Init => AuditTrail
    BY DEF Init, AuditTrail
  <2>2. QED
    BY <2>1 DEF TrailInv, ReadAllowed, Init
<1>2. TrailInv => AuditTrail
  BY DEF TrailInv
<1>3. QED
  BY InitInv, NextInv, NextTrail, <1>1, <1>2, PTL DEF Spec

-----------------------------------------------------------------------------
(* The table of ShipmentStateService *)

\* A step creates a draft or takes a shipment along the table, from the status
\* the row has in that very step and not from one that was read earlier.
AlongTable ==
  [][ \A s \in Shipments :
        status'[s] # status[s] =>
          \/ status[s] = None /\ status'[s] = "draft"
          \/ CanTransition(status[s], status'[s]) ]_vars

Moved(s, to) ==
  /\ SetStatus(s, to)
  /\ \/ status[s] = None /\ to = "draft"
     \/ CanTransition(status[s], to)

LEMMA ProceedMoves ==
  ASSUME Inv, NEW r \in Requests, Proceed(r)
  PROVE  UNCHANGED status \/ \E to \in Status : Moved(req[r].s, to)
<1> DEFINE s == req[r].s
<1>1. CASE ConfirmCommit(r)
  BY <1>1, StatusMembers DEF ConfirmCommit, Moved, CanTransition, TRANSITIONS, Status
<1>2. CASE CommitAssign(r)
  <2>1. status[s] = "pending_assignment"
    BY <1>2 DEF Inv, LocksHeld, CommitAssign
  <2>2. QED
    BY <1>2, <2>1, StatusMembers DEF CommitAssign, Moved, CanTransition, TRANSITIONS, Status
<1>3. CASE DriverCommit(r)
  BY <1>3, TransitionType DEF DriverCommit, Moved
<1>4. CASE CompleteCommit(r)
  BY <1>4, StatusMembers DEF CompleteCommit, Moved, CanTransition, TRANSITIONS, Status
<1>5. CASE AdminUpdateCommit(r)
  BY <1>5, TransitionType DEF AdminUpdateCommit, StillAllowed, Moved
<1>6. CASE UpdateCommit(r) \/ LockShipment(r) \/ LockDriver(r)
  BY <1>6 DEF UpdateCommit, LockShipment, LockDriver, shipmentRow
<1>7. QED
  BY <1>1, <1>2, <1>3, <1>4, <1>5, <1>6 DEF Proceed

LEMMA NextMoves ==
  ASSUME Inv, [Next]_vars
  PROVE  UNCHANGED status \/ \E s \in Shipments, to \in Status : Moved(s, to)
<1> USE DEF shipmentRow
<1>1. ASSUME NEW s \in Shipments, Create(s) PROVE Moved(s, "draft")
  BY <1>1 DEF Create, Moved
<1>2. ASSUME NEW s \in Shipments, Cancel(s) PROVE Moved(s, "cancelled")
  BY <1>2 DEF Cancel, Cancellable, Moved
<1>3. ASSUME NEW s \in Shipments, CancelAgain(s) PROVE UNCHANGED status
  BY <1>3 DEF CancelAgain
<1>4. ASSUME NEW r \in Requests, Arrive(r) PROVE UNCHANGED status
  BY <1>4
  DEF Arrive, UpdateRead, ConfirmRead, AcceptRead, AdminAssignRead, DriverRead, CompleteRead,
      AdminUpdateRead
<1>5. ASSUME NEW r \in Requests, Proceed(r)
      PROVE  UNCHANGED status \/ \E s \in Shipments, to \in Status : Moved(s, to)
  <2>1. pc[r] # "idle"
    BY <1>5
    DEF Proceed, UpdateCommit, ConfirmCommit, LockShipment, LockDriver, CommitAssign,
        DriverCommit, CompleteCommit, AdminUpdateCommit, Pending
  <2>2. req[r].s \in Shipments
    BY <2>1 DEF Inv, TypeInv, RequestOK
  <2>3. QED
    BY <1>5, <2>2, ProceedMoves
<1>6. ASSUME \/ \E r \in Requests : Abort(r)
             \/ \E d \in Drivers, available \in BOOLEAN : SetDriverAvailable(d, available)
             \/ \E v \in Vehicles, active \in BOOLEAN : SetVehicleActive(v, active)
             \/ \E i \in Intents, outcome \in { "open", "succeeded" } : SettleIntent(i, outcome)
             \/ UNCHANGED vars
      PROVE  UNCHANGED status
  BY <1>6 DEF Abort, SetDriverAvailable, SetVehicleActive, SettleIntent, vars
<1>7. QED
  BY <1>1, <1>2, <1>3, <1>4, <1>5, <1>6, StatusMembers DEF Next

\* Whatever a handler read before its transaction, shipments.status only moves
\* along TRANSITIONS: the second assertTransition under the row lock, or the
\* lock that assignShipmentInTransaction keeps, makes every write a legal one.
\* Payments relies on it for the moves it leaves to this service.
THEOREM StatusAlongTable == Spec => AlongTable
<1>1. ASSUME Inv, [Next]_vars
      PROVE  \A s \in Shipments :
               status'[s] # status[s] =>
                 \/ status[s] = None /\ status'[s] = "draft"
                 \/ CanTransition(status[s], status'[s])
  <2>1. CASE UNCHANGED status
    BY <2>1
  <2>2. ASSUME NEW s \in Shipments, NEW to \in Status, Moved(s, to),
               NEW t \in Shipments, status'[t] # status[t]
        PROVE  \/ status[t] = None /\ status'[t] = "draft"
               \/ CanTransition(status[t], status'[t])
    <3>1. t = s /\ status'[t] = to
      BY <2>2 DEF Moved, SetStatus, Inv, TypeInv, TypeOK
    <3>2. QED
      BY <2>2, <3>1 DEF Moved
  <2>3. QED
    BY <1>1, <2>1, <2>2, NextMoves
<1>2. QED
  BY InitInv, NextInv, <1>1, PTL DEF Spec, AlongTable
=============================================================================
