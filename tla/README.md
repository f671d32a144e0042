# Formal models of transit-logistic

TLA+ models of the transit-logistic API (`src/apps/api`, NestJS with Prisma on PostgreSQL):
shipments, payments, wallets, payouts, the truck marketplace, customs and freight requests,
accounts, email, tracking; and of the session its web application (`src/apps/web`) keeps in the
browser. TLC checks them on small instances; TLAPS proves every safety property these runs check for
every value of the constants.

The API runs each HTTP request as an asynchronous handler. There are no background jobs but
promises nobody awaits and timers in memory: everything else happens in a request or in a
provider's webhook. Handlers interleave at every
`await`; several API processes may run at once. What keeps them apart is the database alone:
transactions at PostgreSQL's default isolation (Read Committed), row locks where the code says
`SELECT ... FOR UPDATE`, conditional updates, and unique indexes. A process that stops loses the
handlers it was running; whatever they had committed stays. This is what the models are about.

## Inventory

`M/` stands for `src/apps/api/src/modules/`.

| Component | State | Operations | What is hard | Correct when |
|---|---|---|---|---|
| Shipment lifecycle `M/shipments/shipments.service.ts`, `shipment-state.service.ts` | shipment row, stops, price, status history | create, update, confirmAfterCardPayment, accept, adminAssign, driverPickup/StartTransit/Deliver, complete, cancel, adminUpdateStatus | handlers check before their transaction and again inside it; two row locks; the row of the vehicle is not locked | one active shipment per driver; one earning per completed shipment; refunds only after cancellation; the history tells the truth |
| Wallet ledger `M/wallets/wallet-ledger.service.ts` | wallets, wallet_transactions | credit, debit, getOrCreateWallet | retries and concurrent postings with one idempotency key; a refused insert aborts the transaction | a posting is atomic, happens once per key, never overdraws; statements add up |
| Wallets `M/wallets/wallets.service.ts` | - | adminCredit, adminDebit, listings | postings that ignore reserved payouts | - |
| Payouts `M/payouts` | payout_requests | createRequest, approve, reject, markPaid | nothing is locked: reads and the write are separate | paid means debited, once; reserved money is there; final statuses are final |
| Payments `M/payments` | payment_intents, payment_events, the provider | createShipmentPaymentIntent, confirmPaymentIntent, verifyShipmentPayment, handleWebhook | outcomes arrive by three ways, late, twice, out of order, after a webhook that was answered; a crash between two writes | success only with money; a paid shipment is confirmed; a late outcome revives nothing |
| Contracts and invoices `M/shipments/shipment-commerce.service.ts` | contracts, invoices | ensureContractAndInvoice | fired and forgotten; two of them race, and a refused insert nobody handles ends the process; administrators move the shipment meanwhile | one of each per shipment a payment confirmed |
| Fleet `M/fleet` | drivers, vehicles, ownership | create, update, remove | changes while an assignment is under way | an unavailable driver is not assigned |
| Bookings `M/bookings` | bookings, availability blocks | create, confirm, cancel, convertToShipment, createBlock, deleteBlock | dates are checked and written in separate statements; a pending booking conflicts with itself | no overlap; a booking's shipment was made from it |
| Marketplace quotes `M/marketplace/marketplace-quotes.service.ts` | quote requests, history | create, fleetAction, respond, customerAction, convertToBooking | both sides act on what they read earlier | nothing is booked before an offer; one booking per quote; closed quotes stay closed |
| Truck listings `M/marketplace/truck-listings.service.ts`, `truck-media.service.ts` | listings, images, reviews | create, updateForFleet, submitForApproval, setCoverImage, uploadImages, deleteImage, setCover, createReview, adminApprove/Reject/Suspend, adminModerateReview | the cover is kept twice, as a flag of an image and as an address in the listing; several statements per image or review; the rating is counted and written apart | the flagged image is the one shown; the rating is that of the visible reviews |
| Customs and freight `M/logistics/customs-clearance.service.ts`, `freight-forwarding.service.ts` | request, status history | createDraft, update, submit, updateStatus | the quote service moves the same status; update writes any column, the order and the status among them | - |
| Logistics quotes and charges `M/logistics/logistics-quotes.service.ts`, `logistics-charges.service.ts` | versions of quotes, charges | createQuote, amendQuote, respond, createFromQuote | answers to superseded versions, repeated answers, charges that fail silently | one open version; charges only for accepted quotes, and for each |
| Documents and checklist `M/logistics/logistics-documents.service.ts` | documents, checklist items | upload, review, updateChecklistItem | a review and an upload of the same item | approved means reviewed; the item shows its document |
| Other logistics records `M/logistics` | orders, containers, vehicles, templates | single-row writes | - | - |
| Accounts `M/auth` | lockout, refresh tokens, reset and verification tokens | login, refresh, logout, logoutAll, forgot/resetPassword, verify, resend, change of address | read first, write later, without locks | an exchanged token is dead; a reset ends old sessions; a lock holds |
| Email `M/email` | delivery log, timers in memory | sendTransactional, dispatcher with retries, provider webhooks | restarts, lost answers, reports that overtake the log | one mail per event; reports are kept |
| Tracking `M/tracking` | points, geofence events, live position in Redis | recordPoint, getLivePosition | cache written after the database | the cache follows the newest point |
| Ratings, conversations `M/ratings`, `M/messaging` | ratings, conversations | createRating, openConversation | check and insert apart | one of each |
| Pricing `M/pricing`, rental pricing `M/bookings/rental-pricing.util.ts` | rules | calculate | rounding, missing rates | totals match a reference definition |
| Shipment requests, support, notifications, storage, settings, geography, health, AI, admin dashboards, users | own tables | listings, single inserts and updates | - | - |
| Web application `src/apps/web` | the session in the browser's storage; one refresh under way for all calls of a page | login, logout, `authRequest`, `refreshAuthSession` | whether a call is refreshed hangs on an error code that passes the guard, the exception filter and `parseApiError` | an expired access token is refreshed while the refresh token is live |
| Shared package `src/packages/shared`, `src/infra` | - | - | - | - |

How they interact: `PaymentsService` calls `ShipmentsService.confirmAfterCardPayment` once an
intent has succeeded; `ShipmentsService.cancel` writes the refund into the payment tables inside
its transaction; `complete` and `adminUpdateStatus` post the fleet owner's earning through
`WalletLedgerService` inside theirs; `PayoutsService.markPaid` debits through the same ledger;
`WalletsService` posts adjustments. A quote becomes a booking, and a booking a shipment that is
already waiting for assignment. A confirmed shipment leaves `ensureContractAndInvoice` to run;
an accepted logistics quote becomes charges through `LogisticsChargesService`. Notifications and
mails are sent by promises nobody awaits.

`PROJECT.json` lists every component with its status, and under `hazards` the places where this
code can go wrong in a way a test would hardly reach.

## Modules

| Module | Models |
|---|---|
| `ShipmentStatus` | the table of `ShipmentStateService` and the two status lists of `ShipmentsService`; used by the three modules below that handle shipments |
| `ShipmentLifecycle` | `ShipmentsService`, with the fleet's switches and the payments it sees as environment |
| `LedgerSpec` | what the ledger promises: an atomic posting, at most once per key, no overdraft |
| `WalletLedger` | `WalletLedgerService`; implements `LedgerSpec` |
| `Payouts` | `PayoutsService`, over `LedgerSpec` (it calls `Ledger!Post`) |
| `Payments` | `PaymentsService`, the Thawani provider, and the steps of `ShipmentsService` that touch payments |
| `Marketplace` | `MarketplaceQuotesService`, `BookingsService` and `AvailabilityService`, for one listing |
| `Logistics` | one customs or freight request: `CustomsClearanceService`, `FreightForwardingService`, `LogisticsQuotesService`, `LogisticsChargesService`, `LogisticsDocumentsService` |
| `Accounts` | the account of one user: `AuthService`, `EmailVerificationService` |
| `EmailDelivery` | `TransactionalEmailService`, `EmailDeliveryLogService` and the provider |
| `Fulfilment` | what surrounds one shipment: `ShipmentCommerceService`, `TrackingService` with its cache, `RatingsService`, `MessagingService` |
| `Listings` | one listing: `TruckListingsService`, `TruckMediaService` |
| `WebSession` | the session of one page: `lib/api.ts`, `lib/auth-storage.ts`, with the API's answer to a token (`JwtAuthGuard`, `HttpExceptionFilter`, `parseApiError`) |
| `MC...` | instances for TLC |
| `MCServices` | `EmailDelivery`, `MCAccounts`, `MCFulfilment` and `MCListings` in one run; they share no row, so a behaviour is one of one of them while the others stand still |
| `MCLiveness` | `MCShipmentLifecycle` and `MCPayments` in one run in the same way, for what must eventually happen |
| `..._proofs` | theorems and proofs |

An operator `X_Y` next to an operator `X` (say `TakeDriverLock_NoLock` beside `TakeDriverLock`)
is `X` with a plausible mistake. It is used by no specification: replacing `X` by it must make
the property that guards `X` fail, which shows the property is not vacuous. `PROJECT.json` lists
the pairs under `mutants`.

### How state and actions correspond to the code

Database columns and tables are functions from ids (`status`, `driver`, `balance`, ...); SQL NULL
and rows that do not exist yet are `None`. A handler in flight is a member of `Requests`: `pc` says
where it stands, `req` what it was called with and what it has read. A handler's reads before its
transaction are its `...Read` or `...Call` action; the transaction is one `...Commit` action if it takes a single row
lock, because nothing it has written is visible before COMMIT and nobody else can write the row.
Transactions that wait twice are split, with the locks as variables:
the assignment (`LockShipment`, `LockDriver`, `CommitAssign`) and the ledger's posting (`LockWallet`,
`InsertRow`, `Commit`). Handlers without a transaction (`Payouts`, `Payments`, the images and
reviews of `Listings`) are one action per statement. `Abort` is a crash, a timeout or an error at any point: the transaction rolls
back, the rest of the handler never runs. `Cancel` and `CancelAgain` are single actions: `cancel`
uses nothing it read before its transaction.

What is abstracted: who may call what (role and ownership checks), except where it selects data
(`FleetOf`, the driver's own shipment); addresses, prices and amounts in `ShipmentLifecycle` (a price
is the cargo it was computed from), of quotes, bookings and charges; the order of creation times
(`verifyShipmentPayment` and `refundCustomerInTransaction` take the latest row, the models take
any); hashes, JWTs and clocks (a token or a lock may expire at any time); distances (which points are at the stop
and which are off the route is given); the wording of notifications and mails. A linked customs
request writes a second history row for its order when its status changes; the models keep the
request's own rows. An upload looks the item up by customs or freight request with an
OR of two filters, one of which Prisma leaves out when it is undefined; there is one request in the model.

`ShipmentLifecycle` treats an intent as `open`, `succeeded` or `refunded` and lets the payment
service settle it at any time; `Payments` has the detail, and there the shipment only moves along
the table. `Marketplace` makes the shipments of bookings; every shipment of `ShipmentLifecycle`
starts as a draft. In `Fulfilment` the shipment starts as a draft, or, made from a booking, waiting for
assignment with its fleet owner, and takes any step of the table at any time, those of `adminUpdateStatus` past the
confirmation and the assignment among them: a driver it only gets by being assigned.

`Logistics` has one request and at most one order for it. Quotes are sent for the request, so the order an
acceptance charges is the one the request names at that moment. The update of a request takes any columns of
its row; those that matter here are its order and its status.

Variables marked as history variables in a module record what no column does and guide no step:
who accepted a quote, which password a session was granted under, which messages the log did not learn of.
In the MC modules `disturbed` and `overlapped` say that two handlers were in flight at once or one
was lost (in `MCListings` also that a decision fell between a handler's statements), `revived`,
`undone`, `unordered`, `crashed`, `confirmed` and `typed` that the behaviour had the event named at their
declaration. Properties of the form `~ disturbed => ...` say what a check that is not atomic
still guarantees while handlers run one at a time; without the condition each of them fails.

In `EmailDelivery` an update of the log that fails is taken not to have written the row. If only its answer
were lost, the sender would try again after a row that says `sent`, and a report could be overwritten.

## Runs

| Run | Instance | Shows |
|---|---|---|
| `shipment_safety` | two shipments, one driver, one vehicle, one payment, two handlers | `DriverExclusive`, `EarningExactlyOnce`, `RefundOnlyCancelled`, `AuditTrail`, `AssignedWhileAvailable` |
| `liveness` | two shipments and one driver without payments, drivers and vehicles in service; or one shipment with two intents, no crash, no failure report and nobody else moving it, one handler for the customer and one for webhooks | `RequestsEnd`, `PaidLeavesDraft` |
| `ledger` | two wallets, two keys, three postings, amounts +1 and -1 | `StatementAddsUp`, `ImplementsLedger`, `PostingsEnd` |
| `payouts` | one wallet, payouts of 2 and 3, earnings of 3 and 2, a correction of -1, three handlers | `ProcessedIsDebited`, `BalanceExplained`; one at a time `ReservedCovered`, `FinalStatus` |
| `payment_safety` | one shipment, two intents, two handlers | `SucceededIsPaid`, `ConfirmedIsPaid`, `RefundIsLate`, `StatusFollowsTable` |
| `payment_crash` | the payments of `liveness`, with crashes | counterexample to `PaidLeavesDraft` |
| `marketplace` | two days, two bookings, one quote, one block, two shipments, two handlers, crashes | `OneBookingPerQuote`, `BookedAfterOffer`, `ShipmentIsItsOwn`; one at a time `CalendarIsFree`, `ClosedStaysClosed` |
| `booking_confirm` | one booking, one handler | counterexample to `PendingIsConfirmed` |
| `logistics` | one request that is linked and unlinked, three quotes, two documents, two handlers, crashes | `ApprovedWasReviewed`, `ChargedWasAccepted`, `AdminAcceptedIsCharged`; one at a time `ItemFollowsDocument`, `OneOpenQuote` |
| `logistics_uncharged` | one quote, one handler | counterexample to `AcceptedIsCharged` |
| `services` | an event's mail; an account with three sessions; a shipment with one stop and three points, which administrators may move; a listing with two images and a review | `OneMailPerKey`, `QueuedIsHeld`, `ReportIsKept`; `SessionsAreCurrent`, `LockHolds`; `ConfirmedIsInvoiced`, `LiveIsNewest`; `MarkedIsShown`, `RatingIsCurrent` |
| `session_expired` | two calls, two sessions | counterexample to `ExpiredIsRefreshed` |

The runs `ledger`, `payouts` and `services` also check the types; for `ShipmentLifecycle`,
`Payments`, `Marketplace` and `Logistics` TLAPS proves them.

### Bounds, and why they are enough

- Two handlers in flight: every race of the shipments and payments code is between a handler and
  one other that runs between its read and its write, so two show each of them; the payouts run
  has three because a decision, a payment and another decision can overlap. Handlers are reused,
  so behaviours are not limited to two or three calls.
- Two shipments and one driver: the least that lets a driver be assigned twice. More drivers add
  only independent pairs.
- `MaxRefunds == 2` (`MCShipmentLifecycle`, `MCPayments`): a success webhook after a refund makes the
  intent refundable again, without end; two refunds show a repeated one.
- Amounts: balances and payouts are chosen so that either payout fits alone, both fit only with
  the second earning, and the correction takes money away from an approved one.
- `MaxCalls`: `Marketplace` ends after six calls (a quote asked for, answered, converted, confirmed
  against a cancellation, shipped), `Logistics` after five (two versions, their answers and
  one more; an update of the request counts as a call), `Accounts` after four (two failures and two logins; or a reset, a login and a
  refresh), `Fulfilment` after four (two confirmations and two points,
  or three points and a read of the live position; moves of the shipment are not counted), `Listings` after four (created,
  approved, reviewed, moderated; or created, an upload of two files, a deletion and a new cover).
  Each handler is reused.
- Two days are the least in which stays overlap without being equal; the third document or quote
  only repeats what the second does.
- `MAX_FAILED_LOGINS` is 2 instead of 5: one failure that does not lock and one that does.
  `MAX_RETRIES` is the code's 3. `MAX_IMAGES` is 2 instead of 20: an image to flag and one to take
  its place. One mail key: keys share no row. `MaxSessions == 2`: the one that expires and the one a
  refresh would give.
- Points 1 and 2 are at the stop and 3 is off the route: a second arrival and a deviation happen.
- Symmetry is used in safety runs only, over handlers and other interchangeable model values.
- `CHECK_DEADLOCK FALSE` is set where the system really stops: all shipments ended, all keys
  posted, a draft cancelled before anybody paid, all calls made.

### Fairness

`RequestsEnd` and `PostingsEnd` assume strong fairness of each handler's next statement:
PostgreSQL queues the transactions that wait for a row or an index entry, so one that could
run again and again does. Nothing is assumed of arrivals, and no handler ends by a timeout: where a
statement waits for a lock that its own handler holds (the mutants of these two
properties: a write outside the transaction that locked the row), it waits for ever.

`PaidLeavesDraft` assumes weak fairness of each handler that has started, and, intent by intent,
strong fairness of the success webhooks that are in `sent`. The provider repeats a webhook until it is
answered 200; then it leaves `sent`, whatever the answer was worth, and the fairness asks nothing more. That
includes the success of an intent that has succeeded already (payments.service.ts:391-416), which
the code answers as processed without looking at the shipment. A webhook whose handler throws, because the
shipment cannot be confirmed, is not answered and comes again. The run `liveness` shows what this is
enough for: no crash, no failure report, one call of the customer and one webhook at a time.

`PendingIsConfirmed` assumes weak fairness of the
started handler and strong fairness of the owner's confirmation: the counterexample is not an owner who
does not answer. The customer's own calls have no fairness: he may close the page.

## What the counterexamples say

- `PaidLeavesDraft`: `confirmPaymentIntent` writes `succeeded` (payments.service.ts:210) before the
  shipment is confirmed; after a crash no path comes back to it: confirm and verify return early for
  a succeeded intent, the webhook skips it, and a new intent charges the customer again (`payment_crash`).
  No crash is needed, as TLC shows with `MCPaymentsLate.cfg` (`LateSpec`): `verifyShipmentPayment` writes `succeeded` (line 297); the success webhook
  finds that and is answered (line 416); the late webhook of a declined attempt writes `failed` over it
  (line 419), and `confirmAfterCardPayment` refuses an intent that has not succeeded (shipments.service.ts:340).
  The provider has nothing left to repeat, the failed intent is refused to the customer, and a new one charges him
  again. Without crashes and failure reports, with one call and one webhook at a time, it holds (`liveness`).
- `PendingIsConfirmed`: `BookingsService.confirm` (line 133) checks the days against all live
  bookings, the one it confirms included. It always answers that the dates are taken. A booking gets
  past it only if somebody cancels it between confirm's reads; confirm then revives it.
- `AcceptedIsCharged`: `respond` (logistics-quotes.service.ts:144) has the charges made in the name
  of whoever answered, `createFromQuote` lets only administrators, and its refusal is dropped: the
  customer's acceptance charges nothing.
- `ExpiredIsRefreshed`: `authRequest` (api.ts:182) refreshes on the code `UNAUTHORIZED`. An expired
  token is turned away by the passport guard before `JwtStrategy.validate` could give that code; the
  exception filter fills in `INTERNAL_ERROR`, `parseApiError` makes `SESSION_EXPIRED` of it, and the
  user has to sign in again although his refresh token is live. `UNAUTHORIZED` is only answered for a deactivated
  user, whom `refresh` refuses and nothing activates again, so `Refreshed` never happens.

Behaviours of the models that are no counterexamples because no text of the repository speaks of them:

- Shipments: `update` (line 223) writes an edit after a confirmation that ran in between; the price is
  then for the old cargo. `adminUpdateStatus` cancels without refunding, and takes a draft on without price,
  contract or invoice.
- Payments: a success webhook after a refund makes the intent refundable a second time; a failure webhook
  that comes after the confirmation leaves a confirmed shipment with a failed payment, which is not refunded; of
  two paid intents a cancellation refunds one. Two calls of the customer, or two webhooks, at once may undo each
  other's success before the confirmation as a failure report does.
- Ledger and payouts: a key reused for another wallet or amount is answered with the old row; two
  creations reserve the same money (line 52); `approve` and `reject` overwrite a payout that was paid
  or rejected (lines 147, 175).
- Marketplace: two handlers book the same days; a fleet owner's late answer reopens a cancelled quote.
- Logistics: an answer has no guard (a superseded version is accepted, an administrator who accepts
  twice charges twice); a request that is linked to an order after an administrator accepted its quote is never charged
  for it; an update may move the request to any status and leaves no history row; amending a dead quote leaves two that are sent; the statuses
  `documents_missing` and those the quotes write leave no history row.
- Accounts: a login or refresh that read the account before a reset issues a session after it; a
  late failed login rewrites the count and the lock another wrote; an expired lock leaves its count, so the
  next failure locks again.
- Email: a mail queued at a restart is never sent; a lost answer sends it twice.
- Fulfilment: the second of two racing confirmations inserts a duplicate contract, nobody handles the
  rejection and the process ends; `deleteLivePosition` is never called, so a finished shipment shows its
  driver until the cache expires; two calls open two conversations.
- Listings: a listing created with a gallery flags its first image and shows none; an upload, a
  deletion and a choice of the cover that overlap, or an upload whose second file is refused, leave
  the flag and the address apart; two reviews written at once leave the rating of one; the owner's
  switch undoes the administrator's, and an edit of an approved listing needs no new approval.
- Web session: the logout button tells the API nothing, so the refresh token stays live; a refresh
  whose answer is lost ends the session in the page; tabs share the storage, but not the refresh under way.

## Proofs

All proofs are checked by TLAPS for arbitrary constants that satisfy each module's
`ConstantsAssumption` (functions have the stated domains, ids differ from NULL, payouts are positive)
and `ServicesAssumption` (points are numbered by their times, and neither a point nor an image is NULL).
There is no assumption on the number of shipments, handlers, wallets or keys; `MaxCalls`, `MaxLogins`,
`MaxErrands` and `MaxActs`, which keep TLC's instances finite, are constants too, so the theorems hold
for any number of calls.

Theorems about `Spec` hold whatever the handlers do to each other. Those marked (MC) are about `MCSpec`,
the same steps with the history variables: their properties say what is guaranteed while the event a history
variable names has not happened, which for most of them is that handlers overlap.

| Module | Theorem | Property |
|---|---|---|
| `ShipmentLifecycle_proofs` | `TypeCorrect` | `TypeOK` |
| | `OneShipmentPerDriver` | `DriverExclusive` |
| | `AssignmentsHold` | `AssignedWhileAvailable` |
| | `EarnedOnce`, `RefundsCancelled` | `EarningExactlyOnce`, `RefundOnlyCancelled` |
| | `HistoryTrue` | `AuditTrail` |
| | `StatusAlongTable` | a step takes a status along `TRANSITIONS` (`AlongTable`) |
| `WalletLedger_proofs` | `TypeCorrect` | `TypeOK` |
| | `KeysPostOnce`, `StatementsCorrect` | `OnePerKey`, `StatementAddsUp` |
| | `Refinement` | `ImplementsLedger` |
| `Payouts_proofs` | `TypeCorrect`, `PaidMeansDebited` | `TypeOK`, `ProcessedIsDebited` |
| | `BalanceIsSum` | `BalanceExplained` |
| | `PostsThroughLedger` | every step is one of `LedgerSpec` or stutters (`Ledger!Spec`) |
| | `FinalStatusStays`, `BalanceCoversReserved` (MC) | `FinalStatus`, `ReservedCovered` |
| `Payments_proofs` | `TypeCorrect` | `TypeOK` |
| | `SuccessIsPaid`, `MoneyFirst` | `SucceededIsPaid`, `ConfirmedIsPaid` |
| | `RefundsAreLate` | `RefundIsLate` |
| | `TableFollowed` | `StatusFollowsTable` |
| `Marketplace_proofs` | `TypeCorrect` | `TypeOK` |
| | `OneBooking`, `OfferComesFirst` | `OneBookingPerQuote`, `BookedAfterOffer` |
| | `ShipmentOfBooking` | `ShipmentIsItsOwn` |
| | `CalendarFree`, `ClosedQuotesStay` (MC) | `CalendarIsFree`, `ClosedStaysClosed` |
| `Logistics_proofs` | `TypeCorrect` | `TypeOK` |
| | `ApprovalsReviewed`, `ChargesAccepted` | `ApprovedWasReviewed`, `ChargedWasAccepted` |
| | `ItemsFollow`, `QuotesReplaceEachOther` (MC) | `ItemFollowsDocument`, `OneOpenQuote` |
| | `AdminChargesFollow` (MC) | `AdminAcceptedIsCharged` |
| `Accounts_proofs` | `TypeCorrect`, `ExchangedRevoked` | `TypeOK`, `ExchangedIsRevoked` |
| | `SessionsCurrent`, `LockHeld` (MC) | `SessionsAreCurrent`, `LockHolds` of `MCAccounts` |
| `Services_proofs` | `TypeCorrect` | `TypeOK` of `EmailDelivery` |
| | `MailOnce`, `QueuedHeld`, `ReportKept` | `OneMailPerKey`, `QueuedIsHeld`, `ReportIsKept` |
| | `GivenUpLast` | `GivenUpAfterAll` |
| | `RowsTyped` (MC) | `RowsTypeOK`, the types of all four services |
| | `SessionsCurrent`, `LockHeld` (MC) | `SessionsAreCurrent`, `LockHolds` |
| | `ConfirmedInvoiced`, `LiveNewest` (MC) | `ConfirmedIsInvoiced`, `LiveIsNewest` |
| | `MarkedShown`, `RatingCurrent` (MC) | `MarkedIsShown`, `RatingIsCurrent` |

The arguments:

- *Shipments.* `DriverExclusive` says nothing of handlers in flight, so it is strengthened: a
  handler that has checked a driver holds his row lock and its shipment's, its shipment is waiting
  for assignment, and the driver is available and on no other active shipment. The lock makes this survive every other step:
  a second handler cannot check the same driver, and his availability cannot be switched.
  `AuditTrail` needs of the handlers in flight that the table allowed the move `adminUpdateStatus`
  read (`ReadAllowed`): the move is allowed again under the lock, and every status but `cancelled` has
  one status before it (`OneWayIn`), so the status it notes is the last one unless it cancels.
  `StatusAlongTable` is what `Payments` assumes of the moves it leaves to shipments (`MoveShipment`); the one write
  that checks no status, `CommitAssign`, is covered by the row lock its transaction has kept.
- *Ledger.* The invariant says that locks belong to the handlers that took them, that a handler that has
  inserted holds the wallet's row and the key, that the key has no committed row and
  the balance allows the posting. COMMIT is then the step `Post` of `LedgerSpec`; every other step stutters.
- *Payouts.* `txid` and the ledger's key change in one step, so `ProcessedIsDebited` is inductive with the types.
  With `Refinement` of the ledger, `PostsThroughLedger` closes the seam between the two modules: `WalletLedger`
  implements `LedgerSpec`, and payouts and all other postings together use the ledger only as `LedgerSpec` allows.
  TLC cannot check it as a property, since the amounts range over all integers.
- *Payments.* What a handler has learnt stays true: if it was told that the provider has the money (`HasNews`), the
  provider has it, because `paid` never goes back; and a success is only sent when it was paid.
  With that, each write of `succeeded` and each confirmation is covered.
- *Marketplace.* Besides what the tables say, the invariant says what a handler in flight knows
  (`Known`): that the quote it read existed, had been answered, or has the days it will book. This is what
  stays true whatever the others write; that the status is still the one it read does not.
- *Logistics.* Again `Known`: a handler about to charge has an acceptance behind it, one about to
  approve an item has approved its document, and neither is ever withdrawn.
- *Email.* `KeyOK` ties the dispatcher's place to the log: the log names a message only when nothing
  is left to do, and of the messages the provider took at most the one just answered is unknown to the log.
- *Accounts.* `ParentsSpent`: the token a live one was exchanged for is not live, and a handler about to issue
  a token (`Known`) has spent the one it presents. The revocation is unconditional, so two handlers may exchange one
  token and both get a session; but no row goes back to live, so the token they exchanged stays dead.

Handlers one at a time. These invariants all have the same shape: a history variable is set, or at
most one handler is in flight and what it has read is still so. What it has read differs:

- *Payouts.* A handler in flight knows the payout's status (`Knows`), so a final one is not
  overwritten. `ReservedCovered` needs more (`Enough`): the balance a handler has read still stands, and
  the amount it found free is still free on top of what is reserved (`Fits`). A step that reserves,
  releases or debits then moves the balance and the sum of the reserved amounts together.
  `BalanceExplained` holds under any interleaving: what `Ledger!Post` applies, it adds.
- *Sums.* `BalanceExplained` and `ReservedCovered` are about sums over sets of payouts, which the
  community modules define by recursion on the set. The induction is on a set of sets: of the finite
  sets for which a statement fails strict inclusion, which is well founded, gives a smallest one
  (`SmallestSet`), and there it does not fail. From that follow that the recursion has exactly one
  solution (`AddsOnce`, `AddsExists`), the sum with one element more or less (`SumPutIn`, `SumTakeOut`) and its type.
- *Marketplace.* A handler that found the days free (`Holds`) still finds them free when it writes, so live bookings
  stay apart (`DaysApart`); a fleet owner's answer finds the quote as open as when it was read, and a customer's
  closes it.
- *Logistics.* The item shows its document or the handler alone in flight is about to write the item
  (`ItemShows`); of the quotes that are open only the newest is not about to be replaced (`OpenIsNewest`);
  and whatever overlaps, an administrator's acceptance for an order is charged, or its handler stands before the
  charge and the request still has an order, or charges were removed, or the handler or its order was lost
  (`ChargesDue`). Before there is a request there is no order (`Unlinked`): creating the draft takes none away
  from an answer.
- *Accounts.* Every handler was called under the password as it is, and a login found the account open
  (`Fresh`). `Services_proofs` takes both theorems over from `Accounts_proofs`: an account in `MCServices` steps as one of `MCAccounts`.
- *Fulfilment.* `ConfirmedIsInvoiced` needs no quiet, only that no process ends: what a shipment that a
  payment confirmed lacks, some handler is about to look for (`Billed`), and a row that is there stays. It says
  nothing of a shipment that only an administrator took out of draft.
  `LiveIsNewest`: whoever is about to write the cache holds the newest point (`Ordered`).
- *Listings.* `FormShows` says at each statement of `uploadImages`, `deleteImage` and `setCover` how the flag
  and the address differ: after the first image of an empty listing is stored it is flagged and none is shown;
  once a deleted image was the cover, none is flagged until the next one is marked; after the mark, the address is
  the only thing left to write. The rating is that of the visible reviews unless a handler is about to count (`Rated`).

Only model-checked: liveness (`RequestsEnd`, `PostingsEnd`, `PaidLeavesDraft`), which is out of the
prover's reach, as is ENABLED. The four properties the runs refute have no theorem.

## Not modelled

- Rental pricing and the pricing engine: decimal arithmetic without state, every rounding in Prisma's
  Decimal. Where a price matters the models keep what it was computed from.
- The provider adapters other than Thawani: HTTP calls behind the same interface; the mock answers from memory.
- Drivers' and vehicles' profiles, listings' descriptions, the order of their images, videos and featuring, logistics orders, containers, vehicles,
  checklist templates, hand-written charges, shipment requests, support tickets, messages, settings, favourites: rows
  written by one statement, with no rule that relates them to another state.
- `notification-delivery.service.ts` (which event tells whom) and in-app notifications: text and
  recipients; the delivery itself is `EmailDelivery`. Templates are formatting.
- File storage and image processing, generated documents, AI text, geography, health, dashboards: input and output.
- The web application apart from its session: forms, tables and pages that show what the API answers.
  Two thirds of the repository's lines are these, DTO declarations, controllers, types, translations and
  seeds, which hold no state of the system; this is why the models stand for a small share of all
  lines but for nearly every service with a protocol.

## Running

    tlc -workers 2 -config MCPayments.cfg MCPayments
    tlc -workers 2 -config MCPaymentsLate.cfg MCPayments
    tlapm Payments_proofs.tla
