----------------------------- MODULE MCServices -----------------------------
(***************************************************************************)
(* Four services that share no row, checked in one run: the mail of an     *)
(* event (EmailDelivery), the account of a user (MCAccounts), the          *)
(* surroundings of a shipment (MCFulfilment) and a truck listing           *)
(* (MCListings).  A behaviour is one of one part while the others stand    *)
(* still, so the states are those of the four one after the other.         *)
(***************************************************************************)
EXTENDS EmailDelivery, TLC

CONSTANTS
  Tokens, Resets, Verifications, Addresses, MAX_FAILED_LOGINS,
  Points, Stops, OffRoute, stop,
  Images, Reviews, MAX_IMAGES,
  MaxLogins, MaxErrands, MaxActs   \* bounds of the handlers called in three of the parts

\* Points are numbered by the time they were taken.
ASSUME ServicesAssumption ==
  /\ Points \subseteq Nat /\ None \notin Points
  /\ stop \in Stops
  /\ None \notin Images

VARIABLES
  part,
  password, attempts, locked, token, reset, email, verified, mail, granted, parent, pc, req,
  disturbed, logins,
  shipment, carrier, contract, invoice, stored, arrived, arrivals, deviations, live, rating, conversation,
  step, job, crowded, unordered, crashed, confirmed, errands,
  standing, enabled, image, cover, review, score, place, form, mixed, typed, acts

\* Points 1 and 2 are at the stop, point 3 is nowhere near.
MCAtStop == [p \in Points |-> IF p <= 2 THEN stop ELSE None]

Account == INSTANCE MCAccounts WITH calls <- logins, MaxCalls <- MaxLogins

Shipment ==
  INSTANCE MCFulfilment
    WITH AtStop <- MCAtStop, status <- shipment, pc <- step, req <- job,
         disturbed <- crowded, calls <- errands, MaxCalls <- MaxErrands

Listing ==
  INSTANCE MCListings
    WITH status <- standing, rating <- score, pc <- place, req <- form,
         disturbed <- mixed, calls <- acts, MaxCalls <- MaxActs

mailVars ==
  << status, message, retries, caller, task, attempt, answer, muted, configured, accepted, calls,
     unsure, lost >>
accountVars ==
  << password, attempts, locked, token, reset, email, verified, mail, granted, parent, pc, req,
     disturbed, logins >>
shipmentVars ==
  << shipment, carrier, contract, invoice, stored, arrived, arrivals, deviations, live, rating,
     conversation, step, job, crowded, unordered, crashed, confirmed, errands >>
listingVars ==
  << standing, enabled, image, cover, review, score, place, form, mixed, typed, acts >>

Symmetry == Permutations(Tokens) \union Permutations(Verifications)
              \union Permutations(Addresses) \union Permutations(Requests)

MCInit ==
  /\ part \in { "mail", "account", "shipment", "listing" }
  /\ Init /\ Account!MCInit /\ Shipment!MCInit /\ Listing!MCInit
  /\ part # "mail" => ~ muted /\ configured

MCNext ==
  \/ /\ part = "mail" /\ Next
     /\ UNCHANGED << part, accountVars, shipmentVars, listingVars >>
  \/ /\ part = "account" /\ (Account!MCNext \/ Account!MCLost)
     /\ UNCHANGED << part, mailVars, shipmentVars, listingVars >>
  \/ /\ part = "shipment" /\ (Shipment!MCNext \/ Shipment!MCDown)
     /\ UNCHANGED << part, mailVars, accountVars, listingVars >>
  \/ /\ part = "listing" /\ (Listing!MCNext \/ Listing!MCTyped \/ Listing!MCLost)
     /\ UNCHANGED << part, mailVars, accountVars, shipmentVars >>

MCSpec == MCInit /\ [][MCNext]_<< part, mailVars, accountVars, shipmentVars, listingVars >>

-----------------------------------------------------------------------------
\* The rows of all four have their types (the TypeOK of each module).
RowsTypeOK == TypeOK /\ Account!TypeOK /\ Shipment!TypeOK /\ Listing!TypeOK

\* A locked account stays locked until the lock expires or the password is
\* reset, as long as handlers run one at a time (MCAccounts, login).
LockHolds == Account!LockHolds

\* A live session was granted under the password as it is now, as long as
\* handlers run one at a time and end (MCAccounts, resetPassword).
SessionsAreCurrent == Account!SessionsAreCurrent

\* A shipment that a payment confirmed gets its contract and invoice unless the
\* process ends (MCFulfilment, ensureContractAndInvoice).
ConfirmedIsInvoiced == Shipment!ConfirmedIsInvoiced

\* The live position is the newest point as long as points come in order and
\* handlers run one at a time (MCFulfilment, recordPoint and getLivePosition).
LiveIsNewest == Shipment!LiveIsNewest

\* The image flagged as the cover is the one the listing shows, and a listing
\* with images shows one, as long as handlers run one at a time and the owner
\* types no addresses (MCListings, uploadImages, deleteImage and setCover).
MarkedIsShown == Listing!MarkedIsShown

\* The rating was computed from the visible reviews, as long as handlers run
\* one at a time (MCListings, recalculateListingRating).
RatingIsCurrent == Listing!RatingIsCurrent
=============================================================================
