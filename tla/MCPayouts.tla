------------------------------ MODULE MCPayouts ------------------------------
(***************************************************************************)
(* An instance of Payouts for TLC: one wallet, two payouts that fit into   *)
(* it one at a time or, with the second earning, together.                 *)
(***************************************************************************)
EXTENDS Payouts, TLC

CONSTANTS p1, p2, w1, earning1, earning2, adjustment

VARIABLE overlapped   \* history variable: two handlers were in flight at once

MCWalletOf == p1 :> w1 @@ p2 :> w1
MCAmountOf == p1 :> 2 @@ p2 :> 3

Credit(n) == [ wallet |-> w1, delta |-> n ]

\* Earnings, and a correction by an administrator that ignores payouts.
MCOtherOf == earning1 :> Credit(3) @@ earning2 :> Credit(2) @@ adjustment :> Credit(-1)

RequestSymmetry == Permutations(Requests)

Overlapping(at) == \E q, r \in Requests : q # r /\ at[q] # "idle" /\ at[r] # "idle"

MCInit == Init /\ overlapped = FALSE

MCNext == Next /\ overlapped' = (overlapped \/ Overlapping(pc'))

MCSpec == MCInit /\ [][MCNext]_<< vars, overlapped >>

-----------------------------------------------------------------------------
\* The balance covers what is reserved by payouts (assertSufficientAvailable-
\* Balance), as long as handlers run one at a time and the administrator takes
\* nothing.
ReservedCovered ==
  ~ overlapped /\ (\A k \in applied \intersect Others : OtherOf[k].delta > 0) =>
    \A w \in Wallets : balance[w] >= Amount(Reserved(w))

\* Rejected and processed are final, as the table of PayoutStateService says,
\* as long as handlers run one at a time: a late write overwrites them.
FinalStatus ==
  [][ ~ overlapped' =>
        \A p \in Payouts :
          status[p] \in { "rejected", "processed" } => status'[p] = status[p] ]_vars
=============================================================================
