----------------------------- MODULE LedgerSpec -----------------------------
(***************************************************************************)
(* What the wallet ledger promises its callers: a posting happens at once, *)
(* at most once per idempotency key, and never overdraws a wallet.         *)
(***************************************************************************)
EXTENDS Integers

CONSTANTS
  Wallets,   \* wallets, one per user
  Keys,      \* idempotency keys
  Deltas     \* signed amounts: a credit is positive, a debit negative

VARIABLES
  balance,   \* the balance of each wallet
  applied    \* the keys that were posted

vars == << balance, applied >>

Init ==
  /\ balance = [w \in Wallets |-> 0]
  /\ applied = {}

Post(w, k, delta) ==
  /\ k \notin applied
  /\ balance[w] + delta >= 0
  /\ balance' = [balance EXCEPT ![w] = @ + delta]
  /\ applied' = applied \union {k}

Next == \E w \in Wallets, k \in Keys, delta \in Deltas : Post(w, k, delta)

Spec == Init /\ [][Next]_vars
=============================================================================
