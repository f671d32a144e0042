---------------------------- MODULE WalletLedger ----------------------------
(***************************************************************************)
(* WalletLedgerService: credits and debits of wallets, each with an        *)
(* idempotency key.  A posting runs in a database transaction, its own or  *)
(* its caller's, that locks the wallet's row, changes the balance and      *)
(* inserts a row into wallet_transactions, whose unique index is on the    *)
(* key alone: two postings to different wallets with one key meet only     *)
(* there.  A wallet that does not exist yet has balance 0: every caller    *)
(* creates it with getOrCreateWallet first.                                *)
(***************************************************************************)
EXTENDS Integers, Sequences

CONSTANTS
  Wallets,    \* wallets, one per user
  Keys,       \* idempotency keys
  Deltas,     \* signed amounts: a credit is positive, a debit negative
  Requests,   \* postings that may be in flight at once
  None        \* SQL NULL

ASSUME ConstantsAssumption ==
  /\ Deltas \subseteq Int \ {0}
  /\ None \notin Wallets \union Keys \union Requests

VARIABLES
  balance,      \* wallets.balance
  rows,         \* the wallet_transactions of each wallet, oldest first
  walletLock,   \* the posting whose transaction holds the wallet's row
  keyLock,      \* the posting whose uncommitted row holds the key in the index
  pc,           \* where each posting stands
  req           \* what each posting was called with

tables == << balance, rows >>
vars   == << tables, walletLock, keyLock, pc, req >>

Row     == [ key : Keys, delta : Deltas, after : Nat ]
Posting == [ wallet : Wallets, key : Keys, delta : Deltas ]

TypeOK ==
  /\ balance    \in [Wallets -> Nat]
  /\ rows       \in [Wallets -> Seq(Row)]
  /\ walletLock \in [Wallets -> Requests \union {None}]
  /\ keyLock    \in [Keys -> Requests \union {None}]
  /\ pc  \in [Requests -> { "idle", "looked", "locked", "inserted" }]
  /\ req \in [Requests -> Posting \union {None}]
  /\ \A r \in Requests : pc[r] # "idle" => req[r] \in Posting

Init ==
  /\ balance    = [w \in Wallets |-> 0]
  /\ rows       = [w \in Wallets |-> << >>]
  /\ walletLock = [w \in Wallets |-> None]
  /\ keyLock    = [k \in Keys |-> None]
  /\ pc  = [r \in Requests |-> "idle"]
  /\ req = [r \in Requests |-> None]

-----------------------------------------------------------------------------

\* findTransactionByIdempotencyKey: the key has a committed row.
Posted(k) == \E w \in Wallets : \E n \in DOMAIN rows[w] : rows[w][n].key = k

\* COMMIT and ROLLBACK release the wallet's row and the index entry.
End(r) ==
  /\ walletLock' = [w \in Wallets |-> IF walletLock[w] = r THEN None ELSE walletLock[w]]
  /\ keyLock'    = [k \in Keys    |-> IF keyLock[k] = r THEN None ELSE keyLock[k]]
  /\ pc'  = [pc  EXCEPT ![r] = "idle"]
  /\ req' = [req EXCEPT ![r] = None]

\* mutateBalance: the first look for the key, before any lock.  A key that is
\* posted is answered with its row.
Look(r, w, k, delta) ==
  /\ pc[r] = "idle"
  /\ ~ Posted(k)
  /\ pc'  = [pc  EXCEPT ![r] = "looked"]
  /\ req' = [req EXCEPT ![r] = [ wallet |-> w, key |-> k, delta |-> delta ]]
  /\ UNCHANGED << tables, walletLock, keyLock >>

\* SELECT ... FOR UPDATE, and the second look for the key.
LockWallet(r) ==
  LET w == req[r].wallet IN
  /\ pc[r] = "looked"
  /\ walletLock[w] = None
  /\ \/ /\ ~ Posted(req[r].key)
        /\ walletLock' = [walletLock EXCEPT ![w] = r]
        /\ pc' = [pc EXCEPT ![r] = "locked"]
        /\ UNCHANGED << keyLock, req >>
     \/ Posted(req[r].key) /\ End(r)
  /\ UNCHANGED tables

\* The update runs on the connection of the transaction that locked the row; on
\* another one it would wait for that lock.
MayUpdate_OtherConnection(r, w) == walletLock[w] = None

MayUpdate(r, w) == walletLock[w] \in {None, r}

\* applyAtomicBalanceChange updates a row only while it has the funds.
Sufficient_Unchecked(w, delta) == TRUE

Sufficient(w, delta) == balance[w] + delta >= 0

\* The unique index refuses a key that has a row.
Insertable_NoIndex(k) == TRUE

Insertable(k) == ~ Posted(k)

\* applyAtomicBalanceChange, then the insert, which waits for another
\* transaction that holds the key.  A refused insert rolls everything back:
\* PostgreSQL runs no further statement of a transaction after an error.
InsertRow(r) ==
  LET k == req[r].key IN
  /\ pc[r] = "locked"
  /\ MayUpdate(r, req[r].wallet)
  /\ \/ /\ Sufficient(req[r].wallet, req[r].delta)
        /\ keyLock[k] = None
        /\ Insertable(k)
        /\ keyLock' = [keyLock EXCEPT ![k] = r]
        /\ pc' = [pc EXCEPT ![r] = "inserted"]
        /\ UNCHANGED << walletLock, req >>
     \/ /\ Sufficient(req[r].wallet, req[r].delta)
        /\ keyLock[k] = None
        /\ ~ Insertable(k)
        /\ End(r)
     \/ /\ ~ Sufficient(req[r].wallet, req[r].delta)
        /\ End(r)
  /\ UNCHANGED tables

\* balance_after of the new row is the balance after the update.
BalanceAfter_Before(w, delta) == balance[w]

BalanceAfter(w, delta) == balance[w] + delta

\* COMMIT: the new balance and the row become visible.
Commit(r) ==
  LET w     == req[r].wallet
      delta == req[r].delta IN
  /\ pc[r] = "inserted"
  /\ balance' = [balance EXCEPT ![w] = @ + delta]
  /\ rows'    = [rows EXCEPT ![w] = Append(@,
                   [ key |-> req[r].key, delta |-> delta, after |-> BalanceAfter(w, delta) ])]
  /\ End(r)

\* The caller's transaction fails later, or the process stops: ROLLBACK.
Abort(r) == pc[r] # "idle" /\ End(r) /\ UNCHANGED tables

Proceed(r) == LockWallet(r) \/ InsertRow(r) \/ Commit(r)

Next ==
  \E r \in Requests :
    \/ \E w \in Wallets, k \in Keys, delta \in Deltas : Look(r, w, k, delta)
    \/ Proceed(r)
    \/ Abort(r)

Spec == Init /\ [][Next]_vars

\* PostgreSQL queues the transactions that wait for a row or an index entry.
FairSpec == Spec /\ \A r \in Requests : SF_vars(Proceed(r))

-----------------------------------------------------------------------------
(* Properties *)

\* A key has at most one row, in one wallet, whatever was retried at the same
\* time: a webhook, a double click, a retry after a lost answer.
OnePerKey ==
  \A w, x \in Wallets : \A m \in DOMAIN rows[w], n \in DOMAIN rows[x] :
    rows[w][m].key = rows[x][n].key => w = x /\ m = n

\* The balance before row n of a wallet: what the row above it says.
BalanceBefore(w, n) == IF n = 1 THEN 0 ELSE rows[w][n-1].after

\* A wallet's statement adds up row by row, down to the balance it has now.
StatementAddsUp ==
  \A w \in Wallets :
    /\ \A n \in DOMAIN rows[w] : rows[w][n].after = BalanceBefore(w, n) + rows[w][n].delta
    /\ balance[w] = BalanceBefore(w, Len(rows[w]) + 1)

\* The service keeps the ledger's promise.
Ledger == INSTANCE LedgerSpec WITH applied <- { k \in Keys : Posted(k) }

ImplementsLedger == Ledger!Spec

\* Every posting ends, also when no transaction is timed out: the wallet's row is
\* always taken before the key, and nothing a posting does waits for itself.
PostingsEnd == \A r \in Requests : pc[r] # "idle" ~> pc[r] = "idle"
=============================================================================
