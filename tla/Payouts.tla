------------------------------- MODULE Payouts -------------------------------
(***************************************************************************)
(* PayoutsService: a fleet owner asks for a payout from his wallet, an     *)
(* administrator approves, rejects or marks it paid.  Pending and approved *)
(* payouts are reserved: a new one, or an approval, must fit into what the *)
(* balance leaves beside them.  The service takes no row lock, so each     *)
(* handler is a sequence of reads and one write, and other handlers run    *)
(* between any two.  Postings to wallets are those of LedgerSpec, which    *)
(* WalletLedger implements.                                                *)
(***************************************************************************)
EXTENDS Integers, Functions

CONSTANTS
  Payouts,      \* ids of payout requests; also their ledger keys
  Wallets,      \* wallets of fleet owners
  WalletOf,     \* the wallet of each payout
  AmountOf,     \* the amount of each payout
  Others,       \* ledger keys of all other postings: earnings, adjustments
  OtherOf,      \* the wallet and the signed amount of each of those
  Requests,     \* handlers that may be in flight at once
  None          \* SQL NULL

ASSUME ConstantsAssumption ==
  /\ WalletOf \in [Payouts -> Wallets]
  /\ AmountOf \in [Payouts -> Nat \ {0}]
  /\ OtherOf  \in [Others -> [ wallet : Wallets, delta : Int \ {0} ]]
  /\ Payouts \intersect Others = {}
  /\ None \notin { "pending", "approved", "rejected", "processed" }

VARIABLES
  balance,   \* wallets.balance
  applied,   \* ledger keys that were posted
  status,    \* payout_requests.status; None before the row exists
  txid,      \* payout_requests.wallet_transaction_id is set
  pc,        \* where each handler stands
  req        \* its operation, its payout and the balance it has read

ledger == << balance, applied >>
table  == << status, txid >>
vars   == << ledger, table, pc, req >>

Ledger == INSTANCE LedgerSpec
  WITH Keys <- Payouts \union Others, Deltas <- Int \ {0}

-----------------------------------------------------------------------------

Status == { "pending", "approved", "rejected", "processed" }
Ops    == { "create", "approve", "reject", "pay" }

Request(op, p, seen) == [ op |-> op, p |-> p, seen |-> seen ]

RequestType == [ op : Ops, p : Payouts, seen : Nat ]

TypeOK ==
  /\ balance \in [Wallets -> Nat]
  /\ applied \subseteq Payouts \union Others
  /\ status  \in [Payouts -> Status \union {None}]
  /\ txid    \in [Payouts -> BOOLEAN]
  /\ pc  \in [Requests -> { "idle", "read", "balance", "ready", "opened" }]
  /\ req \in [Requests -> RequestType \union {None}]
  /\ \A r \in Requests : pc[r] # "idle" => req[r] \in RequestType

Init ==
  /\ Ledger!Init
  /\ status = [p \in Payouts |-> None]
  /\ txid   = [p \in Payouts |-> FALSE]
  /\ pc  = [r \in Requests |-> "idle"]
  /\ req = [r \in Requests |-> None]

\* PayoutStateService.
TRANSITIONS ==
  [ from \in Status |->
      CASE from = "pending"  -> { "approved", "rejected" }
        [] from = "approved" -> { "processed", "rejected" }
        [] OTHER             -> { } ]

CanTransition(from, to) == from \in Status /\ to \in TRANSITIONS[from]

-----------------------------------------------------------------------------
(* Handlers *)

Begin(r, op, p) ==
  /\ pc[r] = "idle"
  /\ pc'  = [pc  EXCEPT ![r] = "read"]
  /\ req' = [req EXCEPT ![r] = Request(op, p, 0)]
  /\ UNCHANGED << ledger, table >>

At(r, here, ops) == pc[r] = here /\ req[r].op \in ops

Move(r, there) == pc' = [pc EXCEPT ![r] = there] /\ UNCHANGED req

Finish(r) ==
  /\ pc'  = [pc  EXCEPT ![r] = "idle"]
  /\ req' = [req EXCEPT ![r] = None]

SetStatus(p, to) == status' = [status EXCEPT ![p] = to]

\* createRequest: a new row for each call.
CreateCall(r, p) ==
  /\ status[p] = None
  /\ \A q \in Requests : pc[q] # "idle" /\ req[q].op = "create" => req[q].p # p
  /\ Begin(r, "create", p)

\* approve, reject and markPaid read the payout and check it.
ApproveCall(r, p) == CanTransition(status[p], "approved") /\ Begin(r, "approve", p)

RejectCall_Any(r, p) == status[p] # None /\ Begin(r, "reject", p)

RejectCall(r, p) == status[p] \in { "pending", "approved" } /\ Begin(r, "reject", p)

PayCall(r, p) ==
  /\ CanTransition(status[p], "processed")
  /\ ~ txid[p]
  /\ Begin(r, "pay", p)

\* assertSufficientAvailableBalance reads the wallet ...
ReadBalance(r) ==
  /\ At(r, "read", { "create", "approve" })
  /\ pc'  = [pc  EXCEPT ![r] = "balance"]
  /\ req' = [req EXCEPT ![r].seen = balance[WalletOf[req[r].p]]]
  /\ UNCHANGED << ledger, table >>

\* ... then sums what is reserved by other payouts of the same owner.
RESERVED_PAYOUT_STATUSES == { "pending", "approved" }

Reserved(w) == { p \in Payouts : WalletOf[p] = w /\ status[p] \in RESERVED_PAYOUT_STATUSES }

Amount(P) == SumFunctionOnSet(AmountOf, P)

Available_All(seen, p) == seen

Available(seen, p) == seen - Amount(Reserved(WalletOf[p]) \ {p})

\* A check that passes lets the handler write, one that fails ends it.
CheckReserved(r) ==
  LET p == req[r].p IN
  /\ At(r, "balance", { "create", "approve" })
  /\ IF Available(req[r].seen, p) >= AmountOf[p] THEN Move(r, "ready") ELSE Finish(r)
  /\ UNCHANGED << ledger, table >>

CreateWrite(r) ==
  /\ At(r, "ready", { "create" })
  /\ SetStatus(req[r].p, "pending")
  /\ Finish(r)
  /\ UNCHANGED << ledger, txid >>

\* The writes of approve and reject do not look at the status they replace.
ApproveWrite(r) ==
  /\ At(r, "ready", { "approve" })
  /\ SetStatus(req[r].p, "approved")
  /\ Finish(r)
  /\ UNCHANGED << ledger, txid >>

RejectWrite(r) ==
  /\ At(r, "read", { "reject" })
  /\ SetStatus(req[r].p, "rejected")
  /\ Finish(r)
  /\ UNCHANGED << ledger, txid >>

\* markPaid's transaction reads the payout again, without locking its row.
OpenPay(r) ==
  /\ At(r, "read", { "pay" })
  /\ IF status[req[r].p] = "approved" THEN Move(r, "opened") ELSE Finish(r)
  /\ UNCHANGED << ledger, table >>

\* The debit with the key payout-process-<id>: a posted key is answered with
\* its row and posts nothing.
Debit_NoReplay(p) ==
  /\ balance[WalletOf[p]] >= AmountOf[p]
  /\ balance' = [balance EXCEPT ![WalletOf[p]] = @ - AmountOf[p]]
  /\ applied' = applied \union {p}

Debit_Overdraw(p) ==
  /\ balance' = [balance EXCEPT ![WalletOf[p]] = @ - AmountOf[p]]
  /\ applied' = applied \union {p}

Debit(p) ==
  \/ p \in applied /\ UNCHANGED ledger
  \/ Ledger!Post(WalletOf[p], p, - AmountOf[p])

\* The debit, the payout's update and COMMIT, or ROLLBACK without the funds.
CommitPay_Unpaid(r) ==
  LET p == req[r].p IN
  /\ At(r, "opened", { "pay" })
  /\ Debit(p) \/ (balance[WalletOf[p]] < AmountOf[p] /\ UNCHANGED ledger)
  /\ SetStatus(p, "processed")
  /\ txid' = [txid EXCEPT ![p] = TRUE]
  /\ Finish(r)

CommitPay(r) ==
  LET p == req[r].p IN
  /\ At(r, "opened", { "pay" })
  /\ \/ /\ Debit(p)
        /\ SetStatus(p, "processed")
        /\ txid' = [txid EXCEPT ![p] = TRUE]
     \/ /\ p \notin applied
        /\ balance[WalletOf[p]] < AmountOf[p]
        /\ UNCHANGED << ledger, table >>
  /\ Finish(r)

\* A crash, a timeout or an error between two statements.
Abort(r) == pc[r] # "idle" /\ Finish(r) /\ UNCHANGED << ledger, table >>

\* Earnings of shipments, and adminCredit and adminDebit of WalletsService,
\* which do not look at payouts.
OtherPosting(k) ==
  /\ Ledger!Post(OtherOf[k].wallet, k, OtherOf[k].delta)
  /\ UNCHANGED << table, pc, req >>

Next ==
  \/ \E r \in Requests, p \in Payouts :
       CreateCall(r, p) \/ ApproveCall(r, p) \/ RejectCall(r, p) \/ PayCall(r, p)
  \/ \E r \in Requests :
       \/ ReadBalance(r) \/ CheckReserved(r)
       \/ CreateWrite(r) \/ ApproveWrite(r) \/ RejectWrite(r)
       \/ OpenPay(r) \/ CommitPay(r)
       \/ Abort(r)
  \/ \E k \in Others : OtherPosting(k)

Spec == Init /\ [][Next]_vars

-----------------------------------------------------------------------------
(* Properties *)

\* A payout that is shown as paid was debited, and its wallet transaction is
\* recorded exactly when the debit is in the ledger.
ProcessedIsDebited ==
  \A p \in Payouts :
    /\ status[p] = "processed" => txid[p]
    /\ txid[p] <=> p \in applied

Delta      == [k \in Others |-> OtherOf[k].delta]
Posted(w)  == { k \in applied \intersect Others : OtherOf[k].wallet = w }
Debited(w) == { p \in applied \intersect Payouts : WalletOf[p] = w }

\* The balance is what the other postings brought less each debited payout
\* once, however many markPaid calls of one payout ran.
BalanceExplained ==
  \A w \in Wallets :
    balance[w] = SumFunctionOnSet(Delta, Posted(w)) - Amount(Debited(w))
=============================================================================
