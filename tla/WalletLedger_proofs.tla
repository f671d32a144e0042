------------------------- MODULE WalletLedger_proofs -------------------------
(***************************************************************************)
(* Theorems about WalletLedger, for any number of wallets, keys and        *)
(* postings in flight.                                                     *)
(***************************************************************************)
EXTENDS WalletLedger, SequenceTheorems, TLAPS

\* A transaction past its first lock holds the wallet's row; past the insert
\* it holds the key too, which has no committed row, and has the funds.
LocksHeld ==
  \A r \in Requests :
    /\ pc[r] \in { "locked", "inserted" } => walletLock[req[r].wallet] = r
    /\ pc[r] = "inserted" =>
         /\ keyLock[req[r].key] = r
         /\ ~ Posted(req[r].key)
         /\ balance[req[r].wallet] + req[r].delta >= 0

Inv == TypeOK /\ LocksHeld /\ OnePerKey /\ StatementAddsUp

LEMMA InitInv == Init => Inv
<1> SUFFICES ASSUME Init PROVE Inv
  OBVIOUS
<1>1. TypeOK /\ LocksHeld
  BY ConstantsAssumption DEF Init, TypeOK, LocksHeld
<1>2. OnePerKey /\ StatementAddsUp
  BY DEF Init, OnePerKey, StatementAddsUp, BalanceBefore
<1>3. QED
  BY <1>1, <1>2 DEF Inv

\* A posting in flight carries what it was called with.
LEMMA PostingType ==
  ASSUME TypeOK, NEW r \in Requests, pc[r] # "idle"
  PROVE  /\ req[r] \in Posting
         /\ req[r].wallet \in Wallets /\ req[r].key \in Keys /\ req[r].delta \in Deltas
         /\ req[r].delta \in Int
  BY ConstantsAssumption DEF TypeOK, Posting

\* The end of a transaction, by commit or rollback, keeps the types.
LEMMA EndType ==
  ASSUME TypeOK, NEW r \in Requests, End(r)
  PROVE  /\ walletLock' \in [Wallets -> Requests \union {None}]
         /\ keyLock' \in [Keys -> Requests \union {None}]
         /\ pc'  \in [Requests -> { "idle", "looked", "locked", "inserted" }]
         /\ req' \in [Requests -> Posting \union {None}]
         /\ \A q \in Requests : pc'[q] # "idle" => req'[q] \in Posting
  BY DEF TypeOK, End

\* It leaves the locks of every other posting alone.
LEMMA EndOthers ==
  ASSUME Inv, NEW r \in Requests, End(r), NEW q \in Requests, pc'[q] # "idle"
  PROVE  /\ q # r /\ pc'[q] = pc[q] /\ req'[q] = req[q]
         /\ pc[q] \in { "locked", "inserted" } => walletLock'[req[q].wallet] = q
         /\ pc[q] = "inserted" => keyLock'[req[q].key] = q
  BY PostingType DEF Inv, TypeOK, LocksHeld, End

\* A rolled back transaction leaves no trace.
LEMMA RollbackKeeps ==
  ASSUME Inv, NEW r \in Requests, End(r), UNCHANGED tables
  PROVE  Inv'
<1>1. TypeOK'
  BY EndType DEF Inv, TypeOK, tables
<1>2. LocksHeld'
  BY EndOthers DEF Inv, LocksHeld, tables, Posted
<1>3. OnePerKey' /\ StatementAddsUp'
  BY DEF Inv, tables, OnePerKey, StatementAddsUp, BalanceBefore
<1>4. QED
  BY <1>1, <1>2, <1>3 DEF Inv

\* The commit of a posting: its row is the last of its wallet's statement.
LEMMA CommitRows ==
  ASSUME Inv, NEW r \in Requests, Commit(r)
  PROVE  /\ LET w == req[r].wallet
                n == Len(rows[w]) IN
            /\ w \in Wallets /\ n \in Nat
            /\ DOMAIN rows[w] = 1..n /\ DOMAIN rows'[w] = 1..(n + 1)
            /\ Len(rows'[w]) = n + 1
            /\ \A i \in 1..n : rows'[w][i] = rows[w][i]
            /\ rows'[w][n + 1].key = req[r].key
            /\ rows'[w][n + 1].delta = req[r].delta
            /\ rows'[w][n + 1].after = balance[w] + req[r].delta
            /\ balance'[w] = balance[w] + req[r].delta
         /\ \A x \in Wallets \ {req[r].wallet} : rows'[x] = rows[x] /\ balance'[x] = balance[x]
<1> DEFINE w == req[r].wallet
           row == [ key |-> req[r].key, delta |-> req[r].delta, after |-> balance[w] + req[r].delta ]
<1>1. w \in Wallets
  BY PostingType DEF Inv, Commit
<1>2. rows[w] \in Seq(Row)
  BY <1>1 DEF Inv, TypeOK
<1>3. rows' = [rows EXCEPT ![w] = Append(@, row)] /\ balance' = [balance EXCEPT ![w] = @ + req[r].delta]
  BY DEF Commit, BalanceAfter
<1>4. rows'[w] = Append(rows[w], row) /\ balance'[w] = balance[w] + req[r].delta
  BY <1>1, <1>3 DEF Inv, TypeOK
<1>5. /\ Len(rows[w]) \in Nat /\ DOMAIN rows[w] = 1..Len(rows[w])
      /\ Len(Append(rows[w], row)) = Len(rows[w]) + 1
      /\ DOMAIN Append(rows[w], row) = 1..(Len(rows[w]) + 1)
      /\ \A i \in 1..Len(rows[w]) : Append(rows[w], row)[i] = rows[w][i]
      /\ Append(rows[w], row)[Len(rows[w]) + 1] = row
  <2> HIDE DEF row
  <2>1. QED
    BY <1>2
<1>6. \A x \in Wallets \ {w} : rows'[x] = rows[x] /\ balance'[x] = balance[x]
  BY <1>3 DEF Inv, TypeOK
<1>7. QED
  BY <1>1, <1>4, <1>5, <1>6

\* The statement of the wallet posted to: one row more, the others as they were.
LEMMA RowsOfWallet ==
  ASSUME Inv, NEW r \in Requests, Commit(r)
  PROVE  /\ Len(rows[req[r].wallet]) \in Nat
         /\ DOMAIN rows[req[r].wallet] = 1..Len(rows[req[r].wallet])
         /\ DOMAIN rows'[req[r].wallet] = 1..(Len(rows[req[r].wallet]) + 1)
         /\ \A n \in 1..Len(rows[req[r].wallet]) :
              rows'[req[r].wallet][n] = rows[req[r].wallet][n]
  BY CommitRows

LEMMA CommitType ==
  ASSUME Inv, NEW r \in Requests, Commit(r)
  PROVE  TypeOK'
<1> DEFINE w == req[r].wallet
           row == [ key |-> req[r].key, delta |-> req[r].delta, after |-> balance[w] + req[r].delta ]
<1>1. /\ w \in Wallets /\ req[r].key \in Keys /\ req[r].delta \in Deltas /\ req[r].delta \in Int
      /\ balance[w] \in Nat /\ balance[w] + req[r].delta \in Nat
  BY PostingType DEF Inv, TypeOK, LocksHeld, Commit
<1>2. row \in Row
  BY <1>1 DEF Row
<1>3. rows' \in [Wallets -> Seq(Row)]
  <2>1. rows[w] \in Seq(Row)
    BY <1>1 DEF Inv, TypeOK
  <2>2. Append(rows[w], row) \in Seq(Row)
    BY <1>2, <2>1
  <2>3. QED
    BY <2>2 DEF Commit, BalanceAfter, Inv, TypeOK
<1>4. balance' \in [Wallets -> Nat]
  BY <1>1 DEF Commit, Inv, TypeOK
<1>5. QED
  BY <1>3, <1>4, EndType DEF Commit, Inv, TypeOK

\* What is posted after the commit: its key, and what was posted before.
LEMMA CommitPosts ==
  ASSUME Inv, NEW r \in Requests, Commit(r), NEW k
  PROVE  Posted(k)' <=> Posted(k) \/ k = req[r].key
<1>1. req[r].wallet \in Wallets
  BY PostingType DEF Inv, Commit
<1>2. ASSUME NEW w \in Wallets
      PROVE  DOMAIN rows[w] = 1..Len(rows[w]) /\ DOMAIN rows'[w] = 1..Len(rows'[w])
             /\ Len(rows[w]) \in Nat
  BY CommitType DEF Inv, TypeOK
<1>3. ASSUME NEW w \in Wallets, NEW n \in DOMAIN rows[w]
      PROVE  n \in DOMAIN rows'[w] /\ rows'[w][n] = rows[w][n]
  BY <1>2, <1>3, CommitRows
<1>4. LET w == req[r].wallet
          n == Len(rows[w]) + 1 IN
      n \in DOMAIN rows'[w] /\ rows'[w][n].key = req[r].key
  BY <1>1, <1>2, CommitRows
<1>5. ASSUME NEW w \in Wallets, NEW n \in DOMAIN rows'[w]
      PROVE  \/ n \in DOMAIN rows[w] /\ rows'[w][n] = rows[w][n]
             \/ rows'[w][n].key = req[r].key
  <2>1. CASE w = req[r].wallet
    <3>1. CASE n = Len(rows[w]) + 1
      BY <2>1, <3>1, CommitRows
    <3>2. CASE n # Len(rows[w]) + 1
      <4>1. n \in 1..Len(rows[w])
        BY <1>5, <2>1, <3>2, CommitRows
      <4>2. QED
        BY <2>1, <4>1, CommitRows
    <3>3. QED
      BY <3>1, <3>2
  <2>2. CASE w # req[r].wallet
    BY <1>5, <2>2, CommitRows
  <2>3. QED
    BY <2>1, <2>2
<1>6. QED
  BY <1>1, <1>3, <1>4, <1>5 DEF Posted

LEMMA CommitKeeps ==
  ASSUME Inv, NEW r \in Requests, Commit(r)
  PROVE  Inv'
<1> DEFINE w0 == req[r].wallet
           n0 == Len(rows[w0]) + 1
<1>1. /\ w0 \in Wallets /\ keyLock[req[r].key] = r /\ ~ Posted(req[r].key)
      /\ \A w \in Wallets : DOMAIN rows[w] = 1..Len(rows[w]) /\ Len(rows[w]) \in Nat
      /\ \A w \in Wallets : DOMAIN rows'[w] = 1..Len(rows'[w])
  BY PostingType, CommitType DEF Inv, Commit, LocksHeld, TypeOK
<1>2. LocksHeld'
  <2>1. ASSUME NEW q \in Requests, pc'[q] \in { "locked", "inserted" }
        PROVE  walletLock'[req'[q].wallet] = q
    BY <2>1, EndOthers DEF Commit
  <2>2. ASSUME NEW q \in Requests, pc'[q] = "inserted"
        PROVE  /\ keyLock'[req'[q].key] = q
               /\ ~ Posted(req[q].key)'
               /\ balance'[req'[q].wallet] + req'[q].delta >= 0
    <3>1. /\ q # r /\ pc[q] = "inserted" /\ req'[q] = req[q]
          /\ keyLock'[req[q].key] = q
      BY <2>2, EndOthers DEF Commit
    <3>2. req[q].key # req[r].key /\ req[q].wallet # w0
      BY <1>1, <3>1 DEF Inv, LocksHeld, Commit
    <3>3. ~ Posted(req[q].key)'
      BY <3>1, <3>2, CommitPosts DEF Inv, LocksHeld
    <3>4. balance'[req[q].wallet] = balance[req[q].wallet]
      BY <3>1, <3>2, CommitRows, PostingType DEF Inv
    <3>5. QED
      BY <3>1, <3>3, <3>4 DEF Inv, LocksHeld, Posted
  <2>3. QED
    BY <2>1, <2>2 DEF LocksHeld, Posted
<1>3. OnePerKey'
  <2>1. ASSUME NEW w \in Wallets, NEW n \in DOMAIN rows'[w]
        PROVE  \/ w = w0 /\ n = n0 /\ rows'[w][n].key = req[r].key
               \/ /\ n \in DOMAIN rows[w] /\ rows'[w][n] = rows[w][n]
                  /\ rows'[w][n].key # req[r].key
    <3>1. CASE n \in DOMAIN rows[w] /\ rows'[w][n] = rows[w][n]
      BY <1>1, <3>1 DEF Posted
    <3>2. CASE ~ (n \in DOMAIN rows[w] /\ rows'[w][n] = rows[w][n])
      <4>1. w = w0
        BY <2>1, <3>2, CommitRows
      <4>2. n = n0
        <5>1. n \in 1..(Len(rows[w0]) + 1) /\ Len(rows[w0]) \in Nat
          BY <2>1, <4>1, RowsOfWallet
        <5>2. n \notin 1..Len(rows[w0])
          BY <3>2, <4>1, RowsOfWallet
        <5>3. QED
          BY <5>1, <5>2
      <4>3. QED
        BY <1>1, <4>1, <4>2, CommitRows
    <3>3. QED
      BY <3>1, <3>2
  <2>2. QED
    BY <2>1 DEF Inv, OnePerKey
<1>4. StatementAddsUp'
  <2>1. ASSUME NEW w \in Wallets
        PROVE  /\ \A n \in DOMAIN rows'[w] :
                    rows'[w][n].after = BalanceBefore(w, n)' + rows'[w][n].delta
               /\ balance'[w] = BalanceBefore(w, Len(rows[w]) + 1)'
    <3>1. CASE w # w0
      BY <3>1, CommitRows DEF Inv, StatementAddsUp, BalanceBefore
    <3>2. CASE w = w0
      <4>1. /\ balance[w] = BalanceBefore(w, n0)
            /\ rows'[w][n0].after = balance[w] + rows'[w][n0].delta
            /\ balance'[w] = rows'[w][n0].after
            /\ n0 \in Nat \ {0} /\ Len(rows'[w]) = n0
        BY <1>1, <3>2, CommitRows DEF Inv, StatementAddsUp
      <4>2. ASSUME NEW n \in 1..n0
            PROVE  BalanceBefore(w, n)' = BalanceBefore(w, n)
        <5>1. n # 1 => n - 1 \in 1..Len(rows[w])
          BY <3>2, <4>2, RowsOfWallet
        <5>2. n # 1 => rows'[w][n - 1] = rows[w][n - 1]
          BY <3>2, <5>1, RowsOfWallet
        <5>3. QED
          BY <5>2 DEF BalanceBefore
      <4>3. ASSUME NEW n \in DOMAIN rows'[w], n # n0
            PROVE  n \in DOMAIN rows[w] /\ rows'[w][n] = rows[w][n]
        <5>1. n \in 1..(Len(rows[w]) + 1) /\ Len(rows[w]) \in Nat
          BY <3>2, <4>3, RowsOfWallet
        <5>2. n \in 1..Len(rows[w])
          BY <3>2, <4>3, <5>1
        <5>3. QED
          BY <3>2, <5>2, RowsOfWallet
      <4>4. ASSUME NEW n \in DOMAIN rows'[w]
            PROVE  rows'[w][n].after = BalanceBefore(w, n)' + rows'[w][n].delta
        <5>1. n \in 1..n0
          BY <3>2, <4>4, CommitRows
        <5>2. CASE n = n0
          BY <4>1, <4>2, <5>1, <5>2
        <5>3. CASE n # n0
          <6>1. rows[w][n].after = BalanceBefore(w, n) + rows[w][n].delta
            BY <4>3, <5>3 DEF Inv, StatementAddsUp
          <6>2. QED
            BY <4>2, <4>3, <5>1, <5>3, <6>1
        <5>4. QED
          BY <5>2, <5>3
      <4>5. balance'[w] = BalanceBefore(w, Len(rows[w]) + 1)'
        BY <4>1 DEF BalanceBefore
      <4>6. QED
        BY <4>4, <4>5
    <3>3. QED
      BY <3>1, <3>2
  <2>2. QED
    BY <2>1 DEF StatementAddsUp
<1>5. QED
  BY <1>2, <1>3, <1>4, CommitType DEF Inv

\* A new posting, and the two steps that take a lock.
LEMMA LookKeeps ==
  ASSUME Inv, NEW r \in Requests, NEW w \in Wallets, NEW k \in Keys, NEW delta \in Deltas,
         Look(r, w, k, delta)
  PROVE  Inv'
<1>1. TypeOK'
  BY DEF Inv, TypeOK, Look, Posting, tables
<1>2. LocksHeld'
  BY DEF Inv, TypeOK, LocksHeld, Look, tables, Posted
<1>3. OnePerKey' /\ StatementAddsUp'
  BY DEF Inv, Look, tables, OnePerKey, StatementAddsUp, BalanceBefore
<1>4. QED
  BY <1>1, <1>2, <1>3 DEF Inv

LEMMA LockWalletKeeps ==
  ASSUME Inv, NEW r \in Requests, LockWallet(r)
  PROVE  Inv'
<1>1. CASE End(r)
  BY <1>1, RollbackKeeps DEF LockWallet
<1>2. CASE /\ walletLock' = [walletLock EXCEPT ![req[r].wallet] = r]
           /\ pc' = [pc EXCEPT ![r] = "locked"]
           /\ UNCHANGED << keyLock, req >>
  <2>1. req[r].wallet \in Wallets /\ walletLock[req[r].wallet] = None /\ pc[r] # "idle"
    BY PostingType DEF Inv, LockWallet
  <2>2. TypeOK'
    BY <1>2, <2>1 DEF Inv, TypeOK, LockWallet, tables
  <2>3. ASSUME NEW q \in Requests, q # r, pc[q] \in { "locked", "inserted" }
        PROVE  req[q].wallet # req[r].wallet
    BY <2>1, <2>3, ConstantsAssumption DEF Inv, LocksHeld
  <2>4. LocksHeld'
    BY <1>2, <2>1, <2>3, PostingType DEF Inv, TypeOK, LocksHeld, LockWallet, tables, Posted
  <2>5. OnePerKey' /\ StatementAddsUp'
    BY DEF Inv, LockWallet, tables, OnePerKey, StatementAddsUp, BalanceBefore
  <2>6. QED
    BY <2>2, <2>4, <2>5 DEF Inv
<1>3. QED
  BY <1>1, <1>2 DEF LockWallet

LEMMA InsertRowKeeps ==
  ASSUME Inv, NEW r \in Requests, InsertRow(r)
  PROVE  Inv'
<1>1. CASE End(r)
  BY <1>1, RollbackKeeps DEF InsertRow
<1>2. CASE /\ Sufficient(req[r].wallet, req[r].delta)
           /\ keyLock[req[r].key] = None
           /\ Insertable(req[r].key)
           /\ keyLock' = [keyLock EXCEPT ![req[r].key] = r]
           /\ pc' = [pc EXCEPT ![r] = "inserted"]
           /\ UNCHANGED << walletLock, req >>
  <2>1. req[r].key \in Keys /\ pc[r] = "locked"
    BY PostingType DEF Inv, InsertRow
  <2>2. TypeOK'
    BY <1>2, <2>1 DEF Inv, TypeOK, InsertRow, tables
  <2>3. ASSUME NEW q \in Requests, pc[q] = "inserted"
        PROVE  q # r /\ req[q].key # req[r].key
    BY <1>2, <2>1, <2>3, ConstantsAssumption DEF Inv, LocksHeld
  <2>4. LocksHeld'
    BY <1>2, <2>1, <2>3, PostingType
    DEF Inv, TypeOK, LocksHeld, InsertRow, Sufficient, Insertable, tables, Posted
  <2>5. OnePerKey' /\ StatementAddsUp'
    BY DEF Inv, InsertRow, tables, OnePerKey, StatementAddsUp, BalanceBefore
  <2>6. QED
    BY <2>2, <2>4, <2>5 DEF Inv
<1>3. QED
  BY <1>1, <1>2 DEF InsertRow

LEMMA NextInv == Inv /\ [Next]_vars => Inv'
<1> SUFFICES ASSUME Inv, [Next]_vars PROVE Inv'
  OBVIOUS
<1>1. ASSUME NEW r \in Requests, Proceed(r) PROVE Inv'
  BY <1>1, LockWalletKeeps, InsertRowKeeps, CommitKeeps DEF Proceed
<1>2. ASSUME NEW r \in Requests, Abort(r) PROVE Inv'
  BY <1>2, RollbackKeeps DEF Abort
<1>3. CASE UNCHANGED vars
  <2>1. TypeOK'
    BY <1>3 DEF Inv, TypeOK, vars, tables
  <2>2. LocksHeld'
    BY <1>3 DEF Inv, LocksHeld, Posted, vars, tables
  <2>3. OnePerKey' /\ StatementAddsUp'
    BY <1>3 DEF Inv, OnePerKey, StatementAddsUp, BalanceBefore, vars, tables
  <2>4. QED
    BY <2>1, <2>2, <2>3 DEF Inv
<1>4. QED
  BY <1>1, <1>2, <1>3, LookKeeps DEF Next

LEMMA AlwaysInv == Spec => []Inv
  BY InitInv, NextInv, PTL DEF Spec

\* Balances never go below zero, and every row has its columns' types, however
\* debits of one wallet compete.
THEOREM TypeCorrect == Spec => []TypeOK
<1>1. Inv => TypeOK
  BY DEF Inv
<1>2. QED
  BY AlwaysInv, <1>1, PTL

\* No idempotency key is ever posted twice, not even to two wallets, whatever
\* was retried at the same time (the unique index, the second look for the key).
THEOREM KeysPostOnce == Spec => []OnePerKey
<1>1. Inv => OnePerKey
  BY DEF Inv
<1>2. QED
  BY AlwaysInv, <1>1, PTL

\* Every wallet's statement adds up row by row to its balance (mutateBalance).
THEOREM StatementsCorrect == Spec => []StatementAddsUp
<1>1. Inv => StatementAddsUp
  BY DEF Inv
<1>2. QED
  BY AlwaysInv, <1>1, PTL

-----------------------------------------------------------------------------
(* The service implements its abstract specification *)

\* Only a commit changes what the abstract ledger sees, and it is a Post.
LEMMA StepSimulates ==
  ASSUME Inv, [Next]_vars
  PROVE  [Ledger!Next]_(Ledger!vars)
<1>1. ASSUME NEW r \in Requests, Commit(r) PROVE Ledger!Next
  <2> DEFINE w == req[r].wallet
             k == req[r].key
             delta == req[r].delta
  <2>1. w \in Wallets /\ k \in Keys /\ delta \in Deltas
    BY <1>1, PostingType DEF Inv, Commit
  <2>2. ~ Posted(k) /\ balance[w] + delta >= 0
    BY <1>1 DEF Inv, LocksHeld, Commit
  <2>3. \A x : Posted(x)' <=> Posted(x) \/ x = k
    BY <1>1, CommitPosts
  <2>4. { x \in Keys : Posted(x)' } = { x \in Keys : Posted(x) } \union { k }
    BY <2>1, <2>3
  <2>5. balance' = [balance EXCEPT ![w] = @ + delta]
    BY <1>1 DEF Commit
  <2>6. Ledger!Post(w, k, delta)
    BY <2>1, <2>2, <2>4, <2>5 DEF Ledger!Post
  <2>7. QED
    BY <2>1, <2>6 DEF Ledger!Next
<1>2. ASSUME UNCHANGED tables PROVE UNCHANGED Ledger!vars
  BY <1>2 DEF tables, Ledger!vars, Posted
<1>3. CASE \E r \in Requests : Commit(r)
  BY <1>1, <1>3
<1>4. CASE UNCHANGED tables
  BY <1>2, <1>4
<1>5. UNCHANGED tables \/ \E r \in Requests : Commit(r)
  BY DEF Next, Look, Proceed, LockWallet, InsertRow, Abort, vars
<1>6. QED
  BY <1>3, <1>4, <1>5

\* Seen by its callers, the service posts at once, at most once per key and
\* never overdraws: locks, retries, refused inserts and rollbacks are hidden.
THEOREM Refinement == Spec => ImplementsLedger
<1>1. Init => Ledger!Init
  BY DEF Init, Ledger!Init, Posted
<1>2. QED
  BY AlwaysInv, <1>1, StepSimulates, PTL DEF Spec, ImplementsLedger, Ledger!Spec
=============================================================================
