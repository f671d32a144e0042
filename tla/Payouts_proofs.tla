--------------------------- MODULE Payouts_proofs ---------------------------
(***************************************************************************)
(* Theorems about Payouts, for any number of payouts, wallets and handlers *)
(* in flight.  What the library's sums over finite sets compute is proved  *)
(* first.  The last part is about MCSpec, whose history variable tells     *)
(* whether handlers overlapped.                                            *)
(***************************************************************************)
EXTENDS MCPayouts, FiniteSetTheorems, WellFoundedInduction, TLAPS

-----------------------------------------------------------------------------
(* Sums over finite sets *)

Pick(s) == CHOOSE x \in s : TRUE

\* The recursion that SumFunctionOnSet stands for.
Adds(g, f, S) ==
  g = [s \in SUBSET S |-> IF s = {} THEN 0 ELSE f[Pick(s)] + g[s \ {Pick(s)}]]

LEMMA SumDefinition ==
  \A f, S : SumFunctionOnSet(f, S) = (CHOOSE g : Adds(g, f, S))[S]
  BY DEF SumFunctionOnSet, FoldFunctionOnSet, MapThenFoldSet, Adds, Pick

\* Of sets of finite sets, one is smallest: what holds of a set as soon as it
\* holds of its strict subsets holds of every finite set.
LEMMA SmallestSet ==
  ASSUME NEW S, IsFiniteSet(S), NEW T, T \subseteq SUBSET S, T # {}
  PROVE  \E s \in T : \A t \in T : t \subseteq s => t = s
<1>1. IsWellFoundedOn(StrictSubsetOrdering(S), SUBSET S)
  BY FS_StrictSubsetOrderingWellFounded, FS_FiniteSubsetsOfFinite
<1>2. PICK s \in T : \A t \in T : ~ (<< t, s >> \in StrictSubsetOrdering(S))
  BY <1>1, WFMin, Zenon
<1>3. QED
  BY <1>2 DEF StrictSubsetOrdering

LEMMA PickIsMember == \A s : s # {} => Pick(s) \in s
  BY DEF Pick

LEMMA AddsOnce ==
  ASSUME NEW S, IsFiniteSet(S), NEW f, NEW g, NEW h, Adds(g, f, S), Adds(h, f, S)
  PROVE  g = h
<1> SUFFICES ASSUME g # h PROVE FALSE
  OBVIOUS
<1>1. DOMAIN g = SUBSET S /\ DOMAIN h = SUBSET S
  BY DEF Adds
<1> DEFINE T == { s \in SUBSET S : g[s] # h[s] }
<1>2. T # {}
  <2>1. ASSUME \A s \in SUBSET S : g[s] = h[s] PROVE FALSE
    <3>1. g = [s \in SUBSET S |-> g[s]] /\ h = [s \in SUBSET S |-> h[s]]
      BY <1>1 DEF Adds
    <3>2. QED
      BY <2>1, <3>1
  <2>2. QED
    BY <2>1
<1>3. PICK s \in T : \A t \in T : t \subseteq s => t = s
  <2> HIDE DEF T
  <2>1. T \subseteq SUBSET S
    BY DEF T
  <2>2. QED
    BY <1>2, <2>1, SmallestSet
<1>4. /\ g[s] = IF s = {} THEN 0 ELSE f[Pick(s)] + g[s \ {Pick(s)}]
      /\ h[s] = IF s = {} THEN 0 ELSE f[Pick(s)] + h[s \ {Pick(s)}]
  BY DEF Adds
<1>5. s # {}
  BY <1>4
<1>6. g[s \ {Pick(s)}] = h[s \ {Pick(s)}]
  BY <1>3, <1>5, PickIsMember
<1>7. QED
  BY <1>4, <1>5, <1>6

LEMMA AddsOnSubset ==
  ASSUME NEW S, NEW f, NEW g, Adds(g, f, S), NEW T \in SUBSET S
  PROVE  Adds([s \in SUBSET T |-> g[s]], f, T)
<1> DEFINE h == [s \in SUBSET T |-> g[s]]
<1>1. ASSUME NEW s \in SUBSET T
      PROVE  h[s] = IF s = {} THEN 0 ELSE f[Pick(s)] + h[s \ {Pick(s)}]
  BY DEF Adds
<1> HIDE DEF h
<1>2. h = [s \in SUBSET T |-> h[s]]
  BY DEF h
<1>3. h = [s \in SUBSET T |-> IF s = {} THEN 0 ELSE f[Pick(s)] + h[s \ {Pick(s)}]]
  BY <1>1, <1>2
<1>4. QED
  BY <1>3 DEF Adds, h

\* The recursion has a solution on a set as soon as it has one on its strict
\* subsets: together they give the sum of each.
LEMMA AddsExtends ==
  ASSUME NEW S, IsFiniteSet(S), NEW f,
         \A T \in SUBSET S : T # S => \E g : Adds(g, f, T)
  PROVE  \E g : Adds(g, f, S)
<1> DEFINE sum(s) == SumFunctionOnSet(f, s)
           G == [s \in SUBSET S |-> IF s = {} THEN 0 ELSE f[Pick(s)] + sum(s \ {Pick(s)})]
<1>1. ASSUME NEW u \in SUBSET S, u # S PROVE sum(u) = G[u]
  <2> DEFINE h == CHOOSE g : Adds(g, f, u)
  <2>1. Adds(h, f, u)
    BY <1>1
  <2>2. sum(u) = h[u]
    BY SumDefinition
  <2>3. h[u] = IF u = {} THEN 0 ELSE f[Pick(u)] + h[u \ {Pick(u)}]
    BY <2>1 DEF Adds
  <2>4. ASSUME u # {} PROVE h[u \ {Pick(u)}] = sum(u \ {Pick(u)})
    <3> DEFINE v == u \ {Pick(u)}
               k == CHOOSE g : Adds(g, f, v)
    <3>1. v \in SUBSET u /\ v \in SUBSET S /\ v # S
      BY <1>1, <2>4, PickIsMember
    <3>2. Adds(k, f, v)
      BY <3>1
    <3>3. Adds([s \in SUBSET v |-> h[s]], f, v)
      <4> HIDE DEF h, v
      <4>1. QED
        BY <2>1, <3>1, AddsOnSubset
    <3>4. IsFiniteSet(v)
      BY <3>1, FS_Subset
    <3>5. [s \in SUBSET v |-> h[s]] = k
      <4> DEFINE hv == [s \in SUBSET v |-> h[s]]
      <4>1. Adds(hv, f, v)
        BY <3>3
      <4> HIDE DEF hv, k, v
      <4>2. hv = k
        BY <3>2, <3>4, <4>1, AddsOnce
      <4>3. QED
        BY <4>2 DEF hv
    <3>6. sum(v) = k[v]
      BY SumDefinition
    <3>7. QED
      BY <3>5, <3>6
  <2>5. QED
    BY <2>2, <2>3, <2>4
<1>2. ASSUME NEW s \in SUBSET S, s # {} PROVE sum(s \ {Pick(s)}) = G[s \ {Pick(s)}]
  BY <1>1, <1>2, PickIsMember
<1>3. ASSUME NEW s \in SUBSET S
      PROVE  G[s] = IF s = {} THEN 0 ELSE f[Pick(s)] + G[s \ {Pick(s)}]
  BY <1>2
<1> HIDE DEF G
<1>4. G = [s \in SUBSET S |-> G[s]]
  BY DEF G
<1>5. G = [s \in SUBSET S |-> IF s = {} THEN 0 ELSE f[Pick(s)] + G[s \ {Pick(s)}]]
  BY <1>3, <1>4
<1>6. QED
  BY <1>5 DEF Adds

LEMMA AddsExists ==
  ASSUME NEW S, IsFiniteSet(S), NEW f
  PROVE  \E g : Adds(g, f, S)
<1> DEFINE T == { s \in SUBSET S : ~ \E g : Adds(g, f, s) }
<1> SUFFICES ASSUME T # {} PROVE FALSE
  OBVIOUS
<1>1. PICK s \in T : \A t \in T : t \subseteq s => t = s
  <2> HIDE DEF T
  <2>1. T \subseteq SUBSET S
    BY DEF T
  <2>2. QED
    BY <2>1, SmallestSet
<1>2. \A t \in SUBSET s : t # s => \E g : Adds(g, f, t)
  BY <1>1
<1>3. IsFiniteSet(s)
  BY FS_Subset
<1>4. QED
  BY <1>2, <1>3, AddsExtends

LEMMA SumStep ==
  ASSUME NEW S, IsFiniteSet(S), NEW f
  PROVE  SumFunctionOnSet(f, S) =
           IF S = {} THEN 0 ELSE f[Pick(S)] + SumFunctionOnSet(f, S \ {Pick(S)})
<1> DEFINE h == CHOOSE g : Adds(g, f, S)
           v == S \ {Pick(S)}
           k == CHOOSE g : Adds(g, f, v)
<1>1. Adds(h, f, S) /\ SumFunctionOnSet(f, S) = h[S]
  BY AddsExists, SumDefinition
<1>2. h[S] = IF S = {} THEN 0 ELSE f[Pick(S)] + h[v]
  BY <1>1 DEF Adds
<1>3. v \in SUBSET S /\ IsFiniteSet(v)
  BY FS_Subset
<1>4. Adds(k, f, v) /\ SumFunctionOnSet(f, v) = k[v]
  BY <1>3, AddsExists, SumDefinition
<1>5. [s \in SUBSET v |-> h[s]] = k
  <2> DEFINE hv == [s \in SUBSET v |-> h[s]]
  <2> HIDE DEF h, k, v
  <2>1. Adds(hv, f, v)
    BY <1>1, <1>3, AddsOnSubset
  <2> HIDE DEF hv
  <2>2. hv = k
    BY <1>3, <1>4, <2>1, AddsOnce
  <2>3. QED
    BY <2>2 DEF hv
<1>6. QED
  BY <1>1, <1>2, <1>4, <1>5

LEMMA SumEmpty == \A f : SumFunctionOnSet(f, {}) = 0
  BY SumStep, FS_EmptySet

LEMMA SumType ==
  ASSUME NEW S, IsFiniteSet(S), NEW f, \A x \in S : f[x] \in Int
  PROVE  SumFunctionOnSet(f, S) \in Int
<1> DEFINE T == { s \in SUBSET S : SumFunctionOnSet(f, s) \notin Int }
<1> SUFFICES ASSUME T # {} PROVE FALSE
  OBVIOUS
<1>1. PICK s \in T : \A t \in T : t \subseteq s => t = s
  <2> HIDE DEF T
  <2>1. T \subseteq SUBSET S
    BY DEF T
  <2>2. QED
    BY <2>1, SmallestSet
<1>2. SumFunctionOnSet(f, s) = IF s = {} THEN 0 ELSE f[Pick(s)] + SumFunctionOnSet(f, s \ {Pick(s)})
  BY SumStep, FS_Subset
<1>3. s # {} => Pick(s) \in S /\ SumFunctionOnSet(f, s \ {Pick(s)}) \in Int
  BY <1>1, PickIsMember
<1>4. QED
  BY <1>2, <1>3

LEMMA SumTakeOut ==
  ASSUME NEW S, IsFiniteSet(S), NEW f, \A x \in S : f[x] \in Int, NEW e \in S
  PROVE  SumFunctionOnSet(f, S) = f[e] + SumFunctionOnSet(f, S \ {e})
<1> DEFINE sum(s) == SumFunctionOnSet(f, s)
           T == { s \in SUBSET S : \E x \in s : sum(s) # f[x] + sum(s \ {x}) }
<1> SUFFICES ASSUME T # {} PROVE FALSE
  OBVIOUS
<1>1. PICK s \in T : \A t \in T : t \subseteq s => t = s
  <2> HIDE DEF T
  <2>1. T \subseteq SUBSET S
    BY DEF T
  <2>2. QED
    BY <2>1, SmallestSet
<1>2. PICK x \in s : sum(s) # f[x] + sum(s \ {x})
  OBVIOUS
<1> DEFINE c == Pick(s)
<1>3. c \in s /\ sum(s) = f[c] + sum(s \ {c})
  BY PickIsMember, SumStep, FS_Subset
<1> HIDE DEF c, sum
<1>4. x # c
  BY <1>2, <1>3
<1>5. sum(s \ {c}) = f[x] + sum((s \ {c}) \ {x}) /\ sum(s \ {x}) = f[c] + sum((s \ {x}) \ {c})
  <2>1. s \ {c} \in (SUBSET S) \ T /\ s \ {x} \in (SUBSET S) \ T
    <3> HIDE DEF T
    <3>1. T \subseteq SUBSET S
      BY DEF T
    <3>2. s \ {c} # s /\ s \ {x} # s /\ s \in SUBSET S
      BY <1>3, <3>1
    <3>3. QED
      BY <1>1, <3>2
  <2>2. x \in s \ {c} /\ c \in s \ {x}
    BY <1>3, <1>4
  <2>3. QED
    BY <2>1, <2>2
<1>6. (s \ {c}) \ {x} = (s \ {x}) \ {c}
  OBVIOUS
<1>7. f[x] \in Int /\ f[c] \in Int /\ sum((s \ {x}) \ {c}) \in Int
  <2>1. IsFiniteSet((s \ {x}) \ {c}) /\ \A y \in (s \ {x}) \ {c} : f[y] \in Int
    BY FS_Subset
  <2>2. QED
    BY <1>3, <2>1, SumType DEF sum
<1> HIDE DEF T
<1>8. f[c] + (f[x] + sum((s \ {x}) \ {c})) = f[x] + (f[c] + sum((s \ {x}) \ {c}))
  BY <1>7
<1>9. QED
  BY <1>2, <1>3, <1>5, <1>6, <1>8

LEMMA SumPutIn ==
  ASSUME NEW S, IsFiniteSet(S), NEW e, e \notin S, NEW f, \A x \in S \union {e} : f[x] \in Int
  PROVE  SumFunctionOnSet(f, S \union {e}) = f[e] + SumFunctionOnSet(f, S)
<1> DEFINE T == S \union {e}
<1>1. IsFiniteSet(T) /\ T \ {e} = S /\ e \in T
  BY FS_AddElement
<1>2. SumFunctionOnSet(f, T) = f[e] + SumFunctionOnSet(f, T \ {e})
  <2>1. \A x \in T : f[x] \in Int
    OBVIOUS
  <2> HIDE DEF T
  <2>2. QED
    BY <1>1, <2>1, SumTakeOut
<1>3. QED
  BY <1>1, <1>2

-----------------------------------------------------------------------------
(* Types and payments *)

Inv == TypeOK /\ ProcessedIsDebited

LEMMA InitInv == Init => Inv
<1> SUFFICES ASSUME Init PROVE Inv
  OBVIOUS
<1>1. TypeOK
  BY DEF Init, Ledger!Init, TypeOK
<1>2. ProcessedIsDebited
  BY ConstantsAssumption DEF Init, Ledger!Init, ProcessedIsDebited
<1>3. QED
  BY <1>1, <1>2 DEF Inv

\* A handler in flight knows its payout.
LEMMA RequestPayout ==
  ASSUME TypeOK, NEW r \in Requests, pc[r] # "idle"
  PROVE  /\ req[r] \in RequestType /\ req[r].p \in Payouts
         /\ WalletOf[req[r].p] \in Wallets /\ AmountOf[req[r].p] \in Nat \ {0}
  BY ConstantsAssumption DEF TypeOK, RequestType

LEMMA StatusMembers ==
  /\ "pending" \in Status /\ "approved" \in Status /\ "rejected" \in Status
  /\ "processed" \in Status
  BY DEF Status

\* What handlers do to pc and req keeps their types.
Handlers ==
  /\ pc'  \in [Requests -> { "idle", "read", "balance", "ready", "opened" }]
  /\ req' \in [Requests -> RequestType \union {None}]
  /\ \A r \in Requests : pc'[r] # "idle" => req'[r] \in RequestType

LEMMA FinishType ==
  ASSUME TypeOK, NEW r \in Requests, Finish(r)
  PROVE  Handlers
  BY DEF TypeOK, Finish, Handlers

LEMMA MoveType ==
  ASSUME TypeOK, NEW r \in Requests, pc[r] # "idle", NEW there \in { "ready", "opened" },
         Move(r, there)
  PROVE  Handlers
  BY DEF TypeOK, Move, Handlers

LEMMA BeginType ==
  ASSUME TypeOK, NEW r \in Requests, NEW p \in Payouts, NEW op \in Ops, Begin(r, op, p)
  PROVE  Handlers
  BY DEF TypeOK, Begin, Handlers, Request, RequestType

\* A step that only moves handlers keeps the invariant.
LEMMA ReadKeeps ==
  ASSUME Inv, Handlers, UNCHANGED << ledger, table >>
  PROVE  Inv'
  BY DEF Inv, TypeOK, ProcessedIsDebited, Handlers, ledger, table

\* So does a write of a status other than processed.
LEMMA WriteKeeps ==
  ASSUME Inv, Handlers, NEW p \in Payouts, NEW to \in Status \ { "processed" },
         SetStatus(p, to), UNCHANGED << ledger, txid >>
  PROVE  Inv'
<1>1. TypeOK'
  BY DEF Inv, TypeOK, Handlers, SetStatus, ledger
<1>2. ProcessedIsDebited'
  BY DEF Inv, TypeOK, ProcessedIsDebited, SetStatus, ledger
<1>3. QED
  BY <1>1, <1>2 DEF Inv

\* A posting keeps balances natural numbers.
LEMMA PostType ==
  ASSUME TypeOK, NEW w \in Wallets, NEW k \in Payouts \union Others, NEW delta \in Int,
         Ledger!Post(w, k, delta)
  PROVE  /\ balance' \in [Wallets -> Nat]
         /\ applied' \subseteq Payouts \union Others
         /\ applied' = applied \union {k}
  BY DEF TypeOK, Ledger!Post

\* The debit of a payout is in the ledger afterwards, posted now or before.
LEMMA DebitKeeps ==
  ASSUME Inv, Handlers, NEW p \in Payouts, Debit(p), SetStatus(p, "processed"),
         txid' = [txid EXCEPT ![p] = TRUE]
  PROVE  Inv'
<1>1. WalletOf[p] \in Wallets /\ - AmountOf[p] \in Int
  BY ConstantsAssumption
<1>2. /\ balance' \in [Wallets -> Nat]
      /\ applied' \subseteq Payouts \union Others
      /\ applied' = applied \union {p}
  <2>1. CASE p \in applied /\ UNCHANGED ledger
    BY <2>1 DEF Inv, TypeOK, ledger
  <2>2. CASE Ledger!Post(WalletOf[p], p, - AmountOf[p])
    BY <1>1, <2>2, PostType DEF Inv
  <2>3. QED
    BY <2>1, <2>2 DEF Debit
<1>3. TypeOK'
  BY <1>2, StatusMembers DEF Inv, TypeOK, Handlers, SetStatus
<1>4. ProcessedIsDebited'
  BY <1>2 DEF Inv, TypeOK, ProcessedIsDebited, SetStatus
<1>5. QED
  BY <1>3, <1>4 DEF Inv

LEMMA CommitPayKeeps ==
  ASSUME Inv, NEW r \in Requests, CommitPay(r)
  PROVE  Inv'
<1>1. req[r].p \in Payouts /\ Handlers
  BY RequestPayout, FinishType DEF Inv, CommitPay, At
<1>2. CASE UNCHANGED << ledger, table >>
  BY <1>1, <1>2, ReadKeeps
<1>3. CASE /\ Debit(req[r].p) /\ SetStatus(req[r].p, "processed")
           /\ txid' = [txid EXCEPT ![req[r].p] = TRUE]
  BY <1>1, <1>3, DebitKeeps
<1>4. QED
  BY <1>2, <1>3 DEF CommitPay

LEMMA OtherPostingKeeps ==
  ASSUME Inv, NEW k \in Others, OtherPosting(k)
  PROVE  Inv'
<1>1. OtherOf[k].wallet \in Wallets /\ OtherOf[k].delta \in Int
  BY ConstantsAssumption
<1>2. /\ balance' \in [Wallets -> Nat]
      /\ applied' \subseteq Payouts \union Others
      /\ applied' = applied \union {k}
  BY <1>1, PostType DEF Inv, OtherPosting
<1>3. TypeOK'
  BY <1>2 DEF Inv, TypeOK, OtherPosting, table
<1>4. ProcessedIsDebited'
  BY <1>2, ConstantsAssumption DEF Inv, ProcessedIsDebited, OtherPosting, table
<1>5. QED
  BY <1>3, <1>4 DEF Inv

LEMMA NextInv == Inv /\ [Next]_vars => Inv'
<1> SUFFICES ASSUME Inv, [Next]_vars PROVE Inv'
  OBVIOUS
<1>0. TypeOK
  BY DEF Inv
<1>1. ASSUME NEW r \in Requests, NEW p \in Payouts,
             CreateCall(r, p) \/ ApproveCall(r, p) \/ RejectCall(r, p) \/ PayCall(r, p)
      PROVE  Inv'
  <2>1. PICK op \in Ops : Begin(r, op, p)
    BY <1>1 DEF CreateCall, ApproveCall, RejectCall, PayCall, Ops
  <2>2. Handlers
    BY <1>0, <2>1, BeginType
  <2>3. QED
    BY <2>1, <2>2, ReadKeeps DEF Begin
<1>2. ASSUME NEW r \in Requests, ReadBalance(r) PROVE Inv'
  <2>1. req[r] \in RequestType /\ balance[WalletOf[req[r].p]] \in Nat
    BY <1>0, <1>2, RequestPayout DEF ReadBalance, At, TypeOK
  <2>2. Handlers
    BY <1>0, <1>2, <2>1 DEF ReadBalance, At, Handlers, TypeOK, RequestType
  <2>3. QED
    BY <1>2, <2>2, ReadKeeps DEF ReadBalance
<1>3. ASSUME NEW r \in Requests, CheckReserved(r) \/ OpenPay(r) \/ Abort(r) PROVE Inv'
  <2>1. Handlers
    BY <1>0, <1>3, FinishType, MoveType DEF CheckReserved, OpenPay, Abort, At
  <2>2. QED
    BY <1>3, <2>1, ReadKeeps DEF CheckReserved, OpenPay, Abort
<1>4. ASSUME NEW r \in Requests, CreateWrite(r) \/ ApproveWrite(r) \/ RejectWrite(r)
      PROVE  Inv'
  <2>1. Handlers /\ req[r].p \in Payouts
    BY <1>0, <1>4, FinishType, RequestPayout DEF CreateWrite, ApproveWrite, RejectWrite, At
  <2>2. PICK to \in Status \ { "processed" } : SetStatus(req[r].p, to)
    BY <1>4, StatusMembers DEF CreateWrite, ApproveWrite, RejectWrite
  <2>3. QED
    BY <1>4, <2>1, <2>2, WriteKeeps DEF CreateWrite, ApproveWrite, RejectWrite
<1>5. CASE UNCHANGED vars
  BY <1>5 DEF Inv, TypeOK, ProcessedIsDebited, vars, ledger, table
<1>6. QED
  BY <1>1, <1>2, <1>3, <1>4, <1>5, CommitPayKeeps, OtherPostingKeeps DEF Next

\* Every payout's columns and every handler keep their types, and no balance
\* goes below zero, whatever administrators decide at the same time.
THEOREM TypeCorrect == Spec => []TypeOK
<1>1. Inv => TypeOK
  BY DEF Inv
<1>2. QED
  BY InitInv, NextInv, <1>1, PTL DEF Spec

\* A payout is shown as paid only with its debit in the ledger, and records
\* its wallet transaction exactly when it was debited: no handler, late or
\* repeated, separates the two.
THEOREM PaidMeansDebited == Spec => []ProcessedIsDebited
<1>1. Inv => ProcessedIsDebited
  BY DEF Inv
<1>2. QED
  BY InitInv, NextInv, <1>1, PTL DEF Spec

-----------------------------------------------------------------------------
(* Payouts post through the ledger's promise *)

\* What LedgerSpec calls a step: a posting, or nothing that a wallet shows.
LEMMA StepPosts ==
  ASSUME TypeOK, [Next]_vars
  PROVE  [Ledger!Next]_(Ledger!vars)
<1>1. ASSUME NEW p \in Payouts, Ledger!Post(WalletOf[p], p, - AmountOf[p])
      PROVE  Ledger!Next
  <2>1. WalletOf[p] \in Wallets /\ - AmountOf[p] \in Int \ {0}
    BY ConstantsAssumption
  <2>2. QED
    BY <1>1, <2>1 DEF Ledger!Next
<1>2. ASSUME NEW k \in Others, OtherPosting(k) PROVE Ledger!Next
  <2>1. OtherOf[k].wallet \in Wallets /\ OtherOf[k].delta \in Int \ {0}
    BY ConstantsAssumption
  <2>2. QED
    BY <1>2, <2>1 DEF OtherPosting, Ledger!Next
<1>3. ASSUME NEW r \in Requests, CommitPay(r), ~ UNCHANGED ledger PROVE Ledger!Next
  <2>1. req[r].p \in Payouts
    BY <1>3, RequestPayout DEF CommitPay, At
  <2>2. Ledger!Post(WalletOf[req[r].p], req[r].p, - AmountOf[req[r].p])
    BY <1>3 DEF CommitPay, Debit
  <2>3. QED
    BY <1>1, <2>1, <2>2
<1>4. ASSUME NEW r \in Requests, NEW p \in Payouts,
             CreateCall(r, p) \/ ApproveCall(r, p) \/ RejectCall(r, p) \/ PayCall(r, p)
      PROVE  UNCHANGED ledger
  BY <1>4 DEF CreateCall, ApproveCall, RejectCall, PayCall, Begin
<1>5. ASSUME NEW r \in Requests,
             \/ ReadBalance(r) \/ CheckReserved(r) \/ CreateWrite(r) \/ ApproveWrite(r)
             \/ RejectWrite(r) \/ OpenPay(r) \/ Abort(r)
      PROVE  UNCHANGED ledger
  BY <1>5 DEF ReadBalance, CheckReserved, CreateWrite, ApproveWrite, RejectWrite, OpenPay, Abort
<1>6. UNCHANGED vars => UNCHANGED ledger
  BY DEF vars
<1>7. Ledger!Next \/ UNCHANGED ledger
  BY <1>2, <1>3, <1>4, <1>5, <1>6 DEF Next
<1>8. QED
  BY <1>7 DEF ledger, Ledger!vars

\* PayoutsService and the other callers together are a LedgerSpec: every step
\* posts once through the ledger or leaves the wallets alone, so what
\* WalletLedger promises its callers is all that Payouts assumes of it.
THEOREM PostsThroughLedger == Spec => Ledger!Spec
<1>1. Init => Ledger!Init
  BY DEF Init
<1>2. QED
  BY InitInv, NextInv, StepPosts, <1>1, PTL DEF Spec, Ledger!Spec, Inv

-----------------------------------------------------------------------------
(* The balance *)

Booked == IsFiniteSet(applied) /\ BalanceExplained

LEMMA PostedSum ==
  ASSUME Booked, NEW w \in Wallets
  PROVE  SumFunctionOnSet(Delta, Posted(w)) \in Int
<1>1. IsFiniteSet(Posted(w)) /\ \A k \in Posted(w) : Delta[k] \in Int
  BY FS_Subset, ConstantsAssumption DEF Booked, Posted, Delta
<1>2. QED
  BY <1>1, SumType

LEMMA DebitedSum ==
  ASSUME Booked, NEW w \in Wallets
  PROVE  Amount(Debited(w)) \in Int
<1>1. IsFiniteSet(Debited(w)) /\ \A p \in Debited(w) : AmountOf[p] \in Int
  BY FS_Subset, ConstantsAssumption DEF Booked, Debited
<1>2. QED
  BY <1>1, SumType DEF Amount

\* A debited payout leaves its amount, any other posting adds what it is worth.
LEMMA PayoutBooked ==
  ASSUME Inv, Booked, NEW p \in Payouts, Ledger!Post(WalletOf[p], p, - AmountOf[p])
  PROVE  Booked'
<1> DEFINE v == WalletOf[p]
<1>1. v \in Wallets /\ AmountOf[p] \in Int /\ p \notin Others /\ p \notin applied
  BY ConstantsAssumption DEF Ledger!Post
<1>2. /\ applied' = applied \union {p}
      /\ balance'[v] = balance[v] - AmountOf[p] /\ balance[v] \in Int
      /\ \A w \in Wallets \ {v} : balance'[w] = balance[w]
  BY <1>1 DEF Inv, TypeOK, Ledger!Post
<1>3. \A w \in Wallets : Posted(w)' = Posted(w)
  BY <1>1, <1>2 DEF Posted
<1>4. /\ Debited(v)' = Debited(v) \union {p} /\ p \notin Debited(v)
      /\ \A w \in Wallets \ {v} : Debited(w)' = Debited(w)
  BY <1>1, <1>2 DEF Debited
<1>5. IsFiniteSet(Debited(v)) /\ \A q \in Debited(v) \union {p} : AmountOf[q] \in Int
  BY FS_Subset, ConstantsAssumption DEF Booked, Debited
<1>6. Amount(Debited(v) \union {p}) = AmountOf[p] + Amount(Debited(v)) /\ Amount(Debited(v)) \in Int
  BY <1>4, <1>5, SumPutIn, SumType DEF Amount
<1>7. SumFunctionOnSet(Delta, Posted(v)) \in Int
  BY PostedSum, <1>1
<1>8. balance'[v] = SumFunctionOnSet(Delta, Posted(v)) - Amount(Debited(v) \union {p})
  <2>1. balance[v] = SumFunctionOnSet(Delta, Posted(v)) - Amount(Debited(v))
    BY <1>1 DEF Booked, BalanceExplained
  <2> HIDE DEF v
  <2>2. QED
    BY <1>1, <1>2, <1>6, <1>7, <2>1
<1>9. \A w \in Wallets : balance'[w] = SumFunctionOnSet(Delta, Posted(w)') - Amount(Debited(w)')
  <2> TAKE w \in Wallets
  <2>1. CASE w = v
    BY <1>3, <1>4, <1>8, <2>1
  <2>2. CASE w # v
    BY <1>2, <1>3, <1>4, <2>2 DEF Booked, BalanceExplained
  <2>3. QED
    BY <2>1, <2>2
<1>10. IsFiniteSet(applied')
  BY <1>2, FS_AddElement DEF Booked
<1>11. QED
  BY <1>9, <1>10 DEF Booked, BalanceExplained, Amount

LEMMA OtherBooked ==
  ASSUME Inv, Booked, NEW k \in Others, Ledger!Post(OtherOf[k].wallet, k, OtherOf[k].delta)
  PROVE  Booked'
<1> DEFINE v == OtherOf[k].wallet
<1>1. /\ v \in Wallets /\ Delta[k] = OtherOf[k].delta /\ Delta[k] \in Int
      /\ k \notin Payouts /\ k \notin applied
  BY ConstantsAssumption DEF Ledger!Post, Delta
<1>2. /\ applied' = applied \union {k}
      /\ balance'[v] = balance[v] + Delta[k] /\ balance[v] \in Int
      /\ \A w \in Wallets \ {v} : balance'[w] = balance[w]
  BY <1>1 DEF Inv, TypeOK, Ledger!Post
<1>3. \A w \in Wallets : Debited(w)' = Debited(w)
  BY <1>1, <1>2 DEF Debited
<1>4. /\ Posted(v)' = Posted(v) \union {k} /\ k \notin Posted(v)
      /\ \A w \in Wallets \ {v} : Posted(w)' = Posted(w)
  BY <1>1, <1>2 DEF Posted
<1>5. IsFiniteSet(Posted(v)) /\ \A q \in Posted(v) \union {k} : Delta[q] \in Int
  BY FS_Subset, ConstantsAssumption DEF Booked, Posted, Delta
<1>6. SumFunctionOnSet(Delta, Posted(v) \union {k}) = Delta[k] + SumFunctionOnSet(Delta, Posted(v))
  BY <1>4, <1>5, SumPutIn
<1>7. SumFunctionOnSet(Delta, Posted(v)) \in Int /\ Amount(Debited(v)) \in Int
  BY PostedSum, DebitedSum, <1>1
<1>8. balance'[v] = SumFunctionOnSet(Delta, Posted(v) \union {k}) - Amount(Debited(v))
  <2>1. balance[v] = SumFunctionOnSet(Delta, Posted(v)) - Amount(Debited(v))
    BY <1>1 DEF Booked, BalanceExplained
  <2> HIDE DEF v
  <2>2. QED
    BY <1>1, <1>2, <1>6, <1>7, <2>1
<1>9. \A w \in Wallets : balance'[w] = SumFunctionOnSet(Delta, Posted(w)') - Amount(Debited(w)')
  <2> TAKE w \in Wallets
  <2>1. CASE w = v
    BY <1>3, <1>4, <1>8, <2>1
  <2>2. CASE w # v
    BY <1>2, <1>3, <1>4, <2>2 DEF Booked, BalanceExplained
  <2>3. QED
    BY <2>1, <2>2
<1>10. IsFiniteSet(applied')
  BY <1>2, FS_AddElement DEF Booked
<1>11. QED
  BY <1>9, <1>10 DEF Booked, BalanceExplained, Amount, Delta

LEMMA NextBooked == Inv /\ Booked /\ [Next]_vars => Booked'
<1> SUFFICES ASSUME Inv, Booked, [Next]_vars PROVE Booked'
  OBVIOUS
<1>1. ASSUME UNCHANGED ledger PROVE Booked'
  BY <1>1 DEF Booked, BalanceExplained, Posted, Debited, ledger
<1>2. ASSUME NEW r \in Requests, CommitPay(r) PROVE Booked'
  <2>1. req[r].p \in Payouts
    BY <1>2, RequestPayout DEF Inv, CommitPay, At
  <2>2. QED
    BY <1>1, <1>2, <2>1, PayoutBooked DEF CommitPay, Debit
<1>3. ASSUME NEW k \in Others, OtherPosting(k) PROVE Booked'
  BY <1>3, OtherBooked DEF OtherPosting
<1>4. ASSUME NEW r \in Requests, NEW p \in Payouts,
             CreateCall(r, p) \/ ApproveCall(r, p) \/ RejectCall(r, p) \/ PayCall(r, p)
      PROVE  UNCHANGED ledger
  BY <1>4 DEF CreateCall, ApproveCall, RejectCall, PayCall, Begin
<1>5. ASSUME NEW r \in Requests,
             \/ ReadBalance(r) \/ CheckReserved(r) \/ CreateWrite(r) \/ ApproveWrite(r)
             \/ RejectWrite(r) \/ OpenPay(r) \/ Abort(r)
      PROVE  UNCHANGED ledger
  BY <1>5 DEF ReadBalance, CheckReserved, CreateWrite, ApproveWrite, RejectWrite, OpenPay, Abort
<1>6. UNCHANGED vars => UNCHANGED ledger
  BY DEF vars
<1>7. QED
  BY <1>1, <1>2, <1>3, <1>4, <1>5, <1>6 DEF Next

LEMMA InitBooked == Init => Booked
<1> SUFFICES ASSUME Init PROVE Booked
  OBVIOUS
<1>1. applied = {} /\ \A w \in Wallets : balance[w] = 0 /\ Posted(w) = {} /\ Debited(w) = {}
  BY DEF Init, Ledger!Init, Posted, Debited
<1>2. QED
  BY <1>1, SumEmpty, FS_EmptySet DEF Booked, BalanceExplained, Amount

\* Each wallet's balance is what its other postings add up to less every
\* debited payout once, for any number of each (adjustBalance, markPaid): a
\* repeated or competing markPaid debits nothing.
THEOREM BalanceIsSum == Spec => []BalanceExplained
<1>1. Booked => BalanceExplained
  BY DEF Booked
<1>2. QED
  BY InitInv, NextInv, InitBooked, NextBooked, <1>1, PTL DEF Spec

-----------------------------------------------------------------------------
(* Handlers one at a time *)

Solitary(at) == \A q, r \in Requests : at[q] # "idle" /\ at[r] # "idle" => q = r

\* What a handler that runs alone still knows of its payout.
Knows(r) ==
  pc[r] # "idle" =>
    LET now == status[req[r].p] IN
    /\ req[r].op = "create"  => now = None
    /\ req[r].op = "approve" => now = "pending"
    /\ req[r].op = "reject"  => now \in { "pending", "approved" }
    /\ req[r].op = "pay"     => now = "approved"

Alone == ~ overlapped => Solitary(pc) /\ \A r \in Requests : Knows(r)

LEMMA NotOverlapping == \A at : ~ Overlapping(at) <=> Solitary(at)
  BY DEF Overlapping, Solitary

LEMMA WhatCallsCheck ==
  ASSUME NEW r \in Requests, NEW p \in Payouts
  PROVE  /\ CreateCall(r, p)  => status[p] = None /\ Begin(r, "create", p)
         /\ ApproveCall(r, p) => status[p] = "pending" /\ Begin(r, "approve", p)
         /\ RejectCall(r, p)  => status[p] \in { "pending", "approved" } /\ Begin(r, "reject", p)
         /\ PayCall(r, p)     => status[p] = "approved" /\ Begin(r, "pay", p)
  BY DEF CreateCall, ApproveCall, RejectCall, PayCall, CanTransition, TRANSITIONS, Status

\* A handler that begins alone knows what it checked.
LEMMA BeginKnows ==
  ASSUME TypeOK, Solitary(pc'), NEW r \in Requests, NEW p \in Payouts, NEW op \in Ops,
         Begin(r, op, p),
         /\ op = "create"  => status[p] = None
         /\ op = "approve" => status[p] = "pending"
         /\ op = "reject"  => status[p] \in { "pending", "approved" }
         /\ op = "pay"     => status[p] = "approved"
  PROVE  \A q \in Requests : Knows(q)'
<1> TAKE q \in Requests
<1>1. pc'[r] = "read" /\ (q # r => pc'[q] = "idle")
  BY DEF TypeOK, Begin, Solitary
<1>2. req'[r].op = op /\ req'[r].p = p /\ status' = status
  BY DEF TypeOK, Begin, Request, table
<1>3. QED
  BY <1>1, <1>2 DEF Knows

\* A handler that ends alone leaves none behind.
LEMMA FinishAlone ==
  ASSUME TypeOK, Solitary(pc), NEW r \in Requests, pc[r] # "idle", Finish(r)
  PROVE  /\ \A q \in Requests : pc'[q] = "idle"
         /\ Solitary(pc') /\ \A q \in Requests : Knows(q)'
  BY DEF TypeOK, Solitary, Finish, Knows

\* A handler that moves on keeps its payout.
LEMMA MoveAlone ==
  ASSUME TypeOK, Solitary(pc), \A q \in Requests : Knows(q), NEW r \in Requests,
         ReadBalance(r) \/ CheckReserved(r) \/ OpenPay(r)
  PROVE  \A q \in Requests : Knows(q)'
<1>1. CASE Finish(r)
  BY <1>1, FinishAlone DEF ReadBalance, CheckReserved, OpenPay, At
<1>2. ASSUME ~ Finish(r) PROVE \A q \in Requests : Knows(q)'
  <2> TAKE q \in Requests
  <2>1. /\ pc[r] # "idle" /\ status' = status
        /\ q # r => pc'[q] = pc[q] /\ req'[q] = req[q]
    BY <1>2 DEF TypeOK, ReadBalance, CheckReserved, OpenPay, At, Move, table
  <2>2. req'[r].p = req[r].p /\ req'[r].op = req[r].op
    BY <1>2, <2>1 DEF TypeOK, RequestType, ReadBalance, CheckReserved, OpenPay, At, Move
  <2>3. QED
    BY <2>1, <2>2 DEF Knows
<1>3. QED
  BY <1>1, <1>2

LEMMA NextAlone == Inv /\ Alone /\ [MCNext]_<< vars, overlapped >> => Alone'
<1> SUFFICES ASSUME Inv, Alone, [MCNext]_<< vars, overlapped >>, ~ overlapped'
             PROVE  Solitary(pc') /\ \A q \in Requests : Knows(q)'
  BY DEF Alone
<1>1. CASE UNCHANGED << vars, overlapped >>
  BY <1>1 DEF vars, table, Alone, Solitary, Knows
<1>2. ASSUME Next, ~ overlapped, Solitary(pc')
      PROVE  \A q \in Requests : Knows(q)'
  <2>0. TypeOK /\ Solitary(pc) /\ \A q \in Requests : Knows(q)
    BY <1>2 DEF Inv, Alone
  <2>1. ASSUME NEW r \in Requests, NEW p \in Payouts,
               CreateCall(r, p) \/ ApproveCall(r, p) \/ RejectCall(r, p) \/ PayCall(r, p)
        PROVE  \A q \in Requests : Knows(q)'
    BY <1>2, <2>0, <2>1, WhatCallsCheck, BeginKnows DEF Ops
  <2>2. ASSUME NEW r \in Requests, ReadBalance(r) \/ CheckReserved(r) \/ OpenPay(r)
        PROVE  \A q \in Requests : Knows(q)'
    BY <2>0, <2>2, MoveAlone
  <2>3. ASSUME NEW r \in Requests,
               CreateWrite(r) \/ ApproveWrite(r) \/ RejectWrite(r) \/ CommitPay(r) \/ Abort(r)
        PROVE  \A q \in Requests : Knows(q)'
    <3>1. pc[r] # "idle" /\ Finish(r)
      BY <2>3 DEF CreateWrite, ApproveWrite, RejectWrite, CommitPay, Abort, At
    <3>2. QED
      BY <2>0, <3>1, FinishAlone
  <2>4. ASSUME NEW k \in Others, OtherPosting(k)
        PROVE  \A q \in Requests : Knows(q)'
    BY <2>0, <2>4 DEF OtherPosting, Knows, table
  <2>5. QED
    BY <1>2, <2>1, <2>2, <2>3, <2>4 DEF Next
<1>3. CASE MCNext
  BY <1>2, <1>3, NotOverlapping DEF MCNext
<1>4. QED
  BY <1>1, <1>3

LEMMA InitAlone == MCInit => Alone
  BY DEF MCInit, Init, Alone, Solitary, Knows

\* A write that runs alone replaces a status that its table lets it replace.
LEMMA FinalStays ==
  ASSUME Inv, Alone, [MCNext]_<< vars, overlapped >>, ~ overlapped',
         NEW p \in Payouts, status[p] \in { "rejected", "processed" }
  PROVE  status'[p] = status[p]
<1>1. CASE UNCHANGED << vars, overlapped >>
  BY <1>1 DEF vars, table
<1>2. ASSUME Next, ~ overlapped PROVE status'[p] = status[p]
  <2>0. TypeOK /\ \A r \in Requests : Knows(r)
    BY <1>2 DEF Inv, Alone
  <2>1. ASSUME NEW r \in Requests,
               CreateWrite(r) \/ ApproveWrite(r) \/ RejectWrite(r) \/ CommitPay(r)
        PROVE  status'[p] = status[p]
    <3>1. pc[r] # "idle"
      BY <2>1 DEF CreateWrite, ApproveWrite, RejectWrite, CommitPay, At
    <3>2. /\ req[r].op \in Ops
          /\ status[req[r].p] \in { None, "pending", "approved" }
      BY <2>0, <3>1, RequestPayout DEF Knows, RequestType, Ops
    <3>3. req[r].p # p
      BY <3>2, ConstantsAssumption
    <3>4. UNCHANGED status \/ \E to : SetStatus(req[r].p, to)
      BY <2>1 DEF CreateWrite, ApproveWrite, RejectWrite, CommitPay, table
    <3>5. QED
      BY <2>0, <3>3, <3>4 DEF TypeOK, SetStatus
  <2>2. ASSUME NEW r \in Requests, NEW q \in Payouts,
               CreateCall(r, q) \/ ApproveCall(r, q) \/ RejectCall(r, q) \/ PayCall(r, q)
        PROVE  status' = status
    BY <2>2, WhatCallsCheck DEF Begin, table
  <2>3. ASSUME NEW r \in Requests, ReadBalance(r) \/ CheckReserved(r) \/ OpenPay(r) \/ Abort(r)
        PROVE  status' = status
    BY <2>3 DEF ReadBalance, CheckReserved, OpenPay, Abort, table
  <2>4. ASSUME NEW k \in Others, OtherPosting(k) PROVE status' = status
    BY <2>4 DEF OtherPosting, table
  <2>5. QED
    BY <1>2, <2>1, <2>2, <2>3, <2>4 DEF Next
<1>3. CASE MCNext
  BY <1>2, <1>3 DEF MCNext
<1>4. QED
  BY <1>1, <1>3

LEMMA MCInitInv == MCInit => Inv
  BY InitInv DEF MCInit

LEMMA MCNextInv == Inv /\ [MCNext]_<< vars, overlapped >> => Inv'
<1>1. [MCNext]_<< vars, overlapped >> => [Next]_vars
  BY DEF MCNext
<1>2. QED
  BY <1>1, NextInv

\* While handlers run one at a time, a payout that was rejected or paid keeps
\* that status (PayoutStateService), although the writes of approve, reject
\* and markPaid do not look at the status they replace.
THEOREM FinalStatusStays == MCSpec => FinalStatus
<1>1. Inv /\ Alone /\ [MCNext]_<< vars, overlapped >> =>
        [ ~ overlapped' =>
            \A p \in Payouts :
              status[p] \in { "rejected", "processed" } => status'[p] = status[p] ]_vars
  BY FinalStays
<1>2. QED
  BY MCInitInv, MCNextInv, InitAlone, NextAlone, <1>1, PTL DEF MCSpec, FinalStatus

-----------------------------------------------------------------------------
(* Reserved payouts *)

\* Only payouts that were asked for are reserved, and these are finitely many.
Requested == { p \in Payouts : status[p] # None }

NothingTaken == \A k \in applied \intersect Others : OtherOf[k].delta > 0

\* The balance that a handler has read still stands, and the amount that it
\* found free still is.
Fits(r) ==
  LET p == req[r].p
      w == WalletOf[p]
  IN  /\ pc[r] = "balance" => req[r].seen <= balance[w]
      /\ pc[r] = "ready"   => Amount(Reserved(w) \ {p}) + AmountOf[p] <= balance[w]

Enough ==
  /\ \A w \in Wallets : Amount(Reserved(w)) <= balance[w]
  /\ \A r \in Requests : Fits(r)

Covered == ~ overlapped /\ NothingTaken => Enough

Safe == Inv /\ Alone /\ IsFiniteSet(Requested) /\ Covered

LEMMA ReservedFinite ==
  ASSUME IsFiniteSet(Requested), NEW w
  PROVE  IsFiniteSet(Reserved(w)) /\ Reserved(w) \subseteq Payouts
<1>1. Reserved(w) \subseteq Requested
  BY ConstantsAssumption DEF Reserved, Requested, RESERVED_PAYOUT_STATUSES
<1>2. QED
  BY <1>1, FS_Subset DEF Reserved

LEMMA AmountPutIn ==
  ASSUME NEW P, IsFiniteSet(P), P \subseteq Payouts, NEW p \in Payouts
  PROVE  /\ Amount(P) \in Int /\ Amount(P \ {p}) \in Int /\ AmountOf[p] \in Nat \ {0}
         /\ Amount((P \ {p}) \union {p}) = AmountOf[p] + Amount(P \ {p})
<1>1. IsFiniteSet(P \ {p}) /\ \A q \in Payouts : AmountOf[q] \in Nat \ {0}
  BY FS_Subset, ConstantsAssumption
<1>2. \A q \in P : AmountOf[q] \in Int
  BY <1>1
<1>3. Amount(P) \in Int /\ Amount(P \ {p}) \in Int
  BY <1>1, <1>2, SumType DEF Amount
<1> DEFINE Q == P \ {p}
<1>4. p \notin Q /\ \A q \in Q \union {p} : AmountOf[q] \in Int
  BY <1>1
<1>5. IsFiniteSet(Q)
  BY <1>1
<1> HIDE DEF Q
<1>6. Amount(Q \union {p}) = AmountOf[p] + Amount(Q)
  BY <1>4, <1>5, SumPutIn DEF Amount
<1>7. QED
  BY <1>1, <1>3, <1>6 DEF Q

\* What a write of a status does to the reserved payouts of each wallet.
LEMMA WriteReserves ==
  ASSUME TypeOK, NEW p \in Payouts, NEW to, SetStatus(p, to), NEW w
  PROVE  /\ w # WalletOf[p] => Reserved(w)' = Reserved(w)
         /\ Reserved(w)' \ {p} = Reserved(w) \ {p}
         /\ w = WalletOf[p] /\ to \in RESERVED_PAYOUT_STATUSES =>
              Reserved(w)' = (Reserved(w) \ {p}) \union {p}
         /\ to \notin RESERVED_PAYOUT_STATUSES => Reserved(w)' = Reserved(w) \ {p}
  BY DEF TypeOK, SetStatus, Reserved

LEMMA RequestedFinite == TypeOK /\ IsFiniteSet(Requested) /\ [Next]_vars => IsFiniteSet(Requested')
<1> SUFFICES ASSUME TypeOK, IsFiniteSet(Requested), [Next]_vars
             PROVE  IsFiniteSet(Requested')
  OBVIOUS
<1>1. ASSUME status' = status PROVE IsFiniteSet(Requested')
  BY <1>1 DEF Requested
<1>2. ASSUME NEW p \in Payouts, NEW to, SetStatus(p, to) PROVE IsFiniteSet(Requested')
  <2>1. Requested' \subseteq Requested \union {p}
    BY <1>2 DEF TypeOK, Requested, SetStatus
  <2>2. QED
    BY <2>1, FS_AddElement, FS_Subset
<1>3. ASSUME NEW r \in Requests,
             CreateWrite(r) \/ ApproveWrite(r) \/ RejectWrite(r) \/ CommitPay(r)
      PROVE  IsFiniteSet(Requested')
  <2>1. req[r].p \in Payouts
    BY <1>3, RequestPayout DEF CreateWrite, ApproveWrite, RejectWrite, CommitPay, At
  <2>2. UNCHANGED status \/ \E to : SetStatus(req[r].p, to)
    BY <1>3 DEF CreateWrite, ApproveWrite, RejectWrite, CommitPay, table
  <2>3. QED
    BY <1>1, <1>2, <2>1, <2>2
<1>4. ASSUME NEW r \in Requests, NEW q \in Payouts,
             CreateCall(r, q) \/ ApproveCall(r, q) \/ RejectCall(r, q) \/ PayCall(r, q)
      PROVE  status' = status
  BY <1>4, WhatCallsCheck DEF Begin, table
<1>5. ASSUME NEW r \in Requests, ReadBalance(r) \/ CheckReserved(r) \/ OpenPay(r) \/ Abort(r)
      PROVE  status' = status
  BY <1>5 DEF ReadBalance, CheckReserved, OpenPay, Abort, table
<1>6. ASSUME NEW k \in Others, OtherPosting(k) PROVE status' = status
  BY <1>6 DEF OtherPosting, table
<1>7. CASE UNCHANGED vars
  BY <1>1, <1>7 DEF vars, table
<1>8. QED
  BY <1>1, <1>3, <1>4, <1>5, <1>6, <1>7 DEF Next

\* A handler that ended has nothing that must fit any more.
LEMMA FinishFits ==
  ASSUME TypeOK, Solitary(pc), NEW r \in Requests, pc[r] # "idle", Finish(r)
  PROVE  \A q \in Requests : Fits(q)'
<1>1. \A q \in Requests : pc'[q] = "idle"
  BY FinishAlone
<1>2. QED
  BY <1>1 DEF Fits

\* Handlers that only read.
LEMMA ReadEnough ==
  ASSUME TypeOK, Enough, IsFiniteSet(Requested), Solitary(pc), NEW r \in Requests,
         ReadBalance(r) \/ CheckReserved(r) \/ OpenPay(r)
  PROVE  Enough'
<1> DEFINE p == req[r].p
           v == WalletOf[p]
<1>1. /\ p \in Payouts /\ v \in Wallets /\ req[r] \in RequestType /\ pc[r] # "idle"
      /\ balance[v] \in Nat /\ req[r].seen \in Nat
  BY RequestPayout DEF TypeOK, RequestType, ReadBalance, CheckReserved, OpenPay, At
<1>2. balance' = balance /\ status' = status
  BY DEF ReadBalance, CheckReserved, OpenPay, ledger, table
<1>3. \A w \in Wallets : Amount(Reserved(w)') <= balance'[w]
  BY <1>2 DEF Enough, Reserved
<1>4. ASSUME NEW q \in Requests, q # r PROVE Fits(q)'
  BY <1>1, <1>4 DEF TypeOK, Solitary, Fits, ReadBalance, CheckReserved, OpenPay, Move, Finish
<1>5. CASE ReadBalance(r)
  <2>1. pc'[r] = "balance" /\ req'[r].p = p /\ req'[r].seen = balance[v]
    BY <1>1, <1>5 DEF TypeOK, RequestType, ReadBalance
  <2>2. Fits(r)'
    BY <1>1, <1>2, <2>1 DEF Fits
  <2>3. QED
    BY <1>3, <1>4, <2>2 DEF Enough, Amount
<1>6. CASE CheckReserved(r) /\ Move(r, "ready")
  <2>1. pc[r] = "balance" /\ pc'[r] = "ready" /\ req' = req
    BY <1>6 DEF TypeOK, CheckReserved, At, Move
  <2>2. Available(req[r].seen, p) >= AmountOf[p]
    BY <1>1, <1>6, <2>1 DEF CheckReserved, Finish, Move, TypeOK
  <2>3. req[r].seen <= balance[v]
    BY <2>1 DEF Enough, Fits
  <2>4. Amount(Reserved(v) \ {p}) \in Int /\ AmountOf[p] \in Nat
    <3>1. p \in Payouts
      BY <1>1
    <3> HIDE DEF p, v
    <3>2. QED
      BY <3>1, ReservedFinite, AmountPutIn
  <2>5. Amount(Reserved(v) \ {p}) + AmountOf[p] <= balance[v]
    <3>1. req[r].seen - Amount(Reserved(v) \ {p}) >= AmountOf[p]
      BY <2>2 DEF Available
    <3> HIDE DEF p, v
    <3>2. QED
      BY <1>1, <2>3, <2>4, <3>1
  <2>6. Fits(r)'
    BY <1>2, <2>1, <2>5 DEF Fits, Reserved, Amount
  <2>7. QED
    BY <1>3, <1>4, <2>6 DEF Enough, Amount
<1>7. CASE OpenPay(r) /\ Move(r, "opened")
  BY <1>3, <1>4, <1>7 DEF Enough, Fits, Move, TypeOK, Amount
<1>8. CASE Finish(r)
  BY <1>1, <1>3, <1>8, FinishFits DEF Enough, Amount
<1>9. QED
  BY <1>5, <1>6, <1>7, <1>8 DEF CheckReserved, OpenPay

\* createRequest and approve write what they found to fit.
LEMMA ReserveEnough ==
  ASSUME TypeOK, Enough, IsFiniteSet(Requested), Solitary(pc), NEW r \in Requests,
         CreateWrite(r) \/ ApproveWrite(r)
  PROVE  Enough'
<1>0. pc[r] = "ready" /\ Finish(r) /\ balance' = balance
  BY DEF CreateWrite, ApproveWrite, At, ledger
<1>1. PICK to \in RESERVED_PAYOUT_STATUSES : SetStatus(req[r].p, to)
  BY DEF CreateWrite, ApproveWrite, RESERVED_PAYOUT_STATUSES
<1>2. PICK p \in Payouts : p = req[r].p
  BY <1>0, RequestPayout
<1>3. PICK v \in Wallets : v = WalletOf[p]
  BY <1>2, ConstantsAssumption
<1>4. Amount(Reserved(v) \ {p}) + AmountOf[p] <= balance[v]
  BY <1>0, <1>2, <1>3 DEF Enough, Fits
<1>5. Amount((Reserved(v) \ {p}) \union {p}) = AmountOf[p] + Amount(Reserved(v) \ {p})
      /\ Amount(Reserved(v) \ {p}) \in Int /\ AmountOf[p] \in Nat
  BY ReservedFinite, AmountPutIn
<1>6. /\ Reserved(v)' = (Reserved(v) \ {p}) \union {p}
      /\ \A w \in Wallets \ {v} : Reserved(w)' = Reserved(w)
  BY <1>1, <1>2, <1>3, WriteReserves
<1>7. \A w \in Wallets : Amount(Reserved(w)') <= balance'[w]
  <2>1. Amount(Reserved(v)') <= balance[v]
    BY <1>4, <1>5, <1>6 DEF TypeOK
  <2>2. QED
    BY <1>0, <1>6, <2>1 DEF Enough
<1>8. QED
  BY <1>0, <1>7, FinishFits DEF Enough, Amount

\* reject and markPaid give up what the payout reserved; what is debited is
\* no more than that.
LEMMA ReleaseEnough ==
  ASSUME TypeOK, Enough, IsFiniteSet(Requested), Solitary(pc), NEW r \in Requests,
         pc[r] # "idle", Finish(r), Knows(r), req[r].op \in { "reject", "pay" },
         NEW to \in Status \ RESERVED_PAYOUT_STATUSES, SetStatus(req[r].p, to),
         balance' = balance \/ balance' =
           [balance EXCEPT ![WalletOf[req[r].p]] = @ - AmountOf[req[r].p]]
  PROVE  Enough'
<1>1. PICK p \in Payouts : p = req[r].p
  BY RequestPayout
<1>2. PICK v \in Wallets : v = WalletOf[p]
  BY <1>1, ConstantsAssumption
<1>3. p \in Reserved(v)
  BY <1>1, <1>2 DEF Knows, Reserved, RESERVED_PAYOUT_STATUSES
<1>4. /\ Reserved(v)' = Reserved(v) \ {p}
      /\ \A w \in Wallets \ {v} : Reserved(w)' = Reserved(w)
  BY <1>1, <1>2, WriteReserves
<1>5. Amount(Reserved(v)) = AmountOf[p] + Amount(Reserved(v) \ {p})
      /\ Amount(Reserved(v) \ {p}) \in Int /\ AmountOf[p] \in Nat
  <2>1. (Reserved(v) \ {p}) \union {p} = Reserved(v)
    BY <1>3
  <2>2. QED
    BY <2>1, ReservedFinite, AmountPutIn
<1>6. /\ balance'[v] = balance[v] \/ balance'[v] = balance[v] - AmountOf[p]
      /\ \A w \in Wallets \ {v} : balance'[w] = balance[w]
      /\ balance[v] \in Nat /\ Amount(Reserved(v)) <= balance[v]
  BY <1>1, <1>2 DEF TypeOK, Enough
<1>7. Amount(Reserved(v)') <= balance'[v]
  BY <1>4, <1>5, <1>6
<1>8. \A w \in Wallets : Amount(Reserved(w)') <= balance'[w]
  BY <1>4, <1>6, <1>7 DEF Enough
<1>9. QED
  BY <1>8, FinishFits DEF Enough, Amount

LEMMA CommitEnough ==
  ASSUME TypeOK, Enough, IsFiniteSet(Requested), Solitary(pc), NEW r \in Requests,
         Knows(r), CommitPay(r)
  PROVE  Enough'
<1>1. pc[r] # "idle" /\ Finish(r) /\ req[r].op = "pay" /\ req[r].p \in Payouts
  BY RequestPayout DEF CommitPay, At
<1>2. CASE UNCHANGED << ledger, table >>
  BY <1>1, <1>2, FinishFits DEF Enough, Reserved, ledger, table, Amount
<1>3. CASE Debit(req[r].p) /\ SetStatus(req[r].p, "processed")
  <2>1. AmountOf[req[r].p] \in Int
    BY <1>1, ConstantsAssumption
  <2>2. balance' = balance \/ balance' =
          [balance EXCEPT ![WalletOf[req[r].p]] = @ - AmountOf[req[r].p]]
    <3>1. CASE UNCHANGED ledger
      BY <3>1 DEF ledger
    <3>2. CASE Ledger!Post(WalletOf[req[r].p], req[r].p, - AmountOf[req[r].p])
      <4>1. WalletOf[req[r].p] \in Wallets
        BY <1>1, ConstantsAssumption
      <4>2. balance[WalletOf[req[r].p]] \in Int
        BY <4>1 DEF TypeOK
      <4>3. QED
        BY <2>1, <3>2, <4>2 DEF Ledger!Post
    <3>3. QED
      BY <1>3, <3>1, <3>2 DEF Debit
  <2>3. "processed" \in Status \ RESERVED_PAYOUT_STATUSES
    BY DEF Status, RESERVED_PAYOUT_STATUSES
  <2>4. QED
    BY <1>1, <1>3, <2>2, <2>3, ReleaseEnough
<1>4. QED
  BY <1>2, <1>3 DEF CommitPay

LEMMA OtherEnough ==
  ASSUME TypeOK, Enough, IsFiniteSet(Requested), NothingTaken', NEW k \in Others,
         OtherPosting(k)
  PROVE  Enough'
<1>1. OtherOf[k].wallet \in Wallets /\ OtherOf[k].delta \in Int
  BY ConstantsAssumption
<1>2. OtherOf[k].delta > 0
  BY DEF NothingTaken, OtherPosting, Ledger!Post
<1>3. \A w \in Wallets : balance[w] \in Nat /\ balance'[w] \in Nat /\ balance[w] <= balance'[w]
  BY <1>1, <1>2 DEF TypeOK, OtherPosting, Ledger!Post
<1>4. status' = status /\ pc' = pc /\ req' = req
  BY DEF OtherPosting, table
<1>5. \A w : Reserved(w)' = Reserved(w)
  BY <1>4 DEF Reserved
<1>6. ASSUME NEW w \in Wallets PROVE Amount(Reserved(w)') <= balance'[w]
  <2>1. Amount(Reserved(w)) <= balance[w]
    BY DEF Enough
  <2>2. Amount(Reserved(w)) \in Int
    <3>1. \A p \in Reserved(w) : AmountOf[p] \in Int
      BY ConstantsAssumption DEF Reserved
    <3>2. QED
      BY <3>1, ReservedFinite, SumType DEF Amount
  <2>3. QED
    BY <1>3, <1>5, <2>1, <2>2
<1>7. ASSUME NEW r \in Requests PROVE Fits(r)'
  <2>1. CASE pc[r] = "idle"
    BY <1>4, <2>1 DEF Fits
  <2>2. CASE pc[r] # "idle"
    <3>1. PICK p \in Payouts : p = req[r].p
      BY <2>2, RequestPayout
    <3>2. PICK v \in Wallets : v = WalletOf[p]
      BY <3>1, ConstantsAssumption
    <3>3. Amount(Reserved(v) \ {p}) \in Int /\ AmountOf[p] \in Nat
      BY ReservedFinite, AmountPutIn
    <3>4. req[r].seen \in Nat
      BY <2>2, RequestPayout DEF RequestType
    <3>5. /\ pc[r] = "balance" => req[r].seen <= balance[v]
          /\ pc[r] = "ready"   => Amount(Reserved(v) \ {p}) + AmountOf[p] <= balance[v]
      BY <3>1, <3>2 DEF Enough, Fits
    <3>6. /\ pc[r] = "balance" => req[r].seen <= balance'[v]
          /\ pc[r] = "ready"   => Amount(Reserved(v)' \ {p}) + AmountOf[p] <= balance'[v]
      <4>1. Reserved(v)' = Reserved(v)
        BY <1>5
      <4>2. balance[v] \in Nat /\ balance'[v] \in Nat /\ balance[v] <= balance'[v]
        BY <1>3
      <4>3. QED
        BY <3>3, <3>4, <3>5, <4>1, <4>2
    <3>7. QED
      BY <1>4, <3>1, <3>2, <3>6 DEF Fits, Amount
  <2>3. QED
    BY <2>1, <2>2
<1>8. QED
  BY <1>6, <1>7 DEF Enough, Amount

\* No posting is ever taken out of the ledger.
LEMMA NextApplies == Next => applied \subseteq applied'
<1> SUFFICES ASSUME Next PROVE applied \subseteq applied'
  OBVIOUS
<1>1. ASSUME NEW r \in Requests, NEW p \in Payouts,
             CreateCall(r, p) \/ ApproveCall(r, p) \/ RejectCall(r, p) \/ PayCall(r, p)
      PROVE  applied' = applied
  BY <1>1, WhatCallsCheck DEF Begin, ledger
<1>2. ASSUME NEW r \in Requests,
             \/ ReadBalance(r) \/ CheckReserved(r) \/ CreateWrite(r) \/ ApproveWrite(r)
             \/ RejectWrite(r) \/ OpenPay(r) \/ Abort(r)
      PROVE  applied' = applied
  BY <1>2 DEF ReadBalance, CheckReserved, CreateWrite, ApproveWrite, RejectWrite, OpenPay,
              Abort, ledger
<1>3. ASSUME NEW r \in Requests, CommitPay(r) PROVE applied \subseteq applied'
  BY <1>3 DEF CommitPay, Debit, Ledger!Post, ledger
<1>4. ASSUME NEW k \in Others, OtherPosting(k) PROVE applied \subseteq applied'
  BY <1>4 DEF OtherPosting, Ledger!Post
<1>5. QED
  BY <1>1, <1>2, <1>3, <1>4 DEF Next

LEMMA NextCovered ==
  Safe /\ [MCNext]_<< vars, overlapped >> => Covered'
<1> SUFFICES ASSUME Safe, [MCNext]_<< vars, overlapped >>, ~ overlapped', NothingTaken'
             PROVE  Enough'
  BY DEF Covered
<1>1. CASE UNCHANGED << vars, overlapped >>
  <2>1. NothingTaken /\ ~ overlapped
    BY <1>1 DEF vars, ledger, NothingTaken
  <2>2. Enough
    BY <2>1 DEF Safe, Covered
  <2>3. QED
    BY <1>1, <2>2 DEF vars, ledger, table, Enough, Fits, Reserved, Amount
<1>2. ASSUME Next, ~ overlapped PROVE Enough'
  <2>1. NothingTaken
    <3>1. applied \subseteq applied'
      BY <1>2, NextApplies
    <3>2. QED
      BY <3>1 DEF NothingTaken
  <2>2. /\ TypeOK /\ Enough /\ IsFiniteSet(Requested) /\ Solitary(pc)
        /\ \A r \in Requests : Knows(r)
    BY <1>2, <2>1 DEF Safe, Covered, Inv, Alone
  <2>3. ASSUME NEW r \in Requests, NEW p \in Payouts, NEW op \in Ops, Begin(r, op, p)
        PROVE  Enough'
    BY <2>2, <2>3 DEF TypeOK, Begin, Enough, Fits, Reserved, ledger, table, Amount
  <2>4. ASSUME NEW r \in Requests, NEW p \in Payouts,
               CreateCall(r, p) \/ ApproveCall(r, p) \/ RejectCall(r, p) \/ PayCall(r, p)
        PROVE  Enough'
    BY <2>3, <2>4, WhatCallsCheck DEF Ops
  <2>5. ASSUME NEW r \in Requests, ReadBalance(r) \/ CheckReserved(r) \/ OpenPay(r)
        PROVE  Enough'
    BY <2>2, <2>5, ReadEnough
  <2>6. ASSUME NEW r \in Requests, CreateWrite(r) \/ ApproveWrite(r) PROVE Enough'
    BY <2>2, <2>6, ReserveEnough
  <2>7. ASSUME NEW r \in Requests, RejectWrite(r) PROVE Enough'
    <3>1. /\ pc[r] # "idle" /\ Finish(r) /\ req[r].op \in { "reject", "pay" }
          /\ SetStatus(req[r].p, "rejected") /\ balance' = balance
      BY <2>7 DEF RejectWrite, At, ledger
    <3>2. "rejected" \in Status \ RESERVED_PAYOUT_STATUSES
      BY DEF Status, RESERVED_PAYOUT_STATUSES
    <3>3. QED
      BY <2>2, <3>1, <3>2, ReleaseEnough
  <2>8. ASSUME NEW r \in Requests, CommitPay(r) PROVE Enough'
    BY <2>2, <2>8, CommitEnough
  <2>9. ASSUME NEW r \in Requests, Abort(r) PROVE Enough'
    <3>1. \A q \in Requests : Fits(q)'
      BY <2>2, <2>9, FinishFits DEF Abort
    <3>2. QED
      BY <2>2, <2>9, <3>1 DEF Abort, Enough, Reserved, ledger, table, Amount
  <2>10. ASSUME NEW k \in Others, OtherPosting(k) PROVE Enough'
    BY <2>2, <2>10, OtherEnough
  <2>11. QED
    BY <1>2, <2>4, <2>5, <2>6, <2>7, <2>8, <2>9, <2>10 DEF Next
<1>3. CASE MCNext
  BY <1>2, <1>3 DEF MCNext
<1>4. QED
  BY <1>1, <1>3

LEMMA InitSafe == MCInit => Safe
<1> SUFFICES ASSUME MCInit PROVE Safe
  OBVIOUS
<1>1. Inv /\ Alone /\ Init
  BY InitInv, InitAlone DEF MCInit
<1>2. Requested = {} /\ \A w \in Wallets : Reserved(w) = {} /\ balance[w] = 0
  BY <1>1, ConstantsAssumption
    DEF Init, Ledger!Init, Requested, Reserved, RESERVED_PAYOUT_STATUSES
<1>3. \A r \in Requests : Fits(r)
  BY <1>1 DEF Init, Fits
<1>4. \A w \in Wallets : Amount(Reserved(w)) <= balance[w]
  BY <1>2, SumEmpty DEF Amount
<1>5. Covered
  <2>1. \A w \in Wallets : Amount(Reserved(w)) <= balance[w]
    BY <1>4
  <2>2. QED
    BY <1>3, <2>1 DEF Covered, Enough
<1>6. IsFiniteSet(Requested)
  BY <1>2, FS_EmptySet
<1>7. QED
  BY <1>1, <1>5, <1>6 DEF Safe

LEMMA NextSafe == Safe /\ [MCNext]_<< vars, overlapped >> => Safe'
<1> SUFFICES ASSUME Safe, [MCNext]_<< vars, overlapped >> PROVE Safe'
  OBVIOUS
<1>1. Inv' /\ Alone'
  BY MCNextInv, NextAlone DEF Safe
<1>2. IsFiniteSet(Requested')
  BY RequestedFinite DEF Safe, Inv, MCNext
<1>3. QED
  BY <1>1, <1>2, NextCovered DEF Safe

\* As long as handlers run one at a time and no administrator takes money from
\* a wallet, its balance covers all the payouts it has reserved: what
\* assertSufficientAvailableBalance checks holds until the debit, through
\* earnings, approvals, rejections and payments of the others.
THEOREM BalanceCoversReserved == MCSpec => []ReservedCovered
<1>1. Safe => ReservedCovered
  <2> SUFFICES ASSUME Safe, ~ overlapped, NothingTaken, NEW w \in Wallets
               PROVE  balance[w] >= Amount(Reserved(w))
    BY DEF ReservedCovered, NothingTaken
  <2>1. Amount(Reserved(w)) <= balance[w]
    BY DEF Safe, Covered, Enough
  <2>2. QED
    BY <2>1
<1>2. QED
  BY InitSafe, NextSafe, <1>1, PTL DEF MCSpec
=============================================================================
