--------------------------- MODULE Accounts_proofs ---------------------------
(***************************************************************************)
(* Theorems about Accounts, for any number of tokens, addresses and        *)
(* handlers in flight.  The last part is about MCSpec, whose history       *)
(* variable tells whether handlers overlapped or were lost.                *)
(***************************************************************************)
EXTENDS MCAccounts, TLAPS

Spent == { "revoked", "gone" }

\* What a handler relies on when it writes: the token it exchanges is one of
\* the user's, and is spent before another is issued for it.
Known(r) ==
  pc[r] # "idle" =>
    /\ req[r] \in RequestType
    /\ req[r].op = "refresh" => req[r].with \in Tokens
    /\ req[r].op = "refresh" /\ pc[r] = "write" => token[req[r].with] \in Spent \union {"live"}
    /\ req[r].op = "refresh" /\ pc[r] = "issue" => token[req[r].with] \in Spent
    /\ req[r].op = "reset"  => req[r].with \in Resets
    /\ req[r].op = "verify" => req[r].with \in Verifications /\ mail[req[r].with] \in MailType
    /\ req[r].op = "change" => req[r].with \in Addresses

ParentsSpent == \A t \in Tokens : parent[t] # None => token[parent[t]] \in Spent

Inv ==
  /\ TypeOK
  /\ ParentsSpent
  /\ \A r \in Requests : Known(r)

LEMMA InitInv == Init => Inv
<1> SUFFICES ASSUME Init PROVE Inv
  OBVIOUS
<1>1. TypeOK
  <2>1. token \in [Tokens -> TokenStatus] /\ mail \in [Verifications -> MailType \union {None}]
    BY DEF Init, TokenStatus, MailType
  <2>2. reset \in [Resets -> TokenStatus]
    BY DEF Init, TokenStatus
  <2>3. QED
    BY <2>1, <2>2 DEF Init, TypeOK
<1>2. ParentsSpent /\ \A r \in Requests : Known(r)
  BY DEF Init, ParentsSpent, Known
<1>3. QED
  BY <1>1, <1>2 DEF Inv

-----------------------------------------------------------------------------
(* Handlers *)

Others(r) == \A s \in Requests \ {r} : pc'[s] = pc[s] /\ req'[s] = req[s]

\* A spent token stays spent, a live one does not become new again, and the
\* mails that went out stay on record.
Monotone ==
  /\ \A t \in Tokens : token[t] \in Spent => token'[t] \in Spent
  /\ \A t \in Tokens : token[t] = "live" => token'[t] \in Spent \union {"live"}
  /\ \A v \in Verifications : mail[v] \in MailType => mail'[v] \in MailType

Places == { "idle", "write", "issue", "mail" }

Moved(r) ==
  /\ Others(r)
  /\ pc'  \in [Requests -> Places]
  /\ req' \in [Requests -> RequestType \union {None}]

LEMMA KnownKeeps ==
  ASSUME Inv, NEW s \in Requests, Monotone, pc'[s] = pc[s], req'[s] = req[s]
  PROVE  Known(s)'
  BY DEF Inv, Known, Monotone

LEMMA StepKeeps ==
  ASSUME Inv, NEW r \in Requests, Monotone, Others(r), TypeOK', Known(r)', ParentsSpent'
  PROVE  Inv'
  BY KnownKeeps DEF Inv, Others

LEMMA FinishMoves ==
  ASSUME TypeOK, NEW r \in Requests, Finish(r)
  PROVE  Moved(r) /\ Known(r)'
  BY DEF TypeOK, Finish, Moved, Others, Known, Places

LEMMA GotoMoves ==
  ASSUME TypeOK, NEW r \in Requests, NEW there \in Places, Goto(r, there)
  PROVE  Moved(r) /\ pc'[r] = there /\ req'[r] = req[r]
  BY DEF TypeOK, Goto, Moved, Others, Places

\* Steps that leave the tokens and the mails alone.
LEMMA QuietMonotone ==
  ASSUME UNCHANGED << token, mail >>
  PROVE  Monotone
  BY DEF Monotone

LEMMA QuietKeeps ==
  ASSUME Inv, NEW r \in Requests, UNCHANGED << sessions, mail >>, TypeOK', Moved(r), Known(r)'
  PROVE  Inv'
<1>1. Monotone /\ ParentsSpent'
  BY QuietMonotone DEF Inv, ParentsSpent, sessions
<1>2. QED
  BY <1>1, StepKeeps DEF Moved

-----------------------------------------------------------------------------
(* Calls *)

LEMMA BeginKeeps ==
  ASSUME Inv, NEW r \in Requests,
         NEW op \in { "login", "refresh", "reset", "verify", "change" },
         NEW with \in Tokens \union Resets \union Verifications \union Addresses \union BOOLEAN,
         op = "refresh" => with \in Tokens /\ token[with] = "live",
         op = "reset"  => with \in Resets,
         op = "verify" => with \in Verifications /\ mail[with] \in MailType,
         op = "change" => with \in Addresses,
         Begin(r, op, with)
  PROVE  Inv'
<1> DEFINE c == [ op |-> op, with |-> with, failed |-> attempts, under |-> password ]
<1>1. TypeOK /\ c \in RequestType
  BY DEF Inv, TypeOK, RequestType
<1>2. Moved(r) /\ pc'[r] = "write" /\ req'[r] = c
  BY <1>1 DEF TypeOK, Begin, Moved, Others, Places
<1>3. Known(r)'
  BY <1>1, <1>2 DEF Known, Begin, sessions, verification
<1>4. TypeOK'
  BY <1>1, <1>2 DEF TypeOK, Moved, Places, Begin, login, sessions, verification
<1>5. QED
  BY <1>2, <1>3, <1>4, QuietKeeps DEF Begin, verification

LEMMA ArriveKeeps ==
  ASSUME Inv, NEW r \in Requests, Arrive(r)
  PROVE  Inv'
<1>1. ASSUME NEW right \in BOOLEAN, LoginCall(r, right) PROVE Inv'
  BY <1>1, BeginKeeps DEF LoginCall
<1>2. ASSUME NEW t \in Tokens, RefreshCall(r, t) PROVE Inv'
  BY <1>2, BeginKeeps DEF RefreshCall
<1>3. ASSUME NEW x \in Resets, ResetCall(r, x) PROVE Inv'
  BY <1>3, BeginKeeps DEF ResetCall
<1>4. ASSUME NEW v \in Verifications, VerifyCall(r, v) PROVE Inv'
  BY <1>4, BeginKeeps DEF Inv, TypeOK, VerifyCall
<1>5. ASSUME NEW a \in Addresses, ChangeCall(r, a) PROVE Inv'
  BY <1>5, BeginKeeps DEF ChangeCall
<1>6. QED
  BY <1>1, <1>2, <1>3, <1>4, <1>5 DEF Arrive

-----------------------------------------------------------------------------
(* Later statements of a handler *)

LEMMA LoginWritesKeep ==
  ASSUME Inv, NEW r \in Requests, LoginFails(r) \/ LoginSucceeds(r)
  PROVE  Inv'
<1>1. TypeOK /\ req[r] \in RequestType /\ req[r].op = "login"
  BY DEF Inv, Known, LoginFails, LoginSucceeds, At
<1>2. Moved(r) /\ Known(r)'
  <2>1. CASE LoginFails(r)
    BY <1>1, <2>1, FinishMoves DEF LoginFails
  <2>2. CASE LoginSucceeds(r)
    BY <1>1, <2>2, GotoMoves DEF LoginSucceeds, Places, Known
  <2>3. QED
    BY <2>1, <2>2
<1>3. attempts' \in Nat
  BY <1>1 DEF LoginFails, LoginSucceeds, RequestType
<1>4. locked' \in BOOLEAN
  <2>1. CASE LoginFails(r)
    BY <2>1 DEF LoginFails
  <2>2. CASE LoginSucceeds(r)
    BY <2>2 DEF LoginSucceeds
  <2>3. QED
    BY <2>1, <2>2
<1>5. UNCHANGED << password, sessions, reset, verification >>
  BY DEF LoginFails, LoginSucceeds
<1>6. TypeOK'
  BY <1>1, <1>2, <1>3, <1>4, <1>5 DEF TypeOK, Moved, Places, sessions, verification
<1>7. QED
  BY <1>2, <1>5, <1>6, QuietKeeps DEF verification

\* The step that makes room for the next token spends the one it is exchanged
\* for; a second handler with the same token finds it spent already.
LEMMA RevokeKeeps ==
  ASSUME Inv, NEW r \in Requests, Revoke(r)
  PROVE  Inv'
<1>1. TypeOK /\ Known(r) /\ req[r] \in RequestType /\ req[r].op = "refresh"
  BY DEF Inv, Known, Revoke, At
<1> PICK t \in Tokens : t = req[r].with
  BY <1>1 DEF Known, Revoke, At
<1>2. UNCHANGED << login, granted, parent, reset, verification >>
  BY DEF Revoke
<1>3. CASE token[t] = "gone"
  <2>1. Finish(r) /\ UNCHANGED token
    BY <1>3 DEF Revoke
  <2>2. Moved(r) /\ Known(r)'
    BY <1>1, <2>1, FinishMoves
  <2>3. TypeOK'
    BY <1>1, <1>2, <2>1, <2>2 DEF TypeOK, Moved, Places, login, verification
  <2>4. QED
    BY <1>2, <2>1, <2>2, <2>3, QuietKeeps DEF sessions, verification
<1>4. CASE token[t] # "gone"
  <2>1. Goto(r, "issue") /\ token' = [token EXCEPT ![t] = "revoked"]
    BY <1>4 DEF Revoke
  <2>2. Moved(r) /\ pc'[r] = "issue" /\ req'[r] = req[r]
    BY <1>1, <2>1, GotoMoves DEF Places
  <2>3. token'[t] = "revoked" /\ \A u \in Tokens \ {t} : token'[u] = token[u]
    BY <1>1, <2>1 DEF TypeOK
  <2>4. Monotone /\ ParentsSpent'
    BY <1>1, <1>2, <2>3 DEF Inv, TypeOK, Monotone, ParentsSpent, Spent, verification
  <2>5. Known(r)'
    BY <1>1, <2>2, <2>3 DEF Known, Spent
  <2>6. TypeOK'
    BY <1>1, <1>2, <2>1, <2>2 DEF TypeOK, TokenStatus, Moved, Places, login, verification
  <2>7. QED
    BY <2>2, <2>4, <2>5, <2>6, StepKeeps DEF Moved
<1>5. QED
  BY <1>3, <1>4

\* The token issued is a new one, so nothing was exchanged for it.
LEMMA IssueKeeps ==
  ASSUME Inv, NEW r \in Requests, Issue(r)
  PROVE  Inv'
<1>1. TypeOK /\ Known(r) /\ req[r] \in RequestType /\ pc[r] = "issue"
  BY DEF Inv, Known, Issue
<1> PICK t \in Tokens :
      /\ token[t] = "new"
      /\ token'   = [token   EXCEPT ![t] = "live"]
      /\ granted' = [granted EXCEPT ![t] = req[r].under]
      /\ parent'  = [parent  EXCEPT ![t] = IF req[r].op = "refresh" THEN req[r].with ELSE None]
  BY DEF Issue
<1>2. UNCHANGED << login, reset, verification >> /\ Moved(r) /\ Known(r)'
  BY <1>1, FinishMoves DEF Issue
<1>3. token'[t] = "live" /\ \A u \in Tokens \ {t} : token'[u] = token[u] /\ parent'[u] = parent[u]
  BY <1>1 DEF TypeOK
<1>4. parent'[t] = None \/ (parent'[t] \in Tokens /\ token[parent'[t]] \in Spent)
  BY <1>1 DEF TypeOK, Known
<1>5. "new" \notin Spent \union {"live"}
  BY DEF Spent
<1>6. Monotone
  BY <1>2, <1>3, <1>5 DEF Monotone, verification
<1>7. ParentsSpent'
  <2> SUFFICES ASSUME NEW u \in Tokens, parent'[u] # None PROVE token'[parent'[u]] \in Spent
    BY DEF ParentsSpent
  <2>1. parent'[u] \in Tokens /\ token[parent'[u]] \in Spent
    <3>1. CASE u = t
      BY <1>4, <3>1
    <3>2. CASE u # t
      BY <1>1, <1>3, <3>2 DEF Inv, TypeOK, ParentsSpent
    <3>3. QED
      BY <3>1, <3>2
  <2>2. QED
    BY <1>6, <2>1 DEF Monotone
<1>8. TypeOK'
  <2>1. token' \in [Tokens -> TokenStatus] /\ granted' \in [Tokens -> Nat]
    BY <1>1 DEF TypeOK, TokenStatus, RequestType
  <2>2. parent' \in [Tokens -> Tokens \union {None}]
    BY <1>1, <1>3, <1>4 DEF TypeOK
  <2>3. QED
    BY <1>1, <1>2, <2>1, <2>2 DEF TypeOK, Moved, Places, login, verification
<1>9. QED
  BY <1>2, <1>6, <1>7, <1>8, StepKeeps DEF Moved

\* Revoking every live token, for a logout or a reset.
LEMMA RevokeAllType ==
  ASSUME TypeOK, ParentsSpent, token' = RevokeAll, parent' = parent
  PROVE  /\ token' \in [Tokens -> TokenStatus]
         /\ ParentsSpent'
         /\ \A t \in Tokens : token[t] \in Spent => token'[t] \in Spent
         /\ \A t \in Tokens : token[t] = "live" => token'[t] \in Spent \union {"live"}
  BY DEF TypeOK, ParentsSpent, RevokeAll, TokenStatus, Spent

LEMMA ResetCommitKeeps ==
  ASSUME Inv, NEW r \in Requests, ResetCommit(r)
  PROVE  Inv'
<1>1. TypeOK /\ ParentsSpent /\ req[r].with \in Resets
  BY DEF Inv, Known, ResetCommit, At
<1>2. /\ token' = RevokeAll /\ Finish(r) /\ UNCHANGED << granted, parent, verification >>
      /\ reset' = [reset EXCEPT ![req[r].with] = "revoked"]
      /\ password' = password + 1 /\ attempts' = 0 /\ locked' = FALSE
  BY DEF ResetCommit
<1>3. Moved(r) /\ Known(r)'
  BY <1>1, <1>2, FinishMoves
<1>4. Monotone /\ ParentsSpent'
  BY <1>1, <1>2, RevokeAllType DEF Monotone, verification
<1>5. TypeOK'
  <2>1. /\ password' \in Nat /\ attempts' \in Nat /\ locked' \in BOOLEAN
        /\ token' \in [Tokens -> TokenStatus]
    <3>1. password' \in Nat /\ attempts' \in Nat
      BY <1>1, <1>2 DEF TypeOK
    <3>2. token' \in [Tokens -> TokenStatus]
      BY <1>1, <1>2, RevokeAllType
    <3>3. locked' \in BOOLEAN
      BY <1>2
    <3>4. QED
      BY <3>1, <3>2, <3>3
  <2>2. reset' \in [Resets -> TokenStatus]
    <3> PICK x \in Resets : x = req[r].with
      BY <1>1
    <3>1. reset' = [reset EXCEPT ![x] = "revoked"] /\ reset \in [Resets -> TokenStatus]
      BY <1>1, <1>2 DEF TypeOK
    <3>2. QED
      BY <3>1 DEF TokenStatus
  <2>3. QED
    BY <1>1, <1>2, <1>3, <2>1, <2>2 DEF TypeOK, Moved, Places, verification
<1>6. QED
  BY <1>3, <1>4, <1>5, StepKeeps DEF Moved

LEMMA SendType ==
  ASSUME TypeOK, SendVerification
  PROVE  /\ mail' \in [Verifications -> MailType \union {None}]
         /\ \A v \in Verifications : mail[v] \in MailType => mail'[v] \in MailType
         /\ UNCHANGED << email, verified >>
  BY DEF TypeOK, SendVerification, MailType

LEMMA VerificationWritesKeep ==
  ASSUME Inv, NEW r \in Requests, VerifyCommit(r) \/ ChangeWrite(r) \/ ChangeMail(r)
  PROVE  Inv'
<1>1. TypeOK /\ Known(r) /\ pc[r] # "idle" /\ UNCHANGED << login, sessions, reset >>
  BY DEF Inv, VerifyCommit, ChangeWrite, ChangeMail, At
<1>2. /\ mail' \in [Verifications -> MailType \union {None}]
      /\ \A v \in Verifications : mail[v] \in MailType => mail'[v] \in MailType
      /\ email' \in Addresses /\ verified' \in BOOLEAN
      /\ Moved(r)
  <2>1. CASE VerifyCommit(r)
    <3> PICK v \in Verifications : v = req[r].with /\ mail[v] \in MailType
      BY <1>1, <2>1 DEF Known, VerifyCommit, At
    <3>1. /\ mail' = [mail EXCEPT ![v] = [mail[v] EXCEPT !.used = TRUE]]
          /\ verified' = TRUE /\ email' = email /\ Finish(r)
      BY <2>1 DEF VerifyCommit
    <3>2. mail[v] \in MailType /\ [mail[v] EXCEPT !.used = TRUE] \in MailType
      BY <1>1 DEF TypeOK, MailType
    <3>3. mail'[v] \in MailType
      BY <3>1, <3>2, <1>1 DEF TypeOK
    <3>4. QED
      BY <1>1, <3>1, <3>2, <3>3, FinishMoves DEF TypeOK
  <2>2. CASE ChangeWrite(r)
    BY <1>1, <2>2, GotoMoves DEF ChangeWrite, At, Known, TypeOK, Places
  <2>3. CASE ChangeMail(r)
    BY <1>1, <2>3, SendType, FinishMoves DEF ChangeMail, TypeOK, verification
  <2>4. QED
    BY <2>1, <2>2, <2>3
<1>3. Known(r)'
  BY <1>1, FinishMoves, GotoMoves DEF VerifyCommit, ChangeWrite, ChangeMail, At, Known, Places, sessions
<1>4. Monotone /\ ParentsSpent'
  BY <1>1, <1>2 DEF Inv, Monotone, ParentsSpent, sessions, Spent
<1>5. TypeOK'
  BY <1>1, <1>2 DEF TypeOK, Moved, Places, login, sessions
<1>6. QED
  BY <1>2, <1>3, <1>4, <1>5, StepKeeps DEF Moved

-----------------------------------------------------------------------------
(* Steps outside the handlers *)

LEMMA OutsideKeeps ==
  ASSUME Inv, UNCHANGED handlers, TypeOK', Monotone, ParentsSpent'
  PROVE  Inv'
  BY KnownKeeps DEF Inv, handlers

LEMMA TokensKeep ==
  ASSUME Inv,
         \/ LogoutAll
         \/ \E t \in Tokens : Logout(t) \/ Expire(t)
  PROVE  Inv'
<1>1. TypeOK /\ ParentsSpent /\ UNCHANGED << login, granted, parent, reset, verification, handlers >>
  BY DEF Inv, LogoutAll, Logout, Expire
<1>2. /\ token' \in [Tokens -> TokenStatus]
      /\ \A u \in Tokens : token[u] \in Spent => token'[u] \in Spent
      /\ \A u \in Tokens : token[u] = "live" => token'[u] \in Spent \union {"live"}
  <2>1. CASE LogoutAll
    BY <1>1, <2>1, RevokeAllType DEF LogoutAll
  <2>2. ASSUME NEW t \in Tokens, Logout(t) \/ Expire(t)
        PROVE  /\ token' \in [Tokens -> TokenStatus]
               /\ \A u \in Tokens : token[u] \in Spent => token'[u] \in Spent
               /\ \A u \in Tokens : token[u] = "live" => token'[u] \in Spent \union {"live"}
    BY <1>1, <2>2 DEF Logout, Expire, TypeOK, TokenStatus, Spent
  <2>3. QED
    BY <2>1, <2>2
<1>3. TypeOK'
  BY <1>1, <1>2 DEF TypeOK, login, verification, handlers
<1>4. Monotone
  BY <1>1, <1>2 DEF Monotone, verification
<1>5. ParentsSpent'
  BY <1>1, <1>2 DEF TypeOK, ParentsSpent
<1>6. QED
  BY <1>1, <1>3, <1>4, <1>5, OutsideKeeps

LEMMA OthersKeep ==
  ASSUME Inv,
         \/ LockExpires \/ Resend \/ UNCHANGED vars
         \/ \E x \in Resets : Forgot(x) \/ ResetExpires(x)
  PROVE  Inv'
<1>1. TypeOK /\ ParentsSpent /\ UNCHANGED << sessions, handlers >>
  BY DEF Inv, LockExpires, Resend, Forgot, ResetExpires, vars
<1>2. /\ mail' \in [Verifications -> MailType \union {None}]
      /\ \A v \in Verifications : mail[v] \in MailType => mail'[v] \in MailType
  BY <1>1, SendType DEF TypeOK, LockExpires, Resend, Forgot, ResetExpires, vars, verification
<1>3. /\ reset' \in [Resets -> TokenStatus] /\ UNCHANGED << password, attempts, email, verified >>
      /\ locked' \in BOOLEAN
  BY <1>1, SendType
  DEF TypeOK, TokenStatus, LockExpires, Resend, Forgot, ResetExpires, vars, login, verification
<1>4. TypeOK'
  BY <1>1, <1>2, <1>3 DEF TypeOK, sessions, handlers
<1>5. Monotone /\ ParentsSpent'
  BY <1>1, <1>2 DEF Monotone, ParentsSpent, sessions
<1>6. QED
  BY <1>1, <1>4, <1>5, OutsideKeeps

LEMMA AbortKeeps ==
  ASSUME Inv, NEW r \in Requests, Abort(r)
  PROVE  Inv'
<1>1. TypeOK /\ UNCHANGED << login, sessions, reset, verification >>
  BY DEF Inv, Abort
<1>2. Moved(r) /\ Known(r)'
  BY <1>1, FinishMoves DEF Abort
<1>3. TypeOK'
  BY <1>1, <1>2 DEF TypeOK, Moved, Places, login, sessions, verification
<1>4. QED
  BY <1>1, <1>2, <1>3, QuietKeeps DEF verification

LEMMA NextKeeps ==
  ASSUME Inv, [Next]_vars
  PROVE  Inv'
<1>1. ASSUME NEW r \in Requests, Arrive(r) PROVE Inv'
  BY <1>1, ArriveKeeps
<1>2. ASSUME NEW r \in Requests, Proceed(r) PROVE Inv'
  BY <1>2, LoginWritesKeep, RevokeKeeps, IssueKeeps, ResetCommitKeeps, VerificationWritesKeep
  DEF Proceed
<1>3. ASSUME NEW r \in Requests, Abort(r) PROVE Inv'
  BY <1>3, AbortKeeps
<1>4. ASSUME Single \/ Time \/ UNCHANGED vars PROVE Inv'
  BY <1>4, TokensKeep, OthersKeep DEF Single, Time
<1>5. QED
  BY <1>1, <1>2, <1>3, <1>4 DEF Next

LEMMA InvHolds == Spec => []Inv
  BY InitInv, NextKeeps, PTL DEF Spec

-----------------------------------------------------------------------------
(* Theorems *)

\* Every row and every handler keeps its type.
THEOREM TypeCorrect == Spec => []TypeOK
<1>1. Inv => TypeOK
  BY DEF Inv
<1>2. QED
  BY <1>1, InvHolds, PTL

\* A refresh token that was exchanged for another is never live again, however
\* many handlers exchange it at once (refresh, issueTokens, logout, reset).
THEOREM ExchangedRevoked == Spec => []ExchangedIsRevoked
<1>1. Inv => ExchangedIsRevoked
  BY DEF Inv, ParentsSpent, Spent, ExchangedIsRevoked
<1>2. QED
  BY <1>1, InvHolds, PTL

-----------------------------------------------------------------------------
(* Handlers one at a time *)

Solitary == \A q, r \in Requests : pc[q] # "idle" /\ pc[r] # "idle" => q = r

\* A handler that runs alone was called under the password as it is, and a
\* login found the account open.
Fresh(r) ==
  pc[r] # "idle" =>
    /\ req[r].under = password
    /\ At(r, "write", "login") => ~ locked

Undisturbed ==
  /\ Solitary
  /\ \A r \in Requests : Fresh(r)
  /\ \A t \in Tokens : token[t] = "live" => granted[t] = password

Current == ~ disturbed => Undisturbed

mcVars == << vars, disturbed, calls >>

MCStep == [MCNext \/ MCLost]_mcVars

LEMMA InitCurrent == MCInit => Inv /\ Current
<1> SUFFICES ASSUME MCInit PROVE Inv /\ Current
  OBVIOUS
<1>1. Init
  BY DEF MCInit
<1>2. Undisturbed
  BY <1>1 DEF Init, Undisturbed, Solitary, Fresh
<1>3. QED
  BY <1>1, <1>2, InitInv DEF Current

LEMMA StepIsNext == MCStep => [Next]_vars
  BY DEF MCStep, mcVars, MCNext, MCLost, Next

\* Called alone.
LEMMA ArriveFresh ==
  ASSUME Inv, Undisturbed, NEW r \in Requests, Arrive(r), Solitary'
  PROVE  Undisturbed'
<1>1. TypeOK
  BY DEF Inv
<1>2. PICK op, with : Begin(r, op, with) /\ (op = "login" => ~ locked)
  BY DEF Arrive, LoginCall, LoginOpen, RefreshCall, ResetCall, VerifyCall, ChangeCall
<1>3. /\ pc'[r] = "write" /\ \A q \in Requests \ {r} : pc'[q] = "idle"
      /\ req'[r].under = password /\ req'[r].op = op
      /\ UNCHANGED << password, locked, token, granted >>
  BY <1>1, <1>2 DEF TypeOK, Begin, Solitary, login, sessions
<1>4. \A q \in Requests : Fresh(q)'
  BY <1>2, <1>3 DEF Fresh, At
<1>5. QED
  BY <1>3, <1>4 DEF Undisturbed

\* Whoever finishes leaves no handler behind.
LEMMA FinishFresh ==
  ASSUME Inv, Solitary, NEW r \in Requests, pc[r] # "idle", Finish(r)
  PROVE  Solitary' /\ \A q \in Requests : Fresh(q)'
<1>1. \A q \in Requests : pc'[q] = "idle"
  BY DEF Inv, TypeOK, Solitary, Finish
<1>2. QED
  BY <1>1 DEF Solitary, Fresh

\* A login that went well and a refresh issue a token under the password that
\* they found; nothing but their own step to "issue" came in between.
LEMMA ProceedFresh ==
  ASSUME Inv, Undisturbed, NEW r \in Requests, Proceed(r)
  PROVE  Undisturbed'
<1>1. TypeOK /\ pc[r] # "idle" /\ req[r].under = password
  BY DEF Inv, Undisturbed, Fresh, Proceed, LoginFails, LoginSucceeds, Revoke, Issue,
         ResetCommit, VerifyCommit, ChangeWrite, ChangeMail, At
<1>2. ASSUME Finish(r), password' = password,
             \A t \in Tokens : token'[t] = "live" =>
               \/ token[t] = "live" /\ granted'[t] = granted[t]
               \/ granted'[t] = password
      PROVE  Undisturbed'
  BY <1>1, <1>2, FinishFresh DEF Undisturbed
<1>3. ASSUME NEW there \in Places \ { "write" }, Goto(r, there), password' = password,
             granted' = granted,
             \A t \in Tokens : token'[t] = "live" => token[t] = "live"
      PROVE  Undisturbed'
  <2>1. /\ pc'[r] = there /\ req'[r] = req[r]
        /\ \A q \in Requests \ {r} : pc'[q] = "idle"
    BY <1>1, <1>3 DEF TypeOK, Goto, Undisturbed, Solitary
  <2>2. Solitary' /\ \A q \in Requests : Fresh(q)'
    BY <1>1, <1>3, <2>1 DEF Solitary, Fresh, At
  <2>3. QED
    BY <1>3, <2>2 DEF Undisturbed
<1>4. CASE LoginFails(r)
  BY <1>2, <1>4 DEF LoginFails, sessions
<1>5. CASE LoginSucceeds(r)
  BY <1>3, <1>5 DEF LoginSucceeds, sessions, Places
<1>6. CASE Revoke(r)
  <2>1. \A t \in Tokens : token'[t] = "live" => token[t] = "live"
    BY <1>1, <1>6 DEF Revoke, TypeOK
  <2>2. QED
    BY <1>2, <1>3, <1>6, <2>1 DEF Revoke, login, Places
<1>7. CASE Issue(r)
  <2> PICK u \in Tokens :
        /\ token'   = [token   EXCEPT ![u] = "live"]
        /\ granted' = [granted EXCEPT ![u] = req[r].under]
    BY <1>7 DEF Issue
  <2>1. \A t \in Tokens : token'[t] = "live" =>
          \/ token[t] = "live" /\ granted'[t] = granted[t]
          \/ granted'[t] = password
    BY <1>1 DEF TypeOK
  <2>2. QED
    BY <1>2, <1>7, <2>1 DEF Issue, login
<1>8. CASE ResetCommit(r)
  <2>1. \A t \in Tokens : token'[t] # "live"
    BY <1>8 DEF ResetCommit, RevokeAll
  <2>2. Solitary' /\ \A q \in Requests : Fresh(q)'
    BY <1>1, <1>8, FinishFresh DEF ResetCommit, Undisturbed
  <2>3. QED
    BY <2>1, <2>2 DEF Undisturbed
<1>9. CASE VerifyCommit(r) \/ ChangeMail(r)
  BY <1>2, <1>9 DEF VerifyCommit, ChangeMail, login, sessions
<1>10. CASE ChangeWrite(r)
  BY <1>3, <1>10 DEF ChangeWrite, login, sessions, Places
<1>11. QED
  BY <1>4, <1>5, <1>6, <1>7, <1>8, <1>9, <1>10 DEF Proceed

\* Statements of their own, and time, make no token live and lock nothing.
LEMMA OutsideFresh ==
  ASSUME Inv, Undisturbed, Single \/ Time \/ UNCHANGED vars
  PROVE  Undisturbed'
<1>1. UNCHANGED << password, granted, handlers >> /\ (locked' => locked)
  BY DEF Single, Time, Logout, LogoutAll, Forgot, Resend, LockExpires, Expire, ResetExpires,
         vars, login, sessions
<1>2. \A t \in Tokens : token'[t] = "live" => token[t] = "live"
  BY DEF Inv, TypeOK, Single, Time, Logout, LogoutAll, Forgot, Resend, LockExpires, Expire,
         ResetExpires, vars, sessions, RevokeAll
<1>3. QED
  BY <1>1, <1>2 DEF Undisturbed, Solitary, Fresh, At, handlers

LEMMA NextCurrent ==
  ASSUME Inv, Current, MCStep
  PROVE  Current'
<1> SUFFICES ASSUME ~ disturbed' PROVE Undisturbed'
  BY DEF Current
<1>1. CASE UNCHANGED mcVars
  BY <1>1, OutsideFresh DEF mcVars, Current
<1>2. CASE MCNext
  <2>1. ~ disturbed /\ Solitary'
    <3>1. ~ disturbed /\ ~ Overlapping'
      BY <1>2 DEF MCNext
    <3>2. QED
      BY <3>1 DEF Overlapping, Busy, Solitary
  <2>2. Undisturbed
    BY <2>1 DEF Current
  <2>3. QED
    BY <1>2, <2>1, <2>2, ArriveFresh, ProceedFresh, OutsideFresh DEF MCNext
<1>3. CASE MCLost
  BY <1>3 DEF MCLost
<1>4. QED
  BY <1>1, <1>2, <1>3 DEF MCStep

LEMMA CurrentHolds == MCSpec => [](Inv /\ Current)
<1>1. Inv /\ Current /\ [MCNext \/ MCLost]_<< vars, disturbed, calls >> => (Inv /\ Current)'
  BY NextKeeps, NextCurrent, StepIsNext DEF MCStep, mcVars
<1>2. QED
  BY InitCurrent, <1>1, PTL DEF MCSpec

\* As long as handlers run one at a time and end, whoever holds a live session
\* logged in with the password as it is now: a reset closes the others, and no
\* exchange of tokens carries an older session on (resetPassword, refresh).
THEOREM SessionsCurrent == MCSpec => []SessionsAreCurrent
<1>1. Current => SessionsAreCurrent
  BY DEF Current, Undisturbed, SessionsAreCurrent
<1>2. QED
  BY <1>1, CurrentHolds, PTL

\* As long as handlers run one at a time, only a reset and time open an account
\* that was locked: no login writes over a lock that it did not see (login).
THEOREM LockHeld == MCSpec => LockHolds
<1> DEFINE Opened == ~ disturbed' /\ locked /\ ~ locked' => password' # password \/ LockExpires
<1>1. ASSUME Inv, Current, MCStep PROVE Opened
  <2> SUFFICES ASSUME ~ disturbed', locked, ~ locked', password' = password
               PROVE  LockExpires
    OBVIOUS
  <2>1. MCNext /\ ~ disturbed
    BY <1>1 DEF MCStep, mcVars, vars, login, MCNext, MCLost
  <2>2. \A r \in Requests : Fresh(r)
    BY <1>1, <2>1 DEF Current, Undisturbed
  <2>3. ASSUME NEW r \in Requests, Proceed(r) PROVE FALSE
    <3>1. ~ LoginFails(r) /\ ~ LoginSucceeds(r)
      BY <2>2 DEF LoginFails, LoginSucceeds, Fresh, At
    <3>2. ~ ResetCommit(r)
      BY <1>1 DEF ResetCommit, Inv, TypeOK
    <3>3. QED
      BY <2>3, <3>1, <3>2
      DEF Proceed, Revoke, Issue, VerifyCommit, ChangeWrite, ChangeMail, login
  <2>4. ASSUME NEW r \in Requests, Arrive(r) PROVE FALSE
    BY <2>4 DEF Arrive, LoginCall, RefreshCall, ResetCall, VerifyCall, ChangeCall, Begin, login
  <2>5. QED
    BY <2>1, <2>3, <2>4
    DEF MCNext, Single, Time, Logout, LogoutAll, Forgot, Resend, Expire, ResetExpires, login
<1>2. Inv /\ Current /\ [MCNext \/ MCLost]_<< vars, disturbed, calls >> => [Opened]_vars
  BY <1>1 DEF MCStep, mcVars
<1>3. QED
  BY <1>2, CurrentHolds, PTL DEF MCSpec, LockHolds
=============================================================================
