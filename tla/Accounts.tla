------------------------------ MODULE Accounts ------------------------------
(***************************************************************************)
(* The account of one user in AuthService and EmailVerificationService:    *)
(* failed logins and the lock, refresh tokens and their rotation, password *)
(* resets, and the verification of the email address.  Every handler reads *)
(* first and writes in later statements; nothing is locked in between.     *)
(***************************************************************************)
EXTENDS Naturals

CONSTANTS
  Tokens,             \* refresh tokens that may be issued
  Resets,             \* password reset tokens that may be mailed
  Verifications,      \* email verification tokens that may be mailed
  Addresses,          \* email addresses the user may have
  MAX_FAILED_LOGINS,  \* failures in a row that lock the account
  Requests,           \* handlers that may be in flight at once
  None                \* no row, no handler

VARIABLES
  password,   \* how often the password was changed
  attempts,   \* users.failed_login_attempts
  locked,     \* users.locked_until is set and has not passed
  token,      \* refresh_tokens: "live", "revoked", or "gone" after the cleanup
  reset,      \* password_reset_tokens: "live", "revoked" (used), or "gone" (expired)
  email,      \* users.email
  verified,   \* users.is_verified
  mail,       \* email_verification_tokens: the address it was mailed to, and whether it is used
  granted,    \* history variable: the password each refresh token was issued under
  parent,     \* history variable: the refresh token each was exchanged for
  pc,         \* where each handler stands
  req         \* what it was called with and what it read

login        == << password, attempts, locked >>
sessions     == << token, granted, parent >>
verification == << email, verified, mail >>
handlers     == << pc, req >>
vars         == << login, sessions, reset, verification, handlers >>

TokenStatus == { "new", "live", "revoked", "gone" }

MailType == [ to : Addresses, used : BOOLEAN ]

\* Numbers are what a login read: the failures so far and the password.
RequestType ==
  [ op : { "login", "refresh", "reset", "verify", "change" }, with : Tokens \union Resets
      \union Verifications \union Addresses \union BOOLEAN, failed : Nat, under : Nat ]

TypeOK ==
  /\ password \in Nat /\ attempts \in Nat /\ locked \in BOOLEAN
  /\ token   \in [Tokens -> TokenStatus]
  /\ granted \in [Tokens -> Nat]
  /\ parent  \in [Tokens -> Tokens \union {None}]
  /\ reset   \in [Resets -> TokenStatus]
  /\ email \in Addresses /\ verified \in BOOLEAN
  /\ mail \in [Verifications -> MailType \union {None}]
  /\ pc   \in [Requests -> { "idle", "write", "issue", "mail" }]
  /\ req  \in [Requests -> RequestType \union {None}]

\* A registered user with a session, and the mail of register.
Init ==
  /\ password = 0 /\ attempts = 0 /\ locked = FALSE
  /\ \E t \in Tokens : token = [u \in Tokens |-> IF u = t THEN "live" ELSE "new"]
  /\ granted = [t \in Tokens |-> 0]
  /\ parent  = [t \in Tokens |-> None]
  /\ reset   = [x \in Resets |-> "new"]
  /\ email \in Addresses /\ verified = FALSE
  /\ \E v \in Verifications :
       mail = [w \in Verifications |-> IF w = v THEN [ to |-> email, used |-> FALSE ] ELSE None]
  /\ pc  = [r \in Requests |-> "idle"]
  /\ req = [r \in Requests |-> None]

Begin(r, op, with) ==
  /\ pc[r] = "idle"
  /\ pc'  = [pc  EXCEPT ![r] = "write"]
  /\ req' = [req EXCEPT ![r] =
               [ op |-> op, with |-> with, failed |-> attempts, under |-> password ]]
  /\ UNCHANGED << login, sessions, reset, verification >>

Goto(r, to) == pc' = [pc EXCEPT ![r] = to] /\ UNCHANGED req

Finish(r) ==
  /\ pc'  = [pc  EXCEPT ![r] = "idle"]
  /\ req' = [req EXCEPT ![r] = None]

At(r, at, op) == pc[r] = at /\ req[r].op = op

-----------------------------------------------------------------------------
(* login *)

LoginOpen_Unlocked == TRUE

LoginOpen == ~ locked

\* The user is read, with the password that is right or wrong by then.
LoginCall(r, right) == LoginOpen /\ Begin(r, "login", right)

\* A failure writes the count it read plus one, and with it the lock or none.
LoginFails(r) ==
  /\ At(r, "write", "login") /\ ~ req[r].with
  /\ attempts' = req[r].failed + 1
  /\ locked' = (req[r].failed + 1 >= MAX_FAILED_LOGINS)
  /\ Finish(r)
  /\ UNCHANGED << password, sessions, reset, verification >>

LoginSucceeds(r) ==
  /\ At(r, "write", "login") /\ req[r].with
  /\ attempts' = 0
  /\ locked' = FALSE
  /\ Goto(r, "issue")
  /\ UNCHANGED << password, sessions, reset, verification >>

LockExpires ==
  /\ locked
  /\ locked' = FALSE
  /\ UNCHANGED << password, attempts, sessions, reset, verification, handlers >>

-----------------------------------------------------------------------------
(* refresh, logout, logoutAll *)

RefreshCall(r, t) == token[t] = "live" /\ Begin(r, "refresh", t)

\* The update names the row by its id: one cleaned up by now throws.
Revoke(r) ==
  LET t == req[r].with IN
  /\ At(r, "write", "refresh")
  /\ IF token[t] = "gone"
     THEN Finish(r) /\ UNCHANGED token
     ELSE Goto(r, "issue") /\ token' = [token EXCEPT ![t] = "revoked"]
  /\ UNCHANGED << login, granted, parent, reset, verification >>

\* issueTokens, for a login and for a refresh.
Issue(r) ==
  /\ pc[r] = "issue"
  /\ \E t \in Tokens :
       /\ token[t] = "new"
       /\ token'   = [token   EXCEPT ![t] = "live"]
       /\ granted' = [granted EXCEPT ![t] = req[r].under]
       /\ parent'  = [parent  EXCEPT ![t] = IF req[r].op = "refresh" THEN req[r].with ELSE None]
  /\ Finish(r)
  /\ UNCHANGED << login, reset, verification >>

RevokeAll == [t \in Tokens |-> IF token[t] = "live" THEN "revoked" ELSE token[t]]

Logout(t) ==
  /\ token[t] = "live"
  /\ token' = [token EXCEPT ![t] = "revoked"]
  /\ UNCHANGED << login, granted, parent, reset, verification, handlers >>

LogoutAll ==
  /\ \E t \in Tokens : token[t] = "live"
  /\ token' = RevokeAll
  /\ UNCHANGED << login, granted, parent, reset, verification, handlers >>

\* cleanupExpiredRefreshTokens deletes what has expired, revoked or not.
Expire(t) ==
  /\ token[t] \in { "live", "revoked" }
  /\ token' = [token EXCEPT ![t] = "gone"]
  /\ UNCHANGED << login, granted, parent, reset, verification, handlers >>

-----------------------------------------------------------------------------
(* forgotPassword, resetPassword *)

Forgot(x) ==
  /\ reset[x] = "new"
  /\ reset' = [reset EXCEPT ![x] = "live"]
  /\ UNCHANGED << login, sessions, verification, handlers >>

ResetCall(r, x) == reset[x] = "live" /\ Begin(r, "reset", x)

ResetCommit_KeepSessions(r) ==
  /\ At(r, "write", "reset")
  /\ password' = password + 1 /\ attempts' = 0 /\ locked' = FALSE
  /\ reset' = [reset EXCEPT ![req[r].with] = "revoked"]
  /\ Finish(r)
  /\ UNCHANGED << sessions, verification >>

\* The password, the used token and every session, in one transaction that
\* does not ask again whether the token was used meanwhile.
ResetCommit(r) ==
  /\ At(r, "write", "reset")
  /\ password' = password + 1 /\ attempts' = 0 /\ locked' = FALSE
  /\ reset' = [reset EXCEPT ![req[r].with] = "revoked"]
  /\ token' = RevokeAll
  /\ Finish(r)
  /\ UNCHANGED << granted, parent, verification >>

\* One hour later nobody can use it.
ResetExpires(x) ==
  /\ reset[x] = "live"
  /\ reset' = [reset EXCEPT ![x] = "gone"]
  /\ UNCHANGED << login, sessions, verification, handlers >>

-----------------------------------------------------------------------------
(* verifyEmail, sendVerificationEmail, requestEmailChange *)

VerifyCall(r, v) ==
  /\ mail[v] # None /\ ~ mail[v].used
  /\ Begin(r, "verify", v)

\* The user is verified whatever address the mail went to.
VerifyCommit(r) ==
  /\ At(r, "write", "verify")
  /\ verified' = TRUE
  /\ mail' = [mail EXCEPT ![req[r].with].used = TRUE]
  /\ Finish(r)
  /\ UNCHANGED << login, sessions, reset, email >>

\* sendVerificationEmail: a token is stored and mailed to the address of an
\* unverified user.
SendVerification ==
  /\ ~ verified
  /\ \E v \in Verifications :
       /\ mail[v] = None
       /\ mail' = [mail EXCEPT ![v] = [ to |-> email, used |-> FALSE ]]
  /\ UNCHANGED << email, verified >>

Resend == SendVerification /\ UNCHANGED << login, sessions, reset, handlers >>

ChangeCall(r, a) == Begin(r, "change", a)

\* The address changes and is unverified; the earlier tokens stay.
ChangeWrite(r) ==
  /\ At(r, "write", "change")
  /\ email' = req[r].with
  /\ verified' = FALSE
  /\ Goto(r, "mail")
  /\ UNCHANGED << login, sessions, reset, mail >>

ChangeMail(r) ==
  /\ pc[r] = "mail"
  /\ SendVerification \/ (verified /\ UNCHANGED verification)
  /\ Finish(r)
  /\ UNCHANGED << login, sessions, reset >>

-----------------------------------------------------------------------------

\* The process stops: the rest of the handler never runs.
Abort(r) ==
  /\ pc[r] # "idle"
  /\ Finish(r)
  /\ UNCHANGED << login, sessions, reset, verification >>

Arrive(r) ==
  \/ \E right \in BOOLEAN : LoginCall(r, right)
  \/ \E t \in Tokens : RefreshCall(r, t)
  \/ \E x \in Resets : ResetCall(r, x)
  \/ \E v \in Verifications : VerifyCall(r, v)
  \/ \E a \in Addresses : ChangeCall(r, a)

Proceed(r) ==
  \/ LoginFails(r) \/ LoginSucceeds(r) \/ Revoke(r) \/ Issue(r)
  \/ ResetCommit(r) \/ VerifyCommit(r) \/ ChangeWrite(r) \/ ChangeMail(r)

\* Handlers of one statement.
Single ==
  \/ \E t \in Tokens : Logout(t)
  \/ LogoutAll
  \/ \E x \in Resets : Forgot(x)
  \/ Resend

Time ==
  \/ LockExpires
  \/ \E t \in Tokens : Expire(t)
  \/ \E x \in Resets : ResetExpires(x)

Next ==
  \/ \E r \in Requests : Arrive(r)
  \/ \E r \in Requests : Proceed(r)
  \/ \E r \in Requests : Abort(r)
  \/ Single
  \/ Time

Spec == Init /\ [][Next]_vars

-----------------------------------------------------------------------------
(* Properties *)

\* A refresh token that was exchanged for another is never live again, also
\* when two handlers exchange it at once (refresh revokes before it issues).
ExchangedIsRevoked ==
  \A t \in Tokens : parent[t] # None => token[parent[t]] # "live"
=============================================================================
