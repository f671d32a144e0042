----------------------------- MODULE WebSession -----------------------------
(***************************************************************************)
(* The session of one page of the web application (lib/api.ts and          *)
(* lib/auth-storage.ts): access and refresh token in the browser's         *)
(* storage, calls of the API that send the access token, and the refresh   *)
(* an UNAUTHORIZED answer asks for, one at a time for all calls.  What the *)
(* API answers goes through its guard, its exception filter and            *)
(* parseApiError before authRequest looks at the code.                     *)
(***************************************************************************)
EXTENDS Naturals

CONSTANTS
  Calls,        \* calls of authRequest that may be in flight at once
  MaxSessions   \* sessions that may be issued

Sessions == 1..MaxSessions

VARIABLES
  stored,    \* the session in the browser's storage, 0 if there is none
  issued,    \* the sessions issued so far
  expired,   \* sessions whose access token has expired
  live,      \* sessions whose refresh token is neither revoked nor expired
  active,    \* users.is_active
  ongoing,   \* ongoingRefresh: the session it sends the refresh token of, or 0
  pc,        \* where each call stands
  with,      \* the session whose access token it sent
  again      \* it was sent again after a refresh

server  == << issued, expired, live, active >>
page    == << stored, ongoing >>
calls   == << pc, with, again >>
vars    == << server, page, calls >>

TypeOK ==
  /\ stored \in Sessions \union {0} /\ issued \in Sessions \union {0}
  /\ expired \subseteq 1..issued /\ live \subseteq 1..issued
  /\ active \in BOOLEAN
  /\ ongoing \in Sessions \union {0}
  /\ pc    \in [Calls -> { "idle", "sent", "waiting" }]
  /\ with  \in [Calls -> Sessions \union {0}]
  /\ again \in [Calls -> BOOLEAN]

Init ==
  /\ stored = 0 /\ issued = 0 /\ ongoing = 0
  /\ expired = {} /\ live = {} /\ active = TRUE
  /\ pc    = [c \in Calls |-> "idle"]
  /\ with  = [c \in Calls |-> 0]
  /\ again = [c \in Calls |-> FALSE]

-----------------------------------------------------------------------------
(* The API *)

\* JwtAuthGuard: passport rejects an expired token itself, with Nest's plain
\* UnauthorizedException, before JwtStrategy.validate looks at the user.
Thrown(s) ==
  IF s \in expired THEN "no code" ELSE IF active THEN "nothing" ELSE "UNAUTHORIZED"

\* HttpExceptionFilter: the code of the exception, or INTERNAL_ERROR.
Body(thrown) == IF thrown = "no code" THEN "INTERNAL_ERROR" ELSE thrown

\* parseApiError, for an answer with status 401.
Parsed(body) == IF body = "UNAUTHORIZED" THEN "UNAUTHORIZED" ELSE "SESSION_EXPIRED"

\* AuthService.refresh and issueTokens.
Refreshable(s) == s \in live /\ active

Age        == \E s \in 1..issued : expired' = expired \union {s} /\ UNCHANGED << issued, live, active >>
Revoke     == \E s \in live : live' = live \ {s} /\ UNCHANGED << issued, expired, active >>
Deactivate == active /\ active' = FALSE /\ UNCHANGED << issued, expired, live >>

-----------------------------------------------------------------------------
(* The page *)

Store(s) == stored' = s
Clear    == stored' = 0

\* The login form.
Login ==
  /\ active /\ stored = 0 /\ issued < MaxSessions
  /\ issued' = issued + 1 /\ live' = live \union {issued + 1}
  /\ Store(issued + 1)
  /\ UNCHANGED << expired, active, ongoing, calls >>

\* The logout button tells the API nothing.
Logout == Clear /\ UNCHANGED << ongoing, server, calls >>

\* Without a stored token authRequest throws and changes nothing.
Call(c) ==
  /\ pc[c] = "idle" /\ stored # 0
  /\ pc'    = [pc    EXCEPT ![c] = "sent"]
  /\ with'  = [with  EXCEPT ![c] = stored]
  /\ again' = [again EXCEPT ![c] = FALSE]
  /\ UNCHANGED << page, server >>

End(c) == pc' = [pc EXCEPT ![c] = "idle"] /\ UNCHANGED << with, again >>

\* The call is answered, or an error is thrown that nobody retries.
Answered(c) ==
  LET thrown == Thrown(with[c]) IN
  /\ pc[c] = "sent"
  /\ thrown = "nothing" \/ again[c] \/ Parsed(Body(thrown)) # "UNAUTHORIZED"
  /\ End(c)
  /\ UNCHANGED << page, server >>

Unreachable(c) == pc[c] = "sent" /\ End(c) /\ UNCHANGED << page, server >>

\* refreshAuthSession(true): waits for the refresh under way or starts one.
AskRefresh(c) ==
  LET thrown == Thrown(with[c]) IN
  /\ pc[c] = "sent" /\ ~ again[c]
  /\ thrown # "nothing" /\ Parsed(Body(thrown)) = "UNAUTHORIZED"
  /\ IF stored = 0
     THEN End(c) /\ UNCHANGED ongoing
     ELSE /\ pc' = [pc EXCEPT ![c] = "waiting"] /\ UNCHANGED << with, again >>
          /\ ongoing' = IF ongoing = 0 THEN stored ELSE ongoing
  /\ UNCHANGED << stored, server >>

\* Calls that waited are sent again with the new token.
Refreshed ==
  /\ ongoing # 0 /\ Refreshable(ongoing) /\ issued < MaxSessions
  /\ issued' = issued + 1 /\ live' = (live \ {ongoing}) \union {issued + 1}
  /\ Store(issued + 1) /\ ongoing' = 0
  /\ pc'    = [c \in Calls |-> IF pc[c] = "waiting" THEN "sent" ELSE pc[c]]
  /\ with'  = [c \in Calls |-> IF pc[c] = "waiting" THEN issued + 1 ELSE with[c]]
  /\ again' = [c \in Calls |-> again[c] \/ pc[c] = "waiting"]
  /\ UNCHANGED << expired, active >>

\* A refusal ends the session in the page, and so does an answer that is lost.
RefreshFails ==
  /\ ongoing # 0
  /\ Clear /\ ongoing' = 0
  /\ pc' = [c \in Calls |-> IF pc[c] = "waiting" THEN "idle" ELSE pc[c]]
  /\ UNCHANGED << with, again, server >>

Next ==
  \/ Login \/ Logout \/ Refreshed \/ RefreshFails
  \/ \E c \in Calls : Call(c) \/ Answered(c) \/ Unreachable(c) \/ AskRefresh(c)
  \/ (Age \/ Revoke \/ Deactivate) /\ UNCHANGED << page, calls >>

Spec == Init /\ [][Next]_vars

-----------------------------------------------------------------------------
\* A call whose access token has expired does not end before a refresh, as long
\* as its session is the stored one and could be refreshed (authRequest, and
\* the code JwtStrategy gives for an 'Invalid or expired access token').
ExpiredIsRefreshed ==
  [][\A c \in Calls :
       /\ Answered(c) /\ with[c] \in expired /\ ~ again[c]
       => ~ (stored = with[c] /\ Refreshable(with[c]))]_vars
=============================================================================
