----------------------------- MODULE MCAccounts -----------------------------
(***************************************************************************)
(* An instance of Accounts for TLC: one user with a session and an unused  *)
(* verification mail, two handlers at once, MaxCalls calls.                *)
(***************************************************************************)
EXTENDS Accounts, TLC

CONSTANT MaxCalls   \* bounds the handlers called

VARIABLES
  disturbed,   \* history variable: two handlers were in flight at once, or one was lost
  calls        \* handlers called

Symmetry == Permutations(Tokens) \union Permutations(Verifications)
              \union Permutations(Addresses) \union Permutations(Requests)

Busy == { r \in Requests : pc[r] # "idle" }

Overlapping == \E r, s \in Busy : r # s

MCInit == Init /\ disturbed = FALSE /\ calls = 0

MCNext ==
  /\ \/ (\E r \in Requests : Arrive(r)) /\ calls < MaxCalls /\ calls' = calls + 1
     \/ Single /\ calls < MaxCalls /\ calls' = calls + 1
     \/ (\E r \in Requests : Proceed(r)) /\ UNCHANGED calls
     \/ Time /\ UNCHANGED calls
  /\ disturbed' = (disturbed \/ Overlapping' \/ (Single /\ Busy # {}))

MCLost ==
  /\ \E r \in Requests : Abort(r)
  /\ disturbed' = TRUE
  /\ UNCHANGED calls

MCSpec == MCInit /\ [][MCNext \/ MCLost]_<< vars, disturbed, calls >>

-----------------------------------------------------------------------------
\* As long as handlers run one at a time and end, every live session was
\* granted under the password as it is now: a reset closes the others.
SessionsAreCurrent ==
  ~ disturbed => \A t \in Tokens : token[t] = "live" => granted[t] = password

\* As long as handlers run one at a time, a locked account stays locked until
\* the lock expires or the password is reset, whoever logs in.
LockHolds ==
  [][~ disturbed' /\ locked /\ ~ locked' => password' # password \/ LockExpires]_vars
=============================================================================
