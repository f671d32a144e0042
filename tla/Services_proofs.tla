--------------------------- MODULE Services_proofs ---------------------------
(***************************************************************************)
(* Theorems about the four services of MCServices: the mail of an event,   *)
(* for any number of event keys and calls in flight, and the account of a  *)
(* user, the surroundings of a shipment and a truck listing, for any       *)
(* number of their rows and handlers.                                      *)
(***************************************************************************)
EXTENDS MCServices, FiniteSetTheorems, TLAPS

-----------------------------------------------------------------------------
(* The mail of an event *)

\* What the row of a key and its dispatcher owe each other.
Unclaimed(k) ==
  status[k] = None =>
    task[k] = "none" /\ message[k] = 0 /\ retries[k] = 0 /\ accepted[k] = {}

Released(k) == message[k] # 0 \/ status[k] = "failed" => task[k] = "none"

Counted(k) ==
  /\ task[k] \in { "send", "mark", "count" } => retries[k] = attempt[k]
  /\ task[k] = "count" => calls[k] = attempt[k] + 1
  /\ task[k] = "mark"  => calls[k] = attempt[k] + 1
  /\ task[k] = "wait" => retries[k] = attempt[k] + 1 /\ attempt[k] < MAX_RETRIES - 1
  /\ task[k] = "give_up" => retries[k] = MAX_RETRIES /\ calls[k] = MAX_RETRIES
  /\ status[k] = "failed" /\ message[k] = 0 => retries[k] = MAX_RETRIES /\ calls[k] = MAX_RETRIES

\* Whatever was taken so far is unsure while there is more to try; the mail that
\* is not is the one the provider named last.
Sure(k) ==
  /\ task[k] \in { "send", "count", "wait", "give_up" } => accepted[k] \subseteq unsure[k]
  /\ task[k] = "mark" => accepted[k] \ unsure[k] \subseteq { answer[k] }
  /\ \E m \in Messages \union {0} : accepted[k] \ unsure[k] \subseteq {m}

KeyOK(k) == Unclaimed(k) /\ Released(k) /\ Counted(k) /\ Sure(k)

\* QueuedIsHeld for one key.
Held(k) == status[k] = "queued" => task[k] # "none" \/ lost[k]

Inv == TypeOK /\ \A k \in Keys : KeyOK(k) /\ Held(k)

LEMMA InitInv == Init => Inv
<1> SUFFICES ASSUME Init PROVE Inv
  OBVIOUS
<1>1. TypeOK
  BY DEF Init, TypeOK, MAX_RETRIES
<1>2. ASSUME NEW k \in Keys PROVE KeyOK(k) /\ Held(k)
  <2>1. Unclaimed(k) /\ Released(k) /\ Counted(k) /\ Held(k)
    BY ConstantsAssumption DEF Init, Unclaimed, Released, Counted, Held, LogStatus, Reports
  <2>2. task[k] = "none" /\ accepted[k] \ unsure[k] \subseteq {0} /\ 0 \in Messages \union {0}
    BY DEF Init
  <2>3. Sure(k)
    BY <2>2 DEF Sure
  <2>4. QED
    BY <2>1, <2>3 DEF KeyOK
<1>3. QED
  BY <1>1, <1>2 DEF Inv

-----------------------------------------------------------------------------
(* The steps of the dispatcher of a key, one lemma each *)

\* What a step of one key does to another: nothing.
Same(j) ==
  /\ status'[j] = status[j] /\ message'[j] = message[j] /\ retries'[j] = retries[j]
  /\ task'[j] = task[j] /\ attempt'[j] = attempt[j] /\ answer'[j] = answer[j]
  /\ accepted'[j] = accepted[j] /\ calls'[j] = calls[j] /\ unsure'[j] = unsure[j]
  /\ lost'[j] = lost[j]

LEMMA OneKey ==
  ASSUME Inv, NEW k \in Keys, TypeOK', \A j \in Keys \ {k} : Same(j),
         Unclaimed(k)', Released(k)', Counted(k)', Sure(k)', Held(k)'
  PROVE  Inv'
<1>1. ASSUME NEW j \in Keys PROVE KeyOK(j)' /\ Held(j)'
  <2>1. CASE j = k
    BY <2>1 DEF KeyOK
  <2>2. CASE j # k
    <3>1. KeyOK(j) /\ Held(j) /\ Same(j)
      BY <2>2 DEF Inv
    <3>2. Unclaimed(j)' /\ Released(j)' /\ Counted(j)' /\ Held(j)'
      BY <3>1 DEF KeyOK, Unclaimed, Released, Counted, Held, Same
    <3>3. Sure(j)'
      BY <3>1 DEF KeyOK, Sure, Same
    <3>4. QED
      BY <3>2, <3>3 DEF KeyOK
  <2>3. QED
    BY <2>1, <2>2
<1>2. QED
  BY <1>1 DEF Inv

LEMMA SkipKeeps ==
  ASSUME Inv, NEW k \in Keys, Skip(k)
  PROVE  Inv'
<1>1. TypeOK /\ KeyOK(k) /\ Held(k)
  BY DEF Inv
<1>2. TypeOK'
  BY <1>1 DEF TypeOK, KeyOK, Counted, Skip, Goto, settings, history, LogStatus, Reports, Messages, MAX_RETRIES
<1>3. \A j \in Keys \ {k} : Same(j)
  BY <1>1 DEF TypeOK, Skip, Goto, settings, history, Same
<1>4. Unclaimed(k)' /\ Released(k)' /\ Held(k)'
  BY <1>1, ConstantsAssumption
  DEF TypeOK, KeyOK, Unclaimed, Released, Held, Skip, Goto, settings, history, LogStatus, Reports
<1>5. Counted(k)'
  BY <1>1 DEF TypeOK, KeyOK, Counted, Released, Skip, Goto, settings, history, Reports, MAX_RETRIES
<1>6. Sure(k)'
  BY <1>1 DEF TypeOK, KeyOK, Sure, Released, Skip, Goto, settings, history, Messages, MAX_RETRIES
<1>7. QED
  BY <1>2, <1>3, <1>4, <1>5, <1>6, OneKey

LEMMA SendKeeps ==
  ASSUME Inv, NEW k \in Keys, Send(k)
  PROVE  Inv'
<1>1. TypeOK /\ KeyOK(k) /\ Held(k)
  BY DEF Inv
<1>2. TypeOK'
  BY <1>1 DEF TypeOK, KeyOK, Counted, Send, Goto, settings, log, LogStatus, Reports, Messages, MAX_RETRIES
<1>3. \A j \in Keys \ {k} : Same(j)
  BY <1>1 DEF TypeOK, Send, Goto, settings, log, Same
<1>4. Unclaimed(k)' /\ Released(k)' /\ Held(k)'
  BY <1>1, ConstantsAssumption
  DEF TypeOK, KeyOK, Unclaimed, Released, Held, Send, Goto, settings, log, LogStatus, Reports
<1>5. Counted(k)'
  BY <1>1 DEF TypeOK, KeyOK, Counted, Released, Send, Goto, settings, log, Reports, MAX_RETRIES
<1>6. Sure(k)'
  BY <1>1 DEF TypeOK, KeyOK, Sure, Released, Send, Goto, settings, log, Messages, MAX_RETRIES
<1>7. QED
  BY <1>2, <1>3, <1>4, <1>5, <1>6, OneKey

LEMMA MarkSentKeeps ==
  ASSUME Inv, NEW k \in Keys, MarkSent(k)
  PROVE  Inv'
<1>1. TypeOK /\ KeyOK(k) /\ Held(k)
  BY DEF Inv
<1>2. TypeOK'
  BY <1>1 DEF TypeOK, KeyOK, Counted, MarkSent, Goto, settings, LogStatus, Reports, Messages, MAX_RETRIES
<1>3. \A j \in Keys \ {k} : Same(j)
  BY <1>1 DEF TypeOK, MarkSent, Goto, settings, Same
<1>4. Unclaimed(k)' /\ Released(k)' /\ Held(k)'
  BY <1>1, ConstantsAssumption
  DEF TypeOK, KeyOK, Unclaimed, Released, Held, MarkSent, Goto, settings, LogStatus, Reports
<1>5. Counted(k)'
  BY <1>1 DEF TypeOK, KeyOK, Counted, Released, MarkSent, Goto, settings, Reports, MAX_RETRIES
<1>6. Sure(k)'
  BY <1>1 DEF TypeOK, KeyOK, Sure, Released, MarkSent, Goto, settings, Messages, MAX_RETRIES
<1>7. QED
  BY <1>2, <1>3, <1>4, <1>5, <1>6, OneKey

LEMMA CountRetryKeeps ==
  ASSUME Inv, NEW k \in Keys, CountRetry(k)
  PROVE  Inv'
<1>1. TypeOK /\ KeyOK(k) /\ Held(k)
  BY DEF Inv
<1>2. TypeOK'
  BY <1>1 DEF TypeOK, KeyOK, Counted, CountRetry, MoreAttempts, Goto, settings, history, LogStatus, Reports, Messages, MAX_RETRIES
<1>3. \A j \in Keys \ {k} : Same(j)
  BY <1>1 DEF TypeOK, CountRetry, MoreAttempts, Goto, settings, history, Same
<1>4. Unclaimed(k)' /\ Released(k)' /\ Held(k)'
  BY <1>1, ConstantsAssumption
  DEF TypeOK, KeyOK, Unclaimed, Released, Held, CountRetry, MoreAttempts, Goto, settings, history, LogStatus, Reports
<1>5. Counted(k)'
  BY <1>1 DEF TypeOK, KeyOK, Counted, Released, CountRetry, MoreAttempts, Goto, settings, history, Reports, MAX_RETRIES
<1>6. Sure(k)'
  BY <1>1 DEF TypeOK, KeyOK, Sure, Released, CountRetry, MoreAttempts, Goto, settings, history, Messages, MAX_RETRIES
<1>7. QED
  BY <1>2, <1>3, <1>4, <1>5, <1>6, OneKey

LEMMA TimerKeeps ==
  ASSUME Inv, NEW k \in Keys, Timer(k)
  PROVE  Inv'
<1>1. TypeOK /\ KeyOK(k) /\ Held(k)
  BY DEF Inv
<1>2. TypeOK'
  BY <1>1 DEF TypeOK, KeyOK, Counted, Timer, Goto, settings, history, log, LogStatus, Reports, Messages, MAX_RETRIES
<1>3. \A j \in Keys \ {k} : Same(j)
  BY <1>1 DEF TypeOK, Timer, Goto, settings, history, log, Same
<1>4. Unclaimed(k)' /\ Released(k)' /\ Held(k)'
  BY <1>1, ConstantsAssumption
  DEF TypeOK, KeyOK, Unclaimed, Released, Held, Timer, Goto, settings, history, log, LogStatus, Reports
<1>5. Counted(k)'
  BY <1>1 DEF TypeOK, KeyOK, Counted, Released, Timer, Goto, settings, history, log, Reports, MAX_RETRIES
<1>6. Sure(k)'
  BY <1>1 DEF TypeOK, KeyOK, Sure, Released, Timer, Goto, settings, history, log, Messages, MAX_RETRIES
<1>7. QED
  BY <1>2, <1>3, <1>4, <1>5, <1>6, OneKey

LEMMA GiveUpKeeps ==
  ASSUME Inv, NEW k \in Keys, GiveUp(k)
  PROVE  Inv'
<1>1. TypeOK /\ KeyOK(k) /\ Held(k)
  BY DEF Inv
<1>2. TypeOK'
  BY <1>1 DEF TypeOK, KeyOK, Counted, GiveUp, Goto, settings, history, LogStatus, Reports, Messages, MAX_RETRIES
<1>3. \A j \in Keys \ {k} : Same(j)
  BY <1>1 DEF TypeOK, GiveUp, Goto, settings, history, Same
<1>4. Unclaimed(k)' /\ Released(k)' /\ Held(k)'
  BY <1>1, ConstantsAssumption
  DEF TypeOK, KeyOK, Unclaimed, Released, Held, GiveUp, Goto, settings, history, LogStatus, Reports
<1>5. Counted(k)'
  BY <1>1 DEF TypeOK, KeyOK, Counted, Released, GiveUp, Goto, settings, history, Reports, MAX_RETRIES
<1>6. Sure(k)'
  BY <1>1 DEF TypeOK, KeyOK, Sure, Released, GiveUp, Goto, settings, history, Messages, MAX_RETRIES
<1>7. QED
  BY <1>2, <1>3, <1>4, <1>5, <1>6, OneKey

LEMMA LoseKeeps ==
  ASSUME Inv, NEW k \in Keys, Lose(k)
  PROVE  Inv'
<1>1. TypeOK /\ KeyOK(k) /\ Held(k)
  BY DEF Inv
<1>2. TypeOK'
  BY <1>1 DEF TypeOK, KeyOK, Counted, Lose, Goto, settings, log, LogStatus, Reports, Messages, MAX_RETRIES
<1>3. \A j \in Keys \ {k} : Same(j)
  BY <1>1 DEF TypeOK, Lose, Goto, settings, log, Same
<1>4. Unclaimed(k)' /\ Released(k)' /\ Held(k)'
  BY <1>1, ConstantsAssumption
  DEF TypeOK, KeyOK, Unclaimed, Released, Held, Lose, Goto, settings, log, LogStatus, Reports
<1>5. Counted(k)'
  BY <1>1 DEF TypeOK, KeyOK, Counted, Released, Lose, Goto, settings, log, Reports, MAX_RETRIES
<1>6. Sure(k)'
  BY <1>1 DEF TypeOK, KeyOK, Sure, Released, Lose, Goto, settings, log, Messages, MAX_RETRIES
<1>7. QED
  BY <1>2, <1>3, <1>4, <1>5, <1>6, OneKey

LEMMA WebhookKeeps ==
  ASSUME Inv, NEW k \in Keys, NEW m \in Messages, NEW report \in Reports, Webhook(k, m, report)
  PROVE  Inv'
<1> DEFINE Row == /\ message'[k] = message[k] /\ retries'[k] = retries[k] /\ task'[k] = task[k]
                  /\ attempt'[k] = attempt[k] /\ answer'[k] = answer[k] /\ accepted'[k] = accepted[k]
                  /\ calls'[k] = calls[k] /\ unsure'[k] = unsure[k] /\ lost'[k] = lost[k]
<1>1. TypeOK /\ KeyOK(k) /\ Held(k)
  BY DEF Inv
<1>2. TypeOK'
  BY <1>1 DEF TypeOK, Webhook, dispatcher, settings, history, LogStatus
<1>3. \A j \in Keys \ {k} : Same(j)
  BY <1>1 DEF TypeOK, Webhook, dispatcher, settings, history, Same
<1>4. Row /\ status'[k] = report /\ message[k] # 0 /\ report # "queued" /\ report # None
  BY <1>1, ConstantsAssumption
  DEF TypeOK, Webhook, dispatcher, settings, history, Messages, Reports, LogStatus, MAX_RETRIES
<1>5. Unclaimed(k)' /\ Released(k)' /\ Held(k)' /\ Counted(k)'
  BY <1>1, <1>4 DEF KeyOK, Unclaimed, Released, Held, Counted
<1>6. Sure(k)'
  BY <1>1, <1>4 DEF KeyOK, Sure
<1>7. QED
  BY <1>2, <1>3, <1>5, <1>6, OneKey

\* Only the call that inserts the row starts a dispatcher.
LEMMA ClaimKeeps ==
  ASSUME Inv, NEW r \in Requests, Claim(r)
  PROVE  Inv'
<1>1. TypeOK /\ caller[r] \in Keys
  BY DEF Inv, TypeOK, Claim
<1> PICK k \in Keys : caller[r] = k
  BY <1>1
<1>2. KeyOK(k) /\ Held(k)
  BY DEF Inv
<1>3. TypeOK'
  BY <1>1 DEF TypeOK, Claim, Goto, settings, history, LogStatus, MAX_RETRIES
<1>4. CASE Claimable(k)
  <2>1. \A j \in Keys \ {k} : Same(j)
    BY <1>1, <1>4 DEF TypeOK, Claim, Claimable, Goto, settings, history, Same
  <2>2. /\ status'[k] = "queued" /\ task'[k] = "send" /\ attempt'[k] = 0
        /\ message'[k] = 0 /\ retries'[k] = 0 /\ accepted'[k] = {}
    BY <1>1, <1>2, <1>4
    DEF TypeOK, KeyOK, Unclaimed, Claim, Claimable, Goto, settings, history
  <2>3. "queued" # None
    BY ConstantsAssumption DEF LogStatus
  <2>4. Unclaimed(k)' /\ Released(k)' /\ Held(k)' /\ Counted(k)'
    BY <2>2, <2>3 DEF Unclaimed, Released, Held, Counted
  <2>5. Sure(k)'
    BY <2>2 DEF Sure
  <2>6. QED
    BY <1>1, <1>3, <2>1, <2>4, <2>5, OneKey
<1>5. CASE ~ Claimable(k)
  <2>1. \A j \in Keys : Same(j)
    BY <1>5 DEF Claim, settings, history, Same
  <2>2. Unclaimed(k)' /\ Released(k)' /\ Held(k)' /\ Counted(k)' /\ Sure(k)'
    BY <1>2, <2>1 DEF KeyOK, Unclaimed, Released, Held, Counted, Sure, Same
  <2>3. QED
    BY <1>1, <1>3, <2>1, <2>2, OneKey
<1>6. QED
  BY <1>4, <1>5

\* A crash takes every dispatcher, and the history remembers whose.
LEMMA CrashKeeps ==
  ASSUME Inv, Crash
  PROVE  Inv'
<1>1. TypeOK'
  BY DEF Inv, TypeOK, Crash, log, settings
<1>2. ASSUME NEW k \in Keys PROVE KeyOK(k)' /\ Held(k)'
  <2>1. KeyOK(k) /\ Held(k)
    BY DEF Inv
  <2>2. /\ task'[k] = "none" /\ lost'[k] = (lost[k] \/ task[k] # "none")
        /\ UNCHANGED << status, message, retries, attempt, answer, accepted, calls, unsure >>
    BY DEF Crash, log, settings
  <2>3. Unclaimed(k)' /\ Released(k)' /\ Counted(k)' /\ Held(k)'
    BY <2>1, <2>2 DEF KeyOK, Unclaimed, Released, Counted, Held
  <2>4. Sure(k)'
    BY <2>1, <2>2 DEF KeyOK, Sure
  <2>5. QED
    BY <2>3, <2>4 DEF KeyOK
<1>3. QED
  BY <1>1, <1>2 DEF Inv

\* What leaves the log and the dispatchers alone.
LEMMA IdleKeeps ==
  ASSUME Inv, TypeOK', UNCHANGED << log, dispatcher, accepted, history >>
  PROVE  Inv'
  BY DEF Inv, KeyOK, Unclaimed, Released, Counted, Sure, Held, log, dispatcher, history

LEMMA NextKeeps ==
  ASSUME Inv, [Next]_vars
  PROVE  Inv'
<1>1. ASSUME NEW r \in Requests, NEW k \in Keys, Call(r, k) PROVE Inv'
  <2>1. TypeOK'
    BY <1>1 DEF Inv, TypeOK, Call, log, dispatcher, settings, history
  <2>2. QED
    BY <1>1, <2>1, IdleKeeps DEF Call
<1>2. ASSUME NEW r \in Requests, Claim(r) PROVE Inv'
  BY <1>2, ClaimKeeps
<1>3. ASSUME NEW k \in Keys, Dispatch(k) PROVE Inv'
  BY <1>3, SkipKeeps, SendKeeps, MarkSentKeeps, CountRetryKeeps, TimerKeeps, GiveUpKeeps
  DEF Dispatch
<1>4. ASSUME NEW k \in Keys, Lose(k) PROVE Inv'
  BY <1>4, LoseKeeps
<1>5. ASSUME NEW k \in Keys, NEW m \in Messages, NEW report \in Reports, Webhook(k, m, report)
      PROVE Inv'
  BY <1>5, WebhookKeeps
<1>6. CASE SetMuted
  <2>1. TypeOK'
    BY <1>6 DEF Inv, TypeOK, SetMuted, log, dispatcher, history
  <2>2. QED
    BY <1>6, <2>1, IdleKeeps DEF SetMuted
<1>7. CASE Crash
  BY <1>7, CrashKeeps
<1>8. CASE UNCHANGED vars
  <2>1. TypeOK'
    BY <1>8 DEF Inv, TypeOK, vars, log, dispatcher, settings, history
  <2>2. QED
    BY <1>8, <2>1, IdleKeeps DEF vars
<1>9. QED
  BY <1>1, <1>2, <1>3, <1>4, <1>5, <1>6, <1>7, <1>8 DEF Next

LEMMA InvHolds == Spec => []Inv
  BY InitInv, NextKeeps, PTL DEF Spec

\* Every variable of the log and of the dispatchers keeps its type: the retry
\* count stays within MAX_RETRIES (sendOnce, incrementRetry).
THEOREM TypeCorrect == Spec => []TypeOK
<1>1. Inv => TypeOK
  BY DEF Inv
<1>2. QED
  BY <1>1, InvHolds, PTL

\* However often an event is announced and its mail retried, the mail goes out
\* once, and once more for each message the log did not learn of (tryClaim,
\* sendOnce).
THEOREM MailOnce == Spec => []OneMailPerKey
<1>1. Inv => OneMailPerKey
  <2> SUFFICES ASSUME Inv, NEW k \in Keys PROVE Cardinality(accepted[k] \ unsure[k]) <= 1
    BY DEF OneMailPerKey
  <2>1. PICK m \in Messages \union {0} : accepted[k] \ unsure[k] \subseteq {m}
    BY DEF Inv, KeyOK, Sure
  <2>2. IsFiniteSet({m}) /\ Cardinality({m}) = 1
    BY FS_Singleton
  <2>3. QED
    BY <2>1, <2>2, FS_Subset, FS_CardinalityType
<1>2. QED
  BY <1>1, InvHolds, PTL

\* A queued mail is in the hands of its dispatcher unless the dispatcher died
\* (sendOnce, its timers).
THEOREM QueuedHeld == Spec => []QueuedIsHeld
<1>1. Inv => QueuedIsHeld
  BY DEF Inv, Held, QueuedIsHeld
<1>2. QED
  BY <1>1, InvHolds, PTL

\* A mail is given up only after every attempt was made and counted (sendOnce,
\* incrementRetry, markFailed).
THEOREM GivenUpLast == Spec => []GivenUpAfterAll
<1>1. Inv => GivenUpAfterAll
  BY DEF Inv, KeyOK, Counted, GivenUpAfterAll
<1>2. QED
  BY <1>1, InvHolds, PTL

\* The dispatcher never overwrites what the provider reported (markSent and the
\* webhook, which meet on one row).
THEOREM ReportKept == Spec => ReportIsKept
<1> DEFINE Kept == \A k \in Keys :
             status[k] \in Reports /\ message[k] # 0 => status'[k] \in Reports
<1>1. ASSUME Inv, [Next]_vars PROVE Kept
  <2> SUFFICES ASSUME NEW k \in Keys, status[k] \in Reports, message[k] # 0
               PROVE  status'[k] \in Reports
    OBVIOUS
  <2>1. TypeOK /\ task[k] = "none" /\ status[k] # None
    <3>1. status[k] # None
      BY ConstantsAssumption DEF LogStatus
    <3>2. TypeOK /\ KeyOK(k)
      BY <1>1 DEF Inv
    <3>3. QED
      BY <3>1, <3>2 DEF KeyOK, Released
  <2>2. ASSUME NEW r \in Requests, Claim(r) PROVE status'[k] = status[k]
    BY <2>1, <2>2 DEF TypeOK, Claim, Claimable
  <2>3. ASSUME NEW j \in Keys, Dispatch(j) PROVE status'[k] = status[k]
    BY <2>1, <2>3
    DEF TypeOK, Dispatch, Skip, Send, MarkSent, CountRetry, Timer, GiveUp, log
  <2>4. ASSUME NEW j \in Keys, NEW m \in Messages, NEW report \in Reports, Webhook(j, m, report)
        PROVE status'[k] \in Reports
    BY <2>1, <2>4 DEF TypeOK, Webhook
  <2>5. ASSUME UNCHANGED log PROVE status'[k] = status[k]
    BY <2>5 DEF log
  <2>6. QED
    BY <1>1, <2>2, <2>3, <2>4, <2>5 DEF Next, Call, Lose, SetMuted, Crash, vars
<1>2. Inv /\ [Next]_vars => [Kept]_vars
  BY <1>1
<1>3. QED
  BY <1>2, InvHolds, PTL DEF Spec, ReportIsKept

-----------------------------------------------------------------------------
(* The four of them *)

allVars == << part, mailVars, accountVars, shipmentVars, listingVars >>

AccountStep  == [Account!MCNext \/ Account!MCLost]_accountVars
ShipmentStep == [Shipment!MCNext \/ Shipment!MCDown]_shipmentVars
ListingStep  == [Listing!MCNext \/ Listing!MCTyped \/ Listing!MCLost]_listingVars

\* Each service starts and steps as it does alone.
LEMMA InitOfEach == MCInit => Init /\ Account!MCInit /\ Shipment!MCInit /\ Listing!MCInit
  BY DEF MCInit

LEMMA StepOfEach == [MCNext]_allVars => [Next]_vars /\ AccountStep /\ ShipmentStep /\ ListingStep
<1> SUFFICES ASSUME [MCNext]_allVars
             PROVE  [Next]_vars /\ AccountStep /\ ShipmentStep /\ ListingStep
  OBVIOUS
<1>1. UNCHANGED mailVars => UNCHANGED vars
  BY DEF mailVars, vars, log, dispatcher, settings, history
<1>2. QED
  BY <1>1 DEF MCNext, allVars, AccountStep, ShipmentStep, ListingStep

LEMMA MCInvHolds == MCSpec => []Inv
<1>1. Inv /\ [MCNext]_allVars => Inv'
  BY NextKeeps, StepOfEach
<1>2. Inv /\ [MCNext]_<< part, mailVars, accountVars, shipmentVars, listingVars >> => Inv'
  BY <1>1 DEF allVars
<1>3. QED
  BY InitOfEach, InitInv, <1>2, PTL DEF MCSpec

-----------------------------------------------------------------------------
(* The account of a user: Accounts_proofs says it of MCAccounts *)

AccountFacts == INSTANCE Accounts_proofs WITH calls <- logins, MaxCalls <- MaxLogins

LEMMA SameAccountInit == Account!MCInit => AccountFacts!MCInit
  BY DEF Account!MCInit, AccountFacts!MCInit, Account!Init, AccountFacts!Init

LEMMA SameAccountStep ==
  Account!MCNext \/ Account!MCLost => AccountFacts!MCNext \/ AccountFacts!MCLost
  BY DEF
      Account!MCNext, AccountFacts!MCNext, Account!MCLost, AccountFacts!MCLost,
      Account!Abort, AccountFacts!Abort,
      Account!login, AccountFacts!login, Account!sessions, AccountFacts!sessions,
      Account!verification, AccountFacts!verification, Account!handlers,
      AccountFacts!handlers, Account!vars, AccountFacts!vars, Account!Begin,
      AccountFacts!Begin, Account!Goto, AccountFacts!Goto, Account!Finish,
      AccountFacts!Finish, Account!At, AccountFacts!At, Account!LoginOpen,
      AccountFacts!LoginOpen, Account!LoginCall, AccountFacts!LoginCall, Account!LoginFails,
      AccountFacts!LoginFails, Account!LoginSucceeds, AccountFacts!LoginSucceeds,
      Account!LockExpires, AccountFacts!LockExpires, Account!RefreshCall,
      AccountFacts!RefreshCall, Account!Revoke, AccountFacts!Revoke, Account!Issue,
      AccountFacts!Issue, Account!RevokeAll, AccountFacts!RevokeAll, Account!Logout,
      AccountFacts!Logout, Account!LogoutAll, AccountFacts!LogoutAll, Account!Expire,
      AccountFacts!Expire, Account!Forgot, AccountFacts!Forgot, Account!ResetCall,
      AccountFacts!ResetCall, Account!ResetCommit, AccountFacts!ResetCommit,
      Account!ResetExpires, AccountFacts!ResetExpires, Account!VerifyCall,
      AccountFacts!VerifyCall, Account!VerifyCommit, AccountFacts!VerifyCommit,
      Account!SendVerification, AccountFacts!SendVerification, Account!Resend,
      AccountFacts!Resend, Account!ChangeCall, AccountFacts!ChangeCall, Account!ChangeWrite,
      AccountFacts!ChangeWrite, Account!ChangeMail, AccountFacts!ChangeMail, Account!Arrive,
      AccountFacts!Arrive, Account!Proceed, AccountFacts!Proceed, Account!Single,
      AccountFacts!Single, Account!Time, AccountFacts!Time, Account!Busy, AccountFacts!Busy,
      Account!Overlapping, AccountFacts!Overlapping

LEMMA SameAccountVars ==
  UNCHANGED accountVars => UNCHANGED << AccountFacts!vars, disturbed, logins >>
  BY DEF accountVars, AccountFacts!vars, AccountFacts!login, AccountFacts!sessions,
         AccountFacts!verification, AccountFacts!handlers

LEMMA AccountSpec == MCSpec => AccountFacts!MCSpec
<1>1. [MCNext]_<< part, mailVars, accountVars, shipmentVars, listingVars >> =>
        [AccountFacts!MCNext \/ AccountFacts!MCLost]_<< AccountFacts!vars, disturbed, logins >>
  BY StepOfEach, SameAccountStep, SameAccountVars DEF allVars, AccountStep
<1>2. MCInit => AccountFacts!MCInit
  BY InitOfEach, SameAccountInit
<1>3. QED
  BY <1>1, <1>2, PTL DEF MCSpec, AccountFacts!MCSpec

\* As long as handlers run one at a time and end, whoever holds a live session
\* logged in with the password as it is now (resetPassword, refresh).
THEOREM SessionsCurrent == MCSpec => []SessionsAreCurrent
<1>1. AccountFacts!SessionsAreCurrent => SessionsAreCurrent
  BY DEF AccountFacts!SessionsAreCurrent, SessionsAreCurrent, Account!SessionsAreCurrent
<1>2. MCSpec => []AccountFacts!SessionsAreCurrent
  BY AccountSpec, AccountFacts!SessionsCurrent
<1>3. QED
  BY <1>1, <1>2, PTL

\* As long as handlers run one at a time, only a reset and time open an account
\* that was locked (login).
THEOREM LockHeld == MCSpec => LockHolds
<1>1. MCSpec => AccountFacts!LockHolds
  BY AccountSpec, AccountFacts!LockHeld
<1>2. [~ disturbed' /\ locked /\ ~ locked' =>
         password' # password \/ AccountFacts!LockExpires]_(AccountFacts!vars) =>
      [~ disturbed' /\ locked /\ ~ locked' =>
         password' # password \/ Account!LockExpires]_(Account!vars)
  BY DEF AccountFacts!LockExpires, Account!LockExpires, AccountFacts!vars, Account!vars,
         AccountFacts!login, Account!login, AccountFacts!sessions, Account!sessions,
         AccountFacts!verification, Account!verification, AccountFacts!handlers, Account!handlers
<1>3. QED
  BY <1>1, <1>2, PTL DEF AccountFacts!LockHolds, LockHolds, Account!LockHolds

-----------------------------------------------------------------------------
(* The surroundings of a shipment: rows and handlers *)

\* The steps of a confirmation, and those of them that have seen the contract.
Confirming == { "confirm", "contract", "sign", "invoice", "issue" }
Invoicing  == { "invoice", "issue" }

JobOK(r) ==
  step[r] # "idle" =>
    /\ job[r] \in Shipment!RequestType
    /\ step[r] \in Confirming => job[r].op = "commerce"
    /\ step[r] \in Invoicing => contract
    /\ step[r] \in { "events", "cache" } => job[r].point \in Points
    /\ step[r] = "write" /\ job[r].op = "point" => job[r].point \in Points

\* Of the points stored one is the newest.
NewestExists == stored # {} => \E p \in stored : \A q \in stored : q <= p

ShipmentOK ==
  /\ Shipment!TypeOK
  /\ \A r \in Requests : JobOK(r)
  /\ NewestExists

LEMMA NewestIs ==
  ASSUME stored \subseteq Points, NEW p \in stored, \A q \in stored : q <= p
  PROVE  Shipment!Newest = p
<1>1. \A q \in stored : (\A x \in stored : x <= q) => q = p
  BY ServicesAssumption
<1>2. Shipment!Newest \in stored /\ \A q \in stored : q <= Shipment!Newest
  BY DEF Shipment!Newest
<1>3. QED
  BY <1>1, <1>2

LEMMA StopOfPoint ==
  ASSUME NEW p \in Points, MCAtStop[p] # None
  PROVE  MCAtStop[p] \in Stops
  BY ServicesAssumption DEF MCAtStop

LEMMA ShipmentInit == Shipment!MCInit => ShipmentOK
<1> SUFFICES ASSUME Shipment!MCInit PROVE ShipmentOK
  OBVIOUS
<1>1. Shipment!TypeOK
  BY DEF Shipment!MCInit, Shipment!Init, Shipment!TypeOK, Shipment!Status
<1>2. NewestExists /\ \A r \in Requests : JobOK(r)
  BY DEF Shipment!MCInit, Shipment!Init, NewestExists, JobOK
<1>3. QED
  BY <1>1, <1>2 DEF ShipmentOK

\* What one handler does leaves the others what they know: a contract stays.
OthersWait(r) ==
  /\ step' \in [Requests -> { "idle", "events", "cache", "write" } \union Confirming]
  /\ job'  \in [Requests -> Shipment!RequestType \union {None}]
  /\ \A q \in Requests \ {r} : step'[q] = step[q] /\ job'[q] = job[q]

LEMMA JobsKeep ==
  ASSUME ShipmentOK, NEW r \in Requests, OthersWait(r), contract => contract', JobOK(r)'
  PROVE  \A q \in Requests : JobOK(q)'
  BY DEF ShipmentOK, JobOK, OthersWait

LEMMA ShipmentGoes ==
  ASSUME ShipmentOK, NEW r \in Requests,
         NEW to \in { "idle", "events", "cache", "write" } \union Confirming, Shipment!Goto(r, to)
  PROVE  OthersWait(r) /\ step'[r] = to /\ job'[r] = job[r]
  BY DEF ShipmentOK, Shipment!TypeOK, Shipment!Goto, OthersWait, Confirming

LEMMA ShipmentEnds ==
  ASSUME ShipmentOK, NEW r \in Requests, Shipment!Finish(r)
  PROVE  OthersWait(r) /\ step'[r] = "idle" /\ JobOK(r)'
  BY DEF ShipmentOK, Shipment!TypeOK, Shipment!Finish, OthersWait, Confirming, JobOK

LEMMA ShipmentBegins ==
  ASSUME ShipmentOK, NEW r \in Requests, NEW at \in { "confirm", "write", "cache" },
         NEW op \in { "commerce", "point", "live", "rate", "open" },
         NEW p \in Points \union {None}, NEW seen \in BOOLEAN,
         Shipment!Begin(r, at, Shipment!Call(op, p, seen)),
         at = "confirm" => op = "commerce",
         at = "cache" \/ op = "point" => p \in Points
  PROVE  /\ OthersWait(r) /\ JobOK(r)' /\ step[r] = "idle"
         /\ step'[r] = at /\ job'[r] = Shipment!Call(op, p, seen)
<1>1. Shipment!Call(op, p, seen) \in Shipment!RequestType
  BY DEF ShipmentOK, Shipment!TypeOK, Shipment!Call, Shipment!RequestType
<1>2. /\ OthersWait(r) /\ step'[r] = at /\ job'[r] = Shipment!Call(op, p, seen)
      /\ step[r] = "idle"
  BY <1>1 DEF ShipmentOK, Shipment!TypeOK, Shipment!Begin, OthersWait, Confirming
<1>3. JobOK(r)'
  BY <1>1, <1>2 DEF JobOK, Shipment!Call, Confirming, Invoicing
<1>4. QED
  BY <1>2, <1>3

shipmentRows == << Shipment!order, Shipment!commerce, Shipment!tracking, Shipment!talk >>

\* Steps that write no row.
LEMMA ShipmentReads ==
  ASSUME ShipmentOK, NEW r \in Requests, OthersWait(r), JobOK(r)', UNCHANGED shipmentRows
  PROVE  ShipmentOK'
<1>1. Shipment!TypeOK'
  BY DEF ShipmentOK, Shipment!TypeOK, OthersWait, Confirming, shipmentRows, Shipment!order, Shipment!commerce,
         Shipment!tracking, Shipment!talk
<1>2. NewestExists' /\ contract' = contract
  BY DEF ShipmentOK, NewestExists, shipmentRows, Shipment!commerce, Shipment!tracking
<1>3. QED
  BY <1>1, <1>2, JobsKeep DEF ShipmentOK

LEMMA NewestIsStored ==
  ASSUME ShipmentOK, stored # {}
  PROVE  /\ Shipment!Newest \in stored /\ Shipment!Newest \in Points
         /\ \A q \in stored : q <= Shipment!Newest
  BY DEF ShipmentOK, NewestExists, Shipment!Newest, Shipment!TypeOK

LEMMA ShipmentArrives ==
  ASSUME ShipmentOK, NEW r \in Requests, Shipment!Arrive(r)
  PROVE  ShipmentOK'
<1>1. OthersWait(r) /\ JobOK(r)' /\ UNCHANGED shipmentRows
  <2>1. CASE Shipment!ConfirmCall(r)
    BY <2>1, ShipmentBegins DEF Shipment!ConfirmCall, shipmentRows
  <2>2. CASE Shipment!LiveCall(r)
    BY <2>2, ShipmentBegins, NewestIsStored DEF Shipment!LiveCall, shipmentRows
  <2>3. CASE Shipment!RateCall(r)
    BY <2>3, ShipmentBegins DEF Shipment!RateCall, shipmentRows
  <2>4. CASE Shipment!OpenCall(r)
    <3>1. (conversation > 0) \in BOOLEAN
      OBVIOUS
    <3>2. PICK seen \in BOOLEAN : Shipment!Begin(r, "write", Shipment!Call("open", None, seen))
      BY <2>4, <3>1, Zenon DEF Shipment!OpenCall
    <3>3. QED
      BY <2>4, <3>2, ShipmentBegins DEF Shipment!OpenCall, shipmentRows
  <2>5. ASSUME NEW p \in Points, Shipment!PointCall(r, p)
        PROVE  OthersWait(r) /\ JobOK(r)' /\ UNCHANGED shipmentRows
    BY <2>5, ShipmentBegins DEF Shipment!PointCall, shipmentRows
  <2>6. QED
    BY <2>1, <2>2, <2>3, <2>4, <2>5 DEF Shipment!Arrive
<1>2. QED
  BY <1>1, ShipmentReads

LEMMA PointReadKeeps ==
  ASSUME ShipmentOK, NEW r \in Requests, Shipment!PointRead(r)
  PROVE  ShipmentOK' /\ step'[r] = "events" /\ job'[r].point = job[r].point /\ OthersWait(r)
<1>1. /\ step[r] = "write" /\ job[r].op = "point" /\ job[r].point \in Points
      /\ job[r] \in Shipment!RequestType
  BY DEF ShipmentOK, JobOK, Shipment!PointRead, Shipment!At
<1> PICK seen \in BOOLEAN, warned \in BOOLEAN :
      job' = [job EXCEPT ![r].seen = seen, ![r].warned = warned]
  <2> DEFINE found == MCAtStop[job[r].point] \in arrived
             told  == deviations > 0
  <2>1. found \in BOOLEAN /\ told \in BOOLEAN
    OBVIOUS
  <2>2. job' = [job EXCEPT ![r].seen = found, ![r].warned = told]
    BY DEF Shipment!PointRead
  <2> HIDE DEF found, told
  <2>3. QED
    BY <2>1, <2>2
<1>2. /\ job'[r] \in Shipment!RequestType /\ job'[r].point = job[r].point
      /\ step'[r] = "events" /\ OthersWait(r)
  <2> DEFINE new == [job[r] EXCEPT !.seen = seen, !.warned = warned]
  <2>1. new \in Shipment!RequestType /\ new.point = job[r].point /\ new.op = job[r].op
    BY <1>1 DEF Shipment!RequestType
  <2>2. job' = [job EXCEPT ![r] = new] /\ step' = [step EXCEPT ![r] = "events"]
    BY DEF Shipment!PointRead
  <2> HIDE DEF new
  <2>3. QED
    BY <2>1, <2>2 DEF ShipmentOK, Shipment!TypeOK, OthersWait, Confirming
<1>3. JobOK(r)'
  BY <1>1, <1>2 DEF JobOK, Confirming, Invoicing
<1>4. QED
  BY <1>2, <1>3, ShipmentReads DEF Shipment!PointRead, shipmentRows

LEMMA CommitKeeps ==
  ASSUME ShipmentOK, NEW r \in Requests, Shipment!Commit(r)
  PROVE  ShipmentOK'
<1> DEFINE p == job[r].point
           s == MCAtStop[p]
<1>1. step[r] = "events" /\ p \in Points /\ job[r] \in Shipment!RequestType /\ Shipment!TypeOK
  BY DEF ShipmentOK, JobOK, Shipment!Commit
<1>2. OthersWait(r) /\ JobOK(r)'
  <2>1. step'[r] = "cache" /\ job'[r] = job[r] /\ OthersWait(r)
    BY ShipmentGoes DEF Shipment!Commit
  <2>2. QED
    BY <1>1, <2>1 DEF JobOK, Confirming, Invoicing
<1>3. Shipment!Arrives(r) => s \in Stops
  BY <1>1, StopOfPoint DEF Shipment!Arrives
<1>4. stored' = stored \union {p} /\ stored' \subseteq Points
  BY <1>1 DEF Shipment!Commit, Shipment!TypeOK
<1>5. arrived' \subseteq Stops /\ arrivals' \in [Stops -> Nat] /\ deviations' \in Nat
  <2>1. arrived' = IF Shipment!Arrives(r) THEN arrived \union {s} ELSE arrived
    BY DEF Shipment!Commit
  <2>2. arrivals' = IF Shipment!Arrives(r) THEN [arrivals EXCEPT ![s] = arrivals[s] + 1] ELSE arrivals
    BY DEF Shipment!Commit
  <2>3. deviations' = IF Shipment!Deviates(r) THEN deviations + 1 ELSE deviations
    BY DEF Shipment!Commit
  <2> HIDE DEF s, p
  <2>4. QED
    BY <1>1, <1>3, <2>1, <2>2, <2>3 DEF Shipment!TypeOK
<1>6. Shipment!TypeOK'
  BY <1>1, <1>2, <1>4, <1>5
  DEF Shipment!TypeOK, Shipment!Commit, Shipment!order, Shipment!commerce, Shipment!talk, OthersWait, Confirming
<1>7. NewestExists'
  <2> HIDE DEF p
  <2>1. stored \subseteq Nat /\ p \in Nat
    BY <1>1, ServicesAssumption DEF Shipment!TypeOK
  <2>2. CASE stored = {}
    BY <1>4, <2>1, <2>2 DEF NewestExists
  <2>3. CASE stored # {}
    <3> PICK q \in stored : \A x \in stored : x <= q
      BY <2>3 DEF ShipmentOK, NewestExists
    <3>1. CASE p <= q
      BY <1>4, <2>1, <3>1 DEF NewestExists
    <3>2. CASE q <= p
      BY <1>4, <2>1, <3>2 DEF NewestExists
    <3>3. QED
      BY <2>1, <3>1, <3>2
  <2>4. QED
    BY <2>2, <2>3
<1>8. contract' = contract
  BY DEF Shipment!Commit, Shipment!commerce
<1>9. QED
  BY <1>2, <1>6, <1>7, <1>8, JobsKeep DEF ShipmentOK

LEMMA ShipmentProceeds ==
  ASSUME ShipmentOK, NEW r \in Requests, Shipment!Proceed(r)
  PROVE  ShipmentOK'
<1>1. Shipment!TypeOK /\ JobOK(r) /\ NewestExists
  BY DEF ShipmentOK
<1>2. CASE Shipment!Confirm(r) \/ Shipment!LookForContract(r) \/ Shipment!CreateContract(r)
             \/ Shipment!LookForInvoice(r) \/ Shipment!CreateInvoice(r)
  <2>1. step[r] \in Confirming /\ job[r] \in Shipment!RequestType /\ job[r].op = "commerce"
    BY <1>1, <1>2 DEF JobOK, Confirming, Shipment!Confirm, Shipment!LookForContract,
       Shipment!CreateContract, Shipment!LookForInvoice, Shipment!CreateInvoice
  <2>2. /\ contract' \in BOOLEAN /\ invoice' \in BOOLEAN
        /\ contract => contract'
        /\ shipment' \in Shipment!Status /\ carrier' = carrier
        /\ UNCHANGED << Shipment!tracking, Shipment!talk >>
    BY <1>1, <1>2 DEF Shipment!TypeOK, Shipment!Status, Shipment!order, Shipment!commerce,
       Shipment!Confirm, Shipment!LookForContract,
       Shipment!CreateContract, Shipment!LookForInvoice, Shipment!CreateInvoice
  <2>3. OthersWait(r) /\ JobOK(r)'
    <3>1. CASE Shipment!Finish(r)
      BY <3>1, ShipmentEnds
    <3>2. ASSUME NEW to \in { "contract", "sign", "invoice", "issue" }, Shipment!Goto(r, to),
                 to \in Invoicing => contract'
          PROVE  OthersWait(r) /\ JobOK(r)'
      <4>1. OthersWait(r) /\ step'[r] = to /\ job'[r] = job[r]
        BY <3>2, ShipmentGoes DEF Confirming
      <4>2. QED
        BY <2>1, <3>2, <4>1 DEF JobOK, Confirming
    <3>3. QED
      BY <1>1, <1>2, <3>1, <3>2 DEF JobOK, Invoicing, Shipment!Confirm, Shipment!LookForContract,
         Shipment!CreateContract, Shipment!LookForInvoice, Shipment!CreateInvoice, Shipment!commerce
  <2>4. Shipment!TypeOK' /\ NewestExists'
    BY <1>1, <2>2, <2>3 DEF Shipment!TypeOK, Shipment!tracking, Shipment!talk, OthersWait,
                            Confirming, NewestExists
  <2>5. QED
    BY <2>2, <2>3, <2>4, JobsKeep DEF ShipmentOK
<1>3. CASE Shipment!SetLive(r) \/ Shipment!Rate(r) \/ Shipment!Open(r)
  <2>1. OthersWait(r) /\ JobOK(r)'
    BY <1>3, ShipmentEnds DEF Shipment!SetLive, Shipment!Rate, Shipment!Open
  <2>2. /\ live' \in Points \union {None} /\ rating' \in Nat /\ conversation' \in Nat
        /\ UNCHANGED << shipment, carrier, contract, invoice, stored, arrived, arrivals, deviations >>
    BY <1>1, <1>3 DEF Shipment!TypeOK, JobOK, Shipment!SetLive, Shipment!Rate, Shipment!Open,
       Shipment!order, Shipment!commerce, Shipment!tracking, Shipment!talk
  <2>3. Shipment!TypeOK' /\ NewestExists'
    BY <1>1, <2>1, <2>2 DEF Shipment!TypeOK, OthersWait, Confirming, NewestExists
  <2>4. QED
    BY <2>1, <2>2, <2>3, JobsKeep DEF ShipmentOK
<1>4. QED
  BY <1>2, <1>3, PointReadKeeps, CommitKeeps DEF Shipment!Proceed

LEMMA ShipmentAlone ==
  ASSUME ShipmentOK, Shipment!Move \/ Shipment!LiveExpires \/ Shipment!HourPasses
  PROVE  ShipmentOK'
<1>1. Shipment!TypeOK'
  BY DEF ShipmentOK, Shipment!TypeOK, Shipment!Status, Shipment!Move,
         Shipment!LiveExpires, Shipment!HourPasses, Shipment!order, Shipment!commerce,
         Shipment!tracking, Shipment!talk, Shipment!handlers
<1>2. UNCHANGED << contract, stored, step, job >>
  BY DEF Shipment!Move, Shipment!LiveExpires, Shipment!HourPasses, Shipment!commerce,
         Shipment!tracking, Shipment!handlers
<1>3. QED
  BY <1>1, <1>2 DEF ShipmentOK, JobOK, NewestExists

LEMMA ShipmentDown ==
  ASSUME ShipmentOK, Shipment!Down
  PROVE  ShipmentOK'
<1>1. Shipment!TypeOK'
  BY DEF ShipmentOK, Shipment!TypeOK, Shipment!Down, Shipment!order, Shipment!commerce,
         Shipment!tracking, Shipment!talk
<1>2. NewestExists' /\ \A r \in Requests : JobOK(r)'
  BY DEF ShipmentOK, NewestExists, JobOK, Shipment!Down, Shipment!tracking
<1>3. QED
  BY <1>1, <1>2 DEF ShipmentOK

LEMMA ShipmentKeeps ==
  ASSUME ShipmentOK, ShipmentStep
  PROVE  ShipmentOK'
<1>1. CASE UNCHANGED shipmentVars
  <2>1. Shipment!TypeOK' /\ NewestExists' /\ \A r \in Requests : JobOK(r)'
    BY <1>1 DEF ShipmentOK, Shipment!TypeOK, NewestExists, JobOK, shipmentVars
  <2>2. QED
    BY <2>1 DEF ShipmentOK
<1>2. CASE Shipment!MCNext
  BY <1>2, ShipmentArrives, ShipmentProceeds, ShipmentAlone DEF Shipment!MCNext
<1>3. CASE Shipment!MCDown
  BY <1>3, ShipmentDown DEF Shipment!MCDown, Shipment!Unhandled
<1>4. QED
  BY <1>1, <1>2, <1>3 DEF ShipmentStep

-----------------------------------------------------------------------------
(* The surroundings of a shipment: contract and invoice *)

\* What a shipment lacks that a payment confirmed, some handler is about to look for.
Billed ==
  ~ crashed /\ confirmed /\ ~ (contract /\ invoice) =>
    \E r \in Requests : step[r] \in Confirming \ { "confirm" }

Confirms == \E r \in Requests : step[r] = "confirm" /\ step'[r] = "contract"

LEMMA BilledProceeds ==
  ASSUME ShipmentOK, Billed, crashed' = crashed, confirmed' = (confirmed \/ Confirms),
         NEW r \in Requests, Shipment!Proceed(r)
  PROVE  Billed'
<1>1. JobOK(r)
  BY DEF ShipmentOK
<1>2. ASSUME NEW to \in Confirming \ { "confirm" }, Shipment!Goto(r, to) PROVE Billed'
  BY <1>2, ShipmentGoes DEF Billed
\* A handler that ends outside them, or from "confirm", is not the one.
<1>3. ASSUME step[r] \notin Confirming \ { "confirm" }, step'[r] # "contract", OthersWait(r),
             UNCHANGED Shipment!commerce
      PROVE  Billed'
  <2>1. confirmed' => confirmed
    BY <1>3 DEF Confirms, OthersWait
  <2>2. QED
    BY <1>3, <2>1 DEF Billed, OthersWait, Shipment!commerce
<1>4. CASE Shipment!Confirm(r)
  <2>1. CASE shipment \in { "draft", "pending_assignment" }
    BY <1>2, <1>4, <2>1 DEF Shipment!Confirm, Confirming
  <2>2. CASE shipment \notin { "draft", "pending_assignment" }
    BY <1>3, <1>4, <2>2, ShipmentEnds DEF Shipment!Confirm
  <2>3. QED
    BY <2>1, <2>2
<1>5. CASE Shipment!LookForContract(r)
  BY <1>2, <1>5 DEF Shipment!LookForContract, Confirming
<1>6. CASE Shipment!CreateContract(r)
  BY <1>2, <1>6 DEF Shipment!CreateContract, Confirming
<1>7. CASE Shipment!LookForInvoice(r)
  <2>1. CASE invoice
    BY <1>1, <1>7, <2>1 DEF Shipment!LookForInvoice, JobOK, Invoicing, Billed, Shipment!commerce
  <2>2. CASE ~ invoice
    BY <1>2, <1>7, <2>2 DEF Shipment!LookForInvoice, Confirming
  <2>3. QED
    BY <2>1, <2>2
<1>8. CASE Shipment!CreateInvoice(r)
  BY <1>1, <1>8 DEF Shipment!CreateInvoice, JobOK, Invoicing, Billed
<1>9. CASE Shipment!PointRead(r)
  BY <1>3, <1>9, PointReadKeeps DEF Shipment!PointRead, Shipment!At, Confirming
<1>10. CASE Shipment!Commit(r)
  BY <1>3, <1>10, ShipmentGoes DEF Shipment!Commit, Confirming
<1>11. CASE Shipment!SetLive(r) \/ Shipment!Rate(r) \/ Shipment!Open(r)
  BY <1>3, <1>11, ShipmentEnds
  DEF Shipment!SetLive, Shipment!Rate, Shipment!Open, Shipment!At, Confirming
<1>12. QED
  BY <1>4, <1>5, <1>6, <1>7, <1>8, <1>9, <1>10, <1>11 DEF Shipment!Proceed

\* A step that changes neither the contract nor the invoice and calls at most a
\* handler that is idle.
LEMMA BilledStays ==
  ASSUME Billed, crashed' = crashed, confirmed' = (confirmed \/ Confirms), UNCHANGED Shipment!commerce,
         \A q \in Requests : step'[q] = step[q] \/ step[q] = "idle"
  PROVE  Billed'
<1>1. confirmed' => confirmed
  BY DEF Confirms
<1>2. QED
  BY <1>1 DEF Billed, Confirming, Shipment!commerce

LEMMA BilledKeeps ==
  ASSUME ShipmentOK, Billed, ShipmentStep
  PROVE  Billed'
<1>1. CASE UNCHANGED shipmentVars
  BY <1>1 DEF Billed, shipmentVars
<1>2. ASSUME NEW r \in Requests, Shipment!Arrive(r), crashed' = crashed,
             confirmed' = (confirmed \/ Confirms)
      PROVE  Billed'
  <2>1. PICK at, call : Shipment!Begin(r, at, call)
    BY <1>2 DEF Shipment!Arrive, Shipment!ConfirmCall, Shipment!LiveCall, Shipment!RateCall,
       Shipment!OpenCall, Shipment!PointCall
  <2>2. step[r] = "idle" /\ \A q \in Requests \ {r} : step'[q] = step[q]
    BY <2>1 DEF Shipment!Begin, ShipmentOK, Shipment!TypeOK
  <2>3. UNCHANGED Shipment!commerce
    BY <1>2 DEF Shipment!Arrive, Shipment!ConfirmCall, Shipment!LiveCall, Shipment!RateCall,
       Shipment!OpenCall, Shipment!PointCall
  <2>4. QED
    BY <1>2, <2>2, <2>3, BilledStays
<1>3. ASSUME Shipment!Move \/ Shipment!LiveExpires \/ Shipment!HourPasses, crashed' = crashed,
             confirmed' = (confirmed \/ Confirms)
      PROVE  Billed'
  BY <1>3, BilledStays DEF Shipment!Move, Shipment!LiveExpires, Shipment!HourPasses,
     Shipment!commerce, Shipment!handlers
<1>4. CASE Shipment!MCNext
  BY <1>2, <1>3, <1>4, BilledProceeds DEF Shipment!MCNext, Confirms
<1>5. CASE Shipment!MCDown
  BY <1>5 DEF Shipment!MCDown, Billed
<1>6. QED
  BY <1>1, <1>4, <1>5 DEF ShipmentStep

\* Unless the process ended, a shipment that a payment confirmed has its contract
\* and its invoice as soon as none of its confirmations is under way, although
\* two that looked at once each found nothing and administrators moved the
\* shipment meanwhile (confirmAfterCardPayment, ensureContract, ensureInvoice).
THEOREM ConfirmedInvoiced == MCSpec => []ConfirmedIsInvoiced
<1>1. MCInit => ShipmentOK /\ Billed
  BY InitOfEach, ShipmentInit DEF Shipment!MCInit, Shipment!Init, Billed
<1>2. ShipmentOK /\ Billed /\ [MCNext]_<< part, mailVars, accountVars, shipmentVars, listingVars >>
        => (ShipmentOK /\ Billed)'
  BY StepOfEach, ShipmentKeeps, BilledKeeps DEF allVars
<1>3. ShipmentOK /\ Billed => ConfirmedIsInvoiced
  BY DEF ShipmentOK, JobOK, Billed, ConfirmedIsInvoiced, Shipment!ConfirmedIsInvoiced,
         Shipment!Commerce, Shipment!Busy, Confirming
<1>4. QED
  BY <1>1, <1>2, <1>3, PTL DEF MCSpec

-----------------------------------------------------------------------------
(* The surroundings of a shipment: the live position *)

OneJob == \A q, r \in Requests : step[q] # "idle" /\ step[r] # "idle" => q = r

\* Who is about to write the live position has the newest point, who is about
\* to store a point has one that is not stored.
LiveJob(r) ==
  /\ step[r] = "cache" => job[r].point = Shipment!Newest
  /\ (step[r] = "write" /\ job[r].op = "point") \/ step[r] = "events" =>
       job[r].point \notin stored

Ordered ==
  /\ OneJob
  /\ \A r \in Requests : LiveJob(r)
  /\ live # None /\ (\A r \in Requests : step[r] # "cache") => live = Shipment!Newest

Calm == ~ crowded /\ ~ unordered => Ordered

LEMMA EndsAlone ==
  ASSUME ShipmentOK, OneJob, NEW r \in Requests, step[r] # "idle", Shipment!Finish(r)
  PROVE  OneJob' /\ \A q \in Requests : step'[q] = "idle" /\ LiveJob(q)'
<1>1. \A q \in Requests : step'[q] = "idle"
  BY DEF ShipmentOK, Shipment!TypeOK, Shipment!Finish, OneJob
<1>2. QED
  BY <1>1 DEF OneJob, LiveJob

LEMMA OrderedArrives ==
  ASSUME ShipmentOK, Ordered, NEW r \in Requests, Shipment!Arrive(r), OneJob'
  PROVE  Ordered'
<1>1. ASSUME NEW at \in { "confirm", "write", "cache" },
             NEW op \in { "commerce", "point", "live", "rate", "open" },
             NEW p, NEW seen,
             Shipment!Begin(r, at, Shipment!Call(op, p, seen)),
             at = "cache" => p = Shipment!Newest, op = "point" => p \notin stored,
             UNCHANGED shipmentRows
      PROVE  Ordered'
  <2>1. /\ step'[r] = at /\ job'[r].op = op /\ job'[r].point = p
        /\ \A q \in Requests \ {r} : step'[q] = "idle" /\ step[q] = "idle"
        /\ step[r] = "idle"
    BY <1>1 DEF ShipmentOK, Shipment!TypeOK, Shipment!Begin, Shipment!Call, OneJob
  <2>2. stored' = stored /\ live' = live /\ Shipment!Newest' = Shipment!Newest
    BY <1>1 DEF shipmentRows, Shipment!tracking, Shipment!Newest
  <2>3. \A q \in Requests : LiveJob(q)'
    BY <1>1, <2>1, <2>2 DEF LiveJob
  <2>4. QED
    BY <2>1, <2>2, <2>3 DEF Ordered
<1>2. CASE Shipment!ConfirmCall(r)
  BY <1>1, <1>2 DEF Shipment!ConfirmCall, shipmentRows
<1>3. CASE Shipment!LiveCall(r)
  BY <1>1, <1>3 DEF Shipment!LiveCall, shipmentRows
<1>4. CASE Shipment!RateCall(r)
  BY <1>1, <1>4 DEF Shipment!RateCall, shipmentRows
<1>5. CASE Shipment!OpenCall(r)
  <2>1. PICK seen : Shipment!Begin(r, "write", Shipment!Call("open", None, seen))
    BY <1>5 DEF Shipment!OpenCall
  <2>2. QED
    BY <1>1, <1>5, <2>1 DEF Shipment!OpenCall, shipmentRows
<1>6. ASSUME NEW p \in Points, Shipment!PointCall(r, p) PROVE Ordered'
  BY <1>1, <1>6 DEF Shipment!PointCall, shipmentRows
<1>7. QED
  BY <1>2, <1>3, <1>4, <1>5, <1>6 DEF Shipment!Arrive

\* A point that comes in order is the newest once it is stored.
LEMMA CommitOrdered ==
  ASSUME ShipmentOK, Ordered, NEW r \in Requests, Shipment!Commit(r),
         ~ \E p \in stored' \ stored, q \in stored : p < q
  PROVE  Ordered'
<1>1. PICK p \in Points : p = job[r].point
  BY DEF ShipmentOK, JobOK, Shipment!Commit
<1>2. step[r] = "events" /\ p \notin stored /\ stored' = stored \union {p} /\ stored \subseteq Points
  BY <1>1 DEF Shipment!Commit, Ordered, LiveJob, ShipmentOK, Shipment!TypeOK
<1>3. stored \subseteq Nat /\ p \in Nat
  BY <1>2, ServicesAssumption
<1>4. p \in stored' /\ stored' \subseteq Points /\ \A q \in stored' : q <= p
  BY <1>2, <1>3
<1>5. Shipment!Newest' = p
  <2>1. \A S : S \subseteq Points /\ p \in S /\ (\A q \in S : q <= p) =>
          (CHOOSE x \in S : \A q \in S : q <= x) = p
    <3> TAKE S
    <3> HAVE S \subseteq Points /\ p \in S /\ \A q \in S : q <= p
    <3> DEFINE n == CHOOSE x \in S : \A q \in S : q <= x
    <3>1. n \in S /\ \A q \in S : q <= n
      OBVIOUS
    <3> HIDE DEF n
    <3>2. n \in Nat /\ p \in Nat /\ n <= p /\ p <= n
      BY <3>1, ServicesAssumption
    <3>3. n = p
      BY <3>2
    <3>4. QED
      BY <3>3 DEF n
  <2>2. QED
    BY <1>4, <2>1 DEF Shipment!Newest
<1>6. /\ step'[r] = "cache" /\ job'[r] = job[r]
      /\ \A q \in Requests \ {r} : step'[q] = "idle" /\ step[q] = "idle"
  BY <1>2 DEF ShipmentOK, Shipment!TypeOK, Shipment!Commit, Shipment!Goto, Ordered, OneJob
<1>7. OneJob' /\ \A q \in Requests : LiveJob(q)'
  BY <1>1, <1>5, <1>6 DEF OneJob, LiveJob
<1>8. QED
  BY <1>6, <1>7 DEF Ordered

LEMMA OrderedProceeds ==
  ASSUME ShipmentOK, Ordered, NEW r \in Requests, Shipment!Proceed(r),
         ~ \E p \in stored' \ stored, q \in stored : p < q
  PROVE  Ordered'
<1>1. OneJob
  BY DEF Ordered
<1>2. ASSUME stored' = stored PROVE Shipment!Newest' = Shipment!Newest
  BY <1>2 DEF Shipment!Newest
<1>3. ASSUME step[r] \in Confirming, UNCHANGED << stored, live >>,
             \/ Shipment!Finish(r)
             \/ \E to \in Confirming : Shipment!Goto(r, to)
      PROVE  Ordered'
  <2>1. CASE Shipment!Finish(r)
    <3>1. (\A q \in Requests : step[q] # "cache")
      BY <1>1, <1>3 DEF OneJob, Confirming
    <3>2. QED
      BY <1>1, <1>2, <1>3, <2>1, <3>1, EndsAlone DEF Ordered, Confirming
  <2>2. ASSUME NEW to \in Confirming, Shipment!Goto(r, to) PROVE Ordered'
    <3>1. /\ step'[r] = to
          /\ \A q \in Requests \ {r} : step'[q] = "idle" /\ step[q] = "idle"
      BY <1>1, <1>3, <2>2
      DEF ShipmentOK, Shipment!TypeOK, Shipment!Goto, OneJob, Confirming
    <3>2. QED
      BY <1>2, <1>3, <3>1 DEF Ordered, OneJob, LiveJob, Confirming
  <2>3. QED
    BY <1>3, <2>1, <2>2
<1>4. CASE Shipment!Confirm(r) \/ Shipment!LookForContract(r) \/ Shipment!CreateContract(r)
             \/ Shipment!LookForInvoice(r) \/ Shipment!CreateInvoice(r)
  BY <1>3, <1>4 DEF Shipment!tracking, Confirming, Shipment!Confirm, Shipment!LookForContract,
     Shipment!CreateContract, Shipment!LookForInvoice, Shipment!CreateInvoice
<1>5. CASE Shipment!PointRead(r)
  <2>1. /\ step'[r] = "events" /\ job'[r].point = job[r].point /\ job[r].point \notin stored
        /\ \A q \in Requests \ {r} : step'[q] = "idle" /\ step[q] = "idle"
        /\ step[r] = "write"
    BY <1>1, <1>5, PointReadKeeps
    DEF Shipment!PointRead, Shipment!At, Ordered, LiveJob, OneJob, OthersWait
  <2>2. UNCHANGED << stored, live >>
    BY <1>5 DEF Shipment!PointRead, Shipment!tracking
  <2>3. QED
    BY <1>2, <2>1, <2>2 DEF Ordered, OneJob, LiveJob
<1>6. CASE Shipment!SetLive(r)
  <2>1. live' = Shipment!Newest /\ stored' = stored /\ step[r] # "idle" /\ Shipment!Finish(r)
    BY <1>6 DEF Shipment!SetLive, Ordered, LiveJob
  <2>2. QED
    BY <1>1, <1>2, <2>1, EndsAlone DEF Ordered
<1>7. CASE Shipment!Rate(r) \/ Shipment!Open(r)
  <2>1. /\ UNCHANGED << stored, live >> /\ step[r] = "write" /\ Shipment!Finish(r)
    BY <1>7 DEF Shipment!Rate, Shipment!Open, Shipment!At, Shipment!tracking
  <2>2. \A q \in Requests : step[q] # "cache"
    BY <1>1, <2>1 DEF OneJob
  <2>3. QED
    BY <1>1, <1>2, <2>1, <2>2, EndsAlone DEF Ordered
<1>8. QED
  BY <1>4, <1>5, <1>6, <1>7, CommitOrdered DEF Shipment!Proceed

LEMMA CalmKeeps ==
  ASSUME ShipmentOK, Calm, ShipmentStep
  PROVE  Calm'
<1>1. CASE UNCHANGED shipmentVars
  BY <1>1 DEF Calm, Ordered, OneJob, LiveJob, Shipment!Newest, shipmentVars
<1>2. ASSUME Shipment!MCNext, ~ crowded', ~ unordered' PROVE Ordered'
  <2>1. /\ ~ crowded /\ ~ unordered /\ ~ Shipment!Overlapping'
        /\ ~ \E p \in stored' \ stored, q \in stored : p < q
    BY <1>2 DEF Shipment!MCNext
  <2>2. Ordered /\ OneJob'
    BY <2>1 DEF Calm, OneJob, Shipment!Overlapping, Shipment!Busy
  <2>3. ASSUME Shipment!Move \/ Shipment!LiveExpires \/ Shipment!HourPasses PROVE Ordered'
    <3>1. stored' = stored /\ step' = step /\ job' = job /\ (live' = live \/ live' = None)
      BY <2>3 DEF Shipment!Move, Shipment!LiveExpires, Shipment!HourPasses, Shipment!tracking,
         Shipment!handlers
    <3>2. QED
      BY <2>2, <3>1 DEF Ordered, OneJob, LiveJob, Shipment!Newest
  <2>4. QED
    BY <1>2, <2>1, <2>2, <2>3, OrderedArrives, OrderedProceeds DEF Shipment!MCNext
<1>3. CASE Shipment!MCNext
  BY <1>2, <1>3 DEF Calm
<1>4. CASE Shipment!MCDown
  BY <1>4 DEF Shipment!MCDown, Calm
<1>5. QED
  BY <1>1, <1>3, <1>4 DEF ShipmentStep

\* As long as handlers run one at a time and end, and points arrive in the
\* order they were taken, the live position that is cached is the newest point,
\* whether a point or a miss wrote it (recordPoint, getLivePosition).
THEOREM LiveNewest == MCSpec => []LiveIsNewest
<1>1. MCInit => ShipmentOK /\ Calm
  <2>1. Shipment!MCInit => Calm
    BY DEF Shipment!MCInit, Shipment!Init, Calm, Ordered, OneJob, LiveJob
  <2>2. QED
    BY <2>1, InitOfEach, ShipmentInit
<1>2. ShipmentOK /\ Calm /\ [MCNext]_<< part, mailVars, accountVars, shipmentVars, listingVars >>
        => (ShipmentOK /\ Calm)'
  BY StepOfEach, ShipmentKeeps, CalmKeeps DEF allVars
<1>3. Calm => LiveIsNewest
  BY DEF Calm, Ordered, LiveIsNewest, Shipment!LiveIsNewest, Shipment!Busy
<1>4. QED
  BY <1>1, <1>2, <1>3, PTL DEF MCSpec

-----------------------------------------------------------------------------
(* A truck listing: rows and handlers *)

Places == { "idle", "write", "insert", "shown", "next", "hide", "find", "clear", "mark",
            "show", "count", "rate" }

\* An upload that is to store a file has one left.
FormOK(r) ==
  place[r] # "idle" =>
    /\ form[r] \in Listing!RequestType
    /\ place[r] = "insert" => form[r].files >= 1

ListingOK == Listing!TypeOK /\ \A r \in Requests : FormOK(r)

LEMMA ListingInit == Listing!MCInit => ListingOK
<1> SUFFICES ASSUME Listing!MCInit PROVE ListingOK
  OBVIOUS
<1>1. Listing!TypeOK
  BY DEF Listing!MCInit, Listing!Init, Listing!TypeOK
<1>2. \A r \in Requests : FormOK(r)
  BY DEF Listing!MCInit, Listing!Init, FormOK
<1>3. QED
  BY <1>1, <1>2 DEF ListingOK

OthersStay(r) ==
  /\ place' \in [Requests -> Places]
  /\ form'  \in [Requests -> Listing!RequestType \union {None}]
  /\ \A q \in Requests \ {r} : place'[q] = place[q] /\ form'[q] = form[q]

LEMMA FormsKeep ==
  ASSUME ListingOK, NEW r \in Requests, OthersStay(r), FormOK(r)'
  PROVE  \A q \in Requests : FormOK(q)'
  BY DEF ListingOK, FormOK, OthersStay

LEMMA ListingEnds ==
  ASSUME ListingOK, NEW r \in Requests, Listing!Finish(r)
  PROVE  OthersStay(r) /\ FormOK(r)' /\ place'[r] = "idle"
  BY DEF ListingOK, Listing!TypeOK, Listing!Finish, OthersStay, Places, FormOK

LEMMA ListingGoes ==
  ASSUME ListingOK, NEW r \in Requests, place[r] # "idle",
         NEW to \in Places \ { "insert" }, Listing!Goto(r, to), UNCHANGED form
  PROVE  OthersStay(r) /\ FormOK(r)' /\ place'[r] = to /\ form'[r] = form[r]
  BY DEF ListingOK, Listing!TypeOK, Listing!Goto, OthersStay, Places, FormOK

LEMMA ListingBegins ==
  ASSUME ListingOK, NEW r \in Requests, NEW at \in { "write", "insert", "clear" },
         NEW op \in { "upload", "delete", "cover", "review", "submit" },
         NEW i \in Images \union {None}, NEW n \in Nat, NEW flag \in BOOLEAN,
         Listing!Begin(r, at, op, i, n, flag), at = "insert" => n >= 1
  PROVE  /\ OthersStay(r) /\ FormOK(r)' /\ place[r] = "idle" /\ place'[r] = at
         /\ form'[r] = [ op |-> op, files |-> n, image |-> i, flag |-> flag, seen |-> {} ]
<1> DEFINE c == [ op |-> op, files |-> n, image |-> i, flag |-> flag, seen |-> {} ]
<1>1. c \in Listing!RequestType
  BY DEF Listing!RequestType
<1>2. OthersStay(r) /\ place[r] = "idle" /\ place'[r] = at /\ form'[r] = c
  BY <1>1 DEF ListingOK, Listing!TypeOK, Listing!Begin, OthersStay, Places
<1>3. QED
  BY <1>1, <1>2 DEF FormOK

\* The columns of the listing, its images and its reviews.
RowsOK ==
  /\ standing' \in Listing!ListingStatus \union {None} /\ enabled' \in BOOLEAN
  /\ image'  \in [Images -> { "new", "plain", "cover", "gone" }]
  /\ cover'  \in Images \union {None}
  /\ review' \in [Reviews -> { "new", "visible", "hidden" }]
  /\ score'  \subseteq Reviews

LEMMA RowsStay ==
  ASSUME ListingOK
  PROVE  /\ UNCHANGED Listing!listing => standing' \in Listing!ListingStatus \union {None}
                                          /\ enabled' \in BOOLEAN
         /\ UNCHANGED Listing!gallery =>
              /\ image' \in [Images -> { "new", "plain", "cover", "gone" }]
              /\ cover' \in Images \union {None}
         /\ UNCHANGED Listing!opinion =>
              /\ review' \in [Reviews -> { "new", "visible", "hidden" }]
              /\ score' \subseteq Reviews
  BY DEF ListingOK, Listing!TypeOK, Listing!listing, Listing!gallery, Listing!opinion

LEMMA ListingMoves ==
  ASSUME ListingOK, NEW r \in Requests, OthersStay(r), FormOK(r)', RowsOK
  PROVE  ListingOK'
<1>1. Listing!TypeOK'
  BY DEF OthersStay, RowsOK, Listing!TypeOK, Places
<1>2. QED
  BY <1>1, FormsKeep DEF ListingOK

LEMMA UploadBegins ==
  ASSUME ListingOK, NEW r \in Requests, NEW n \in 1..2, Listing!UploadCall(r, n)
  PROVE  /\ OthersStay(r) /\ FormOK(r)' /\ place[r] = "idle" /\ place'[r] = "insert"
         /\ form'[r].image = None /\ (form'[r].flag <=> Listing!Rows = {})
<1>1. (Listing!Rows = {}) \in BOOLEAN
  OBVIOUS
<1>2. PICK flag \in BOOLEAN : flag = (Listing!Rows = {})
  BY <1>1
<1>3. Listing!Begin(r, "insert", "upload", None, n, flag)
  BY <1>2 DEF Listing!UploadCall
<1>4. n \in Nat /\ n >= 1
  OBVIOUS
<1>5. /\ OthersStay(r) /\ FormOK(r)' /\ place[r] = "idle" /\ place'[r] = "insert"
      /\ form'[r] = [ op |-> "upload", files |-> n, image |-> None, flag |-> flag, seen |-> {} ]
  BY <1>3, <1>4, ListingBegins
<1>6. flag <=> Listing!Rows = {}
  BY <1>2, Zenon
<1>7. form'[r].image = None /\ form'[r].flag = flag
  BY <1>5
<1>8. form'[r].flag <=> Listing!Rows = {}
  BY <1>6, <1>7, Zenon
<1>9. QED
  BY <1>5, <1>7, <1>8, Zenon

LEMMA DeleteBegins ==
  ASSUME ListingOK, NEW r \in Requests, NEW i \in Images, Listing!DeleteCall(r, i)
  PROVE  /\ OthersStay(r) /\ FormOK(r)' /\ place[r] = "idle" /\ place'[r] = "write"
         /\ form'[r].op = "delete" /\ form'[r].image = i
         /\ form'[r].flag <=> image[i] = "cover"
<1>1. (image[i] = "cover") \in BOOLEAN
  OBVIOUS
<1>2. PICK flag \in BOOLEAN : flag = (image[i] = "cover")
  BY <1>1
<1>3. Listing!Begin(r, "write", "delete", i, 0, flag)
  BY <1>2 DEF Listing!DeleteCall
<1>4. /\ OthersStay(r) /\ FormOK(r)' /\ place[r] = "idle" /\ place'[r] = "write"
      /\ form'[r] = [ op |-> "delete", files |-> 0, image |-> i, flag |-> flag, seen |-> {} ]
  BY <1>3, ListingBegins
<1>5. form'[r].op = "delete" /\ form'[r].image = i /\ form'[r].flag = flag
  BY <1>4
<1>6. flag <=> image[i] = "cover"
  BY <1>2, Zenon
<1>7. form'[r].flag <=> image[i] = "cover"
  BY <1>5, <1>6, Zenon
<1>8. QED
  BY <1>4, <1>5, <1>7, Zenon

LEMMA ModerateBegins ==
  ASSUME ListingOK, NEW r \in Requests, NEW v \in Reviews, NEW to \in { "visible", "hidden" },
         Listing!ModerateCall(r, v, to)
  PROVE  /\ OthersStay(r) /\ FormOK(r)' /\ place[r] = "idle" /\ place'[r] = "count"
         /\ review' \in [Reviews -> { "new", "visible", "hidden" }]
<1> DEFINE c == [ op |-> "moderate", files |-> 0, image |-> None, flag |-> FALSE, seen |-> {} ]
<1>1. c \in Listing!RequestType
  BY DEF Listing!RequestType
<1>2. OthersStay(r) /\ place[r] = "idle" /\ place'[r] = "count" /\ form'[r] = c
  BY <1>1 DEF ListingOK, Listing!TypeOK, Listing!ModerateCall, Listing!Goto, OthersStay, Places
<1>3. FormOK(r)'
  BY <1>1, <1>2 DEF FormOK
<1>4. review' \in [Reviews -> { "new", "visible", "hidden" }]
  BY DEF ListingOK, Listing!TypeOK, Listing!ModerateCall
<1>5. QED
  BY <1>2, <1>3, <1>4

LEMMA ListingArrives ==
  ASSUME ListingOK, NEW r \in Requests, Listing!Arrive(r)
  PROVE  ListingOK'
<1>1. ASSUME UNCHANGED << Listing!listing, Listing!gallery, Listing!opinion >> PROVE RowsOK
  BY <1>1, RowsStay DEF RowsOK
<1>2. ASSUME NEW op \in { "submit", "review" }, Listing!Begin(r, "write", op, None, 0, FALSE)
      PROVE  ListingOK'
  <2>1. OthersStay(r) /\ FormOK(r)'
    BY <1>2, ListingBegins
  <2>2. QED
    BY <1>1, <1>2, <2>1, ListingMoves DEF Listing!Begin
<1>3. ASSUME NEW n \in 1..2, Listing!UploadCall(r, n) PROVE ListingOK'
  BY <1>1, <1>3, UploadBegins, ListingMoves DEF Listing!UploadCall, Listing!Begin
<1>4. ASSUME NEW i \in Images, Listing!DeleteCall(r, i) PROVE ListingOK'
  BY <1>1, <1>4, DeleteBegins, ListingMoves DEF Listing!DeleteCall, Listing!Begin
<1>5. ASSUME NEW i \in Images, Listing!SetCoverCall(r, i) PROVE ListingOK'
  BY <1>1, <1>5, ListingBegins, ListingMoves DEF Listing!SetCoverCall, Listing!Begin
<1>6. ASSUME NEW v \in Reviews, NEW to \in { "visible", "hidden" }, Listing!ModerateCall(r, v, to)
      PROVE  ListingOK'
  <2>1. RowsOK
    BY <1>6, ModerateBegins, RowsStay
    DEF RowsOK, Listing!ModerateCall, ListingOK, Listing!TypeOK
  <2>2. QED
    BY <1>6, <2>1, ModerateBegins, ListingMoves
<1>7. QED
  BY <1>2, <1>3, <1>4, <1>5, <1>6
  DEF Listing!Arrive, Listing!SubmitCall, Listing!ReviewCall

\* One file of an upload; the form remembers the first image.
LEMMA UploadInserts ==
  ASSUME ListingOK, NEW r \in Requests, Listing!UploadInsert(r)
  PROVE  \E i \in Images :
           LET first == form[r].image = None IN
           /\ place[r] = "insert" /\ place'[r] \in { "shown", "insert" }
           /\ image[i] = "new"
           /\ image' = [image EXCEPT ![i] = IF form[r].flag /\ first THEN "cover" ELSE "plain"]
           /\ form'[r].flag = form[r].flag
           /\ form'[r].image = IF first THEN i ELSE form[r].image
           /\ OthersStay(r) /\ FormOK(r)'
<1>1. Listing!TypeOK /\ form[r] \in Listing!RequestType /\ form[r].files >= 1 /\ place[r] = "insert"
  BY DEF ListingOK, FormOK, Listing!UploadInsert
<1> DEFINE first == form[r].image = None
<1>2. PICK i \in Images :
        /\ image[i] = "new"
        /\ image' = [image EXCEPT ![i] = IF form[r].flag /\ first THEN "cover" ELSE "plain"]
        /\ form' = [form EXCEPT ![r].files = form[r].files - 1,
                                ![r].image = IF first THEN i ELSE form[r].image]
  BY DEF Listing!UploadInsert
<1>3. PICK first_image \in Images \union {None} :
        first_image = IF first THEN i ELSE form[r].image
  BY <1>1 DEF Listing!RequestType
<1>4. PICK files \in Nat : files = form[r].files - 1 /\ (form[r].files # 1 => files >= 1)
  BY <1>1 DEF Listing!RequestType
<1>5. form' = [form EXCEPT ![r].files = files, ![r].image = first_image]
  BY <1>2, <1>3, <1>4
<1>6. /\ form'[r] \in Listing!RequestType /\ form'[r].files = files
      /\ form'[r].flag = form[r].flag /\ form'[r].image = first_image
      /\ form' \in [Requests -> Listing!RequestType \union {None}]
      /\ \A q \in Requests \ {r} : form'[q] = form[q]
  BY <1>1, <1>5 DEF Listing!TypeOK, Listing!RequestType
<1>7. /\ place'[r] = IF form[r].files = 1 THEN "shown" ELSE "insert"
      /\ place' \in [Requests -> Places]
      /\ \A q \in Requests \ {r} : place'[q] = place[q]
  BY <1>1 DEF Listing!TypeOK, Listing!UploadInsert, Listing!Goto, Places
<1>8. OthersStay(r) /\ FormOK(r)'
  BY <1>4, <1>6, <1>7 DEF OthersStay, FormOK
<1>9. QED
  BY <1>1, <1>2, <1>3, <1>6, <1>7, <1>8

LEMMA RatingCounts ==
  ASSUME ListingOK, NEW r \in Requests, Listing!RatingCount(r)
  PROVE  /\ OthersStay(r) /\ FormOK(r)' /\ place[r] = "count" /\ place'[r] = "rate"
         /\ form'[r].seen = Listing!Visible
<1>1. form[r] \in Listing!RequestType /\ place[r] = "count" /\ Listing!TypeOK
  BY DEF ListingOK, FormOK, Listing!RatingCount
<1>2. PICK seen \in SUBSET Reviews : seen = Listing!Visible
  BY DEF Listing!Visible
<1>3. form' = [form EXCEPT ![r].seen = seen]
  BY <1>2 DEF Listing!RatingCount
<1>4. form'[r] \in Listing!RequestType /\ form'[r].seen = seen
  BY <1>1, <1>3 DEF Listing!TypeOK, Listing!RequestType
<1>5. OthersStay(r) /\ place'[r] = "rate"
  BY <1>1, <1>3, <1>4 DEF Listing!TypeOK, Listing!RatingCount, Listing!Goto, OthersStay, Places
<1>6. QED
  BY <1>1, <1>2, <1>4, <1>5 DEF FormOK

\* deleteImage goes on with an image that is left.
LEMMA DeleteGoesOn ==
  ASSUME ListingOK, NEW r \in Requests, Listing!DeleteNext(r)
  PROVE  /\ place[r] = "next" /\ OthersStay(r) /\ FormOK(r)'
         /\ \/ Listing!Rows = {} /\ place'[r] = "hide"
            \/ place'[r] = "find" /\ form'[r].image \in Listing!Rows
<1>1. form[r] \in Listing!RequestType /\ place[r] = "next" /\ Listing!TypeOK
  BY DEF ListingOK, FormOK, Listing!DeleteNext
<1>2. CASE Listing!Rows = {} /\ Listing!Goto(r, "hide") /\ UNCHANGED form
  BY <1>1, <1>2, ListingGoes DEF Places
<1>3. ASSUME NEW i \in Listing!Rows, Listing!Goto(r, "find"), form' = [form EXCEPT ![r].image = i]
      PROVE  OthersStay(r) /\ FormOK(r)' /\ place'[r] = "find" /\ form'[r].image = i
  <2>1. form'[r] \in Listing!RequestType /\ form'[r].image = i
    BY <1>1, <1>3 DEF Listing!TypeOK, Listing!RequestType, Listing!Rows
  <2>2. OthersStay(r) /\ place'[r] = "find"
    BY <1>1, <1>3, <2>1 DEF Listing!TypeOK, Listing!Goto, OthersStay, Places
  <2>3. QED
    BY <2>1, <2>2 DEF FormOK
<1>4. QED
  BY <1>1, <1>2, <1>3 DEF Listing!DeleteNext

\* The other steps move their handler on with the form it has, or end it.
LEMMA OtherStepsMove ==
  ASSUME ListingOK, NEW r \in Requests,
         \/ Listing!SubmitWrite(r) \/ Listing!UploadShown(r) \/ Listing!DeleteWrite(r)
         \/ Listing!DeleteHide(r) \/ Listing!CoverFind(r) \/ Listing!CoverClear(r)
         \/ Listing!CoverMark(r) \/ Listing!CoverShow(r) \/ Listing!ReviewInsert(r)
         \/ Listing!RatingWrite(r)
  PROVE  /\ place[r] \notin { "idle", "insert", "next", "count" } /\ OthersStay(r) /\ FormOK(r)'
         /\ place'[r] = "idle" \/ form'[r] = form[r]
<1>1. place[r] \notin { "idle", "insert", "next", "count" }
  BY DEF Listing!SubmitWrite, Listing!UploadShown, Listing!DeleteWrite, Listing!DeleteHide,
         Listing!CoverFind, Listing!CoverClear, Listing!CoverMark, Listing!CoverShow,
         Listing!ReviewInsert, Listing!RatingWrite
<1>2. \/ Listing!Finish(r)
      \/ \E to \in Places \ { "insert" } : Listing!Goto(r, to) /\ UNCHANGED form
  BY DEF Listing!SubmitWrite, Listing!UploadShown, Listing!DeleteWrite, Listing!DeleteHide,
         Listing!CoverFind, Listing!CoverClear, Listing!CoverMark, Listing!CoverShow,
         Listing!ReviewInsert, Listing!RatingWrite, Places
<1>3. QED
  BY <1>1, <1>2, ListingEnds, ListingGoes

LEMMA OtherStepsRows ==
  ASSUME ListingOK, NEW r \in Requests,
         \/ Listing!SubmitWrite(r) \/ Listing!UploadShown(r) \/ Listing!DeleteWrite(r)
         \/ Listing!DeleteHide(r) \/ Listing!CoverFind(r) \/ Listing!CoverClear(r)
         \/ Listing!CoverMark(r) \/ Listing!CoverShow(r) \/ Listing!ReviewInsert(r)
         \/ Listing!RatingWrite(r)
  PROVE  RowsOK
<1>1. Listing!TypeOK /\ form[r] \in Listing!RequestType
  BY OtherStepsMove DEF ListingOK, FormOK
<1>2. standing' \in Listing!ListingStatus \union {None} /\ enabled' \in BOOLEAN
  BY RowsStay DEF Listing!SubmitWrite, Listing!UploadShown, Listing!DeleteWrite,
     Listing!DeleteHide, Listing!CoverFind, Listing!CoverClear, Listing!CoverMark,
     Listing!CoverShow, Listing!ReviewInsert, Listing!RatingWrite, Listing!ListingStatus,
     Listing!listing, ListingOK, Listing!TypeOK
<1>3. image' \in [Images -> { "new", "plain", "cover", "gone" }]
  <2>1. CASE Listing!DeleteWrite(r) \/ Listing!CoverClear(r) \/ Listing!CoverMark(r)
    BY <1>1, <2>1 DEF Listing!DeleteWrite, Listing!CoverClear, Listing!CoverMark, Listing!TypeOK,
       Listing!Rows
  <2>2. CASE UNCHANGED image
    BY <1>1, <2>2 DEF Listing!TypeOK
  <2>3. QED
    BY <2>1, <2>2 DEF Listing!SubmitWrite, Listing!UploadShown, Listing!DeleteHide,
       Listing!CoverFind, Listing!CoverShow, Listing!ReviewInsert, Listing!RatingWrite,
       Listing!gallery
<1>4. cover' \in Images \union {None}
  BY <1>1 DEF Listing!SubmitWrite, Listing!UploadShown, Listing!DeleteWrite,
     Listing!DeleteHide, Listing!CoverFind, Listing!CoverClear, Listing!CoverMark,
     Listing!CoverShow, Listing!ReviewInsert, Listing!RatingWrite, Listing!RequestType,
     Listing!gallery, Listing!TypeOK
<1>5. review' \in [Reviews -> { "new", "visible", "hidden" }] /\ score' \subseteq Reviews
  BY <1>1 DEF Listing!SubmitWrite, Listing!UploadShown, Listing!DeleteWrite,
     Listing!DeleteHide, Listing!CoverFind, Listing!CoverClear, Listing!CoverMark,
     Listing!CoverShow, Listing!ReviewInsert, Listing!RatingWrite, Listing!RequestType,
     Listing!opinion, Listing!TypeOK
<1>6. QED
  BY <1>2, <1>3, <1>4, <1>5 DEF RowsOK

LEMMA ListingProceeds ==
  ASSUME ListingOK, NEW r \in Requests, Listing!Proceed(r)
  PROVE  ListingOK'
<1>1. CASE Listing!UploadInsert(r)
  <2>1. OthersStay(r) /\ FormOK(r)'
    BY <1>1, UploadInserts
  <2>2. RowsOK
    BY <1>1, RowsStay DEF ListingOK, Listing!TypeOK, Listing!UploadInsert, RowsOK
  <2>3. QED
    BY <2>1, <2>2, ListingMoves
<1>2. CASE Listing!DeleteNext(r)
  BY <1>2, DeleteGoesOn, RowsStay, ListingMoves DEF RowsOK, Listing!DeleteNext
<1>3. CASE Listing!RatingCount(r)
  BY <1>3, RatingCounts, RowsStay, ListingMoves DEF RowsOK, Listing!RatingCount
<1>4. QED
  BY <1>1, <1>2, <1>3, OtherStepsMove, OtherStepsRows, ListingMoves DEF Listing!Proceed

LEMMA ListingOutside ==
  ASSUME ListingOK, Listing!Typed \/ Listing!Decide
  PROVE  ListingOK' /\ UNCHANGED << review, score, place, form >>
<1>1. UNCHANGED << Listing!opinion, Listing!handlers >>
  BY DEF Listing!Typed, Listing!Decide, Listing!Create, Listing!UpdateGallery,
     Listing!UpdateCover, Listing!SetCoverImage, Listing!SetEnabled, Listing!AdminDecide
<1>2. standing' \in Listing!ListingStatus \union {None}
  BY DEF Listing!Typed, Listing!Decide, Listing!Create, Listing!UpdateGallery,
     Listing!UpdateCover, Listing!SetCoverImage, Listing!SetEnabled, Listing!AdminDecide,
     ListingOK, Listing!TypeOK, Listing!ListingStatus, Listing!listing
<1>3. enabled' \in BOOLEAN
  <2>1. (~ enabled) \in BOOLEAN
    OBVIOUS
  <2>2. CASE Listing!SetEnabled
    BY <2>1, <2>2, Zenon DEF Listing!SetEnabled
  <2>3. CASE UNCHANGED enabled
    BY <2>3 DEF ListingOK, Listing!TypeOK
  <2>4. QED
    BY <2>2, <2>3
    DEF Listing!Typed, Listing!Decide, Listing!Create, Listing!UpdateGallery,
        Listing!UpdateCover, Listing!SetCoverImage, Listing!AdminDecide, Listing!listing
<1>4. /\ image' \in [Images -> { "new", "plain", "cover", "gone" }]
      /\ cover' \in Images \union {None}
  <2>1. ASSUME NEW given, NEW url \in Images \union {None}, Listing!UpdateGallery(given, url)
        PROVE  <1>4!1 /\ <1>4!2
    BY <2>1 DEF Listing!UpdateGallery, ListingOK, Listing!TypeOK
  <2>2. ASSUME NEW url \in Images \union {None}, Listing!SetCoverImage(url)
        PROVE  <1>4!1 /\ <1>4!2
    BY <2>2 DEF Listing!SetCoverImage, ListingOK, Listing!TypeOK
  <2>3. ASSUME NEW given, NEW first, NEW url \in Images \union {None},
               Listing!Create(given, first, url)
        PROVE  <1>4!1 /\ <1>4!2
    BY <2>3 DEF Listing!Create
  <2>4. ASSUME NEW url \in Images \union {None},
               Listing!UpdateCover(url) \/ Listing!SetEnabled
                 \/ \E to \in { "approved", "rejected", "suspended" } : Listing!AdminDecide(to)
        PROVE  <1>4!1 /\ <1>4!2
    BY <2>4 DEF Listing!UpdateCover, Listing!SetEnabled, Listing!AdminDecide, Listing!gallery,
       ListingOK, Listing!TypeOK
  <2>5. QED
    BY <2>1, <2>2, <2>3, <2>4 DEF Listing!Typed, Listing!Decide, Listing!Rows
<1>5. Listing!TypeOK'
  BY <1>1, <1>2, <1>3, <1>4 DEF ListingOK, Listing!TypeOK, Listing!opinion, Listing!handlers
<1>6. QED
  BY <1>1, <1>5 DEF ListingOK, FormOK, Listing!opinion, Listing!handlers

LEMMA ListingKeeps ==
  ASSUME ListingOK, ListingStep
  PROVE  ListingOK'
<1>1. CASE UNCHANGED listingVars
  BY <1>1 DEF ListingOK, Listing!TypeOK, FormOK, listingVars
<1>2. CASE Listing!MCNext
  BY <1>2, ListingArrives, ListingProceeds, ListingOutside DEF Listing!MCNext
<1>3. CASE Listing!MCTyped
  BY <1>3, ListingOutside DEF Listing!MCTyped
<1>4. CASE Listing!MCLost
  <2>1. PICK r \in Requests : Listing!Abort(r)
    BY <1>4 DEF Listing!MCLost
  <2>2. OthersStay(r) /\ FormOK(r)' /\ RowsOK
    BY <2>1, ListingEnds, RowsStay DEF Listing!Abort, RowsOK
  <2>3. QED
    BY <2>2, ListingMoves
<1>5. QED
  BY <1>1, <1>2, <1>3, <1>4 DEF ListingStep

-----------------------------------------------------------------------------
(* The rating of a listing: what a handler counts is what is visible until *)
(* it has written it                                                       *)

OneForm == \A q, r \in Requests : place[q] # "idle" /\ place[r] # "idle" => q = r

Rated ==
  /\ OneForm
  /\ \A r \in Requests : place[r] = "rate" => form[r].seen = Listing!Visible
  /\ (\A r \in Requests : place[r] \notin { "count", "rate" }) => score = Listing!Visible

Steady == ~ mixed => Rated

LEMMA RatedMoves ==
  ASSUME Rated, NEW r \in Requests, OthersStay(r), OneForm',
         place[r] # "idle" \/ place'[r] # "idle",
         \/ place'[r] = "count"
         \/ place'[r] = "rate" /\ form'[r].seen = Listing!Visible'
         \/ place'[r] \notin { "count", "rate" } /\ score' = Listing!Visible'
  PROVE  Rated'
<1>1. \A q \in Requests \ {r} : place'[q] = "idle"
  BY DEF Rated, OneForm, OthersStay
<1>2. QED
  BY <1>1 DEF Rated

\* A step that leaves the reviews and the rating alone, and no handler that
\* counts or rates.
LEMMA RatedStays ==
  ASSUME Rated, NEW r \in Requests, OthersStay(r), OneForm',
         place[r] # "idle" \/ place'[r] # "idle",
         place[r] \notin { "count", "rate" }, place'[r] \notin { "count", "rate" },
         UNCHANGED Listing!opinion
  PROVE  Rated'
<1>1. \A q \in Requests \ {r} : place[q] = "idle"
  BY DEF Rated, OneForm, OthersStay
<1>2. score = Listing!Visible
  BY <1>1 DEF Rated
<1>3. score' = Listing!Visible'
  BY <1>2 DEF Listing!opinion, Listing!Visible
<1>4. QED
  BY <1>3, RatedMoves

LEMMA RatedArrives ==
  ASSUME ListingOK, Rated, OneForm', NEW r \in Requests, Listing!Arrive(r)
  PROVE  Rated'
<1>1. ASSUME NEW op \in { "submit", "review" }, Listing!Begin(r, "write", op, None, 0, FALSE)
      PROVE  Rated'
  <2>1. OthersStay(r) /\ place[r] = "idle" /\ place'[r] = "write"
    BY <1>1, ListingBegins
  <2>2. QED
    BY <1>1, <2>1, RatedStays DEF Listing!Begin
<1>2. ASSUME NEW n \in 1..2, Listing!UploadCall(r, n) PROVE Rated'
  <2>1. OthersStay(r) /\ place[r] = "idle" /\ place'[r] = "insert"
    BY <1>2, UploadBegins
  <2>2. QED
    BY <1>2, <2>1, RatedStays DEF Listing!UploadCall, Listing!Begin
<1>3. ASSUME NEW i \in Images, Listing!DeleteCall(r, i) PROVE Rated'
  <2>1. OthersStay(r) /\ place[r] = "idle" /\ place'[r] = "write"
    BY <1>3, DeleteBegins
  <2>2. QED
    BY <1>3, <2>1, RatedStays DEF Listing!DeleteCall, Listing!Begin
<1>4. ASSUME NEW i \in Images, Listing!SetCoverCall(r, i) PROVE Rated'
  <2>1. OthersStay(r) /\ place[r] = "idle" /\ place'[r] = "clear"
    BY <1>4, ListingBegins DEF Listing!SetCoverCall
  <2>2. QED
    BY <1>4, <2>1, RatedStays DEF Listing!SetCoverCall, Listing!Begin
<1>5. ASSUME NEW v \in Reviews, NEW to \in { "visible", "hidden" }, Listing!ModerateCall(r, v, to)
      PROVE  Rated'
  BY <1>5, ModerateBegins, RatedMoves
<1>6. QED
  BY <1>1, <1>2, <1>3, <1>4, <1>5
  DEF Listing!Arrive, Listing!SubmitCall, Listing!ReviewCall

LEMMA RatedProceeds ==
  ASSUME ListingOK, Rated, OneForm', NEW r \in Requests, Listing!Proceed(r)
  PROVE  Rated'
<1>1. CASE Listing!RatingCount(r)
  <2>1. UNCHANGED Listing!opinion
    BY <1>1 DEF Listing!RatingCount
  <2>2. Listing!Visible' = Listing!Visible
    BY <2>1 DEF Listing!opinion, Listing!Visible
  <2>3. QED
    BY <1>1, <2>2, RatingCounts, RatedMoves
<1>2. CASE Listing!RatingWrite(r)
  <2>1. OthersStay(r) /\ place[r] = "rate" /\ place'[r] = "idle"
    BY <1>2, ListingEnds DEF Listing!RatingWrite
  <2>2. score' = form[r].seen /\ review' = review
    BY <1>2 DEF Listing!RatingWrite
  <2>3. score' = Listing!Visible'
    BY <2>1, <2>2 DEF Rated, Listing!Visible
  <2>4. QED
    BY <2>1, <2>3, RatedMoves
<1>3. CASE Listing!ReviewInsert(r)
  <2>1. OthersStay(r) /\ place'[r] = "count"
    BY <1>3, ListingGoes DEF Listing!ReviewInsert, Places
  <2>2. QED
    BY <2>1, RatedMoves
<1>4. CASE Listing!UploadInsert(r)
  <2>1. OthersStay(r) /\ place[r] = "insert" /\ place'[r] \in { "shown", "insert" }
    BY <1>4, UploadInserts
  <2>2. QED
    BY <1>4, <2>1, RatedStays DEF Listing!UploadInsert
<1>5. CASE Listing!DeleteNext(r)
  <2>1. OthersStay(r) /\ place[r] = "next" /\ place'[r] \in { "hide", "find" }
    BY <1>5, DeleteGoesOn
  <2>2. QED
    BY <1>5, <2>1, RatedStays DEF Listing!DeleteNext
<1>6. ASSUME \/ Listing!SubmitWrite(r) \/ Listing!UploadShown(r) \/ Listing!DeleteWrite(r)
             \/ Listing!DeleteHide(r) \/ Listing!CoverFind(r) \/ Listing!CoverClear(r)
             \/ Listing!CoverMark(r) \/ Listing!CoverShow(r)
      PROVE  Rated'
  <2>1. OthersStay(r) /\ place[r] \notin { "idle", "count" }
    BY <1>6, OtherStepsMove
  <2>2. place[r] # "rate" /\ place'[r] \notin { "count", "rate" } /\ UNCHANGED Listing!opinion
    BY <1>6, <2>1
    DEF Listing!SubmitWrite, Listing!UploadShown, Listing!DeleteWrite, Listing!DeleteHide,
        Listing!CoverFind, Listing!CoverClear, Listing!CoverMark, Listing!CoverShow,
        Listing!Goto, Listing!Finish, ListingOK, Listing!TypeOK
  <2>3. QED
    BY <2>1, <2>2, RatedStays
<1>7. QED
  BY <1>1, <1>2, <1>3, <1>4, <1>5, <1>6 DEF Listing!Proceed

LEMMA SteadyKeeps ==
  ASSUME ListingOK, Steady, ListingStep
  PROVE  Steady'
<1>1. CASE UNCHANGED listingVars
  BY <1>1 DEF Steady, Rated, OneForm, Listing!Visible, listingVars
<1>2. ASSUME ~ mixed, Listing!Typed \/ Listing!Decide PROVE Rated'
  BY <1>2, ListingOutside DEF Steady, Rated, OneForm, Listing!Visible
<1>3. ASSUME ~ mixed', Listing!MCNext PROVE Rated'
  <2>1. ~ mixed /\ ~ Listing!Overlapping'
    BY <1>3 DEF Listing!MCNext
  <2>2. Rated /\ OneForm'
    BY <2>1 DEF Steady, OneForm, Listing!Overlapping, Listing!Busy
  <2>3. QED
    BY <1>2, <1>3, <2>1, <2>2, RatedArrives, RatedProceeds DEF Listing!MCNext
<1>4. CASE Listing!MCNext
  BY <1>3, <1>4 DEF Steady
<1>5. CASE Listing!MCTyped
  BY <1>2, <1>5 DEF Listing!MCTyped, Steady
<1>6. CASE Listing!MCLost
  BY <1>6 DEF Listing!MCLost, Steady
<1>7. QED
  BY <1>1, <1>4, <1>5, <1>6 DEF ListingStep

\* As long as handlers run one at a time and end, the rating was computed from
\* the reviews that are visible (recalculateListingRating after a review or a
\* moderation).
THEOREM RatingCurrent == MCSpec => []RatingIsCurrent
<1>1. MCInit => ListingOK /\ Steady
  <2>1. Listing!MCInit => Steady
    BY DEF Listing!MCInit, Listing!Init, Steady, Rated, OneForm, Listing!Visible
  <2>2. QED
    BY <2>1, InitOfEach, ListingInit
<1>2. ListingOK /\ Steady /\ [MCNext]_<< part, mailVars, accountVars, shipmentVars, listingVars >>
        => (ListingOK /\ Steady)'
  BY StepOfEach, ListingKeeps, SteadyKeeps DEF allVars
<1>3. Steady => RatingIsCurrent
  BY DEF Steady, Rated, RatingIsCurrent, Listing!RatingIsCurrent, Listing!Settled, Listing!Busy
<1>4. QED
  BY <1>1, <1>2, <1>3, PTL DEF MCSpec

-----------------------------------------------------------------------------
(* The cover of a listing: between two statements of a handler, the flag   *)
(* and the address agree or the handler is about to write the one that     *)
(* does not                                                                *)

Shows ==
  /\ \A i \in Images : image[i] = "cover" <=> cover = i
  /\ Listing!Rows # {} => cover # None

OnlyCover(j) == \A i \in Images : image[i] = "cover" <=> i = j

Unmarked == \A i \in Images : image[i] # "cover"

\* What a handler alone in flight relies on, by where it stands.
FormShows(r) ==
  LET c == form[r] IN
  /\ place[r] \in { "write", "count", "rate" } => Shows
  /\ place[r] = "write" /\ c.op = "delete" =>
       /\ c.image \in Listing!Rows
       /\ IF c.flag THEN image[c.image] = "cover" ELSE image[c.image] # "cover"
  /\ place[r] = "insert" /\ c.image = None =>
       Shows /\ IF c.flag THEN Listing!Rows = {} ELSE Listing!Rows # {}
  /\ place[r] \in { "insert", "shown" } /\ c.image # None =>
       IF c.flag THEN cover = None /\ OnlyCover(c.image) ELSE Shows /\ Listing!Rows # {}
  /\ place[r] = "shown" => c.image # None
  /\ place[r] = "next" => Unmarked
  /\ place[r] = "hide" => Listing!Rows = {}
  /\ place[r] \in { "find", "clear", "mark" } => c.image \in Listing!Rows
  /\ place[r] = "mark" => Unmarked
  /\ place[r] = "show" => c.image \in Images /\ OnlyCover(c.image)

Marked ==
  /\ OneForm
  /\ (\A r \in Requests : place[r] = "idle") => Shows
  /\ \A r \in Requests : place[r] # "idle" => FormShows(r)

Agreed == ~ mixed /\ ~ typed => Marked

LEMMA MarkedMoves ==
  ASSUME Marked, NEW r \in Requests, OthersStay(r), OneForm',
         place[r] # "idle" \/ place'[r] # "idle",
         place'[r] = "idle" => Shows',
         place'[r] # "idle" => FormShows(r)'
  PROVE  Marked'
<1>1. \A q \in Requests \ {r} : place'[q] = "idle"
  BY DEF Marked, OneForm, OthersStay
<1>2. QED
  BY <1>1 DEF Marked

LEMMA ShownBefore ==
  ASSUME Marked, NEW r \in Requests, OthersStay(r), OneForm',
         place[r] = "idle", place'[r] # "idle"
  PROVE  Shows
  BY DEF Marked, OneForm, OthersStay

LEMMA ShowsStays ==
  ASSUME UNCHANGED Listing!gallery
  PROVE  /\ Listing!Rows' = Listing!Rows
         /\ Shows => Shows'
         /\ Unmarked => Unmarked'
         /\ \A j : OnlyCover(j) => OnlyCover(j)'
<1>1. image' = image /\ cover' = cover
  BY DEF Listing!gallery
<1>2. QED
  BY <1>1 DEF Listing!Rows, Shows, Unmarked, OnlyCover

LEMMA MarkedArrives ==
  ASSUME ListingOK, Marked, OneForm', NEW r \in Requests, Listing!Arrive(r)
  PROVE  Marked'
<1>1. ASSUME NEW op \in { "submit", "review" }, Listing!Begin(r, "write", op, None, 0, FALSE)
      PROVE  Marked'
  <2>1. /\ OthersStay(r) /\ place[r] = "idle" /\ place'[r] = "write"
        /\ form'[r] = [ op |-> op, files |-> 0, image |-> None, flag |-> FALSE, seen |-> {} ]
    <3>1. op \in { "upload", "delete", "cover", "review", "submit" }
      OBVIOUS
    <3>2. /\ "write" \in { "write", "insert", "clear" } /\ "write" # "insert"
          /\ None \in Images \union {None} /\ 0 \in Nat /\ FALSE \in BOOLEAN
      OBVIOUS
    <3>3. QED
      BY <1>1, <3>1, <3>2, ListingBegins
  <2>2. Shows'
    BY <1>1, <2>1, ShownBefore, ShowsStays DEF Listing!Begin
  <2>3. FormShows(r)'
    BY <2>1, <2>2 DEF FormShows
  <2>4. QED
    BY <2>1, <2>3, MarkedMoves
<1>2. ASSUME NEW n \in 1..2, Listing!UploadCall(r, n) PROVE Marked'
  <2>1. /\ OthersStay(r) /\ place[r] = "idle" /\ place'[r] = "insert"
        /\ form'[r].image = None /\ (form'[r].flag <=> Listing!Rows = {})
    BY <1>2, UploadBegins
  <2>2. UNCHANGED Listing!gallery
    BY <1>2 DEF Listing!UploadCall, Listing!Begin
  <2>3. Shows'
    BY <2>1, <2>2, ShownBefore, ShowsStays
  <2>4. (form'[r].flag => Listing!Rows' = {}) /\ (~ form'[r].flag => Listing!Rows' # {})
    BY <2>1, <2>2, ShowsStays
  <2>5. FormShows(r)'
    BY <2>1, <2>3, <2>4 DEF FormShows
  <2>6. QED
    BY <2>1, <2>5, MarkedMoves
<1>3. ASSUME NEW i \in Images, Listing!DeleteCall(r, i) PROVE Marked'
  <2>1. /\ OthersStay(r) /\ place[r] = "idle" /\ place'[r] = "write"
        /\ form'[r].op = "delete" /\ form'[r].image = i
        /\ form'[r].flag <=> image[i] = "cover"
    BY <1>3, DeleteBegins
  <2>2. UNCHANGED Listing!gallery /\ i \in Listing!Rows
    BY <1>3 DEF Listing!DeleteCall, Listing!Begin
  <2>3. Shows' /\ i \in Listing!Rows' /\ image' = image
    BY <2>1, <2>2, ShownBefore, ShowsStays DEF Listing!gallery
  <2>4. (form'[r].flag => image'[i] = "cover") /\ (~ form'[r].flag => image'[i] # "cover")
    BY <2>1, <2>3
  <2>5. FormShows(r)'
    BY <2>1, <2>3, <2>4 DEF FormShows
  <2>6. QED
    BY <2>1, <2>5, MarkedMoves
<1>4. ASSUME NEW i \in Images, Listing!SetCoverCall(r, i) PROVE Marked'
  <2>1. /\ OthersStay(r) /\ place[r] = "idle" /\ place'[r] = "clear"
        /\ form'[r] = [ op |-> "cover", files |-> 0, image |-> i, flag |-> FALSE, seen |-> {} ]
    BY <1>4, ListingBegins DEF Listing!SetCoverCall
  <2>2. i \in Listing!Rows'
    BY <1>4, ShowsStays DEF Listing!SetCoverCall, Listing!Begin
  <2>3. FormShows(r)'
    BY <2>1, <2>2 DEF FormShows
  <2>4. QED
    BY <2>1, <2>3, MarkedMoves
<1>5. ASSUME NEW v \in Reviews, NEW to \in { "visible", "hidden" }, Listing!ModerateCall(r, v, to)
      PROVE  Marked'
  <2>1. OthersStay(r) /\ place[r] = "idle" /\ place'[r] = "count"
    BY <1>5, ModerateBegins
  <2>2. Shows'
    BY <1>5, <2>1, ShownBefore, ShowsStays DEF Listing!ModerateCall
  <2>3. FormShows(r)'
    BY <2>1, <2>2 DEF FormShows
  <2>4. QED
    BY <2>1, <2>3, MarkedMoves
<1>6. QED
  BY <1>1, <1>2, <1>3, <1>4, <1>5
  DEF Listing!Arrive, Listing!SubmitCall, Listing!ReviewCall

\* Every statement of the handler alone in flight leaves the flag and the
\* address as the next one expects them.
LEMMA InsertMarks ==
  ASSUME ListingOK, Marked, OneForm', NEW r \in Requests, Listing!UploadInsert(r)
  PROVE  Marked'
<1> USE ServicesAssumption
<1> DEFINE first == form[r].image = None
<1>1. PICK i \in Images :
        /\ place[r] = "insert" /\ place'[r] \in { "shown", "insert" }
        /\ image[i] = "new"
        /\ image' = [image EXCEPT ![i] = IF form[r].flag /\ first THEN "cover" ELSE "plain"]
        /\ form'[r].flag = form[r].flag
        /\ form'[r].image = IF first THEN i ELSE form[r].image
        /\ OthersStay(r) /\ FormOK(r)'
  BY UploadInserts
<1>2. cover' = cover
  BY DEF Listing!UploadInsert
<1>3. /\ Listing!TypeOK /\ form[r].image \in Images \union {None} /\ form[r].flag \in BOOLEAN
      /\ FormShows(r)
  BY <1>1 DEF ListingOK, FormOK, Listing!RequestType, Marked
<1>4. form'[r].image \in Images /\ form'[r].image # None
  BY <1>1, <1>3
<1>5. i \in Listing!Rows' /\ Listing!Rows \subseteq Listing!Rows'
  BY <1>1, <1>3 DEF Listing!Rows, Listing!TypeOK
<1>6. CASE form[r].flag
  <2>1. CASE first
    <3>1. Listing!Rows = {} /\ Shows
      BY <1>1, <1>3, <1>6, <2>1 DEF FormShows
    <3>2. cover = None /\ \A j \in Images : image[j] # "cover"
      BY <1>3, <3>1 DEF Shows, Listing!Rows, Listing!TypeOK
    <3>3. cover' = None /\ OnlyCover(i)' /\ form'[r].image = i
      BY <1>1, <1>2, <1>3, <1>6, <2>1, <3>2 DEF OnlyCover, Listing!TypeOK
    <3>4. OnlyCover(form[r].image)'
      BY <3>3 DEF OnlyCover
    <3>5. FormShows(r)'
      BY <1>1, <1>4, <1>6, <3>3, <3>4 DEF FormShows
    <3>6. QED
      BY <1>1, <3>5, MarkedMoves
  <2>2. CASE ~ first
    <3>1. cover = None /\ OnlyCover(form[r].image) /\ form'[r].image = form[r].image
      BY <1>1, <1>3, <1>6, <2>2 DEF FormShows
    <3>2. \A j \in Images : image'[j] = "cover" <=> j = form[r].image
      BY <1>1, <1>3, <2>2, <3>1 DEF OnlyCover, Listing!TypeOK
    <3>3. cover' = None /\ OnlyCover(form[r].image)'
      BY <1>2, <3>1, <3>2 DEF OnlyCover
    <3>4. FormShows(r)'
      BY <1>1, <1>4, <1>6, <3>3 DEF FormShows
    <3>5. QED
      BY <1>1, <3>4, MarkedMoves
  <2>3. QED
    BY <2>1, <2>2
<1>7. CASE ~ form[r].flag
  <2>1. Shows /\ Listing!Rows # {}
    BY <1>1, <1>3, <1>7 DEF FormShows
  <2>2. \A j \in Images : image'[j] = "cover" <=> image[j] = "cover"
    BY <1>1, <1>3, <1>7 DEF Listing!TypeOK
  <2>3. Shows' /\ Listing!Rows' # {}
    BY <1>2, <1>5, <2>1, <2>2 DEF Shows
  <2>4. FormShows(r)'
    BY <1>1, <1>4, <1>7, <2>3 DEF FormShows
  <2>5. QED
    BY <1>1, <2>4, MarkedMoves
<1>8. QED
  BY <1>6, <1>7

LEMMA DeleteMarks ==
  ASSUME ListingOK, Marked, OneForm', NEW r \in Requests, Listing!DeleteWrite(r)
  PROVE  Marked'
<1>1. OthersStay(r) /\ place[r] = "write" /\ (place'[r] = "idle" \/ form'[r] = form[r])
  BY OtherStepsMove DEF Listing!DeleteWrite
<1> DEFINE i == form[r].image
<1>2. /\ Shows /\ i \in Listing!Rows /\ i \in Images
      /\ IF form[r].flag THEN image[i] = "cover" ELSE image[i] # "cover"
  BY <1>1 DEF Marked, FormShows, Listing!DeleteWrite, Listing!Rows
<1>3. image' = [image EXCEPT ![i] = "gone"] /\ cover' = cover
  BY <1>2 DEF Listing!DeleteWrite
<1>4. image \in [Images -> { "new", "plain", "cover", "gone" }]
  BY DEF ListingOK, Listing!TypeOK
<1>5. CASE form[r].flag
  <2>1. Unmarked'
    BY <1>2, <1>3, <1>4, <1>5 DEF Shows, Unmarked
  <2>2. place'[r] = "next"
    BY <1>2, <1>5 DEF Listing!DeleteWrite, Listing!Goto, ListingOK, Listing!TypeOK
  <2>3. FormShows(r)'
    BY <2>1, <2>2 DEF FormShows
  <2>4. QED
    BY <1>1, <2>2, <2>3, MarkedMoves
<1>6. CASE ~ form[r].flag
  <2>1. Listing!Rows' \subseteq Listing!Rows
    BY <1>2, <1>3, <1>4 DEF Listing!Rows
  <2>2. \A j \in Images : image'[j] = "cover" <=> image[j] = "cover"
    BY <1>2, <1>3, <1>4, <1>6
  <2>3. Shows'
    BY <1>2, <1>3, <2>1, <2>2 DEF Shows
  <2>4. place'[r] = "idle"
    BY <1>6 DEF Listing!DeleteWrite, Listing!Finish, ListingOK, Listing!TypeOK
  <2>5. QED
    BY <1>1, <2>3, <2>4, MarkedMoves
<1>7. QED
  BY <1>5, <1>6

LEMMA CoverMarks ==
  ASSUME ListingOK, Marked, OneForm', NEW r \in Requests,
         Listing!CoverClear(r) \/ Listing!CoverMark(r) \/ Listing!CoverShow(r)
  PROVE  Marked'
<1> USE ServicesAssumption
<1>1. OthersStay(r) /\ place[r] # "idle" /\ (place'[r] = "idle" \/ form'[r] = form[r])
  BY OtherStepsMove
<1> DEFINE i == form[r].image
<1>2. /\ image \in [Images -> { "new", "plain", "cover", "gone" }] /\ FormShows(r)
      /\ place \in [Requests -> Places]
  BY <1>1 DEF ListingOK, Listing!TypeOK, Marked, Places
<1>3. CASE Listing!CoverClear(r)
  <2>1. place[r] = "clear" /\ place'[r] = "mark" /\ i \in Listing!Rows
    BY <1>2, <1>3 DEF Listing!CoverClear, Listing!Goto, FormShows
  <2>2. Unmarked' /\ i \in Listing!Rows'
    BY <1>2, <1>3, <2>1 DEF Listing!CoverClear, Unmarked, Listing!Rows
  <2>3. FormShows(r)'
    BY <1>1, <2>1, <2>2 DEF FormShows
  <2>4. QED
    BY <1>1, <2>1, <2>3, MarkedMoves
<1>4. CASE Listing!CoverMark(r)
  <2>1. place[r] = "mark" /\ i \in Listing!Rows /\ Unmarked
    BY <1>2, <1>4 DEF Listing!CoverMark, FormShows
  <2>2. place'[r] = "show" /\ image' = [image EXCEPT ![i] = "cover"] /\ i \in Images
    BY <1>2, <1>4, <2>1 DEF Listing!CoverMark, Listing!Goto, Listing!Rows
  <2>3. \A j \in Images : image'[j] = "cover" <=> j = i
    BY <1>2, <2>1, <2>2 DEF Unmarked
  <2>4. form'[r].image = i
    BY <1>1, <2>2
  <2>5. OnlyCover(form[r].image)'
    BY <2>3, <2>4 DEF OnlyCover
  <2>6. FormShows(r)'
    BY <2>2, <2>4, <2>5 DEF FormShows
  <2>7. QED
    BY <1>1, <2>2, <2>6, MarkedMoves
<1>5. CASE Listing!CoverShow(r)
  <2>1. place[r] = "show" /\ i \in Images /\ OnlyCover(i)
    BY <1>2, <1>5 DEF Listing!CoverShow, FormShows
  <2>2. place'[r] = "idle" /\ cover' = i /\ image' = image
    BY <1>2, <1>5 DEF Listing!CoverShow, Listing!Finish
  <2>3. Shows'
    BY <2>1, <2>2 DEF Shows, OnlyCover
  <2>4. QED
    BY <1>1, <2>2, <2>3, MarkedMoves
<1>6. QED
  BY <1>3, <1>4, <1>5

LEMMA MarkedProceeds ==
  ASSUME ListingOK, Marked, OneForm', NEW r \in Requests, Listing!Proceed(r)
  PROVE  Marked'
<1> USE ServicesAssumption
<1>1. CASE Listing!UploadInsert(r)
  BY <1>1, InsertMarks
<1>2. CASE Listing!DeleteWrite(r)
  BY <1>2, DeleteMarks
<1>3. CASE Listing!CoverClear(r) \/ Listing!CoverMark(r) \/ Listing!CoverShow(r)
  BY <1>3, CoverMarks
<1>4. CASE Listing!UploadShown(r)
  <2>1. OthersStay(r) /\ place[r] = "shown" /\ UNCHANGED Listing!gallery
    BY <1>4, OtherStepsMove DEF Listing!UploadShown
  <2>2. /\ form[r].image \in Images /\ place \in [Requests -> Places] /\ FormShows(r)
        /\ form[r].flag \in BOOLEAN
    BY <2>1 DEF ListingOK, Listing!TypeOK, FormOK, Listing!RequestType, Marked, FormShows, Places
  <2>3. CASE cover = None
    <3>1. place'[r] = "show" /\ form' = form
      BY <1>4, <2>2, <2>3 DEF Listing!UploadShown, Listing!Goto
    <3>2. OnlyCover(form[r].image)
      BY <2>1, <2>2, <2>3 DEF FormShows, Shows
    <3>3. OnlyCover(form[r].image)'
      BY <2>1, <3>1, <3>2 DEF OnlyCover, Listing!gallery
    <3>4. FormShows(r)'
      BY <2>2, <3>1, <3>3 DEF FormShows
    <3>5. QED
      BY <2>1, <3>1, <3>4, MarkedMoves
  <2>4. CASE cover # None
    <3>1. place'[r] = "idle"
      BY <1>4, <2>2, <2>4 DEF Listing!UploadShown, Listing!Finish
    <3>2. Shows'
      BY <2>1, <2>2, <2>4, ShowsStays DEF FormShows
    <3>3. QED
      BY <2>1, <3>1, <3>2, MarkedMoves
  <2>5. QED
    BY <2>3, <2>4
<1>5. CASE Listing!DeleteNext(r)
  <2>1. /\ place[r] = "next" /\ OthersStay(r)
        /\ \/ Listing!Rows = {} /\ place'[r] = "hide"
           \/ place'[r] = "find" /\ form'[r].image \in Listing!Rows
    BY <1>5, DeleteGoesOn
  <2>2. Listing!Rows' = Listing!Rows
    BY <1>5, ShowsStays DEF Listing!DeleteNext
  <2>3. FormShows(r)'
    BY <2>1, <2>2 DEF FormShows
  <2>4. QED
    BY <2>1, <2>3, MarkedMoves
<1>6. CASE Listing!DeleteHide(r)
  <2>1. OthersStay(r) /\ place[r] = "hide" /\ place'[r] = "idle"
    BY <1>6, ListingEnds DEF Listing!DeleteHide
  <2>2. Listing!Rows = {} /\ cover' = None /\ image' = image
    BY <1>6, <2>1 DEF Marked, FormShows, Listing!DeleteHide
  <2>3. Shows'
    BY <2>2 DEF Shows, Listing!Rows, ListingOK, Listing!TypeOK
  <2>4. QED
    BY <2>1, <2>3, MarkedMoves
<1>7. CASE Listing!CoverFind(r)
  <2>1. OthersStay(r) /\ place[r] = "find" /\ UNCHANGED Listing!gallery
    BY <1>7, OtherStepsMove DEF Listing!CoverFind
  <2>2. form[r].image \in Listing!Rows /\ place \in [Requests -> Places]
    BY <2>1 DEF Marked, FormShows, ListingOK, Listing!TypeOK, Places
  <2>3. place'[r] = "clear" /\ form' = form
    BY <1>7, <2>2 DEF Listing!CoverFind, Listing!Goto
  <2>4. FormShows(r)'
    BY <2>1, <2>2, <2>3, ShowsStays DEF FormShows
  <2>5. QED
    BY <2>1, <2>3, <2>4, MarkedMoves
<1>8. CASE Listing!SubmitWrite(r) \/ Listing!RatingWrite(r)
  <2>1. /\ OthersStay(r) /\ place[r] \in { "write", "rate" } /\ place'[r] = "idle"
        /\ UNCHANGED Listing!gallery
    BY <1>8, ListingEnds DEF Listing!SubmitWrite, Listing!RatingWrite
  <2>2. Shows'
    BY <2>1, ShowsStays DEF Marked, FormShows
  <2>3. QED
    BY <2>1, <2>2, MarkedMoves
<1>9. CASE Listing!ReviewInsert(r) \/ Listing!RatingCount(r)
  <2>1. /\ OthersStay(r) /\ place[r] \in { "write", "count" } /\ place'[r] \in { "count", "rate" }
        /\ UNCHANGED Listing!gallery
    BY <1>9, RatingCounts, ListingGoes DEF Listing!ReviewInsert, Listing!RatingCount, Places
  <2>2. Shows'
    BY <2>1, ShowsStays DEF Marked, FormShows
  <2>3. FormShows(r)'
    BY <2>1, <2>2 DEF FormShows
  <2>4. QED
    BY <2>1, <2>3, MarkedMoves
<1>10. QED
  BY <1>1, <1>2, <1>3, <1>4, <1>5, <1>6, <1>7, <1>8, <1>9 DEF Listing!Proceed

\* A decision taken while no handler is in flight.
LEMMA MarkedDecides ==
  ASSUME ListingOK, Marked, Listing!Decide, \A r \in Requests : place[r] = "idle"
  PROVE  Marked'
<1> USE ServicesAssumption
<1>1. place' = place /\ form' = form
  BY ListingOutside
<1>2. Shows /\ image \in [Images -> { "new", "plain", "cover", "gone" }]
  BY DEF Marked, ListingOK, Listing!TypeOK
<1>3. ASSUME Listing!Create({}, None, None) PROVE Shows'
  BY <1>3 DEF Listing!Create, Shows, Listing!Rows
<1>4. ASSUME NEW i \in Listing!Rows, Listing!SetCoverImage(i) PROVE Shows'
  BY <1>2, <1>4 DEF Listing!SetCoverImage, Shows, Listing!Rows
<1>5. ASSUME UNCHANGED Listing!gallery PROVE Shows'
  BY <1>2, <1>5, ShowsStays
<1>6. Shows'
  BY <1>3, <1>4, <1>5 DEF Listing!Decide, Listing!SetEnabled, Listing!AdminDecide
<1>7. QED
  BY <1>1, <1>6 DEF Marked, OneForm

LEMMA AgreedKeeps ==
  ASSUME ListingOK, Agreed, ListingStep
  PROVE  Agreed'
<1>1. CASE UNCHANGED listingVars
  BY <1>1 DEF Agreed, Marked, OneForm, FormShows, Shows, Unmarked, OnlyCover, Listing!Rows,
     listingVars
<1>2. ASSUME ~ mixed', ~ typed', Listing!MCNext PROVE Marked'
  <2>1. ~ mixed /\ ~ typed /\ ~ Listing!Overlapping'
    BY <1>2 DEF Listing!MCNext
  <2>2. Marked /\ OneForm'
    BY <2>1 DEF Agreed, OneForm, Listing!Overlapping, Listing!Busy
  <2>3. ASSUME Listing!Decide PROVE Marked'
    <3>1. \A r \in Requests : place[r] = "idle"
      BY <1>2, <2>3 DEF Listing!MCNext, Listing!Busy
    <3>2. QED
      BY <2>2, <2>3, <3>1, MarkedDecides
  <2>4. QED
    BY <1>2, <2>2, <2>3, MarkedArrives, MarkedProceeds DEF Listing!MCNext
<1>3. CASE Listing!MCNext
  BY <1>2, <1>3 DEF Agreed
<1>4. CASE Listing!MCTyped
  BY <1>4 DEF Listing!MCTyped, Agreed
<1>5. CASE Listing!MCLost
  BY <1>5 DEF Listing!MCLost, Agreed
<1>6. QED
  BY <1>1, <1>3, <1>4, <1>5 DEF ListingStep

\* As long as handlers run one at a time and end and the owner types no
\* addresses, the image flagged as the cover is the one whose address the
\* listing shows, and a listing with images shows one (uploadImages,
\* deleteImage, setCover, setCoverImage).
THEOREM MarkedShown == MCSpec => []MarkedIsShown
<1>1. MCInit => ListingOK /\ Agreed
  <2>1. Listing!MCInit => Agreed
    BY ServicesAssumption
    DEF Listing!MCInit, Listing!Init, Agreed, Marked, OneForm, Shows, Listing!Rows
  <2>2. QED
    BY <2>1, InitOfEach, ListingInit
<1>2. ListingOK /\ Agreed /\ [MCNext]_<< part, mailVars, accountVars, shipmentVars, listingVars >>
        => (ListingOK /\ Agreed)'
  BY StepOfEach, ListingKeeps, AgreedKeeps DEF allVars
<1>3. Agreed => MarkedIsShown
  BY DEF Agreed, Marked, Shows, MarkedIsShown, Listing!MarkedIsShown, Listing!Settled,
     Listing!Busy
<1>4. QED
  BY <1>1, <1>2, <1>3, PTL DEF MCSpec

-----------------------------------------------------------------------------
(* The types of all four *)

\* Every row and every handler of the four services keeps its type, whatever
\* overlaps and whatever is lost.
THEOREM RowsTyped == MCSpec => []RowsTypeOK
<1>1. Inv => TypeOK
  BY DEF Inv
<1>2. AccountFacts!Inv => Account!TypeOK
  <2>1. AccountFacts!Inv => AccountFacts!TypeOK
    BY DEF AccountFacts!Inv
  <2>2. AccountFacts!TypeOK => Account!TypeOK
    BY DEF AccountFacts!TypeOK, Account!TypeOK, AccountFacts!TokenStatus, Account!TokenStatus,
           AccountFacts!MailType, Account!MailType, AccountFacts!RequestType, Account!RequestType
  <2>3. QED
    BY <2>1, <2>2
<1>3. MCSpec => []AccountFacts!Inv
  BY AccountSpec, AccountFacts!CurrentHolds, PTL
<1>4. MCInit => ShipmentOK /\ ListingOK
  BY InitOfEach, ShipmentInit, ListingInit
<1>5. ShipmentOK /\ ListingOK
        /\ [MCNext]_<< part, mailVars, accountVars, shipmentVars, listingVars >>
        => (ShipmentOK /\ ListingOK)'
  BY StepOfEach, ShipmentKeeps, ListingKeeps DEF allVars
<1>6. TypeOK /\ Account!TypeOK /\ ShipmentOK /\ ListingOK => RowsTypeOK
  BY DEF RowsTypeOK, ShipmentOK, ListingOK
<1>7. QED
  BY <1>1, <1>2, <1>3, <1>4, <1>5, <1>6, MCInvHolds, PTL DEF MCSpec
=============================================================================
