---------------------------- MODULE EmailDelivery ----------------------------
(***************************************************************************)
(* Transactional email: sendTransactional claims an event key in the       *)
(* delivery log, a promise nobody awaits hands the mail to the provider    *)
(* and tries again on a timer, and the provider's webhooks update the log. *)
(* The promise and its timers live in memory, the log in the database.     *)
(***************************************************************************)
EXTENDS Naturals, FiniteSets

CONSTANTS
  Keys,       \* event keys: one per event and recipient
  Forced,     \* the keys sent whatever the preferences are
  Requests,   \* calls of sendTransactional that may be in flight at once
  None        \* no row, no call

MAX_RETRIES == 3

Reports   == { "delivered", "bounced", "complained", "failed" }
LogStatus == { "queued", "sent", "skipped" } \union Reports

\* A message is known by the attempt the provider took; 0 stands for NULL.
Messages == 1..MAX_RETRIES

ASSUME ConstantsAssumption ==
  /\ Forced \subseteq Keys
  /\ None \notin Keys \union LogStatus

VARIABLES
  status,      \* email_delivery_logs.status; None before the row exists
  message,     \* email_delivery_logs.provider_message_id
  retries,     \* email_delivery_logs.retry_count
  caller,      \* the key each call is about to claim
  task,        \* what the dispatcher of each key does next
  attempt,     \* the attempt it is at
  answer,      \* the message the provider named
  muted,       \* the user's preferences, or the settings, refuse optional mail
  configured,  \* the provider has an API key
  accepted,    \* messages the provider took
  calls,       \* history variable: attempts made
  unsure,      \* history variable: messages taken that the log did not learn of
  lost         \* history variable: keys whose dispatcher died

log        == << status, message, retries >>
dispatcher == << task, attempt, answer >>
settings   == << muted, configured >>
history    == << calls, unsure, lost >>
vars       == << log, caller, dispatcher, settings, accepted, history >>

TypeOK ==
  /\ status   \in [Keys -> LogStatus \union {None}]
  /\ message  \in [Keys -> Messages \union {0}]
  /\ retries  \in [Keys -> 0..MAX_RETRIES]
  /\ caller   \in [Requests -> Keys \union {None}]
  /\ task     \in [Keys -> { "none", "send", "mark", "count", "wait", "give_up" }]
  /\ attempt  \in [Keys -> 0..MAX_RETRIES - 1]
  /\ answer   \in [Keys -> Messages \union {0}]
  /\ muted \in BOOLEAN /\ configured \in BOOLEAN
  /\ accepted \in [Keys -> SUBSET Messages]
  /\ calls    \in [Keys -> 0..MAX_RETRIES]
  /\ unsure   \in [Keys -> SUBSET Messages]
  /\ lost     \in [Keys -> BOOLEAN]

Init ==
  /\ status   = [k \in Keys |-> None]
  /\ message  = [k \in Keys |-> 0]
  /\ retries  = [k \in Keys |-> 0]
  /\ caller   = [r \in Requests |-> None]
  /\ task     = [k \in Keys |-> "none"]
  /\ attempt  = [k \in Keys |-> 0]
  /\ answer   = [k \in Keys |-> 0]
  /\ muted \in BOOLEAN /\ configured \in BOOLEAN
  /\ accepted = [k \in Keys |-> {}]
  /\ calls    = [k \in Keys |-> 0]
  /\ unsure   = [k \in Keys |-> {}]
  /\ lost     = [k \in Keys |-> FALSE]

Goto(k, to) == task' = [task EXCEPT ![k] = to]

-----------------------------------------------------------------------------
(* sendTransactional *)

\* EmailPreferencesService.shouldSend.
ShouldSend(k) == k \in Forced \/ ~ muted

Call(r, k) ==
  /\ caller[r] = None
  /\ ShouldSend(k)
  /\ caller' = [caller EXCEPT ![r] = k]
  /\ UNCHANGED << log, dispatcher, settings, accepted, history >>

Claimable_Any(k) == TRUE

\* The unique index on event_key lets one call insert the row.
Claimable(k) == status[k] = None

\* tryClaim, and the dispatch of the call that won.
Claim(r) ==
  LET k == caller[r] IN
  /\ k # None
  /\ caller' = [caller EXCEPT ![r] = None]
  /\ \/ /\ Claimable(k)
        /\ status'  = [status  EXCEPT ![k] = "queued"]
        /\ attempt' = [attempt EXCEPT ![k] = 0]
        /\ Goto(k, "send")
     \/ ~ Claimable(k) /\ UNCHANGED << status, task, attempt >>
  /\ UNCHANGED << message, retries, answer, settings, accepted, history >>

SetMuted ==
  /\ muted' = ~ muted
  /\ UNCHANGED << log, caller, dispatcher, configured, accepted, history >>

-----------------------------------------------------------------------------
(* sendOnce *)

Skip(k) ==
  /\ task[k] = "send" /\ ~ configured
  /\ status' = [status EXCEPT ![k] = "skipped"]
  /\ Goto(k, "none")
  /\ UNCHANGED << message, retries, caller, attempt, answer, settings, accepted, history >>

Send_NamedAtOnce(k) ==
  LET m == attempt[k] + 1 IN
  /\ task[k] = "send" /\ configured
  /\ calls'    = [calls EXCEPT ![k] = m]
  /\ accepted' = [accepted EXCEPT ![k] = @ \union {m}]
  /\ answer'   = [answer EXCEPT ![k] = m]
  /\ message'  = [message EXCEPT ![k] = m]
  /\ Goto(k, "mark")
  /\ UNCHANGED << status, retries, caller, attempt, settings, unsure, lost >>

\* The provider takes the mail or refuses it.  It answers with the message's
\* name, with an error that throws, or with an answer that names no message.
Send(k) ==
  LET m == attempt[k] + 1 IN
  /\ task[k] = "send" /\ configured
  /\ calls' = [calls EXCEPT ![k] = m]
  /\ \/ /\ accepted' = [accepted EXCEPT ![k] = @ \union {m}]
        /\ \/ answer' = [answer EXCEPT ![k] = m] /\ Goto(k, "mark") /\ UNCHANGED unsure
           \/ /\ unsure' = [unsure EXCEPT ![k] = @ \union {m}]
              /\ \/ answer' = [answer EXCEPT ![k] = 0] /\ Goto(k, "mark")
                 \/ Goto(k, "count") /\ UNCHANGED answer
     \/ /\ \/ answer' = [answer EXCEPT ![k] = 0] /\ Goto(k, "mark")
           \/ Goto(k, "count") /\ UNCHANGED answer
        /\ UNCHANGED << accepted, unsure >>
  /\ UNCHANGED << log, caller, attempt, settings, lost >>

\* markSent; an error of the update is caught like an error of the provider, and
\* is taken to mean that the row was not written.
MarkSent(k) ==
  /\ task[k] = "mark"
  /\ \/ /\ status'  = [status EXCEPT ![k] = "sent"]
        /\ message' = [message EXCEPT ![k] = IF answer[k] = 0 THEN @ ELSE answer[k]]
        /\ Goto(k, "none")
        /\ UNCHANGED unsure
     \/ /\ unsure' = [unsure EXCEPT ![k] = @ \union ({answer[k]} \ {0})]
        /\ Goto(k, "count")
        /\ UNCHANGED << status, message >>
  /\ UNCHANGED << retries, caller, attempt, answer, settings, accepted, calls, lost >>

MoreAttempts_OneMore(k) == attempt[k] < MAX_RETRIES

MoreAttempts(k) == attempt[k] < MAX_RETRIES - 1

\* incrementRetry, then the timer, or no more attempts.
CountRetry(k) ==
  /\ task[k] = "count"
  /\ retries' = [retries EXCEPT ![k] = @ + 1]
  /\ Goto(k, IF MoreAttempts(k) THEN "wait" ELSE "give_up")
  /\ UNCHANGED << status, message, caller, attempt, answer, settings, accepted, history >>

Timer_Forgotten(k) ==
  /\ task[k] = "wait"
  /\ attempt' = [attempt EXCEPT ![k] = @ + 1]
  /\ Goto(k, "none")
  /\ UNCHANGED << log, caller, answer, settings, accepted, history >>

Timer(k) ==
  /\ task[k] = "wait"
  /\ attempt' = [attempt EXCEPT ![k] = @ + 1]
  /\ Goto(k, "send")
  /\ UNCHANGED << log, caller, answer, settings, accepted, history >>

\* markFailed.
GiveUp(k) ==
  /\ task[k] = "give_up"
  /\ status' = [status EXCEPT ![k] = "failed"]
  /\ Goto(k, "none")
  /\ UNCHANGED << message, retries, caller, attempt, answer, settings, accepted, history >>

\* A database error outside the try, or in the catch, ends the promise.
Lose(k) ==
  /\ task[k] \in { "count", "give_up" } \/ (task[k] = "send" /\ ~ configured)
  /\ Goto(k, "none")
  /\ lost' = [lost EXCEPT ![k] = TRUE]
  /\ UNCHANGED << log, caller, attempt, answer, settings, accepted, calls, unsure >>

\* A restart forgets calls, dispatchers and timers; nothing reads the queued
\* rows again.
Crash ==
  /\ caller' = [r \in Requests |-> None]
  /\ task'   = [k \in Keys |-> "none"]
  /\ lost'   = [k \in Keys |-> lost[k] \/ task[k] # "none"]
  /\ UNCHANGED << log, attempt, answer, settings, accepted, calls, unsure >>

-----------------------------------------------------------------------------
\* ResendWebhookController: a report on a message that was taken, in any order
\* and as often as the provider likes, updates the row that names it.
Webhook(k, m, report) ==
  /\ m \in accepted[k]
  /\ message[k] = m
  /\ status' = [status EXCEPT ![k] = report]
  /\ UNCHANGED << message, retries, caller, dispatcher, settings, accepted, history >>

-----------------------------------------------------------------------------

Dispatch(k) == Skip(k) \/ Send(k) \/ MarkSent(k) \/ CountRetry(k) \/ Timer(k) \/ GiveUp(k)

Next ==
  \/ \E r \in Requests, k \in Keys : Call(r, k)
  \/ \E r \in Requests : Claim(r)
  \/ \E k \in Keys : Dispatch(k)
  \/ \E k \in Keys : Lose(k)
  \/ \E k \in Keys, m \in Messages, report \in Reports : Webhook(k, m, report)
  \/ SetMuted
  \/ Crash

Spec == Init /\ [][Next]_vars

-----------------------------------------------------------------------------
(* Properties *)

\* However often an event is announced and retried, its mail goes out once,
\* and once more for each message whose record was lost (tryClaim, sendOnce).
OneMailPerKey == \A k \in Keys : Cardinality(accepted[k] \ unsure[k]) <= 1

\* A mail is given up only after every attempt was made and counted.
GivenUpAfterAll ==
  \A k \in Keys :
    status[k] = "failed" /\ message[k] = 0 => calls[k] = MAX_RETRIES /\ retries[k] = MAX_RETRIES

\* What the provider reported is never overwritten by the dispatcher: the row
\* names its message only once nothing is left to do (markSent).
ReportIsKept ==
  [][\A k \in Keys :
       status[k] \in Reports /\ message[k] # 0 => status'[k] \in Reports]_vars

\* A queued mail is in the hands of its dispatcher until it is sent, skipped or
\* given up, unless the dispatcher died (sendOnce and its timers).
QueuedIsHeld ==
  \A k \in Keys : status[k] = "queued" => task[k] # "none" \/ lost[k]
=============================================================================
