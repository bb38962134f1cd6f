---------------------------- MODULE Subscription -----------------------------
(***************************************************************************)
(* An outgoing subscription of eXosip: the record js (eXosip_subscribe_t), *)
(* its dialog, its last SUBSCRIBE transaction (s_out_tr, or the first of   *)
(* d_out_trs), and the subscription at the notifier (eXsubscription_api.c, *)
(* jsubscribe.c, jcallback.c, eXosip.c, udp.c).                            *)
(*                                                                         *)
(* One notifier answers, so there is one dialog; a notifier that refuses   *)
(* sends no NOTIFY.  A subscription at the notifier and the response that  *)
(* tells of it are one step.  Transactions that were replaced have no      *)
(* effect: when they end they were challenged, or did not ask for 0.  The  *)
(* application does not use a subscription again that it has ended.        *)
(***************************************************************************)
EXTENDS Timers

CONSTANTS
    DefaultPeriod,  \* 3600 seconds: longer periods are shortened to it
    Margin,         \* 6 seconds: a refresh is sent that long before the end, or
    Part,           \* 10: a tenth of the period before it
    Slack,          \* 15 seconds: a period shortened by less is not noticed
    RetryWait,      \* TRANSACTION_TIMEOUT_RETRY, 120 seconds
    Settle,         \* 64 seconds: a record without an established dialog is dropped
    Linger,         \* 15 seconds: the record of a refused un-SUBSCRIBE is dropped
    TimerF,         \* the life of a SUBSCRIBE that is not answered
    TimerK,         \* how long an answered one stays on its list, over UDP
    Requested,      \* the Expires the application asks for, in seconds; 0: removal
    Granted,        \* what the notifier grants
    MinExpires,     \* the Min-Expires of the notifier's 423
    MaxRequests     \* bound: SUBSCRIBEs of the application after the first

VARIABLES
    polled,          \* eXosip_automatic_action was called in this second
    sub,             \* the record js: "none", "listed" in j_subscribes, or "released"
    prompt,          \* the notifier answers within the second, see Prompt
    s_reg_period,
    s_retry,
    d_retry,
    s_dialogs,       \* "NULL"; one whose d_dialog is "EARLY", "CONFIRMED" or freed, "empty"
    state,           \* of the transaction; "pending": not yet answered
    last_response,
    age,             \* now - birth_time, up to the last one compared with
    timer,           \* distance to timer F, then to timer K
    asked,           \* the Expires of the transaction's request
    refused_once,    \* a prompt notifier has refused a SUBSCRIBE since it last accepted one
    lease,           \* what is left at a prompt notifier; Off: there is none, 0: it has lapsed
    requests         \* SUBSCRIBEs of the application after the first

transaction == <<state, last_response, age, timer, asked>>
retries == <<s_retry, d_retry>>
granted == <<refused_once, lease>>
vars == <<polled, sub, prompt, s_reg_period, retries, s_dialogs, transaction, granted, requests>>

\* 401 stands for 407 too, failure for every other final response.
Refusals == {"401", "423", "failure"}
Over == {"NICT_COMPLETED", "NICT_TERMINATED"}

AgeMax == DefaultPeriod + 1

Init ==
    /\ polled = FALSE
    /\ sub = "none"
    /\ prompt = FALSE
    /\ s_reg_period = 0
    /\ s_retry = 0
    /\ d_retry = 0
    /\ s_dialogs = "NULL"
    /\ state = "NULL"
    /\ last_response = "NULL"
    /\ age = 0
    /\ timer = Off
    /\ asked = 0
    /\ refused_once = FALSE
    /\ lease = Off
    /\ requests = 0

-----------------------------------------------------------------------------
(***************************************************************************)
(* Building and sending.                                                   *)
(***************************************************************************)

\* _eXosip_subscription_set_refresh_interval: what an Expires makes of a period.
Interval(period, expires) ==
    IF expires = 0 \/ expires < period - Slack THEN expires ELSE period

\* A SUBSCRIBE leaves in a new transaction.
Transmit(expires) ==
    /\ state' = "pending"
    /\ last_response' = "NULL"
    /\ age' = 0
    /\ timer' = Start(TimerF)
    /\ asked' = expires

eXosip_subscription_send_initial_request(expires) ==
    /\ sub = "none"
    /\ sub' = "listed"
    /\ prompt' \in BOOLEAN
    /\ s_reg_period' = Interval(DefaultPeriod, expires)
    /\ Transmit(expires)
    /\ UNCHANGED <<polled, retries, s_dialogs, granted, requests>>

\* OSIP_WRONG_STATE while the last SUBSCRIBE is pending; the automatic refresh asks for
\* what was asked before.
eXosip_subscription_send_refresh_request(expires) ==
    /\ state \in Over
    /\ s_reg_period' = Interval(DefaultPeriod, expires)
    /\ Transmit(expires)

\* A refresh of the application, or its un-SUBSCRIBE.
Resubscribe(expires) ==
    /\ sub = "listed"
    /\ s_dialogs = "CONFIRMED"
    /\ s_reg_period # 0
    /\ requests < MaxRequests
    /\ requests' = requests + 1
    /\ eXosip_subscription_send_refresh_request(expires)
    /\ UNCHANGED <<polled, sub, prompt, retries, s_dialogs, granted>>

\* Without the Min-Expires of a 423 nothing is sent (MinExpires stands for one that is
\* larger than what was asked).
_eXosip_subscription_send_request_with_credential ==
    IF last_response = "423"
    THEN Transmit(MinExpires) \/ UNCHANGED transaction
    ELSE Transmit(asked)

\* _eXosip_subscription_free.
Free ==
    /\ sub' = "released"
    /\ prompt' = FALSE
    /\ s_reg_period' = 0
    /\ s_retry' = 0
    /\ d_retry' = 0
    /\ s_dialogs' = "NULL"
    /\ state' = "NULL"
    /\ last_response' = "NULL"
    /\ age' = 0
    /\ timer' = Off
    /\ asked' = 0
    /\ refused_once' = FALSE
    /\ lease' = Off
    /\ UNCHANGED <<polled, requests>>

eXosip_subscription_remove ==
    /\ sub = "listed"
    /\ s_dialogs \in {"EARLY", "CONFIRMED"}
    /\ Free

-----------------------------------------------------------------------------
(***************************************************************************)
(* The notifier.                                                           *)
(***************************************************************************)

\* A prompt notifier answers before the second is over, grants what the record notices
\* and more than the two seconds a challenge may take, and asks at most once for
\* credentials or a longer period before it accepts.
Prompt(response, grant) ==
    \/ /\ response = "2xx"
       /\ grant > 2 \/ asked = 0
       /\ grant >= s_reg_period \/ grant < s_reg_period - Slack
    \/ response = "401" /\ ~refused_once
    \/ response = "423" /\ ~refused_once /\ s_dialogs = "NULL"

Answer(response) ==
    /\ sub = "listed"
    /\ state = "pending"
    /\ last_response' = response
    /\ UNCHANGED <<polled, sub, prompt, age, asked, requests>>

\* A provisional response with a tag makes an early dialog, a 100 makes none.
cb_rcv1xx ==
    /\ Answer("1xx")
    /\ s_dialogs' \in IF s_dialogs = "NULL" THEN {"NULL", "EARLY"} ELSE {s_dialogs}
    /\ UNCHANGED <<s_reg_period, retries, state, timer, granted>>

\* The transaction is answered: timer K runs, with no length over TCP.
Complete ==
    /\ state' = "NICT_COMPLETED"
    /\ timer' \in {Start(0), Start(TimerK)}

cb_rcv2xx_4subscribe(grant) ==
    /\ Answer("2xx")
    /\ Complete
    /\ (grant = 0) <=> (asked = 0)
    /\ prompt => Prompt("2xx", grant)
    /\ s_reg_period' = Interval(s_reg_period, grant)
    /\ s_retry' = 0
    /\ d_retry' = 0
    /\ s_dialogs' = "CONFIRMED"
    /\ refused_once' = FALSE
    /\ lease' = IF prompt /\ grant # 0 THEN grant ELSE Off

cb_rcv3456xx(response) ==
    /\ Answer(response)
    /\ Complete
    /\ prompt => Prompt(response, 0)
    /\ refused_once' = prompt
    /\ response = "423" => 0 < asked /\ asked < MinExpires
    /\ s_dialogs' = IF s_dialogs = "EARLY" THEN "empty" ELSE s_dialogs
    /\ UNCHANGED <<s_reg_period, retries, lease>>

\* The first NOTIFY may overtake the 2xx; one that says "terminated" ends the record.
_eXosip_process_notify_within_dialog ==
    /\ sub = "listed"
    /\ last_response \notin Refusals
    /\ \/ Free
       \/ /\ s_dialogs = "NULL"
          /\ s_dialogs' = "CONFIRMED"
          /\ UNCHANGED <<polled, sub, prompt, s_reg_period, retries, transaction, granted,
                         requests>>

-----------------------------------------------------------------------------
(***************************************************************************)
(* The stack thread and eXosip_automatic_action.                           *)
(***************************************************************************)

\* Timer F or a transport error without a final response, or timer K: the record goes
\* with a SUBSCRIBE that was not answered and with an un-SUBSCRIBE, unless that one was
\* challenged.
cb_nict_kill_transaction ==
    /\ sub = "listed"
    /\ \/ state = "pending" /\ ~prompt
       \/ state = "NICT_COMPLETED" /\ Due(timer)
    /\ IF \/ last_response \in {"NULL", "1xx"}
          \/ asked = 0 /\ last_response # "401"
       THEN Free
       ELSE /\ state' = "NICT_TERMINATED"
            /\ timer' = Off
            /\ UNCHANGED <<polled, sub, prompt, s_reg_period, retries, s_dialogs,
                           last_response, age, asked, granted, requests>>

\* Mutant: a dialog that was freed does not count.
NotSettledWithoutDialog == s_dialogs = "NULL"

\* No established dialog.
NotSettled == s_dialogs # "CONFIRMED"

\* Mutant: the record of an un-SUBSCRIBE is left to the kill callback.
EndedNever == FALSE

\* "In TCP mode, we don't have enough time to authenticate"
Ended == s_dialogs # "NULL" /\ asked = 0 /\ state = "NICT_TERMINATED"

_eXosip_release_terminated_subscriptions ==
    /\ sub = "listed"
    /\ \/ NotSettled /\ age > Settle
       \/ Ended /\ age > Linger
    /\ Free

\* "retry with credential"
Challenged(challenges) ==
    /\ state \in Over
    /\ age < RetryWait
    /\ last_response \in challenges

\* Mutant: the age is compared with the whole period.
RefreshDueAtTheEnd ==
    /\ s_reg_period # 0
    /\ state \in Over
    /\ last_response = "2xx"
    /\ age > s_reg_period

\* "will expires in js->s_reg_period/10 sec OR 6 seconds: send refresh!"
RefreshDue ==
    /\ s_reg_period # 0
    /\ state \in Over
    /\ last_response \notin Refusals
    /\ \/ age > s_reg_period - s_reg_period \div Part
       \/ age > s_reg_period - Margin

\* Without a dialog, a challenge or a longer period is followed three times.
RetryInitial ==
    /\ sub = "listed" /\ s_dialogs = "NULL"
    /\ Challenged({"401", "423"})
    /\ s_retry < 3
    /\ s_retry' = s_retry + 1
    /\ _eXosip_subscription_send_request_with_credential
    /\ UNCHANGED <<s_reg_period, d_retry>>

\* In the dialog only a challenge is.
RetryInDialog ==
    /\ sub = "listed" /\ s_dialogs = "CONFIRMED"
    /\ Challenged({"401"})
    /\ d_retry < 3
    /\ d_retry' = d_retry + 1
    /\ _eXosip_subscription_send_request_with_credential
    /\ UNCHANGED <<s_reg_period, s_retry>>

_eXosip_subscription_automatic_refresh ==
    /\ sub = "listed" /\ s_dialogs = "CONFIRMED"
    /\ RefreshDue
    /\ eXosip_subscription_send_refresh_request(asked)
    /\ UNCHANGED retries

\* The pass over j_subscribes.
eXosip_automatic_action ==
    /\ polled' = TRUE
    /\ \/ RetryInitial
       \/ RetryInDialog
       \/ _eXosip_subscription_automatic_refresh
       \/ /\ sub = "listed" =>
                CASE s_dialogs = "NULL" -> ~(Challenged({"401", "423"}) /\ s_retry < 3)
                  [] s_dialogs = "CONFIRMED" -> /\ ~(Challenged({"401"}) /\ d_retry < 3)
                                                /\ ~RefreshDue
                  [] OTHER -> TRUE
          /\ UNCHANGED <<s_reg_period, retries, transaction>>
    /\ UNCHANGED <<sub, prompt, s_dialogs, granted, requests>>

\* A second passes.  The application has called eXosip_automatic_action in it, the
\* notifier has answered if it is prompt, and the timers have been tested.
Tick ==
    /\ polled
    /\ state = "pending" => ~prompt
    /\ ~Due(timer)
    /\ polled' = FALSE
    /\ age' = IF sub = "listed" /\ age < AgeMax THEN age + 1 ELSE age
    /\ timer' = Elapse(timer)
    /\ lease' = Elapse(lease)
    /\ UNCHANGED <<sub, prompt, s_reg_period, retries, s_dialogs, state, last_response,
                   asked, refused_once, requests>>

-----------------------------------------------------------------------------
Application ==
    \/ \E expires \in Requested :
          \/ eXosip_subscription_send_initial_request(expires)
          \/ Resubscribe(expires)
    \/ eXosip_subscription_remove

\* What the stack thread reads and does by itself; a NOTIFY comes or does not come.
Stack ==
    \/ cb_rcv1xx
    \/ \E grant \in Granted \cup {asked} : cb_rcv2xx_4subscribe(grant)
    \/ \E response \in Refusals : cb_rcv3456xx(response)
    \/ cb_nict_kill_transaction
    \/ _eXosip_release_terminated_subscriptions

Next ==
    \/ Application
    \/ Stack
    \/ _eXosip_process_notify_within_dialog
    \/ eXosip_automatic_action
    \/ Tick

-----------------------------------------------------------------------------
(***************************************************************************)
(* Properties.                                                             *)
(***************************************************************************)

\* The record keeps the values the code gives it; the retry counters stay within 3.
TypeOK ==
    /\ polled \in BOOLEAN
    /\ sub \in {"none", "listed", "released"}
    /\ prompt \in BOOLEAN
    /\ s_reg_period \in 0..DefaultPeriod
    /\ s_retry \in 0..3
    /\ d_retry \in 0..3
    /\ s_dialogs \in {"NULL", "EARLY", "CONFIRMED", "empty"}
    /\ state \in {"NULL", "pending"} \cup Over
    /\ last_response \in {"NULL", "1xx", "2xx"} \cup Refusals
    /\ age \in 0..AgeMax
    /\ timer \in Off..Start(TimerF) \cup Off..Start(TimerK)
    /\ asked \in Requested \cup {0, MinExpires}
    /\ refused_once \in BOOLEAN
    /\ lease \in {Off} \cup Nat
    /\ requests \in 0..MaxRequests

(***************************************************************************)
(* "Refresh [...] SUBSCRIBE/REFER before the expiration delay" (eXosip.h): *)
(* what the application subscribed to does not lapse while the notifier is *)
(* prompt (eXosip_automatic_action, cb_rcv2xx_4subscribe).                 *)
(***************************************************************************)
SubscriptionKept ==
    prompt /\ sub = "listed" /\ s_dialogs = "CONFIRMED" /\ s_reg_period # 0 => lease # 0

\* Neither established nor freed.  No record stays so, whatever the notifier answers or
\* omits (_eXosip_release_terminated_subscriptions, cb_xixt_kill_transaction).
Unsettled == sub = "listed" /\ s_dialogs # "CONFIRMED"

\* An un-SUBSCRIBE was sent.  No record stays so, also when every retry is challenged
\* (_eXosip_release_terminated_subscriptions, cb_xixt_kill_transaction).
Removing == sub = "listed" /\ asked = 0

=============================================================================
