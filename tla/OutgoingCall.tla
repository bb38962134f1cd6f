---------------------------- MODULE OutgoingCall ----------------------------
(***************************************************************************)
(* A call made by eXosip: the record jc (eXosip_call_t), the INVITE client *)
(* transaction c_out_tr and the dialogs of the call (eXcall_api.c,         *)
(* jcallback.c, eXosip.c, udp.c).                                          *)
(*                                                                         *)
(* A challenge, a 422 or a redirection ends c_out_tr, and the call lives   *)
(* on only if the application's loop retries it (eXosip_automatic_action,  *)
(* or eXosip_default_action on the event) before the release pass of the   *)
(* stack thread gives the call up.  The two run in any order.              *)
(*                                                                         *)
(* c_out_tr is reduced to what the module Ict shows of it.  A retry leaves *)
(* a dialog closed by the refusal in the list, behind the next one.        *)
(* eXosip_call_terminate sends a CANCEL on an early dialog and leaves the  *)
(* record as it is: what follows is up to the callee, whose refusal is     *)
(* among the responses.                                                    *)
(***************************************************************************)
EXTENDS Timers

CONSTANTS
    NoAnswer,      \* the 180 seconds after which an unanswered call is dropped
    RetryWindow,   \* TRANSACTION_TIMEOUT_RETRY, 120 seconds
    RedirectWait,  \* the 2 seconds of "wait for 3xx to be processed"
    Keep,          \* the 10 seconds a call without a dialog is kept for a retry
    TimerB,        \* timers B and D of the INVITE
    TimerF,        \* the life of a BYE
    MaxRinging,    \* bound: 18x responses of the callee
    MaxRedirects   \* bound: 3xx responses of the callee

VARIABLES
    polled,        \* eXosip_automatic_action was called in this second
    call,          \* the record jc: "none", "listed" in j_calls, or "released"
    reliable,      \* the transport is reliable: timer D is 0
    state,         \* c_out_tr->state
    last_response, \* c_out_tr->last_response
    age,           \* now - c_out_tr->birth_time, up to the last one compared with
    timer,         \* distance to timer B or D of c_out_tr
    completed,     \* now - c_out_tr->completed_time, which is set when it ends
    expire_time,   \* distance to jc->expire_time, which starts as 0
    c_retry,
    d_dialog,      \* the dialog jd of c_out_tr: "none" without jd, "NULL" closed
    stale,         \* a closed dialog of an earlier INVITE is in c_dialogs
    bye,           \* the BYE of either side: "none", "pending" or "done"
    bye_timer,     \* distance to its end
    ringing,       \* 18x responses so far
    redirects      \* 3xx responses so far

transaction == <<state, last_response, age, timer, completed>>
dialogs == <<d_dialog, stale, bye, bye_timer>>
bounds == <<ringing, redirects>>
vars == <<polled, call, reliable, transaction, expire_time, c_retry, dialogs, bounds>>

\* 401 stands for 407 too, and "3xx" has a contact that can be used.  A 422 asks for a
\* longer Session-Expires.
Retried == {"401", "422"}
Refusals == Retried \cup {"failure"}
Redirections == {"3xx", "3xx without contact"}
Over == {"ICT_COMPLETED", "ICT_TERMINATED"}

AgeMax == NoAnswer + 1

Init ==
    /\ polled = FALSE
    /\ call = "none"
    /\ reliable = FALSE
    /\ state = "ICT_PRE_CALLING"
    /\ last_response = "NULL"
    /\ age = 0
    /\ timer = Off
    /\ completed = 0
    /\ expire_time = 0
    /\ c_retry = 0
    /\ d_dialog = "none"
    /\ stale = FALSE
    /\ bye = "none"
    /\ bye_timer = Off
    /\ ringing = 0
    /\ redirects = 0

-----------------------------------------------------------------------------
\* An INVITE leaves in a new transaction.
Transmit ==
    /\ state' = "ICT_CALLING"
    /\ last_response' = "NULL"
    /\ age' = 0
    /\ timer' = Start(TimerB)
    /\ completed' = 0

eXosip_call_send_initial_invite ==
    /\ call = "none"
    /\ call' = "listed"
    /\ reliable' \in BOOLEAN
    /\ Transmit
    /\ UNCHANGED <<polled, expire_time, c_retry, dialogs, bounds>>

-----------------------------------------------------------------------------
(***************************************************************************)
(* The responses of the callee, and the timers of the transaction.         *)
(***************************************************************************)
Receive(response) ==
    /\ call = "listed"
    /\ state \in {"ICT_CALLING", "ICT_PROCEEDING"}
    /\ last_response' = response
    /\ UNCHANGED <<polled, call, reliable, age, stale, bye, bye_timer>>

\* A 100, which only stops timer B, or an 18x, which makes the dialog and gives the
\* callee 180 seconds more.
cb_rcv1xx ==
    /\ Receive("1xx")
    /\ state' = "ICT_PROCEEDING"
    /\ timer' = Off
    /\ \/ UNCHANGED <<d_dialog, expire_time, ringing>>
       \/ /\ ringing < MaxRinging
          /\ ringing' = ringing + 1
          /\ d_dialog' = IF d_dialog = "none" THEN "EARLY" ELSE d_dialog
          /\ expire_time' = Start(NoAnswer)
    /\ UNCHANGED <<completed, c_retry, redirects>>

\* A 2xx.  "There are real use-case where a BYE is received/processed before the 200ok":
\* then the dialog stays closed.
cb_rcv2xx_4invite ==
    /\ Receive("2xx")
    /\ state' = "ICT_TERMINATED"
    /\ timer' = Off
    /\ completed' = 0
    /\ c_retry' = 0
    /\ d_dialog' = IF d_dialog = "NULL" THEN "NULL" ELSE "CONFIRMED"
    /\ UNCHANGED <<expire_time, bounds>>

\* A refusal or a redirection deletes the early dialog (cb_rcv3xx ... cb_rcv6xx).
cb_rcv3456xx(response) ==
    /\ Receive(response)
    /\ bye # "none" => response = "failure"
    /\ state' = "ICT_COMPLETED"
    /\ timer' = IF reliable THEN 0 ELSE Start(TimerB)
    /\ d_dialog' = IF d_dialog = "EARLY" THEN "NULL" ELSE d_dialog
    /\ redirects' = IF response \in Redirections THEN redirects + 1 ELSE redirects
    /\ redirects' <= MaxRedirects
    /\ UNCHANGED <<completed, expire_time, c_retry, ringing>>

\* Timers B and D, and transport errors before the first response.
__osip_kill_transaction_callback ==
    /\ call = "listed"
    /\ \/ state = "ICT_CALLING"
       \/ state = "ICT_COMPLETED" /\ Due(timer)
    /\ state' = "ICT_TERMINATED"
    /\ timer' = Off
    /\ completed' = 0
    /\ UNCHANGED <<polled, call, reliable, last_response, age, expire_time, c_retry, dialogs,
                   bounds>>

\* A BYE of the callee, or eXosip_call_terminate on the confirmed dialog, closes it; the
\* BYE ends by its answer or its timer.
CloseDialog ==
    /\ call = "listed"
    /\ d_dialog \in {"EARLY", "CONFIRMED"}
    /\ bye = "none"
    /\ d_dialog' = "NULL"
    /\ bye' = "pending"
    /\ bye_timer' = Start(TimerF)
    /\ UNCHANGED <<polled, call, reliable, transaction, expire_time, c_retry, stale, bounds>>

EndBye ==
    /\ call = "listed"
    /\ bye = "pending"
    /\ bye' = "done"
    /\ bye_timer' = Off
    /\ UNCHANGED <<polled, call, reliable, transaction, expire_time, c_retry, d_dialog, stale,
                   bounds>>

-----------------------------------------------------------------------------
(***************************************************************************)
(* Retries.                                                                *)
(***************************************************************************)

\* The INVITE leaves again, after a challenge with or without credentials, or
\* _eXosip_call_retry_request fails: "missing Min-SE or Session-Expires in dialog".
Retry ==
    \/ Transmit /\ d_dialog' = "none"
    \/ last_response = "422" /\ UNCHANGED <<transaction, d_dialog>>

\* Retries after a refusal are counted, whether they succeed or not; redirections are
\* not counted.
CountRetry ==
    \/ last_response \in Retried /\ c_retry < 3 /\ c_retry' = c_retry + 1
    \/ last_response = "3xx" /\ UNCHANGED c_retry

\* eXosip_automatic_action passes no dialog to _eXosip_call_retry_request: a closed
\* dialog stays in the list.
eXosip_automatic_action ==
    /\ polled' = TRUE
    /\ IF /\ call = "listed"
          /\ d_dialog \in {"none", "NULL"}
          /\ state \in Over
          /\ age < RetryWindow
          /\ last_response = "3xx" \/ (last_response \in Retried /\ c_retry < 3)
       THEN /\ CountRetry
            /\ Retry
            /\ stale' = (stale \/ (d_dialog = "NULL" /\ d_dialog' = "none"))
       ELSE UNCHANGED <<transaction, c_retry, stale, d_dialog>>
    /\ UNCHANGED <<call, reliable, expire_time, bye, bye_timer, bounds>>

\* eXosip_default_action on the event of the response: the closed dialog is freed.  It
\* leaves a 422 alone.
eXosip_default_action ==
    /\ call = "listed"
    /\ state \in Over
    /\ bye = "none"
    /\ last_response # "422"
    /\ CountRetry
    /\ Retry
    /\ UNCHANGED <<polled, call, reliable, expire_time, stale, bye, bye_timer, bounds>>

-----------------------------------------------------------------------------
(***************************************************************************)
(* The release pass (_eXosip_release_terminated_calls).                    *)
(***************************************************************************)
HasDialog == d_dialog # "none" \/ stale

\* _eXosip_pendingosip_transaction_exist
InvitePending == state # "ICT_TERMINATED" /\ ~Due(expire_time)

Pending == bye = "pending" \/ InvitePending

\* _eXosip_release_aborted_calls: "Wait a max of 2 minutes"
NotAnswered == state # "ICT_TERMINATED" /\ age > NoAnswer

\* Mutant: a redirection is not waited for.
AbortedAtOnce ==
    /\ state = "ICT_TERMINATED"
    /\ last_response \in {"NULL"} \cup Redirections \cup Refusals

\* _eXosip_release_aborted_calls: the INVITE failed.
Aborted ==
    /\ state = "ICT_TERMINATED"
    /\ \/ last_response \in {"NULL"} \cup Refusals
       \/ last_response \in Redirections /\ completed > RedirectWait

\* Mutant: a call without a dialog waits for its INVITE only.
UnusedWithoutLimit == state = "ICT_TERMINATED" /\ completed >= Keep

\* The second loop, over the calls without a dialog.
Unused ==
    \/ state # "ICT_TERMINATED" /\ age > NoAnswer
    \/ state = "ICT_TERMINATED" /\ completed >= Keep

\* The record is freed, with what it holds.
Release ==
    /\ call' = "released"
    /\ state' = "ICT_TERMINATED"
    /\ last_response' = "NULL"
    /\ age' = 0
    /\ timer' = Off
    /\ completed' = 0
    /\ expire_time' = 0
    /\ c_retry' = 0
    /\ d_dialog' = "none"
    /\ stale' = FALSE
    /\ bye' = "none"
    /\ bye_timer' = Off
    /\ ringing' = 0
    /\ redirects' = 0
    /\ UNCHANGED <<polled, reliable>>

\* The first loop removes the dialogs that are closed or too old, or releases the call.
_eXosip_release_terminated_calls ==
    /\ call = "listed"
    /\ IF HasDialog /\ ~Pending /\ bye # "done" /\ Aborted
       THEN Release
       ELSE LET jd == IF ~Pending /\ (bye = "done" \/ d_dialog = "NULL" \/ NotAnswered)
                      THEN "none" ELSE d_dialog
                old == stale /\ InvitePending
            IN  IF jd = "none" /\ ~old /\ Unused
                THEN Release
                ELSE /\ d_dialog' = jd
                     /\ stale' = old
                     /\ UNCHANGED <<polled, call, reliable, transaction, expire_time, c_retry,
                                    bye, bye_timer, bounds>>

\* A second passes.  The application has called eXosip_automatic_action in it, and the
\* timers have been tested.
Tick ==
    /\ polled
    /\ ~Due(timer)
    /\ ~Due(bye_timer)
    /\ polled' = FALSE
    /\ age' = IF call = "listed" /\ age < AgeMax THEN age + 1 ELSE age
    /\ timer' = Elapse(timer)
    /\ completed' = IF state = "ICT_TERMINATED" /\ call = "listed" /\ completed < Keep
                    THEN completed + 1 ELSE completed
    /\ expire_time' = Elapse(expire_time)
    /\ bye_timer' = Elapse(bye_timer)
    /\ UNCHANGED <<call, reliable, state, last_response, c_retry, d_dialog, stale, bye, bounds>>

-----------------------------------------------------------------------------
Callee ==
    \/ cb_rcv1xx
    \/ cb_rcv2xx_4invite
    \/ \E response \in Refusals \cup Redirections : cb_rcv3456xx(response)
    \/ CloseDialog

\* What the stack thread does by itself.
Stack ==
    \/ __osip_kill_transaction_callback
    \/ EndBye
    \/ _eXosip_release_terminated_calls

Next ==
    \/ eXosip_call_send_initial_invite
    \/ eXosip_default_action
    \/ eXosip_automatic_action
    \/ Callee
    \/ Stack
    \/ Tick

-----------------------------------------------------------------------------
(***************************************************************************)
(* Properties.                                                             *)
(***************************************************************************)

\* The record and its transaction keep the values the code gives them.
TypeOK ==
    /\ polled \in BOOLEAN
    /\ call \in {"none", "listed", "released"}
    /\ reliable \in BOOLEAN
    /\ state \in {"ICT_PRE_CALLING", "ICT_CALLING", "ICT_PROCEEDING"} \cup Over
    /\ last_response \in {"NULL", "1xx", "2xx"} \cup Refusals \cup Redirections
    /\ age \in 0..AgeMax
    /\ timer \in Off..Start(TimerB)
    /\ completed \in 0..Keep
    /\ expire_time \in 0..Start(NoAnswer)
    /\ c_retry \in 0..3
    /\ d_dialog \in {"none", "EARLY", "CONFIRMED", "NULL"}
    /\ stale \in BOOLEAN
    /\ bye \in {"none", "pending", "done"}
    /\ bye_timer \in Off..Start(TimerF)
    /\ ringing \in 0..MaxRinging
    /\ redirects \in 0..MaxRedirects

(***************************************************************************)
(* A call is not given up with a redirection nobody followed, nor, without *)
(* a dialog, with a challenge or a 422 nobody answered: the release pass   *)
(* leaves the application's loop its turn ("wait for 3xx to be processed", *)
(* "we really want to wait for additionnal user/automatic action", udp.c), *)
(* except when the retries are used up or the INVITE is too old to be      *)
(* retried.                                                                *)
(***************************************************************************)
RetriedBeforeRelease ==
    [][call = "listed" /\ call' = "released" /\ age < RetryWindow =>
          /\ last_response # "3xx"
          /\ last_response \in Retried => c_retry = 3 \/ HasDialog]_vars

\* Neither established nor released.  No call stays so, even when the callee rings and
\* disappears: ICT_PROCEEDING has no timer, the release pass does the waiting
\* (_eXosip_release_terminated_calls).
Unsettled == call = "listed" /\ d_dialog # "CONFIRMED"

=============================================================================
