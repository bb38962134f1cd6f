---------------------------- MODULE Notification -----------------------------
(***************************************************************************)
(* An incoming subscription of eXosip: the record jn (eXosip_notify_t),    *)
(* its dialog, the SUBSCRIBE that made it (n_inc_tr), the last SUBSCRIBE   *)
(* in the dialog (d_inc_trs), and the NOTIFYs sent to the subscriber       *)
(* (d_out_trs) (udp.c, eXinsubscription_api.c, jnotify.c, jcallback.c,     *)
(* eXosip.c).                                                              *)
(*                                                                         *)
(* An answer of the application and its sending are one step.  The stack   *)
(* looks at the first NOTIFY of d_out_trs; of those it replaced only the   *)
(* kill callback matters, and when they end is left open.                  *)
(***************************************************************************)
EXTENDS Timers

CONSTANTS
    RetryWait,    \* TRANSACTION_TIMEOUT_RETRY, 120 seconds
    TimerF,       \* the life of a NOTIFY that is not answered
    TimerK,       \* how long an answered one stays on its list, over UDP
    Requested,    \* the Expires a SUBSCRIBE asks for, or the default of 600 seconds
    MaxRequests   \* bound: SUBSCRIBEs after the first and NOTIFYs of the application

VARIABLES
    polled,         \* eXosip_automatic_action was called in this second
    jn,             \* "none", "listed" in j_notifies, "released", or "removed" by the application
    n_inc_state,    \* n_inc_tr->state
    n_inc_response, \* n_inc_tr->last_response
    refresh,        \* the last SUBSCRIBE of d_inc_trs: "NULL", "pending" or "answered"
    n_ss_status,
    n_ss_expires,   \* the distance to it, -1 when it has passed
    d_retry,
    state,          \* of the first NOTIFY of d_out_trs; "pending": not yet answered
    last_response,
    age,            \* now - birth_time, up to RetryWait
    timer,          \* distance to timer F, then to timer K
    says,           \* the Subscription-State of the NOTIFY
    replaced,       \* the responses to the NOTIFYs before it that a kill callback looks at
    lease,          \* what is left of what the last SUBSCRIBE was granted; Off: nothing was
    requests        \* SUBSCRIBEs after the first and NOTIFYs of the application

subscribe == <<n_inc_state, n_inc_response, refresh>>
notify == <<state, last_response, age, timer, says>>
vars == <<polled, jn, subscribe, n_ss_status, n_ss_expires, d_retry, notify, replaced, lease,
          requests>>

Over == {"NICT_COMPLETED", "NICT_TERMINATED"}
Answered == {"NIST_COMPLETED", "NIST_TERMINATED"}

Listed == jn = "listed"

Init ==
    /\ polled = FALSE
    /\ jn = "none"
    /\ n_inc_state = "NULL"
    /\ n_inc_response = "NULL"
    /\ refresh = "NULL"
    /\ n_ss_status = "NULL"
    /\ n_ss_expires = 0
    /\ d_retry = 0
    /\ state = "NULL"
    /\ last_response = "NULL"
    /\ age = 0
    /\ timer = Off
    /\ says = "NULL"
    /\ replaced = {}
    /\ lease = Off
    /\ requests = 0

\* _eXosip_notify_free.
Free(fate) ==
    /\ jn' = fate
    /\ n_inc_state' = "NULL"
    /\ n_inc_response' = "NULL"
    /\ refresh' = "NULL"
    /\ n_ss_status' = "NULL"
    /\ n_ss_expires' = 0
    /\ d_retry' = 0
    /\ state' = "NULL"
    /\ last_response' = "NULL"
    /\ age' = 0
    /\ timer' = Off
    /\ says' = "NULL"
    /\ replaced' = {}
    /\ lease' = Off
    /\ UNCHANGED <<polled, requests>>

-----------------------------------------------------------------------------
(***************************************************************************)
(* SUBSCRIBEs and their answers.                                           *)
(***************************************************************************)

\* A 101 is sent at once; a transport error ends the transaction with it.
_eXosip_process_new_subscription(expires) ==
    /\ jn = "none"
    /\ jn' = "listed"
    /\ n_inc_state' \in {"NIST_PROCEEDING", "NIST_TERMINATED"}
    /\ n_inc_response' = "1xx"
    /\ n_ss_expires' = expires
    /\ UNCHANGED <<polled, refresh, n_ss_status, d_retry, notify, replaced, lease, requests>>

\* The last SUBSCRIBE is answered; before that another one gets a 500, "Retry Later".
SubscribeOver ==
    IF refresh = "NULL" THEN n_inc_state \in Answered ELSE refresh = "answered"

_eXosip_process_subscribe_within_call(expires) ==
    /\ Listed
    /\ requests < MaxRequests
    /\ requests' = requests + 1
    /\ SubscribeOver
    /\ refresh' = "pending"
    /\ n_ss_expires' = expires
    /\ n_ss_status' = IF expires = 0 THEN "TERMINATED" ELSE n_ss_status
    /\ lease' = Off
    /\ UNCHANGED <<polled, jn, n_inc_state, n_inc_response, d_retry, notify, replaced>>

\* A 2xx carries what is left until n_ss_expires, 0 when it has passed.
GrantedBy(response) ==
    CASE response # "2xx" -> Off
      [] n_ss_expires < 0 -> 0
      [] OTHER -> n_ss_expires

\* An answer of the application to the SUBSCRIBE in n_inc_tr; it may fail to leave.
AnswerFirst(response) ==
    /\ Listed
    /\ n_inc_state = "NIST_PROCEEDING"
    /\ n_inc_response' = response
    /\ \/ /\ n_inc_state' = IF response = "1xx" THEN "NIST_PROCEEDING" ELSE "NIST_COMPLETED"
          /\ lease' = GrantedBy(response)
       \/ n_inc_state' = "NIST_TERMINATED" /\ UNCHANGED lease
    /\ UNCHANGED <<polled, jn, refresh, n_ss_status, n_ss_expires, d_retry, notify, replaced,
                   requests>>

\* And to one in the dialog, which no rule of the stack looks at again.  A 1xx ends it
\* only when it fails to leave.
AnswerRefresh(response) ==
    /\ Listed
    /\ refresh = "pending"
    /\ refresh' = "answered"
    /\ lease' \in {GrantedBy(response), Off}
    /\ UNCHANGED <<polled, jn, n_inc_state, n_inc_response, n_ss_status, n_ss_expires, d_retry,
                   notify, replaced, requests>>

eXosip_insubscription_send_answer(response) == AnswerFirst(response) \/ AnswerRefresh(response)

\* Timer J.  The end of an accepted SUBSCRIBE changes nothing.
osip_nist_timeout_j_event ==
    /\ Listed
    /\ n_inc_state = "NIST_COMPLETED" /\ n_inc_response = "refused"
    /\ n_inc_state' = "NIST_TERMINATED"
    /\ UNCHANGED <<polled, jn, n_inc_response, refresh, n_ss_status, n_ss_expires, d_retry,
                   notify, replaced, lease, requests>>

-----------------------------------------------------------------------------
(***************************************************************************)
(* NOTIFYs and their responses.                                            *)
(***************************************************************************)

\* The transaction that was first is still on its list, or has ended without effect.
Transmit(subscription_state) ==
    /\ state' = "pending"
    /\ last_response' = "NULL"
    /\ age' = 0
    /\ timer' = Start(TimerF)
    /\ says' = subscription_state
    /\ replaced' = IF state = "NICT_COMPLETED"
                   THEN replaced \cup ({last_response} \ {"401"})
                   ELSE replaced

\* OSIP_WRONG_STATE while the last NOTIFY is not answered.
eXosip_insubscription_send_request(subscription_state) ==
    /\ Listed
    /\ state \in Over \cup {"NULL"}
    /\ requests < MaxRequests
    /\ requests' = requests + 1
    /\ Transmit(subscription_state)
    /\ UNCHANGED <<polled, jn, subscribe, n_ss_status, n_ss_expires, d_retry, lease>>

eXosip_insubscription_remove == Listed /\ Free("removed")

Answer(response) ==
    /\ Listed
    /\ state = "pending"
    /\ last_response' = response
    /\ UNCHANGED <<polled, jn, subscribe, n_ss_status, n_ss_expires, age, says, replaced, lease,
                   requests>>

cb_rcv1xx == Answer("1xx") /\ UNCHANGED <<d_retry, state, timer>>

\* The transaction is answered: timer K runs, with no length over TCP.
Complete ==
    /\ state' = "NICT_COMPLETED"
    /\ timer' \in {Start(0), Start(TimerK)}

\* The answer to a NOTIFY that says "terminated" ends the record.
cb_rcv2xx ==
    IF says = "terminated"
    THEN Listed /\ state = "pending" /\ Free("released")
    ELSE Answer("2xx") /\ Complete /\ d_retry' = 0

\* 401 stands for 407 too, failure for every other refusal.
cb_rcv3456xx(response) == Answer(response) /\ Complete /\ UNCHANGED d_retry

\* "delete the dialog!"
cb_transport_error == Listed /\ state = "pending" /\ Free("released")

\* Mutant: a challenge counts as a refusal.
GoesWithChallenge(response) ==
    \/ response \in {"401", "failure"}
    \/ response = "2xx" /\ n_ss_status = "TERMINATED"

\* The record goes with a NOTIFY that was refused, and after an un-SUBSCRIBE also with one
\* that was accepted.
GoesWith(response) ==
    \/ response = "failure"
    \/ response = "2xx" /\ n_ss_status = "TERMINATED"

\* The transaction of the last NOTIFY ends, by timer F or K.
KillLast ==
    /\ state \in {"pending", "NICT_COMPLETED"}
    /\ Due(timer)
    /\ IF last_response = "NULL" \/ GoesWith(last_response)
       THEN Free("released")
       ELSE /\ state' = "NICT_TERMINATED"
            /\ timer' = Off
            /\ UNCHANGED <<polled, jn, subscribe, n_ss_status, n_ss_expires, d_retry,
                           last_response, age, says, replaced, lease, requests>>

\* One that was replaced ends, by timer K.
KillReplaced ==
    /\ \E response \in replaced : GoesWith(response)
    /\ Free("released")

cb_nict_kill_transaction == Listed /\ (KillLast \/ KillReplaced)

-----------------------------------------------------------------------------
(***************************************************************************)
(* The release pass and eXosip_automatic_action.                           *)
(***************************************************************************)

\* "if a SUBSCRIBE is rejected, the context will be released automatically"
Rejected == n_inc_state = "NIST_TERMINATED" /\ n_inc_response = "refused"

\* The last NOTIFY has ended, and the subscription with it.
Expired == state = "NICT_TERMINATED" /\ n_ss_expires < 0

_eXosip_release_terminated_in_subscriptions ==
    /\ Listed
    /\ Rejected \/ Expired
    /\ Free("released")

\* "retry with credential"
Challenged ==
    /\ Listed
    /\ state \in Over
    /\ age < RetryWait
    /\ last_response = "401"
    /\ d_retry < 3

\* The pass over j_notifies.
eXosip_automatic_action ==
    /\ polled' = TRUE
    /\ \/ Challenged /\ d_retry' = d_retry + 1 /\ Transmit(says)
       \/ ~Challenged /\ UNCHANGED <<d_retry, notify, replaced>>
    /\ UNCHANGED <<jn, subscribe, n_ss_status, n_ss_expires, lease, requests>>

\* A second passes.  The application has called eXosip_automatic_action in it, and the
\* timers have been tested.
Tick ==
    /\ polled
    /\ ~Due(timer)
    /\ polled' = FALSE
    /\ age' = IF Listed /\ age < RetryWait THEN age + 1 ELSE age
    /\ timer' = Elapse(timer)
    /\ n_ss_expires' = IF Listed /\ n_ss_expires >= 0 THEN n_ss_expires - 1 ELSE n_ss_expires
    /\ lease' = Elapse(lease)
    /\ UNCHANGED <<jn, subscribe, n_ss_status, d_retry, state, last_response, says, replaced,
                   requests>>

-----------------------------------------------------------------------------
Application ==
    \/ \E response \in {"1xx", "2xx", "refused"} : eXosip_insubscription_send_answer(response)
    \/ \E subscription_state \in {"active", "terminated"} :
          eXosip_insubscription_send_request(subscription_state)
    \/ eXosip_insubscription_remove

\* What the stack thread reads and does by itself.
Stack ==
    \/ osip_nist_timeout_j_event
    \/ cb_rcv1xx
    \/ cb_rcv2xx
    \/ \E response \in {"401", "failure"} : cb_rcv3456xx(response)
    \/ cb_transport_error
    \/ cb_nict_kill_transaction
    \/ _eXosip_release_terminated_in_subscriptions

Next ==
    \/ \E expires \in Requested :
          \/ _eXosip_process_new_subscription(expires)
          \/ _eXosip_process_subscribe_within_call(expires)
    \/ Application
    \/ Stack
    \/ eXosip_automatic_action
    \/ Tick

-----------------------------------------------------------------------------
(***************************************************************************)
(* Properties.                                                             *)
(***************************************************************************)

\* The record keeps the values the code gives it; the retry counter stays within 3.
TypeOK ==
    /\ polled \in BOOLEAN
    /\ jn \in {"none", "listed", "released", "removed"}
    /\ n_inc_state \in {"NULL", "NIST_PROCEEDING"} \cup Answered
    /\ n_inc_response \in {"NULL", "1xx", "2xx", "refused"}
    /\ refresh \in {"NULL", "pending", "answered"}
    /\ n_ss_status \in {"NULL", "TERMINATED"}
    /\ n_ss_expires \in {-1} \cup Nat
    /\ d_retry \in 0..3
    /\ state \in {"NULL", "pending"} \cup Over
    /\ last_response \in {"NULL", "1xx", "2xx", "401", "failure"}
    /\ age \in 0..RetryWait
    /\ timer \in Off..Start(TimerF) \cup Off..Start(TimerK)
    /\ says \in {"NULL", "active", "terminated"}
    /\ replaced \subseteq {"2xx", "failure"}
    /\ lease \in {Off} \cup Nat
    /\ requests \in 0..MaxRequests

(***************************************************************************)
(* What a subscriber was granted lasts: its record is not freed before     *)
(* that time is over, unless the first SUBSCRIBE was refused, the          *)
(* application removes the record or says "terminated", the subscriber     *)
(* un-subscribes, or a NOTIFY is refused or stays without an answer.  A    *)
(* challenge is not such a refusal                                         *)
(* (_eXosip_release_terminated_in_subscriptions,                           *)
(* cb_xixt_kill_transaction).                                              *)
(***************************************************************************)
KeptUntilExpiry ==
    [][Listed /\ jn' = "released" =>
          \/ lease \in {Off, 0}
          \/ n_inc_response = "refused"
          \/ says = "terminated"
          \/ n_ss_status = "TERMINATED"
          \/ "failure" \in replaced \cup {last_response}
          \/ state = "pending"]_vars

\* Its time is over and its subscriber was sent a NOTIFY, or it was refused.  No record
\* stays so, also when every NOTIFY is challenged
\* (_eXosip_release_terminated_in_subscriptions).
Overdue ==
    /\ Listed
    /\ \/ n_inc_state = "NIST_TERMINATED" /\ n_inc_response = "refused"
       \/ state # "NULL" /\ n_ss_expires < 0

=============================================================================
