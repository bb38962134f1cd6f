----------------------------- MODULE Publication -----------------------------
(***************************************************************************)
(* A publication of eXosip: the record jpub (eXosip_pub_t) and the PUBLISH *)
(* transaction p_last_tr it holds (eXpublish_api.c, jpublish.c,            *)
(* jcallback.c, eXosip.c, udp.c).                                          *)
(*                                                                         *)
(* The state of the transaction is never looked at: eXosip_publish and the *)
(* automatic refresh replace it while it is pending, and a response to a   *)
(* PUBLISH that was replaced changes nothing (_eXosip_pub_update).         *)
(***************************************************************************)
EXTENDS Timers

CONSTANTS
    Part,         \* 10: a refresh is sent a tenth of the period before the end
    Slack,        \* 15 seconds: a period shortened by less is not noticed
    Longest,      \* 900 seconds: a refresh is sent at that age whatever the period
    RetryWait,    \* 120 seconds
    ReleaseAge,   \* 75 seconds: the record of an unanswered removal is dropped
    TimerF,       \* the life of a PUBLISH that is not answered
    Requested,    \* the Expires the application asks for, in seconds; 0: removal
    Granted,      \* what the server grants
    MaxRequests   \* bound: PUBLISHes of the application after the first

VARIABLES
    polled,          \* eXosip_automatic_action was called in this second
    pub,             \* the record jpub: "none", "listed" in j_pub, or "released"
    p_period,
    p_retry,
    p_last_tr,       \* "NULL", "pending" or "over"
    last_response,   \* p_last_tr->last_response
    age,             \* now - p_last_tr->birth_time, up to the last one compared with
    timer_f,         \* distance to timer F of p_last_tr
    requests         \* PUBLISHes of the application after the first

transaction == <<p_last_tr, last_response, age, timer_f>>
vars == <<polled, pub, p_period, p_retry, transaction, requests>>

\* 401 stands for 407 too, failure for every other final response.
Refusals == {"401", "412", "423", "423 without Min-Expires", "failure"}

AgeMax == Longest + 1

Init ==
    /\ polled = FALSE
    /\ pub = "none"
    /\ p_period = 0
    /\ p_retry = 0
    /\ p_last_tr = "NULL"
    /\ last_response = "NULL"
    /\ age = 0
    /\ timer_f = Off
    /\ requests = 0

-----------------------------------------------------------------------------
\* A PUBLISH leaves in a new transaction.
Transmit ==
    /\ p_last_tr' = "pending"
    /\ last_response' = "NULL"
    /\ age' = 0
    /\ timer_f' = Start(TimerF)

\* The application publishes, again, or removes what it published.
eXosip_publish(expires) ==
    /\ \/ pub = "none" /\ UNCHANGED requests
       \/ pub = "listed" /\ requests < MaxRequests /\ requests' = requests + 1
    /\ pub' = "listed"
    /\ p_period' = expires
    /\ Transmit
    /\ UNCHANGED <<polled, p_retry>>

\* _eXosip_retry_with_auth fails without credentials.
_eXosip_retry_with_auth == Transmit \/ UNCHANGED transaction

\* eXosip_default_action on the event of a challenge; this retry is not counted.
eXosip_default_action ==
    /\ pub = "listed"
    /\ p_last_tr = "over"
    /\ last_response = "401"
    /\ _eXosip_retry_with_auth
    /\ UNCHANGED <<polled, pub, p_period, p_retry, requests>>

-----------------------------------------------------------------------------
(***************************************************************************)
(* The server.                                                             *)
(***************************************************************************)
Receive(response) ==
    /\ pub = "listed"
    /\ p_last_tr = "pending"
    /\ last_response' = response
    /\ UNCHANGED <<polled, pub, age, requests>>

cb_rcv1xx ==
    /\ Receive("1xx")
    /\ UNCHANGED <<p_period, p_retry, p_last_tr, timer_f>>

cb_rcv2xx(grant) ==
    /\ Receive("2xx")
    /\ p_last_tr' = "over"
    /\ timer_f' = Off
    /\ p_period' = IF grant > 0 /\ grant < p_period - Slack THEN grant ELSE p_period
    /\ p_retry' = 0

cb_rcv3456xx(response) ==
    /\ Receive(response)
    /\ p_last_tr' = "over"
    /\ timer_f' = Off
    /\ UNCHANGED <<p_period, p_retry>>

\* Timer F, or a transport error.
cb_nict_kill_transaction ==
    /\ Receive(last_response)
    /\ p_last_tr' = "over"
    /\ timer_f' = Off
    /\ UNCHANGED <<p_period, p_retry>>

-----------------------------------------------------------------------------
(***************************************************************************)
(* eXosip_automatic_action and the release pass.                           *)
(***************************************************************************)

\* Mutant: only an accepted PUBLISH is refreshed.
RefreshDueAfter2xx ==
    /\ p_period # 0
    /\ last_response = "2xx"
    /\ \/ age > Longest
       \/ age > p_period - p_period \div Part

\* "automatic refresh"
RefreshDue ==
    /\ p_period # 0
    /\ \/ age > Longest
       \/ age > p_period - p_period \div Part
       \/ age > RetryWait /\ last_response # "2xx"

\* It fails when nothing was answered, or a 423 does not say what to ask for.
_eXosip_publish_refresh ==
    IF last_response \in {"NULL", "423 without Min-Expires"}
    THEN UNCHANGED transaction
    ELSE Transmit

\* The pass over j_pub: retries with credentials are counted, those after a 412 or a 423
\* are not.
eXosip_automatic_action ==
    /\ polled' = TRUE
    /\ CASE pub = "listed" /\ RefreshDue ->
              /\ _eXosip_publish_refresh
              /\ UNCHANGED p_retry
         [] /\ pub = "listed" /\ ~RefreshDue
            /\ age < RetryWait /\ last_response = "401" /\ p_retry < 3 ->
              /\ _eXosip_retry_with_auth
              /\ p_retry' = p_retry + 1
         [] /\ pub = "listed" /\ ~RefreshDue
            /\ age < RetryWait
            /\ last_response \in {"412", "423", "423 without Min-Expires"} ->
              /\ _eXosip_publish_refresh
              /\ UNCHANGED p_retry
         [] OTHER -> UNCHANGED <<transaction, p_retry>>
    /\ UNCHANGED <<pub, p_period, requests>>

\* A removal was answered or is too old.
_eXosip_release_terminated_publications ==
    /\ pub = "listed"
    /\ p_period = 0
    /\ age > ReleaseAge \/ last_response = "2xx"
    /\ pub' = "released"
    /\ p_retry' = 0
    /\ p_last_tr' = "NULL"
    /\ last_response' = "NULL"
    /\ age' = 0
    /\ timer_f' = Off
    /\ UNCHANGED <<polled, p_period, requests>>

\* A second passes.  The application has called eXosip_automatic_action in it, and
\* timer F has been tested.
Tick ==
    /\ polled
    /\ ~Due(timer_f)
    /\ polled' = FALSE
    /\ age' = IF p_last_tr # "NULL" /\ age < AgeMax THEN age + 1 ELSE age
    /\ timer_f' = Elapse(timer_f)
    /\ UNCHANGED <<pub, p_period, p_retry, p_last_tr, last_response, requests>>

-----------------------------------------------------------------------------
Application ==
    \/ \E expires \in Requested : eXosip_publish(expires)
    \/ eXosip_default_action

Stack ==
    \/ cb_nict_kill_transaction
    \/ _eXosip_release_terminated_publications

Server ==
    \/ cb_rcv1xx
    \/ \E grant \in Granted : cb_rcv2xx(grant)
    \/ \E response \in Refusals : cb_rcv3456xx(response)

Next ==
    \/ Application
    \/ Server
    \/ Stack
    \/ eXosip_automatic_action
    \/ Tick

-----------------------------------------------------------------------------
(***************************************************************************)
(* Properties.                                                             *)
(***************************************************************************)

\* The record keeps the values the code gives it; the retry counter stays within 3.
TypeOK ==
    /\ polled \in BOOLEAN
    /\ pub \in {"none", "listed", "released"}
    /\ p_period \in Requested \cup Granted \cup {0}
    /\ p_retry \in 0..3
    /\ p_last_tr \in {"NULL", "pending", "over"}
    /\ last_response \in {"NULL", "1xx", "2xx"} \cup Refusals
    /\ age \in 0..AgeMax
    /\ timer_f \in Off..Start(TimerF)
    /\ requests \in 0..MaxRequests

\* A PUBLISH that has just left.
Published == p_last_tr = "pending" /\ last_response = "NULL" /\ age = 0

(***************************************************************************)
(* A publication the application keeps is published again and again,       *)
(* whatever the server answered or left unfinished, unless it answers 423  *)
(* without saying for how long to ask.  A PUBLISH that got no response at  *)
(* all is left out: the refresh is refused, so the record is never sent    *)
(* again (eXosip_automatic_action, _eXosip_publish_refresh).               *)
(***************************************************************************)
PublicationRefreshed ==
    pub = "listed" /\ p_period # 0 /\ last_response # "NULL" ~>
        Published \/ p_period = 0 \/ last_response = "423 without Min-Expires"

=============================================================================
