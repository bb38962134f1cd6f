---------------------------- MODULE Registration ----------------------------
(***************************************************************************)
(* A registration of eXosip: the record jr (eXosip_reg_t), the REGISTER    *)
(* transaction r_last_tr it holds, and the binding at the registrar        *)
(* (eXregister_api.c, jcallback.c, eXosip.c, udp.c).                       *)
(*                                                                         *)
(* The record is refreshed only by eXosip_automatic_action, which the      *)
(* application calls from its loop: it decides from the age of r_last_tr,  *)
(* from r_reg_period and from the last response.  The application builds   *)
(* and sends a REGISTER under one hold of the eXosip lock, as              *)
(* ht2-registration.dox shows.                                             *)
(*                                                                         *)
(* Every check of the record accepts NICT_COMPLETED and NICT_TERMINATED    *)
(* alike, so a transaction is "pending" or "over".  A binding and the      *)
(* response that tells of it are one step.                                 *)
(***************************************************************************)
EXTENDS Timers

CONSTANTS
    MinPeriod,    \* 30 seconds: shorter periods are raised to it
    Margin,       \* 6 seconds: a refresh is sent that long before the end, or
    Part,         \* 10: a tenth of the period before it
    Slack,        \* 15 seconds: a period shortened by less is not noticed
    Longest,      \* 900 seconds: a refresh is sent at that age whatever the period
    RetryWait,    \* TRANSACTION_TIMEOUT_RETRY, 120 seconds
    ReleaseAge,   \* 75 seconds: the record of an unanswered un-REGISTER is dropped
    DeletionGap,  \* 60 seconds between two deletions of the contact
    TimerF,       \* the life of a REGISTER that is not answered
    Requested,    \* what the application asks for, in seconds
    Granted,      \* what the registrar grants
    MinExpires,   \* the Min-Expires of the registrar's 423
    MaxRequests,  \* bound: REGISTERs of the application after the first
    MaxLosses     \* bound: failures of the connection

VARIABLES
    polled,          \* eXosip_automatic_action was called in this second
    reg,             \* the record jr: "none", "listed" in j_reg, or "released"
    prompt,          \* the registrar answers within the second, see Prompt
    r_reg_period,
    r_reg_expire,
    r_retry,
    r_retryfailover,
    registration_step,
    r_last_deletion, \* distance to r_last_deletion + 60; Off: 0
    r_last_tr,       \* "NULL", "pending" or "over"
    last_response,   \* r_last_tr->last_response
    age,             \* now - r_last_tr->birth_time, up to the last one compared with
    timer_f,         \* distance to timer F of r_last_tr
    asked,           \* the Expires of r_last_tr
    refused_once,    \* a prompt registrar has refused a REGISTER since it last accepted one
    lease,           \* what is left of the binding the application wants at a prompt
                     \* registrar; Off: there is none, 0: it has lapsed
    requests,        \* REGISTERs of the application after the first
    losses           \* failures of the connection

record == <<r_reg_period, r_reg_expire, r_retry, r_retryfailover>>
contact == <<registration_step, r_last_deletion>>
transaction == <<r_last_tr, last_response, age, timer_f, asked>>
binding == <<refused_once, lease>>
vars == <<polled, reg, prompt, record, contact, transaction, binding, requests, losses>>

\* The steps of the masquerading of the contact (eXosip2.h); 0: not wanted.
RS_DELETIONREQUIRED == 2
RS_DELETIONPROCEEDING == 3
RS_MASQUERADINGREQUIRED == 4
RS_MASQUERADINGPROCEEDING == 5

\* 401 stands for 407 and 606 too, failure for every other final response.
Challenges == {"401", "423", "423 without Min-Expires"}
Responses == {"NULL", "2xx", "failure"} \cup Challenges

AgeMax == Longest + 1

Init ==
    /\ polled = FALSE
    /\ reg = "none"
    /\ prompt = FALSE
    /\ r_reg_period = 0
    /\ r_reg_expire = 0
    /\ r_retry = 0
    /\ r_retryfailover = 0
    /\ registration_step = 0
    /\ r_last_deletion = Off
    /\ r_last_tr = "NULL"
    /\ last_response = "NULL"
    /\ age = 0
    /\ timer_f = Off
    /\ asked = 0
    /\ refused_once = FALSE
    /\ lease = Off
    /\ requests = 0
    /\ losses = 0

-----------------------------------------------------------------------------
(***************************************************************************)
(* Building and sending.                                                   *)
(***************************************************************************)

\* A REGISTER that asks for expires leaves in a new transaction.
Transmit(expires) ==
    /\ r_last_tr' = "pending"
    /\ last_response' = "NULL"
    /\ age' = 0
    /\ timer_f' = Start(TimerF)
    /\ asked' = expires

\* _eXosip_register_build_register after r_last_tr, and the send.  A 423 raises the
\* period; without its Min-Expires the old transaction is given up and none replaces it.
\* What is sent uses up the step RS_MASQUERADINGPROCEEDING.
Resend(period, expire, step) ==
    /\ r_last_tr = "over"
    /\ registration_step' = IF /\ step = RS_MASQUERADINGPROCEEDING
                               /\ last_response # "423 without Min-Expires"
                            THEN step + 1 ELSE step
    /\ CASE last_response = "423" ->
              /\ r_reg_period' = MinExpires
              /\ r_reg_expire' = MinExpires
              /\ Transmit(MinExpires)
         [] last_response = "423 without Min-Expires" ->
              /\ r_reg_period' = period
              /\ r_reg_expire' = expire
              /\ r_last_tr' = "NULL"
              /\ UNCHANGED <<last_response, age, timer_f, asked>>
         [] OTHER ->
              /\ r_reg_period' = period
              /\ r_reg_expire' = expire
              /\ Transmit(expire)

\* eXosip_register_send_register (excontext, rid, NULL): OSIP_WRONG_STATE while pending.
eXosip_register_send_register(step) ==
    \/ Resend(r_reg_period, r_reg_expire, step)
    \/ /\ r_last_tr = "pending"
       /\ UNCHANGED <<r_reg_period, r_reg_expire, registration_step, transaction>>

\* "too low"
Period(expires) == IF expires = 0 \/ expires >= MinPeriod THEN expires ELSE MinPeriod

\* The first REGISTER.  auto_masquerade_contact is a setting of the context.
eXosip_register_build_initial_register(expires) ==
    /\ reg = "none"
    /\ reg' = "listed"
    /\ prompt' \in BOOLEAN
    /\ r_reg_period' = Period(expires)
    /\ r_reg_expire' = Period(expires)
    /\ registration_step' \in {0, RS_MASQUERADINGPROCEEDING}
    /\ Transmit(Period(expires))
    /\ UNCHANGED <<polled, r_retry, r_retryfailover, r_last_deletion, binding, requests,
                   losses>>

\* Another REGISTER of the application, or an un-REGISTER.  The period is replaced even
\* when the build is then refused because a REGISTER is pending.
eXosip_register_build_register(expires) ==
    /\ reg = "listed"
    /\ requests < MaxRequests
    /\ requests' = requests + 1
    /\ \/ /\ r_last_tr = "pending"
          /\ r_reg_period' = Period(expires)
          /\ r_reg_expire' = Period(expires)
          /\ UNCHANGED <<contact, transaction>>
       \/ /\ r_last_deletion' = Off
          /\ Resend(Period(expires), Period(expires), registration_step)
       \/ /\ r_last_tr = "NULL"
          /\ r_reg_period' = Period(expires)
          /\ r_reg_expire' = Period(expires)
          /\ r_last_deletion' = Off
          /\ Transmit(Period(expires))
          /\ UNCHANGED registration_step
    /\ lease' = IF expires = 0 THEN Off ELSE lease
    /\ UNCHANGED <<polled, reg, prompt, r_retry, r_retryfailover, refused_once, losses>>

\* What a record that is freed leaves behind.
Free ==
    /\ reg' = "released"
    /\ r_reg_period' = 0
    /\ r_reg_expire' = 0
    /\ r_retry' = 0
    /\ r_retryfailover' = 0
    /\ registration_step' = 0
    /\ r_last_deletion' = Off
    /\ r_last_tr' = "NULL"
    /\ last_response' = "NULL"
    /\ age' = 0
    /\ timer_f' = Off
    /\ asked' = 0
    /\ prompt' = FALSE
    /\ refused_once' = FALSE
    /\ lease' = Off
    /\ UNCHANGED <<polled, requests, losses>>

eXosip_register_remove ==
    /\ reg = "listed"
    /\ Free

-----------------------------------------------------------------------------
(***************************************************************************)
(* Responses (jcallback.c).                                                *)
(***************************************************************************)

\* The response shows an address that is not the one of the contact.
_eXosip_register_contact_is_modified(step, period) ==
    \/ UNCHANGED contact
    \/ /\ step > RS_MASQUERADINGREQUIRED
       /\ period # 0
       /\ r_last_deletion = Off
       /\ registration_step' = RS_DELETIONREQUIRED
       /\ r_last_deletion' = Start(DeletionGap)

\* Mutant: a shorter grant is never noticed.
NewPeriodNeverShorter(grant, header) ==
    IF header = "contact" /\ grant > r_reg_period THEN grant ELSE r_reg_period

\* The period after a grant told in the Expires header or in the Contact of a 2xx
\* (_eXosip_update_expires_according_to_contact).
NewPeriod(grant, header) ==
    IF \/ grant < r_reg_period - Slack
       \/ header = "contact" /\ grant > r_reg_period
    THEN grant ELSE r_reg_period

\* A prompt registrar answers before the second is over, grants what the record notices
\* and more than the two seconds a challenge may take, and asks at most once for
\* credentials or a longer period before it accepts.
Prompt(response, grant) ==
    \/ /\ response = "2xx"
       /\ grant > 2
       /\ grant >= r_reg_period \/ grant < r_reg_period - Slack
    \/ response \in {"401", "423"} /\ ~refused_once

Answer(response) ==
    /\ reg = "listed"
    /\ r_last_tr = "pending"
    /\ r_last_tr' = "over"
    /\ last_response' = response
    /\ timer_f' = Off
    /\ UNCHANGED <<polled, reg, prompt, r_reg_expire, asked, requests>>

\* A 2xx to a REGISTER, to an un-REGISTER or to the deletion of the contact.  One to an
\* un-REGISTER tells of no binding, but a period it names all the same is taken over.
cb_rcv2xx(grant, header) ==
    /\ Answer("2xx")
    /\ r_retry' = 0
    /\ r_retryfailover' = 0
    /\ refused_once' = FALSE
    /\ \/ /\ registration_step = RS_DELETIONPROCEEDING
          /\ registration_step' = RS_MASQUERADINGREQUIRED
          /\ lease' = Off
          /\ UNCHANGED <<r_reg_period, r_last_deletion>>
       \/ /\ registration_step # RS_DELETIONPROCEEDING
          /\ asked = 0
          /\ lease' = Off
          /\ r_reg_period' \in {r_reg_period, NewPeriod(grant, header)}
          /\ _eXosip_register_contact_is_modified(registration_step, r_reg_period')
       \/ /\ registration_step # RS_DELETIONPROCEEDING
          /\ asked # 0
          /\ prompt => Prompt("2xx", grant)
          /\ lease' = IF prompt /\ r_reg_period # 0 THEN grant ELSE Off
          /\ r_reg_period' = NewPeriod(grant, header)
          /\ _eXosip_register_contact_is_modified(registration_step, r_reg_period')
    /\ UNCHANGED <<age, losses>>

\* birth_time is moved: to about 120 seconds ago when the refresh is due later than
\* that, and otherwise to a date a few minutes after the epoch.
MarkExpired ==
    /\ losses < MaxLosses
    /\ losses' = losses + 1
    /\ r_retryfailover' = IF r_retryfailover < 60 THEN r_retryfailover + 1 ELSE r_retryfailover
    /\ age' = IF r_reg_period - r_reg_period \div Part > RetryWait
              THEN RetryWait - r_retryfailover' ELSE AgeMax

\* Any other final response.  A 503 of a server found by NAPTR moves to the next one.
rcvregister_failure(response) ==
    /\ Answer(response)
    /\ prompt => Prompt(response, 0)
    /\ refused_once' = prompt
    /\ response \in {"423", "423 without Min-Expires"} => asked > 0 /\ asked < MinExpires
    /\ _eXosip_register_contact_is_modified(registration_step, r_reg_period)
    /\ \/ UNCHANGED <<r_retryfailover, age, losses>>
       \/ response = "failure" /\ MarkExpired
    /\ UNCHANGED <<r_reg_period, r_retry, lease>>

\* Timer F, or a transport error.
cb_nict_kill_transaction ==
    /\ ~prompt
    /\ Answer("NULL")
    /\ UNCHANGED <<r_reg_period, r_retry, r_retryfailover, contact, age, binding, losses>>

\* The connection the REGISTER used has failed (the transports).
_eXosip_mark_registration_expired ==
    /\ reg = "listed"
    /\ r_last_tr # "NULL"
    /\ MarkExpired
    /\ UNCHANGED <<polled, reg, prompt, r_reg_period, r_reg_expire, r_retry, contact,
                   r_last_tr, last_response, timer_f, asked, binding, requests>>

-----------------------------------------------------------------------------
(***************************************************************************)
(* eXosip_automatic_action and the release pass.                           *)
(***************************************************************************)

\* Mutant: the age is compared with the whole period.
RefreshDueAtTheEnd ==
    /\ r_reg_period # 0
    /\ \/ age > Longest
       \/ age > r_reg_period
       \/ age > RetryWait /\ last_response # "2xx"

\* "automatic refresh"
RefreshDue ==
    /\ r_reg_period # 0
    /\ \/ age > Longest
       \/ age > r_reg_period - r_reg_period \div Part
       \/ age > r_reg_period - Margin
       \/ age > RetryWait /\ last_response # "2xx"

Challenged == age < RetryWait /\ last_response \in Challenges

\* Mutant: retries are not counted.
ChallengeRetryUncounted ==
    IF Challenged
    THEN /\ eXosip_register_send_register(registration_step)
         /\ UNCHANGED r_retry
    ELSE UNCHANGED <<r_reg_period, r_reg_expire, r_retry, registration_step, transaction>>

\* Mutant: one retry too many; the masquerading is left out.
ChallengeRetryOneMore ==
    IF Challenged /\ r_retry <= 3
    THEN /\ eXosip_register_send_register(registration_step)
         /\ r_retry' = r_retry + 1
    ELSE UNCHANGED <<r_reg_period, r_reg_expire, r_retry, registration_step, transaction>>

\* The rules that come after the refresh: at most three retries, counted whether the
\* REGISTER could be sent or not, and the two requests of the masquerading.
ChallengeRetry ==
    CASE Challenged /\ r_retry < 3 ->
           /\ eXosip_register_send_register(registration_step)
           /\ r_retry' = r_retry + 1
      [] ~Challenged /\ last_response = "2xx" /\ registration_step = RS_DELETIONREQUIRED ->
           /\ eXosip_register_send_register(RS_DELETIONPROCEEDING)
           /\ UNCHANGED r_retry
      [] ~Challenged /\ last_response = "2xx" /\ registration_step = RS_MASQUERADINGREQUIRED ->
           /\ eXosip_register_send_register(RS_MASQUERADINGPROCEEDING)
           /\ UNCHANGED r_retry
      [] OTHER ->
           UNCHANGED <<r_reg_period, r_reg_expire, r_retry, registration_step, transaction>>

\* The pass over j_reg.
eXosip_automatic_action ==
    /\ polled' = TRUE
    /\ r_last_deletion' = IF Due(r_last_deletion) THEN Off ELSE r_last_deletion
    /\ \/ /\ reg = "listed" /\ r_last_tr # "NULL"
          /\ RefreshDue
          /\ eXosip_register_send_register(registration_step)
          /\ UNCHANGED r_retry
       \/ /\ reg = "listed" /\ r_last_tr # "NULL"
          /\ ~RefreshDue
          /\ ChallengeRetry
       \/ /\ reg # "listed" \/ r_last_tr = "NULL"
          /\ UNCHANGED <<r_reg_period, r_reg_expire, r_retry, registration_step, transaction>>
    /\ UNCHANGED <<reg, prompt, r_retryfailover, binding, requests, losses>>

\* An un-REGISTER was answered or is too old.
_eXosip_release_terminated_registrations ==
    /\ reg = "listed"
    /\ r_reg_period = 0
    /\ r_last_tr # "NULL"
    /\ age > ReleaseAge \/ last_response = "2xx"
    /\ Free

\* A second passes.  The application has called eXosip_automatic_action in it, the
\* registrar has answered if it is prompt, and timer F has been tested.
Tick ==
    /\ polled
    /\ r_last_tr = "pending" => ~prompt /\ ~Due(timer_f)
    /\ polled' = FALSE
    /\ age' = IF r_last_tr # "NULL" /\ age < AgeMax THEN age + 1 ELSE age
    /\ timer_f' = Elapse(timer_f)
    /\ r_last_deletion' = Elapse(r_last_deletion)
    /\ lease' = Elapse(lease)
    /\ UNCHANGED <<reg, prompt, record, registration_step, r_last_tr, last_response, asked,
                   refused_once, requests, losses>>

-----------------------------------------------------------------------------
Application ==
    \/ \E expires \in Requested :
          \/ eXosip_register_build_initial_register(expires)
          \/ eXosip_register_build_register(expires)
    \/ eXosip_register_remove

Stack ==
    \/ \E grant \in Granted, header \in {"expires", "contact"} : cb_rcv2xx(grant, header)
    \/ \E response \in Challenges \cup {"failure"} : rcvregister_failure(response)
    \/ cb_nict_kill_transaction
    \/ _eXosip_release_terminated_registrations

Next ==
    \/ Application
    \/ Stack
    \/ _eXosip_mark_registration_expired
    \/ eXosip_automatic_action
    \/ Tick

Spec == Init /\ [][Next]_vars

-----------------------------------------------------------------------------
(***************************************************************************)
(* Properties.                                                             *)
(***************************************************************************)
Seconds == Requested \cup Granted \cup {0, MinPeriod, MinExpires}

\* The record keeps the values the code gives it; a retry counter stays within 3.
TypeOK ==
    /\ polled \in BOOLEAN
    /\ reg \in {"none", "listed", "released"}
    /\ prompt \in BOOLEAN
    /\ r_reg_period \in Seconds
    /\ r_reg_expire \in Seconds
    /\ r_retry \in 0..3
    /\ r_retryfailover \in 0..MaxLosses
    /\ registration_step \in {0} \cup 2..6
    /\ r_last_deletion \in Off..Start(DeletionGap)
    /\ r_last_tr \in {"NULL", "pending", "over"}
    /\ last_response \in Responses
    /\ age \in 0..AgeMax
    /\ timer_f \in Off..Start(TimerF)
    /\ asked \in Seconds
    /\ refused_once \in BOOLEAN
    /\ lease \in {Off} \cup Nat
    /\ requests \in 0..MaxRequests
    /\ losses \in 0..MaxLosses

(***************************************************************************)
(* "Refresh REGISTER [...] before the expiration delay" (eXosip.h): the    *)
(* binding of a listed record the application wants registered does not    *)
(* lapse while the registrar is prompt.                                    *)
(***************************************************************************)
RefreshedInTime ==
    prompt /\ reg = "listed" /\ r_reg_period # 0 /\ r_last_tr # "NULL" => lease # 0

(***************************************************************************)
(* RefreshedInTime as long as the connection has not failed                *)
(* (eXosip_automatic_action, the rules on j_reg; cb_rcv2xx).               *)
(***************************************************************************)
BindingKept == losses = 0 => RefreshedInTime

\* An un-REGISTER was sent.  No record stays so, whatever the registrar answers or omits,
\* unless the application registers again, a 423 revives or loses the registration, or a
\* 2xx names a period
\* (_eXosip_release_terminated_registrations).
Removing == reg = "listed" /\ r_reg_period = 0 /\ r_last_tr # "NULL"

=============================================================================
