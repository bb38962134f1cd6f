------------------------ MODULE AutomaticActionProofs ------------------------
(***************************************************************************)
(* Proofs about the automatic actions and the release pass, for all delays *)
(* in the order of the code, all periods asked for and granted, and any    *)
(* number of requests.                                                     *)
(*                                                                         *)
(* A behaviour follows one record, and polled is all the kinds of record   *)
(* share: each kind has its own part of the inductive invariant, a lemma   *)
(* for its steps, and one for the steps of the others.                     *)
(***************************************************************************)
EXTENDS AutomaticAction, TLAPS

(***************************************************************************)
(* Calls.                                                                  *)
(***************************************************************************)

\* A call waits for its final response without one, and with no dialog established.
CallWaits ==
    c_state \in {"ICT_CALLING", "ICT_PROCEEDING"} =>
        /\ c_response \in {"NULL", "1xx"}
        /\ d_dialog # "CONFIRMED"

\* A call that was refused has no dialog, or a closed one.
CallRefused ==
    /\ c_state = "ICT_COMPLETED" => c_response \in Call!Refusals \cup Call!Redirections
    /\ c_state \in Call!Over /\ c_response \in Call!Refusals \cup Call!Redirections
          => d_dialog \in {"none", "NULL"}

\* completed counts the seconds since the end of the INVITE.
CallCompleted == c_state # "ICT_TERMINATED" => completed = 0

\* The end of a redirection is seen by the application's loop once at most.
RedirectionSeen ==
    c_state = "ICT_TERMINATED" /\ c_response = "3xx" /\ c_age < RetryWindow
        => completed <= (IF polled THEN 0 ELSE 1)

\* That of a challenge or a 422 is seen once for each retry.
ChallengeSeen ==
    (/\ c_state = "ICT_TERMINATED"
     /\ c_response \in Call!Retried
     /\ c_retry < 3
     /\ c_age < RetryWindow)
        => completed <= c_retry + (IF polled THEN 0 ELSE 1)

CallHistory ==
    /\ call = "none" => d_dialog = "none"
    /\ call = "listed" =>
          /\ kind = "call"
          /\ c_state # "ICT_PRE_CALLING"
          /\ CallWaits
          /\ CallRefused
          /\ CallCompleted
          /\ RedirectionSeen
          /\ ChallengeSeen

(***************************************************************************)
(* Registrations and incoming subscriptions.                               *)
(***************************************************************************)

\* Each failure that moved the date of a REGISTER is one of the connection, and 60 count.
FailuresCounted == r_retryfailover <= losses /\ r_retryfailover <= 60

\* An answered NOTIFY has a final response.
NotifyAnswered == n_state = "NICT_COMPLETED" => n_response \in {"2xx", "401", "failure"}

\* What a subscriber was granted ends before the subscription does.
LeaseWithinExpires ==
    /\ jn # "listed" => n_lease = Off
    /\ n_lease > 0 => n_lease <= n_ss_expires

NotifyHistory == NotifyAnswered /\ LeaseWithinExpires

(***************************************************************************)
(* Registrations and subscriptions at a prompt server.                     *)
(***************************************************************************)

\* The one REGISTER a prompt registrar refuses is not yet retried while it is the last.
RegistrarPrompt ==
    /\ r_last_tr \in {"pending", "over"}
    /\ r_last_tr = "pending" => r_age = 0 /\ r_response = "NULL"
    /\ r_last_tr = "over" => r_response \in {"2xx", "401", "423"}
    /\ ~refused_once => r_retry = 0
    /\ r_last_tr = "over" /\ r_response # "2xx" =>
          /\ refused_once /\ r_retry = 0
          /\ r_age <= (IF polled THEN 0 ELSE 1)

\* How long the binding lasts at each point on the way to its renewal: the refresh leaves
\* when two seconds are left at least, and a challenge takes one of them.
BindingLasts ==
    /\ r_last_tr = "pending" => lease >= (IF refused_once THEN 1 ELSE 2)
    /\ r_last_tr = "over" /\ r_response # "2xx" => lease >= (IF polled THEN 2 ELSE 1)
    /\ r_last_tr = "over" /\ r_response = "2xx" =>
          /\ lease >= r_reg_period - r_age
          /\ lease >= (IF polled THEN 3 ELSE 2)
          /\ polled => r_age <= Longest

RegistrationHistory ==
    /\ reg = "none" => lease = Off /\ r_retry = 0 /\ ~refused_once
    /\ prompt /\ reg = "listed" /\ losses = 0 =>
          /\ kind = "registration"
          /\ RegistrarPrompt
          /\ r_reg_period = 0 => lease = Off
          /\ lease # Off => BindingLasts

\* The same of a notifier, which has confirmed the dialog of what it granted.
NotifierPrompt ==
    /\ s_state # "NULL"
    /\ s_state = "pending" => s_age = 0 /\ s_response \in {"NULL", "1xx"}
    /\ s_state \in Subscribed!Over => s_response \in {"2xx", "401", "423"}
    /\ ~s_refused_once => d_retry = 0
    /\ s_lease # Off => s_dialogs = "CONFIRMED"
    /\ s_state \in Subscribed!Over /\ s_response # "2xx" =>
          /\ s_refused_once
          /\ s_response = "423" => s_dialogs = "NULL"
          /\ s_lease # Off => d_retry = 0 /\ s_age <= (IF polled THEN 0 ELSE 1)

SubscriptionLasts ==
    /\ s_state = "pending" => s_lease >= (IF s_refused_once THEN 1 ELSE 2)
    /\ s_state \in Subscribed!Over /\ s_response # "2xx"
          => s_lease >= (IF polled THEN 2 ELSE 1)
    /\ s_state \in Subscribed!Over /\ s_response = "2xx" =>
          /\ s_lease >= s_reg_period - s_age
          /\ s_lease >= (IF polled THEN 3 ELSE 2)
          /\ polled => s_age <= DefaultPeriod

SubscriptionHistory ==
    /\ sub = "none" => s_lease = Off /\ d_retry = 0 /\ ~s_refused_once /\ s_dialogs = "NULL"
    /\ s_prompt /\ sub = "listed" =>
          /\ kind = "subscription"
          /\ NotifierPrompt
          /\ s_lease # Off /\ s_reg_period # 0 => SubscriptionLasts

IInv ==
    /\ TypeOK
    /\ CallHistory
    /\ FailuresCounted
    /\ RegistrationHistory
    /\ SubscriptionHistory
    /\ NotifyHistory

-----------------------------------------------------------------------------
(***************************************************************************)
(* The types of a call, in the parts one prover is good at.                *)
(***************************************************************************)
CallFlags == polled \in BOOLEAN /\ reliable \in BOOLEAN /\ stale \in BOOLEAN

CallNumbers ==
    /\ c_age \in 0..Call!AgeMax /\ c_timer \in Call!Off..Call!Start(TimerB)
    /\ completed \in 0..Keep /\ expire_time \in 0..Call!Start(NoAnswer)
    /\ c_retry \in 0..3 /\ bye_timer \in Call!Off..Call!Start(TimerF)
    /\ ringing \in 0..MaxRinging /\ redirects \in 0..MaxRedirects

CallLabels ==
    /\ call \in {"none", "listed", "released"}
    /\ c_state \in {"ICT_PRE_CALLING", "ICT_CALLING", "ICT_PROCEEDING"} \cup Call!Over
    /\ c_response \in {"NULL", "1xx", "2xx"} \cup Call!Refusals \cup Call!Redirections
    /\ d_dialog \in {"none", "EARLY", "CONFIRMED", "NULL"}
    /\ bye \in {"none", "pending", "done"}

LEMMA CallTyped ==
    ASSUME Call!TypeOK, Call!Next
    PROVE  Call!TypeOK'
<1>a. CallFlags /\ CallNumbers /\ CallLabels
  BY Zenon DEF Call!TypeOK, CallFlags, CallNumbers, CallLabels
<1> USE DEF Call!transaction, Call!dialogs, Call!bounds
<1>1. CallFlags'
  BY <1>a, Zenon
     DEF CallFlags, Call!Next, Call!eXosip_call_send_initial_invite,
         Call!eXosip_default_action, Call!eXosip_automatic_action, Call!Callee, Call!cb_rcv1xx,
         Call!cb_rcv2xx_4invite, Call!cb_rcv3456xx, Call!Receive, Call!CloseDialog,
         Call!Stack, Call!__osip_kill_transaction_callback, Call!EndBye,
         Call!_eXosip_release_terminated_calls, Call!Release, Call!Tick, Call!Transmit,
         Call!Retry
<1>2. CallNumbers'
  <2> USE <1>a, CallAssumption, RefreshAssumption
      DEF CallNumbers, Call!AgeMax, Call!Off, Call!Start
  <2>1. CASE Call!eXosip_call_send_initial_invite
    BY <2>1 DEF Call!eXosip_call_send_initial_invite, Call!Transmit
  <2>2. CASE Call!eXosip_default_action
    BY <2>2 DEF Call!eXosip_default_action, Call!CountRetry, Call!Retry, Call!Transmit
  <2>3. CASE Call!eXosip_automatic_action
    BY <2>3 DEF Call!eXosip_automatic_action, Call!CountRetry, Call!Retry, Call!Transmit
  <2>4. CASE Call!Callee
    BY <2>4 DEF Call!Callee, Call!cb_rcv1xx, Call!cb_rcv2xx_4invite, Call!cb_rcv3456xx,
                Call!Receive, Call!CloseDialog
  <2>5. CASE Call!Stack
    BY <2>5 DEF Call!Stack, Call!__osip_kill_transaction_callback, Call!EndBye,
                Call!_eXosip_release_terminated_calls, Call!Release
  <2>6. CASE Call!Tick
    BY <2>6 DEF Call!Tick, Call!Elapse
  <2> QED BY <2>1, <2>2, <2>3, <2>4, <2>5, <2>6 DEF Call!Next
<1>3. CallLabels'
  <2> USE <1>a DEF CallLabels, Call!Refusals, Call!Redirections, Call!Over
  <2>1. CASE Call!eXosip_call_send_initial_invite
    BY <2>1 DEF Call!eXosip_call_send_initial_invite, Call!Transmit
  <2>2. CASE Call!eXosip_default_action
    BY <2>2 DEF Call!eXosip_default_action, Call!Retry, Call!Transmit
  <2>3. CASE Call!eXosip_automatic_action
    BY <2>3 DEF Call!eXosip_automatic_action, Call!Retry, Call!Transmit
  <2>4. CASE Call!Callee
    BY <2>4 DEF Call!Callee, Call!cb_rcv1xx, Call!cb_rcv2xx_4invite, Call!cb_rcv3456xx,
                Call!Receive, Call!CloseDialog
  <2>5. CASE Call!Stack
    BY <2>5 DEF Call!Stack, Call!__osip_kill_transaction_callback, Call!EndBye,
                Call!_eXosip_release_terminated_calls, Call!Release
  <2>6. CASE Call!Tick
    BY <2>6 DEF Call!Tick
  <2> QED BY <2>1, <2>2, <2>3, <2>4, <2>5, <2>6 DEF Call!Next
<1> QED BY <1>1, <1>2, <1>3, Zenon DEF Call!TypeOK, CallFlags, CallNumbers, CallLabels

-----------------------------------------------------------------------------
(***************************************************************************)
(* The types of a registration.                                            *)
(***************************************************************************)
RegistrationFlags ==
    polled \in BOOLEAN /\ prompt \in BOOLEAN /\ refused_once \in BOOLEAN

RegistrationNumbers ==
    /\ r_reg_period \in Registered!Seconds /\ r_reg_expire \in Registered!Seconds
    /\ asked \in Registered!Seconds /\ lease \in {Registered!Off} \cup Nat
    /\ r_retry \in 0..3 /\ r_retryfailover \in 0..MaxLosses
    /\ registration_step \in {0} \cup 2..6
    /\ r_last_deletion \in Registered!Off..Registered!Start(DeletionGap)
    /\ r_age \in 0..Registered!AgeMax
    /\ r_timer \in Registered!Off..Registered!Start(TimerF)
    /\ r_requests \in 0..MaxRequests /\ losses \in 0..MaxLosses

RegistrationLabels ==
    /\ reg \in {"none", "listed", "released"}
    /\ r_last_tr \in {"NULL", "pending", "over"}
    /\ r_response \in Registered!Responses

LEMMA RegistrationTyped ==
    ASSUME Registered!TypeOK, FailuresCounted, Registered!Next
    PROVE  Registered!TypeOK' /\ FailuresCounted'
<1>a. RegistrationFlags /\ RegistrationNumbers /\ RegistrationLabels
  BY Zenon DEF Registered!TypeOK, RegistrationFlags, RegistrationNumbers, RegistrationLabels
<1> USE DEF Registered!record, Registered!contact, Registered!transaction, Registered!binding
<1>1. RegistrationFlags'
  BY <1>a, Zenon
     DEF RegistrationFlags, Registered!Next, Registered!Application, Registered!Stack,
         Registered!eXosip_register_build_initial_register,
         Registered!eXosip_register_build_register, Registered!eXosip_register_remove,
         Registered!Free, Registered!cb_rcv2xx, Registered!rcvregister_failure,
         Registered!cb_nict_kill_transaction, Registered!Answer,
         Registered!_eXosip_release_terminated_registrations,
         Registered!_eXosip_mark_registration_expired, Registered!eXosip_automatic_action,
         Registered!Tick
<1>2. RegistrationNumbers' /\ FailuresCounted'
  <2> USE <1>a, RefreshAssumption
      DEF RegistrationNumbers, FailuresCounted, Registered!AgeMax, Registered!Off,
          Registered!Start, Registered!Seconds
  <2>a. ASSUME NEW period \in Registered!Seconds, NEW expire \in Registered!Seconds,
               NEW step \in {0} \cup 2..6, Registered!Resend(period, expire, step)
        PROVE  /\ r_reg_period' \in Registered!Seconds /\ r_reg_expire' \in Registered!Seconds
               /\ asked' \in Registered!Seconds /\ registration_step' \in {0} \cup 2..6
               /\ r_age' \in 0..Registered!AgeMax
               /\ r_timer' \in Registered!Off..Registered!Start(TimerF)
    <3>1. \/ registration_step' = step
          \/ step = Registered!RS_MASQUERADINGPROCEEDING /\ registration_step' = step + 1
      BY <2>a, Zenon DEF Registered!Resend
    <3>2. \/ /\ r_reg_period' = MinExpires /\ r_reg_expire' = MinExpires
             /\ Registered!Transmit(MinExpires)
          \/ /\ r_reg_period' = period /\ r_reg_expire' = expire
             /\ UNCHANGED <<r_age, r_timer, asked>>
          \/ /\ r_reg_period' = period /\ r_reg_expire' = expire
             /\ Registered!Transmit(expire)
      BY <2>a, Zenon DEF Registered!Resend
    <3>3. registration_step' \in {0} \cup 2..6
      BY <3>1 DEF Registered!RS_MASQUERADINGPROCEEDING
    <3> QED BY <3>2, <3>3 DEF Registered!Transmit
  <2>b. ASSUME NEW expires \in Requested
        PROVE  Registered!Period(expires) \in Registered!Seconds
    BY DEF Registered!Period
  <2>1. ASSUME NEW expires \in Requested,
               Registered!eXosip_register_build_initial_register(expires)
        PROVE  RegistrationNumbers' /\ FailuresCounted'
    BY <2>b, <2>1 DEF Registered!eXosip_register_build_initial_register, Registered!Transmit,
                      Registered!RS_MASQUERADINGPROCEEDING
  <2>2. ASSUME NEW expires \in Requested, Registered!eXosip_register_build_register(expires)
        PROVE  RegistrationNumbers' /\ FailuresCounted'
    BY <2>a, <2>b, <2>2 DEF Registered!eXosip_register_build_register, Registered!Transmit
  <2>3. CASE \/ Registered!eXosip_register_remove
             \/ Registered!_eXosip_release_terminated_registrations
    BY <2>3 DEF Registered!eXosip_register_remove,
                Registered!_eXosip_release_terminated_registrations, Registered!Free
  <2>4. ASSUME NEW grant \in Granted, NEW header \in {"expires", "contact"},
               Registered!cb_rcv2xx(grant, header)
        PROVE  RegistrationNumbers' /\ FailuresCounted'
    BY <2>4 DEF Registered!cb_rcv2xx, Registered!Answer, Registered!NewPeriod,
                Registered!_eXosip_register_contact_is_modified,
                Registered!RS_DELETIONREQUIRED, Registered!RS_MASQUERADINGREQUIRED
  <2>c. ASSUME Registered!MarkExpired
        PROVE  /\ losses' \in 0..MaxLosses /\ r_retryfailover' \in 0..MaxLosses
               /\ FailuresCounted' /\ r_age' \in 0..Registered!AgeMax
    BY <2>c DEF Registered!MarkExpired
  <2>5. ASSUME NEW response, Registered!rcvregister_failure(response)
        PROVE  RegistrationNumbers' /\ FailuresCounted'
    <3>1. /\ UNCHANGED <<r_reg_period, r_reg_expire, r_retry, lease, asked, r_requests>>
          /\ r_timer' = Registered!Off
      BY <2>5 DEF Registered!rcvregister_failure, Registered!Answer
    <3>2. \/ UNCHANGED <<r_retryfailover, r_age, losses>>
          \/ Registered!MarkExpired
      BY <2>5 DEF Registered!rcvregister_failure
    <3>3. /\ registration_step' \in {0} \cup 2..6
          /\ r_last_deletion' \in Registered!Off..Registered!Start(DeletionGap)
      <4>1. Registered!_eXosip_register_contact_is_modified(registration_step, r_reg_period)
        BY <2>5 DEF Registered!rcvregister_failure
      <4> QED BY <4>1 DEF Registered!_eXosip_register_contact_is_modified,
                          Registered!RS_DELETIONREQUIRED
    <3> QED BY <3>1, <3>2, <3>3, <2>c
  <2>6. CASE Registered!cb_nict_kill_transaction
    BY <2>6 DEF Registered!cb_nict_kill_transaction, Registered!Answer
  <2>7. CASE Registered!_eXosip_mark_registration_expired
    BY <2>7, <2>c DEF Registered!_eXosip_mark_registration_expired
  <2>8. CASE Registered!eXosip_automatic_action
    <3>1. /\ r_last_deletion' \in Registered!Off..Registered!Start(DeletionGap)
          /\ UNCHANGED <<r_retryfailover, lease, r_requests, losses>>
      BY <2>8 DEF Registered!eXosip_automatic_action
    <3>2. ASSUME NEW step \in {0} \cup 2..6, Registered!eXosip_register_send_register(step)
          PROVE  /\ r_reg_period' \in Registered!Seconds /\ r_reg_expire' \in Registered!Seconds
                 /\ asked' \in Registered!Seconds /\ registration_step' \in {0} \cup 2..6
                 /\ r_age' \in 0..Registered!AgeMax
                 /\ r_timer' \in Registered!Off..Registered!Start(TimerF)
      BY <3>2, <2>a DEF Registered!eXosip_register_send_register
    <3>3. \/ \E step \in {0} \cup 2..6 : /\ Registered!eXosip_register_send_register(step)
                                         /\ r_retry' \in 0..3
          \/ UNCHANGED <<r_reg_period, r_reg_expire, r_retry, registration_step,
                         Registered!transaction>>
      BY <2>8 DEF Registered!eXosip_automatic_action, Registered!ChallengeRetry,
                  Registered!RS_DELETIONPROCEEDING, Registered!RS_MASQUERADINGPROCEEDING
    <3> QED BY <3>1, <3>2, <3>3
  <2>9. CASE Registered!Tick
    BY <2>9 DEF Registered!Tick, Registered!Elapse
  <2> QED BY <2>1, <2>2, <2>3, <2>4, <2>5, <2>6, <2>7, <2>8, <2>9
          DEF Registered!Next, Registered!Application, Registered!Stack
<1>3. RegistrationLabels'
  BY <1>a
     DEF RegistrationLabels, Registered!Responses, Registered!Challenges,
         Registered!Next, Registered!Application, Registered!Stack,
         Registered!eXosip_register_build_initial_register,
         Registered!eXosip_register_build_register, Registered!eXosip_register_remove,
         Registered!Free, Registered!cb_rcv2xx, Registered!rcvregister_failure,
         Registered!cb_nict_kill_transaction, Registered!Answer,
         Registered!_eXosip_release_terminated_registrations,
         Registered!_eXosip_mark_registration_expired, Registered!eXosip_automatic_action,
         Registered!eXosip_register_send_register, Registered!ChallengeRetry,
         Registered!Resend, Registered!Transmit, Registered!Tick
<1> QED BY <1>1, <1>2, <1>3, Zenon
        DEF Registered!TypeOK, RegistrationFlags, RegistrationNumbers, RegistrationLabels

-----------------------------------------------------------------------------
(***************************************************************************)
(* The types of a publication.                                             *)
(***************************************************************************)
PublicationNumbers ==
    /\ p_period \in Publishes \cup Granted \cup {0} /\ p_retry \in 0..3
    /\ p_age \in 0..Published!AgeMax /\ p_timer \in Published!Off..Published!Start(TimerF)
    /\ p_requests \in 0..MaxRequests

PublicationLabels ==
    /\ pub \in {"none", "listed", "released"}
    /\ p_last_tr \in {"NULL", "pending", "over"}
    /\ p_response \in {"NULL", "1xx", "2xx"} \cup Published!Refusals

LEMMA PublicationTyped ==
    ASSUME Published!TypeOK, Published!Next
    PROVE  Published!TypeOK'
<1>a. polled \in BOOLEAN /\ PublicationNumbers /\ PublicationLabels
  BY Zenon DEF Published!TypeOK, PublicationNumbers, PublicationLabels
<1> USE DEF Published!transaction
<1>1. polled' \in BOOLEAN
  BY <1>a, Zenon
     DEF Published!Next, Published!Application, Published!eXosip_publish,
         Published!eXosip_default_action, Published!Server, Published!cb_rcv1xx,
         Published!cb_rcv2xx, Published!cb_rcv3456xx, Published!Stack,
         Published!cb_nict_kill_transaction, Published!Receive,
         Published!_eXosip_release_terminated_publications,
         Published!eXosip_automatic_action, Published!Tick
<1>2. PublicationNumbers'
  <2> USE <1>a, RefreshAssumption
      DEF PublicationNumbers, Published!AgeMax, Published!Off, Published!Start
  <2>1. CASE Published!Application
    BY <2>1 DEF Published!Application, Published!eXosip_publish, Published!Transmit,
                Published!eXosip_default_action, Published!_eXosip_retry_with_auth
  <2>2. CASE Published!Server \/ Published!Stack
    BY <2>2 DEF Published!Server, Published!cb_rcv1xx, Published!cb_rcv2xx,
                Published!cb_rcv3456xx, Published!Stack, Published!cb_nict_kill_transaction,
                Published!Receive, Published!_eXosip_release_terminated_publications
  <2>3. CASE Published!eXosip_automatic_action
    <3>1. UNCHANGED <<p_period, p_requests>>
      BY <2>3 DEF Published!eXosip_automatic_action
    <3>2. UNCHANGED Published!transaction \/ Published!Transmit
      BY <2>3, Zenon DEF Published!eXosip_automatic_action,
                         Published!_eXosip_retry_with_auth, Published!_eXosip_publish_refresh
    <3>3. UNCHANGED p_retry \/ (p_retry < 3 /\ p_retry' = p_retry + 1)
      BY <2>3, Zenon DEF Published!eXosip_automatic_action
    <3> QED BY <3>1, <3>2, <3>3 DEF Published!Transmit
  <2>4. CASE Published!Tick
    BY <2>4 DEF Published!Tick, Published!Elapse
  <2> QED BY <2>1, <2>2, <2>3, <2>4 DEF Published!Next
<1>3. PublicationLabels'
  BY <1>a
     DEF PublicationLabels, Published!Refusals, Published!Next, Published!Application,
         Published!eXosip_publish, Published!eXosip_default_action, Published!Server,
         Published!cb_rcv1xx, Published!cb_rcv2xx, Published!cb_rcv3456xx, Published!Stack,
         Published!cb_nict_kill_transaction, Published!Receive,
         Published!_eXosip_release_terminated_publications,
         Published!eXosip_automatic_action, Published!_eXosip_retry_with_auth,
         Published!_eXosip_publish_refresh, Published!Transmit, Published!Tick
<1> QED BY <1>1, <1>2, <1>3, Zenon DEF Published!TypeOK, PublicationNumbers, PublicationLabels

-----------------------------------------------------------------------------
(***************************************************************************)
(* The types of a subscription.                                            *)
(***************************************************************************)
SubscriptionFlags ==
    polled \in BOOLEAN /\ s_prompt \in BOOLEAN /\ s_refused_once \in BOOLEAN

SubscriptionNumbers ==
    /\ s_reg_period \in 0..DefaultPeriod /\ s_retry \in 0..3 /\ d_retry \in 0..3
    /\ s_age \in 0..Subscribed!AgeMax
    /\ s_timer \in Subscribed!Off..Subscribed!Start(TimerF)
                     \cup Subscribed!Off..Subscribed!Start(TimerK)
    /\ s_asked \in Subscribes \cup {0, MinExpires}
    /\ s_lease \in {Subscribed!Off} \cup Nat /\ s_requests \in 0..MaxRequests

SubscriptionLabels ==
    /\ sub \in {"none", "listed", "released"}
    /\ s_dialogs \in {"NULL", "EARLY", "CONFIRMED", "empty"}
    /\ s_state \in {"NULL", "pending"} \cup Subscribed!Over
    /\ s_response \in {"NULL", "1xx", "2xx"} \cup Subscribed!Refusals

LEMMA SubscriptionTyped ==
    ASSUME Subscribed!TypeOK, Subscribed!Next
    PROVE  Subscribed!TypeOK'
<1>a. SubscriptionFlags /\ SubscriptionNumbers /\ SubscriptionLabels
  BY Zenon DEF Subscribed!TypeOK, SubscriptionFlags, SubscriptionNumbers, SubscriptionLabels
<1> USE DEF Subscribed!transaction, Subscribed!retries, Subscribed!granted, Subscribed!Next,
            Subscribed!Application, Subscribed!Stack,
            Subscribed!eXosip_subscription_send_initial_request, Subscribed!Resubscribe,
            Subscribed!eXosip_subscription_send_refresh_request,
            Subscribed!eXosip_subscription_remove, Subscribed!Free, Subscribed!Answer,
            Subscribed!cb_rcv1xx, Subscribed!cb_rcv2xx_4subscribe, Subscribed!cb_rcv3456xx,
            Subscribed!_eXosip_process_notify_within_dialog,
            Subscribed!cb_nict_kill_transaction,
            Subscribed!_eXosip_release_terminated_subscriptions,
            Subscribed!eXosip_automatic_action, Subscribed!RetryInitial,
            Subscribed!RetryInDialog, Subscribed!_eXosip_subscription_automatic_refresh,
            Subscribed!Tick
<1>1. SubscriptionFlags'
  BY <1>a, Zenon DEF SubscriptionFlags
<1>2. SubscriptionNumbers'
  BY <1>a, RefreshAssumption, SubscriptionAssumption
     DEF SubscriptionNumbers, Subscribed!AgeMax, Subscribed!Off, Subscribed!Start,
         Subscribed!Elapse, Subscribed!Complete, Subscribed!Interval, Subscribed!Transmit,
         Subscribed!_eXosip_subscription_send_request_with_credential
<1>3. SubscriptionLabels'
  BY <1>a
     DEF SubscriptionLabels, Subscribed!Refusals, Subscribed!Over, Subscribed!Complete,
         Subscribed!Transmit, Subscribed!_eXosip_subscription_send_request_with_credential
<1> QED BY <1>1, <1>2, <1>3, Zenon
        DEF Subscribed!TypeOK, SubscriptionFlags, SubscriptionNumbers, SubscriptionLabels

-----------------------------------------------------------------------------
(***************************************************************************)
(* The types of an incoming subscription.                                  *)
(***************************************************************************)
NotificationNumbers ==
    /\ n_ss_expires \in {-1} \cup Nat /\ n_retry \in 0..3 /\ n_age \in 0..RetryWindow
    /\ n_timer \in Notified!Off..Notified!Start(TimerF)
                     \cup Notified!Off..Notified!Start(TimerK)
    /\ n_lease \in {Notified!Off} \cup Nat /\ n_requests \in 0..MaxNotifies

NotificationLabels ==
    /\ jn \in {"none", "listed", "released", "removed"}
    /\ n_inc_state \in {"NULL", "NIST_PROCEEDING"} \cup Notified!Answered
    /\ n_inc_response \in {"NULL", "1xx", "2xx", "refused"}
    /\ n_refresh \in {"NULL", "pending", "answered"}
    /\ n_ss_status \in {"NULL", "TERMINATED"}
    /\ n_state \in {"NULL", "pending"} \cup Notified!Over
    /\ n_response \in {"NULL", "1xx", "2xx", "401", "failure"}
    /\ n_says \in {"NULL", "active", "terminated"}
    /\ n_replaced \subseteq {"2xx", "failure"}

LEMMA NotificationTyped ==
    ASSUME Notified!TypeOK, NotifyHistory, Notified!Next
    PROVE  Notified!TypeOK' /\ NotifyHistory'
<1>a. polled \in BOOLEAN /\ NotificationNumbers /\ NotificationLabels
  BY Zenon DEF Notified!TypeOK, NotificationNumbers, NotificationLabels
<1> USE DEF Notified!subscribe, Notified!notify, Notified!Listed
<1>1. LeaseWithinExpires'
  <2> USE <1>a, NotificationAssumption
      DEF NotificationNumbers, NotifyHistory, LeaseWithinExpires, Notified!Off, Off
  <2>1. ASSUME NEW expires \in Incoming,
               \/ Notified!_eXosip_process_new_subscription(expires)
               \/ Notified!_eXosip_process_subscribe_within_call(expires)
        PROVE  LeaseWithinExpires'
    BY <2>1 DEF Notified!_eXosip_process_new_subscription,
                Notified!_eXosip_process_subscribe_within_call
  <2>2. CASE Notified!Application
    BY <2>2 DEF Notified!Application, Notified!eXosip_insubscription_send_answer,
                Notified!AnswerFirst, Notified!AnswerRefresh, Notified!GrantedBy,
                Notified!eXosip_insubscription_send_request, Notified!Transmit,
                Notified!eXosip_insubscription_remove, Notified!Free
  <2>3. CASE Notified!Stack
    BY <2>3 DEF Notified!Stack, Notified!osip_nist_timeout_j_event, Notified!cb_rcv1xx,
                Notified!cb_rcv2xx, Notified!cb_rcv3456xx, Notified!Answer,
                Notified!cb_transport_error, Notified!cb_nict_kill_transaction,
                Notified!KillLast, Notified!KillReplaced, Notified!Free,
                Notified!_eXosip_release_terminated_in_subscriptions
  <2>4. CASE Notified!eXosip_automatic_action
    BY <2>4 DEF Notified!eXosip_automatic_action
  <2>5. CASE Notified!Tick
    BY <2>5 DEF Notified!Tick, Notified!Elapse
  <2> QED BY <2>1, <2>2, <2>3, <2>4, <2>5 DEF Notified!Next
<1> USE DEF Notified!Next, Notified!Application,
            Notified!Stack, Notified!_eXosip_process_new_subscription,
            Notified!_eXosip_process_subscribe_within_call,
            Notified!eXosip_insubscription_send_answer, Notified!AnswerFirst,
            Notified!AnswerRefresh, Notified!osip_nist_timeout_j_event,
            Notified!eXosip_insubscription_send_request,
            Notified!eXosip_insubscription_remove, Notified!Free, Notified!Answer,
            Notified!cb_rcv1xx, Notified!cb_rcv2xx, Notified!cb_rcv3456xx,
            Notified!cb_transport_error, Notified!cb_nict_kill_transaction,
            Notified!KillLast, Notified!KillReplaced,
            Notified!_eXosip_release_terminated_in_subscriptions,
            Notified!eXosip_automatic_action, Notified!Tick
<1>2. polled' \in BOOLEAN
  BY <1>a, Zenon
<1>3. NotifyAnswered'
  BY DEF NotifyHistory, NotifyAnswered, Notified!Complete, Notified!Transmit
<1>4. NotificationNumbers'
  BY <1>a, RefreshAssumption, SubscriptionAssumption, NotificationAssumption, CallAssumption
     DEF NotificationNumbers, Notified!Off, Notified!Start, Notified!Elapse,
         Notified!Complete, Notified!GrantedBy, Notified!Challenged, Notified!Transmit
<1>5. NotificationLabels'
  <2> USE <1>a DEF NotificationLabels, Notified!Over, Notified!Answered
  <2>1. n_replaced' \subseteq {"2xx", "failure"}
    <3>1. \/ n_replaced' \in {n_replaced, {}}
          \/ /\ n_replaced' = n_replaced \cup ({n_response} \ {"401"})
             /\ n_state = "NICT_COMPLETED"
      BY DEF Notified!Transmit
    <3> QED BY <3>1 DEF NotifyHistory, NotifyAnswered
  <2> QED BY <2>1 DEF Notified!Complete, Notified!Transmit
<1> QED BY <1>1, <1>2, <1>3, <1>4, <1>5, Zenon
        DEF Notified!TypeOK, NotifyHistory, NotificationNumbers, NotificationLabels

-----------------------------------------------------------------------------
(***************************************************************************)
(* The history of a call.                                                  *)
(***************************************************************************)
LEMMA CallRemembered ==
    ASSUME Call!TypeOK, CallHistory, kind = "call", kind' = kind, Call!Next
    PROVE  CallHistory'
<1>a. /\ polled \in BOOLEAN /\ c_age \in Nat /\ completed \in Nat /\ c_retry \in 0..3
      /\ c_state \in {"ICT_PRE_CALLING", "ICT_CALLING", "ICT_PROCEEDING"} \cup Call!Over
      /\ d_dialog \in {"none", "EARLY", "CONFIRMED", "NULL"}
  BY CallAssumption DEF Call!TypeOK, Call!AgeMax, Call!Start, Call!Off
<1> DEFINE Past == /\ call = "none" => d_dialog = "none"
                   /\ call = "listed" => /\ c_state # "ICT_PRE_CALLING" /\ CallWaits
                                         /\ CallRefused /\ CallCompleted
           Seen == call = "listed" => RedirectionSeen /\ ChallengeSeen
<1> USE DEF Call!transaction, Call!dialogs, Call!bounds, Call!Retried
<1>1. Past'
  <2> USE <1>a DEF CallHistory, CallWaits, CallRefused, CallCompleted, Call!Refusals,
                   Call!Redirections, Call!Over
  <2>1. CASE Call!eXosip_call_send_initial_invite
    BY <2>1 DEF Call!eXosip_call_send_initial_invite, Call!Transmit
  <2>2. CASE Call!eXosip_default_action
    BY <2>2 DEF Call!eXosip_default_action, Call!Retry, Call!Transmit
  <2>3. CASE Call!eXosip_automatic_action
    BY <2>3 DEF Call!eXosip_automatic_action, Call!Retry, Call!Transmit
  <2>4. CASE Call!Callee
    BY <2>4 DEF Call!Callee, Call!cb_rcv1xx, Call!cb_rcv2xx_4invite, Call!cb_rcv3456xx,
                Call!Receive, Call!CloseDialog
  <2>5. CASE Call!Stack
    BY <2>5 DEF Call!Stack, Call!__osip_kill_transaction_callback, Call!EndBye,
                Call!_eXosip_release_terminated_calls, Call!Release
  <2>6. CASE Call!Tick
    BY <2>6 DEF Call!Tick
  <2> QED BY <2>1, <2>2, <2>3, <2>4, <2>5, <2>6 DEF Call!Next
<1>2. Seen'
  <2> USE <1>a DEF CallHistory, RedirectionSeen, ChallengeSeen
  <2>1. CASE Call!eXosip_call_send_initial_invite
    BY <2>1 DEF Call!eXosip_call_send_initial_invite, Call!Transmit
  <2>2. CASE Call!eXosip_default_action
    BY <2>2 DEF Call!eXosip_default_action, Call!CountRetry, Call!Retry, Call!Transmit
  <2>3. CASE Call!eXosip_automatic_action
    <3>1. UNCHANGED <<call, reliable>> /\ polled' = TRUE
      BY <2>3 DEF Call!eXosip_automatic_action
    <3>2. CASE UNCHANGED Call!transaction /\ UNCHANGED c_retry
      <4>1. ASSUME call = "listed", c_state = "ICT_TERMINATED", c_age < RetryWindow,
                   c_response = "3xx" \/ (c_response \in Call!Retried /\ c_retry < 3)
            PROVE  FALSE
        <5>1. d_dialog \in {"none", "NULL"}
          BY <4>1 DEF CallRefused, Call!Refusals, Call!Redirections, Call!Over
        <5>2. Call!CountRetry /\ Call!Retry
          BY <2>3, <4>1, <5>1 DEF Call!eXosip_automatic_action, Call!Over
        <5> QED BY <3>2, <4>1, <5>2 DEF Call!CountRetry, Call!Retry, Call!Transmit
      <4> QED BY <3>1, <3>2, <4>1
    <3>3. CASE Call!CountRetry /\ Call!Retry
      BY <3>1, <3>3 DEF Call!CountRetry, Call!Retry, Call!Transmit
    <3> QED BY <2>3, <3>2, <3>3 DEF Call!eXosip_automatic_action
  <2>4. CASE Call!Callee
    BY <2>4 DEF Call!Callee, Call!cb_rcv1xx, Call!cb_rcv2xx_4invite, Call!cb_rcv3456xx,
                Call!Receive, Call!CloseDialog
  <2>5. CASE Call!Stack
    BY <2>5 DEF Call!Stack, Call!__osip_kill_transaction_callback, Call!EndBye,
                Call!_eXosip_release_terminated_calls, Call!Release
  <2>6. CASE Call!Tick
    BY <2>6, CallAssumption DEF Call!Tick, Call!AgeMax
  <2> QED BY <2>1, <2>2, <2>3, <2>4, <2>5, <2>6 DEF Call!Next
<1>3. kind' = "call"
  OBVIOUS
<1> QED BY <1>1, <1>2, <1>3 DEF CallHistory

-----------------------------------------------------------------------------
(***************************************************************************)
(* The history of a registration.                                          *)
(***************************************************************************)
LEMMA RegistrationRemembered ==
    ASSUME Registered!TypeOK, RegistrationHistory, kind = "registration", kind' = kind,
           Registered!Next
    PROVE  RegistrationHistory'
<1>a. /\ polled \in BOOLEAN /\ prompt \in BOOLEAN /\ refused_once \in BOOLEAN
      /\ r_age \in 0..Longest + 1 /\ r_reg_period \in Nat /\ lease \in {Off} \cup Nat
      /\ reg \in {"none", "listed", "released"} /\ r_retry \in 0..3
      /\ r_last_tr \in {"NULL", "pending", "over"} /\ losses \in Nat
  <2>1. r_reg_period \in Nat
    BY RefreshAssumption DEF Registered!TypeOK, Registered!Seconds
  <2>2. Registered!Off = Off
    BY DEF Registered!Off, Off
  <2> QED BY <2>1, <2>2, RefreshAssumption DEF Registered!TypeOK, Registered!AgeMax
<1> DEFINE Kept == prompt /\ reg = "listed" /\ losses = 0
<1> USE <1>a, RefreshAssumption
    DEF RegistrationHistory, Registered!transaction, Registered!contact, Registered!record,
        Registered!binding, Registered!Off, Off
\* A REGISTER that replaces one that is over.
<1>b. ASSUME NEW period, NEW expire, NEW step, Registered!Resend(period, expire, step), Kept
      PROVE  /\ r_last_tr = "over" /\ r_last_tr' = "pending"
             /\ r_age' = 0 /\ r_response' = "NULL"
             /\ \/ r_reg_period' = period
                \/ r_reg_period' = MinExpires
    BY <1>b, Zenon DEF Registered!Resend, Registered!Transmit, RegistrarPrompt
\* What the binding lasts when one is sent.
<1>c. ASSUME Kept, r_last_tr = "over", lease # Off
      PROVE  lease >= (IF refused_once THEN 1 ELSE 2)
    BY <1>c DEF RegistrarPrompt, BindingLasts
<1>1. ASSUME NEW expires \in Requested,
             Registered!eXosip_register_build_initial_register(expires)
      PROVE  RegistrationHistory'
  BY <1>1 DEF Registered!eXosip_register_build_initial_register, Registered!Transmit,
              Registered!Period, RegistrarPrompt
<1>2. ASSUME NEW expires \in Requested, Registered!eXosip_register_build_register(expires)
      PROVE  RegistrationHistory'
  <2>1. /\ UNCHANGED <<polled, reg, prompt, r_retry, refused_once, losses>>
        /\ reg = "listed"
        /\ lease' = IF expires = 0 THEN Off ELSE lease
    BY <1>2 DEF Registered!eXosip_register_build_register
  <2>2. CASE Kept
    <3>1. CASE /\ r_last_tr = "pending"
               /\ UNCHANGED Registered!transaction
               /\ r_reg_period' = Registered!Period(expires)
      BY <2>1, <2>2, <3>1 DEF Registered!Period, RegistrarPrompt, BindingLasts
    <3>2. CASE Registered!Resend(Registered!Period(expires), Registered!Period(expires),
                                 registration_step)
      <4>1. /\ r_last_tr = "over" /\ r_last_tr' = "pending"
            /\ r_age' = 0 /\ r_response' = "NULL"
            /\ \/ r_reg_period' = Registered!Period(expires)
               \/ r_reg_period' = MinExpires
        BY <1>b, <2>2, <3>2
      <4> QED BY <1>c, <2>1, <2>2, <4>1
              DEF Registered!Period, RegistrarPrompt, BindingLasts
    <3> QED BY <1>2, <2>2, <3>1, <3>2
            DEF Registered!eXosip_register_build_register, RegistrarPrompt
  <2> QED BY <2>1, <2>2
<1>3. CASE \/ Registered!eXosip_register_remove
           \/ Registered!_eXosip_release_terminated_registrations
  BY <1>3 DEF Registered!eXosip_register_remove,
              Registered!_eXosip_release_terminated_registrations, Registered!Free
<1>4. ASSUME NEW grant \in Granted, NEW header \in {"expires", "contact"},
             Registered!cb_rcv2xx(grant, header)
      PROVE  RegistrationHistory'
  <2>1. /\ reg = "listed" /\ r_last_tr = "pending" /\ r_last_tr' = "over"
        /\ r_response' = "2xx" /\ r_retry' = 0 /\ refused_once' = FALSE
        /\ UNCHANGED <<polled, reg, prompt, r_age, losses>>
    BY <1>4 DEF Registered!cb_rcv2xx, Registered!Answer
  <2>2. CASE lease' = Off
    BY <2>1, <2>2 DEF RegistrarPrompt
  <2>3. CASE lease' # Off
    <3>1. /\ prompt /\ r_reg_period # 0 /\ Registered!Prompt("2xx", grant)
          /\ lease' = grant /\ r_reg_period' = Registered!NewPeriod(grant, header)
      BY <1>4, <2>3 DEF Registered!cb_rcv2xx
    <3>2. /\ grant > 2 /\ lease' >= r_reg_period' /\ r_reg_period' # 0
          /\ r_reg_period' \in Nat /\ grant \in Nat
      BY <3>1 DEF Registered!Prompt, Registered!NewPeriod
    <3> QED BY <2>1, <3>1, <3>2 DEF RegistrarPrompt, BindingLasts
  <2> QED BY <2>2, <2>3
<1>5. ASSUME NEW response \in Registered!Challenges \cup {"failure"},
             Registered!rcvregister_failure(response)
      PROVE  RegistrationHistory'
  <2>1. /\ reg = "listed" /\ r_last_tr = "pending" /\ r_last_tr' = "over"
        /\ r_response' = response
        /\ UNCHANGED <<polled, reg, prompt, r_reg_period, r_retry, lease>>
        /\ prompt => Registered!Prompt(response, 0)
        /\ refused_once' = prompt
    BY <1>5 DEF Registered!rcvregister_failure, Registered!Answer
  <2>2. CASE prompt
    <3>1. response \in {"401", "423"} /\ ~refused_once
      BY <2>1, <2>2 DEF Registered!Prompt
    <3>2. UNCHANGED <<r_age, losses>>
      BY <1>5, <3>1 DEF Registered!rcvregister_failure
    <3> QED BY <2>1, <2>2, <3>1, <3>2 DEF RegistrarPrompt, BindingLasts
  <2>3. CASE ~prompt
    BY <2>1, <2>3
  <2> QED BY <2>2, <2>3
<1>6. CASE Registered!cb_nict_kill_transaction
  BY <1>6 DEF Registered!cb_nict_kill_transaction, Registered!Answer
<1>7. CASE Registered!_eXosip_mark_registration_expired
  BY <1>7 DEF Registered!_eXosip_mark_registration_expired, Registered!MarkExpired
<1>8. CASE Registered!eXosip_automatic_action
  <2>1. /\ polled' = TRUE
        /\ UNCHANGED <<reg, prompt, refused_once, lease, losses>>
    BY <1>8 DEF Registered!eXosip_automatic_action
  <2>2. CASE ~Kept
    BY <1>8, <2>1, <2>2 DEF Registered!eXosip_automatic_action
  <2>3. CASE Kept /\ r_last_tr = "pending"
    <3>1. UNCHANGED <<r_reg_period, r_retry, r_last_tr, r_response, r_age>>
      BY <1>8, <2>3
         DEF Registered!eXosip_automatic_action, Registered!ChallengeRetry,
             Registered!eXosip_register_send_register, Registered!Resend,
             Registered!Challenged, Registered!Challenges, RegistrarPrompt
    <3> QED BY <2>1, <2>3, <3>1 DEF RegistrarPrompt, BindingLasts
  <2>4. ASSUME Kept, r_last_tr = "over", NEW step,
               Registered!eXosip_register_send_register(step),
               \/ UNCHANGED r_retry
               \/ r_retry' = r_retry + 1 /\ r_response # "2xx"
        PROVE  RegistrationHistory'
    <3>1. Registered!Resend(r_reg_period, r_reg_expire, step)
      BY <2>4 DEF Registered!eXosip_register_send_register
    <3>2. /\ r_last_tr' = "pending" /\ r_age' = 0 /\ r_response' = "NULL"
          /\ r_reg_period' \in {r_reg_period, MinExpires}
      BY <1>b, <2>4, <3>1
    <3> QED BY <1>c, <2>1, <2>4, <3>2 DEF RegistrarPrompt, BindingLasts
  <2>5. CASE /\ Kept /\ r_last_tr = "over" /\ ~Registered!RefreshDue
             /\ ~(Registered!Challenged /\ r_retry < 3)
             /\ UNCHANGED <<r_reg_period, r_retry, r_last_tr, r_response, r_age>>
    <3>1. r_response = "2xx"
      <4>1. r_response # "2xx" =>
              r_response \in {"401", "423"} /\ r_age <= 1 /\ r_retry = 0
        BY <2>5 DEF RegistrarPrompt
      <4>2. r_response # "2xx" => r_age < RetryWait /\ r_retry < 3
        BY <4>1
      <4>3. r_response # "2xx" => Registered!Challenged /\ r_retry < 3
        BY <4>1, <4>2, Zenon DEF Registered!Challenged, Registered!Challenges
      <4> QED BY <2>5, <4>3
    <3>2. r_reg_period # 0 => r_age <= Longest /\ r_age <= r_reg_period - Margin
      BY <2>5 DEF Registered!RefreshDue
    <3> QED BY <2>1, <2>5, <3>1, <3>2 DEF RegistrarPrompt, BindingLasts
  <2>6. CASE Kept /\ r_last_tr = "over" /\ Registered!RefreshDue
    BY <1>8, <2>4, <2>6 DEF Registered!eXosip_automatic_action
  <2>7. CASE Kept /\ r_last_tr = "over" /\ ~Registered!RefreshDue
    <3>1. Registered!ChallengeRetry
      BY <1>8, <2>7 DEF Registered!eXosip_automatic_action
    <3>2. \/ /\ Registered!Challenged
             /\ Registered!eXosip_register_send_register(registration_step)
             /\ r_retry' = r_retry + 1
          \/ /\ \/ Registered!eXosip_register_send_register(Registered!RS_DELETIONPROCEEDING)
                \/ Registered!eXosip_register_send_register(Registered!RS_MASQUERADINGPROCEEDING)
             /\ UNCHANGED r_retry
          \/ /\ ~(Registered!Challenged /\ r_retry < 3)
             /\ UNCHANGED <<r_reg_period, r_retry, r_last_tr, r_response, r_age>>
      BY <3>1, Zenon DEF Registered!ChallengeRetry
    <3>3. Registered!Challenged => r_response # "2xx"
      BY DEF Registered!Challenged, Registered!Challenges
    <3> QED BY <2>4, <2>5, <2>7, <3>2, <3>3
  <2> QED BY <2>2, <2>3, <2>6, <2>7 DEF RegistrarPrompt
<1>9. CASE Registered!Tick
  <2>1. /\ polled /\ polled' = FALSE
        /\ r_last_tr = "pending" => ~prompt
        /\ r_age' = IF r_last_tr # "NULL" /\ r_age < Longest + 1 THEN r_age + 1 ELSE r_age
        /\ lease' = IF lease > 0 THEN lease - 1 ELSE lease
        /\ UNCHANGED <<reg, prompt, r_reg_period, r_retry, r_last_tr, r_response,
                       refused_once, losses>>
    BY <1>9 DEF Registered!Tick, Registered!Elapse, Registered!AgeMax
  <2>2. CASE ~Kept
    BY <2>1, <2>2
  <2>3. CASE Kept
    <3>1. r_last_tr = "over"
      BY <2>1, <2>3 DEF RegistrarPrompt
    <3>2. CASE r_response = "2xx"
      BY <2>1, <2>3, <3>1, <3>2 DEF RegistrarPrompt, BindingLasts
    <3>3. CASE r_response # "2xx"
      BY <2>1, <2>3, <3>1, <3>3 DEF RegistrarPrompt, BindingLasts
    <3> QED BY <3>2, <3>3
  <2> QED BY <2>2, <2>3
<1> QED BY <1>1, <1>2, <1>3, <1>4, <1>5, <1>6, <1>7, <1>8, <1>9
        DEF Registered!Next, Registered!Application, Registered!Stack

-----------------------------------------------------------------------------
(***************************************************************************)
(* The history of a subscription.                                          *)
(***************************************************************************)
LEMMA SubscriptionRemembered ==
    ASSUME Subscribed!TypeOK, SubscriptionHistory, kind = "subscription", kind' = kind,
           Subscribed!Next
    PROVE  SubscriptionHistory'
<1>a. /\ polled \in BOOLEAN /\ s_prompt \in BOOLEAN /\ s_refused_once \in BOOLEAN
      /\ s_age \in 0..DefaultPeriod + 1 /\ s_reg_period \in 0..DefaultPeriod
      /\ s_lease \in {Off} \cup Nat /\ d_retry \in 0..3
      /\ s_state \in {"NULL", "pending"} \cup Subscribed!Over
  <2>1. Subscribed!Off = Off
    BY DEF Subscribed!Off, Off
  <2> QED BY <2>1 DEF Subscribed!TypeOK, Subscribed!AgeMax
<1> DEFINE Kept == s_prompt /\ sub = "listed"
<1> USE <1>a, RefreshAssumption, SubscriptionAssumption
    DEF SubscriptionHistory, Subscribed!transaction, Subscribed!retries, Subscribed!granted,
        Subscribed!Off, Off
\* What the subscription lasts when a SUBSCRIBE is sent.
<1>b. ASSUME Kept, s_state \in Subscribed!Over, s_lease # Off, s_reg_period # 0
      PROVE  s_lease >= (IF s_refused_once THEN 1 ELSE 2)
    BY <1>b DEF NotifierPrompt, SubscriptionLasts
\* A SUBSCRIBE that replaces one that is over.
<1>c. ASSUME Kept, s_state \in Subscribed!Over, NEW expires, Subscribed!Transmit(expires),
             UNCHANGED <<sub, s_prompt, s_dialogs, s_refused_once, s_lease>>,
             s_reg_period' # 0 => s_reg_period # 0,
             UNCHANGED d_retry \/ s_response # "2xx"
      PROVE  SubscriptionHistory'
    BY <1>b, <1>c DEF Subscribed!Transmit, Subscribed!Over, NotifierPrompt, SubscriptionLasts
<1>1. ASSUME NEW expires \in Subscribes,
             Subscribed!eXosip_subscription_send_initial_request(expires)
      PROVE  SubscriptionHistory'
  BY <1>1 DEF Subscribed!eXosip_subscription_send_initial_request, Subscribed!Transmit,
              Subscribed!Over, NotifierPrompt
<1>2. ASSUME NEW expires \in Subscribes, Subscribed!Resubscribe(expires)
      PROVE  SubscriptionHistory'
  <2>1. /\ sub = "listed" /\ s_reg_period # 0 /\ s_state \in Subscribed!Over
        /\ Subscribed!Transmit(expires)
        /\ UNCHANGED <<sub, s_prompt, s_dialogs, s_refused_once, s_lease, d_retry>>
    BY <1>2 DEF Subscribed!Resubscribe, Subscribed!eXosip_subscription_send_refresh_request
  <2> QED BY <1>c, <2>1
<1>3. ASSUME Subscribed!Free
      PROVE  SubscriptionHistory'
  BY <1>3 DEF Subscribed!Free
<1>4. CASE Subscribed!cb_rcv1xx
  BY <1>4 DEF Subscribed!cb_rcv1xx, Subscribed!Answer, Subscribed!Over, NotifierPrompt,
              SubscriptionLasts
<1>5. ASSUME NEW grant \in Granted \cup {s_asked}, Subscribed!cb_rcv2xx_4subscribe(grant)
      PROVE  SubscriptionHistory'
  <2>1. /\ sub = "listed" /\ s_state = "pending" /\ s_state' \in Subscribed!Over
        /\ s_response' = "2xx" /\ s_dialogs' = "CONFIRMED"
        /\ d_retry' = 0 /\ s_refused_once' = FALSE
        /\ UNCHANGED <<polled, sub, s_prompt, s_age>>
    BY <1>5 DEF Subscribed!cb_rcv2xx_4subscribe, Subscribed!Answer, Subscribed!Complete,
                Subscribed!Over
  <2>2. CASE s_lease' = Off
    BY <2>1, <2>2 DEF Subscribed!Over, NotifierPrompt
  <2>3. CASE s_lease' # Off
    <3>1. /\ s_prompt /\ grant # 0 /\ s_asked # 0 /\ Subscribed!Prompt("2xx", grant)
          /\ s_lease' = grant /\ s_reg_period' = Subscribed!Interval(s_reg_period, grant)
      BY <1>5, <2>3 DEF Subscribed!cb_rcv2xx_4subscribe
    <3>2. /\ grant > 2 /\ grant \in Nat
          /\ s_reg_period' \in Nat /\ s_lease' >= s_reg_period'
      <4>1. s_asked \in Nat
        BY DEF Subscribed!TypeOK
      <4> QED BY <3>1, <4>1 DEF Subscribed!Prompt, Subscribed!Interval
    <3> QED BY <2>1, <3>1, <3>2 DEF Subscribed!Over, NotifierPrompt, SubscriptionLasts
  <2> QED BY <2>2, <2>3
<1>6. ASSUME NEW response \in Subscribed!Refusals, Subscribed!cb_rcv3456xx(response)
      PROVE  SubscriptionHistory'
  <2>1. /\ sub = "listed" /\ s_state = "pending" /\ s_state' \in Subscribed!Over
        /\ s_response' = response
        /\ UNCHANGED <<polled, sub, s_prompt, s_age, s_reg_period, d_retry, s_lease>>
        /\ s_prompt => Subscribed!Prompt(response, 0)
        /\ s_refused_once' = s_prompt
        /\ s_dialogs' = IF s_dialogs = "EARLY" THEN "empty" ELSE s_dialogs
    BY <1>6 DEF Subscribed!cb_rcv3456xx, Subscribed!Answer, Subscribed!Complete,
                Subscribed!Over
  <2>2. CASE s_prompt
    <3>1. /\ ~s_refused_once
          /\ response = "401" \/ (response = "423" /\ s_dialogs = "NULL")
      BY <2>1, <2>2 DEF Subscribed!Prompt, Subscribed!Refusals
    <3> QED BY <2>1, <2>2, <3>1
            DEF Subscribed!Over, NotifierPrompt, SubscriptionLasts
  <2>3. CASE ~s_prompt
    BY <2>1, <2>3
  <2> QED BY <2>2, <2>3
<1>7. CASE Subscribed!_eXosip_process_notify_within_dialog
  <2>1. CASE Subscribed!Free
    BY <1>3, <2>1
  <2>2. CASE ~Subscribed!Free
    BY <1>7, <2>2 DEF Subscribed!_eXosip_process_notify_within_dialog,
                      Subscribed!Refusals, NotifierPrompt, SubscriptionLasts
  <2> QED BY <2>1, <2>2
<1>8. CASE Subscribed!cb_nict_kill_transaction
  <2>1. CASE Subscribed!Free
    BY <1>3, <2>1
  <2>2. CASE ~Subscribed!Free
    <3>1. /\ sub = "listed" /\ s_prompt => s_state \in Subscribed!Over
          /\ s_state' \in Subscribed!Over
          /\ UNCHANGED <<polled, sub, s_prompt, s_reg_period, d_retry, s_dialogs, s_response,
                         s_age, s_refused_once, s_lease>>
      BY <1>8, <2>2 DEF Subscribed!cb_nict_kill_transaction, Subscribed!Over
    <3> QED BY <3>1 DEF Subscribed!Over, NotifierPrompt, SubscriptionLasts
  <2> QED BY <2>1, <2>2
<1>9. CASE \/ Subscribed!eXosip_subscription_remove
           \/ Subscribed!_eXosip_release_terminated_subscriptions
  BY <1>3, <1>9 DEF Subscribed!eXosip_subscription_remove,
                    Subscribed!_eXosip_release_terminated_subscriptions
<1>10. CASE Subscribed!eXosip_automatic_action
  <2>1. /\ polled' = TRUE
        /\ UNCHANGED <<sub, s_prompt, s_dialogs, s_refused_once, s_lease>>
    BY <1>10 DEF Subscribed!eXosip_automatic_action
  <2>2. CASE Subscribed!RetryInitial \/ Subscribed!RetryInDialog
    <3>1. /\ sub = "listed" /\ s_state \in Subscribed!Over
          /\ s_response \in {"401", "423"}
          /\ UNCHANGED s_reg_period
          /\ s_dialogs = "CONFIRMED" \/ UNCHANGED d_retry
          /\ s_dialogs \in {"NULL", "CONFIRMED"}
          /\ s_dialogs = "CONFIRMED" => s_response = "401"
      BY <2>2 DEF Subscribed!RetryInitial, Subscribed!RetryInDialog, Subscribed!Challenged
    <3>2. \/ Subscribed!Transmit(MinExpires)
          \/ Subscribed!Transmit(s_asked)
          \/ s_response = "423" /\ UNCHANGED Subscribed!transaction
      BY <2>2, Zenon
         DEF Subscribed!RetryInitial, Subscribed!RetryInDialog,
             Subscribed!_eXosip_subscription_send_request_with_credential
    <3>3. CASE s_response = "423" /\ UNCHANGED Subscribed!transaction
      BY <2>1, <3>1, <3>3 DEF NotifierPrompt
    <3> QED BY <1>c, <2>1, <3>1, <3>2, <3>3
  <2>3. CASE Subscribed!_eXosip_subscription_automatic_refresh
    <3>1. /\ sub = "listed" /\ s_reg_period # 0 /\ s_state \in Subscribed!Over
          /\ Subscribed!Transmit(s_asked)
          /\ UNCHANGED d_retry
      BY <2>3 DEF Subscribed!_eXosip_subscription_automatic_refresh,
                  Subscribed!RefreshDue, Subscribed!eXosip_subscription_send_refresh_request
    <3> QED BY <1>c, <2>1, <3>1
  <2>4. CASE /\ sub = "listed" /\ s_dialogs = "CONFIRMED" =>
                  /\ ~(Subscribed!Challenged({"401"}) /\ d_retry < 3)
                  /\ ~Subscribed!RefreshDue
             /\ UNCHANGED <<s_reg_period, d_retry, Subscribed!transaction>>
    <3>1. ASSUME Kept, s_lease # Off, s_state \in Subscribed!Over
          PROVE  /\ s_response = "2xx"
                 /\ s_reg_period # 0 => s_age <= s_reg_period - Margin
      <4>1. s_dialogs = "CONFIRMED"
        BY <3>1 DEF NotifierPrompt
      <4>2. s_response # "2xx" =>
              s_response = "401" /\ s_age < RetryWindow /\ d_retry = 0
        BY <3>1, <4>1, CallAssumption DEF NotifierPrompt
      <4>3. s_response = "2xx"
        BY <2>4, <3>1, <4>1, <4>2 DEF Subscribed!Challenged
      <4> QED BY <2>4, <3>1, <4>1, <4>3 DEF Subscribed!RefreshDue, Subscribed!Refusals
    <3>2. CASE Kept /\ s_lease # Off /\ s_state \in Subscribed!Over
      BY <2>1, <2>4, <3>1, <3>2 DEF Subscribed!Over, NotifierPrompt, SubscriptionLasts
    <3>3. CASE ~(Kept /\ s_lease # Off /\ s_state \in Subscribed!Over)
      BY <2>1, <2>4, <3>3 DEF Subscribed!Over, NotifierPrompt, SubscriptionLasts
    <3> QED BY <3>2, <3>3
  <2> QED BY <1>10, <2>2, <2>3, <2>4, Zenon DEF Subscribed!eXosip_automatic_action
<1>11. CASE Subscribed!Tick
  <2>1. /\ polled /\ polled' = FALSE
        /\ s_state = "pending" => ~s_prompt
        /\ s_age' = IF sub = "listed" /\ s_age < DefaultPeriod + 1 THEN s_age + 1 ELSE s_age
        /\ s_lease' = IF s_lease > 0 THEN s_lease - 1 ELSE s_lease
        /\ UNCHANGED <<sub, s_prompt, s_reg_period, d_retry, s_dialogs, s_state, s_response,
                       s_refused_once>>
    BY <1>11 DEF Subscribed!Tick, Subscribed!Elapse, Subscribed!AgeMax
  <2>2. CASE ~Kept
    BY <2>1, <2>2
  <2>3. CASE Kept
    <3>1. s_state \in Subscribed!Over
      BY <2>1, <2>3 DEF NotifierPrompt
    <3>2. CASE s_response = "2xx"
      BY <2>1, <2>3, <3>1, <3>2 DEF Subscribed!Over, NotifierPrompt, SubscriptionLasts
    <3>3. CASE s_response # "2xx"
      BY <2>1, <2>3, <3>1, <3>3 DEF Subscribed!Over, NotifierPrompt, SubscriptionLasts
    <3> QED BY <3>2, <3>3
  <2> QED BY <2>2, <2>3
<1> QED BY <1>1, <1>2, <1>4, <1>5, <1>6, <1>7, <1>8, <1>9, <1>10, <1>11
        DEF Subscribed!Next, Subscribed!Application, Subscribed!Stack

-----------------------------------------------------------------------------
(***************************************************************************)
(* The steps of one kind of record leave the others as they are.           *)
(***************************************************************************)
LEMMA Frames ==
    ASSUME polled' \in BOOLEAN
    PROVE  /\ Call!TypeOK /\ UNCHANGED callVars => Call!TypeOK'
           /\ Registered!TypeOK /\ UNCHANGED registrationVars => Registered!TypeOK'
           /\ Published!TypeOK /\ UNCHANGED publicationVars => Published!TypeOK'
           /\ Subscribed!TypeOK /\ UNCHANGED subscriptionVars => Subscribed!TypeOK'
           /\ Notified!TypeOK /\ UNCHANGED notificationVars => Notified!TypeOK'
<1>1. Call!TypeOK /\ UNCHANGED callVars => Call!TypeOK'
  BY Zenon DEF Call!TypeOK, callVars
<1>2. Registered!TypeOK /\ UNCHANGED registrationVars => Registered!TypeOK'
  BY Zenon DEF Registered!TypeOK, registrationVars
<1>3. Published!TypeOK /\ UNCHANGED publicationVars => Published!TypeOK'
  BY Zenon DEF Published!TypeOK, publicationVars
<1>4. Subscribed!TypeOK /\ UNCHANGED subscriptionVars => Subscribed!TypeOK'
  BY Zenon DEF Subscribed!TypeOK, subscriptionVars
<1>5. Notified!TypeOK /\ UNCHANGED notificationVars => Notified!TypeOK'
  BY Zenon DEF Notified!TypeOK, notificationVars
<1> QED BY <1>1, <1>2, <1>3, <1>4, <1>5

-----------------------------------------------------------------------------
(***************************************************************************)
(* The invariant is inductive.                                             *)
(***************************************************************************)
LEMMA InitIInv == Init => IInv
<1> SUFFICES ASSUME Init PROVE IInv
  OBVIOUS
<1>1. Call!TypeOK
  <2>1. CallFlags
    BY Zenon DEF Init, Call!Init, CallFlags
  <2>2. CallNumbers /\ CallLabels
    BY CallAssumption, RefreshAssumption
       DEF Init, Call!Init, CallNumbers, CallLabels, Call!AgeMax, Call!Off, Call!Start
  <2> QED BY <2>1, <2>2, Zenon DEF Call!TypeOK, CallFlags, CallNumbers, CallLabels
<1>2. Registered!TypeOK
  <2>1. RegistrationFlags
    BY Zenon DEF Init, Call!Init, Registered!Init, RegistrationFlags
  <2>2. RegistrationNumbers /\ RegistrationLabels
    BY RefreshAssumption
       DEF Init, Registered!Init, RegistrationNumbers, RegistrationLabels,
           Registered!Responses, Registered!Seconds, Registered!AgeMax, Registered!Off,
           Registered!Start
  <2> QED BY <2>1, <2>2, Zenon
          DEF Registered!TypeOK, RegistrationFlags, RegistrationNumbers, RegistrationLabels
<1>3. Published!TypeOK
  <2>1. polled \in BOOLEAN
    BY Zenon DEF Init, Call!Init
  <2>2. PublicationNumbers /\ PublicationLabels
    BY RefreshAssumption
       DEF Init, Published!Init, PublicationNumbers, PublicationLabels, Published!AgeMax,
           Published!Off, Published!Start
  <2> QED BY <2>1, <2>2, Zenon DEF Published!TypeOK, PublicationNumbers, PublicationLabels
<1>4. Subscribed!TypeOK
  <2>1. SubscriptionFlags
    BY Zenon DEF Init, Call!Init, Subscribed!Init, SubscriptionFlags
  <2>2. SubscriptionNumbers /\ SubscriptionLabels
    BY RefreshAssumption, SubscriptionAssumption
       DEF Init, Subscribed!Init, SubscriptionNumbers, SubscriptionLabels,
           Subscribed!AgeMax, Subscribed!Off, Subscribed!Start
  <2> QED BY <2>1, <2>2, Zenon
          DEF Subscribed!TypeOK, SubscriptionFlags, SubscriptionNumbers, SubscriptionLabels
<1>5. Notified!TypeOK
  <2>1. polled \in BOOLEAN
    BY Zenon DEF Init, Call!Init
  <2>2. NotificationNumbers /\ NotificationLabels
    BY CallAssumption, RefreshAssumption, SubscriptionAssumption, NotificationAssumption
       DEF Init, Notified!Init, NotificationNumbers, NotificationLabels,
           Notified!Off, Notified!Start
  <2> QED BY <2>1, <2>2, Zenon DEF Notified!TypeOK, NotificationNumbers, NotificationLabels
<1>6. CallHistory
  BY DEF Init, Call!Init, CallHistory
<1>7. FailuresCounted /\ NotifyHistory
  BY DEF Init, Registered!Init, Notified!Init, FailuresCounted, NotifyHistory,
         NotifyAnswered, LeaseWithinExpires, Notified!Off, Off
<1>8. RegistrationHistory /\ SubscriptionHistory
  BY DEF Init, Registered!Init, Subscribed!Init, RegistrationHistory, SubscriptionHistory,
         Registered!Off, Subscribed!Off, Off
<1> QED BY <1>1, <1>2, <1>3, <1>4, <1>5, <1>6, <1>7, <1>8 DEF IInv, TypeOK

LEMMA NextIInv == IInv /\ [Next]_vars => IInv'
<1> SUFFICES ASSUME IInv, [Next]_vars PROVE IInv'
  OBVIOUS
<1>a. /\ Call!TypeOK /\ Registered!TypeOK /\ Published!TypeOK /\ Subscribed!TypeOK
      /\ Notified!TypeOK /\ CallHistory /\ FailuresCounted /\ RegistrationHistory
      /\ SubscriptionHistory /\ NotifyHistory
  BY DEF IInv, TypeOK
<1>b. kind # "call" /\ UNCHANGED <<kind, callVars>> => CallHistory'
  BY <1>a DEF CallHistory, callVars
<1>c. UNCHANGED registrationVars => FailuresCounted'
  BY <1>a DEF FailuresCounted, registrationVars
<1>d. kind # "registration" /\ UNCHANGED <<kind, registrationVars>> => RegistrationHistory'
  BY <1>a DEF RegistrationHistory, registrationVars
<1>e. kind # "subscription" /\ UNCHANGED <<kind, subscriptionVars>> => SubscriptionHistory'
  BY <1>a DEF SubscriptionHistory, subscriptionVars
<1>f. UNCHANGED notificationVars => NotifyHistory'
  BY <1>a DEF NotifyHistory, NotifyAnswered, LeaseWithinExpires, notificationVars
<1>1. CASE OfCall /\ Call!Next
  <2>1. Call!TypeOK' /\ CallHistory'
    BY <1>a, <1>1, CallTyped, CallRemembered DEF OfCall
  <2>2. polled' \in BOOLEAN
    BY <2>1 DEF Call!TypeOK
  <2>3. /\ kind = "call"
        /\ UNCHANGED <<kind, registrationVars, publicationVars, subscriptionVars,
                       notificationVars>>
    BY <1>1 DEF OfCall
  <2> QED BY <1>a, <1>c, <1>d, <1>e, <1>f, <2>1, <2>2, <2>3, Frames DEF IInv, TypeOK
<1>2. CASE OfRegistration /\ Registered!Next
  <2>1. /\ kind = "registration"
        /\ UNCHANGED <<kind, callVars, publicationVars, subscriptionVars, notificationVars>>
    BY <1>2 DEF OfRegistration
  <2>2. Registered!TypeOK' /\ FailuresCounted' /\ RegistrationHistory'
    BY <1>a, <1>2, <2>1, RegistrationTyped, RegistrationRemembered
  <2>3. polled' \in BOOLEAN
    BY <2>2 DEF Registered!TypeOK
  <2> QED BY <1>a, <1>b, <1>e, <1>f, <2>1, <2>2, <2>3, Frames DEF IInv, TypeOK
<1>3. CASE OfPublication /\ Published!Next
  <2>1. Published!TypeOK'
    BY <1>a, <1>3, PublicationTyped
  <2>2. polled' \in BOOLEAN
    BY <2>1 DEF Published!TypeOK
  <2>3. /\ kind = "publication"
        /\ UNCHANGED <<kind, callVars, registrationVars, subscriptionVars, notificationVars>>
    BY <1>3 DEF OfPublication
  <2> QED BY <1>a, <1>b, <1>c, <1>d, <1>e, <1>f, <2>1, <2>2, <2>3, Frames
          DEF IInv, TypeOK
<1>4. CASE OfSubscription /\ Subscribed!Next
  <2>1. /\ kind = "subscription"
        /\ UNCHANGED <<kind, callVars, registrationVars, publicationVars, notificationVars>>
    BY <1>4 DEF OfSubscription
  <2>2. Subscribed!TypeOK' /\ SubscriptionHistory'
    BY <1>a, <1>4, <2>1, SubscriptionTyped, SubscriptionRemembered
  <2>3. polled' \in BOOLEAN
    BY <2>2 DEF Subscribed!TypeOK
  <2> QED BY <1>a, <1>b, <1>c, <1>d, <1>f, <2>1, <2>2, <2>3, Frames DEF IInv, TypeOK
<1>5. CASE OfNotification /\ Notified!Next
  <2>1. Notified!TypeOK' /\ NotifyHistory'
    BY <1>a, <1>5, NotificationTyped
  <2>2. polled' \in BOOLEAN
    BY <2>1 DEF Notified!TypeOK
  <2>3. /\ kind = "notification"
        /\ UNCHANGED <<kind, callVars, registrationVars, publicationVars, subscriptionVars>>
    BY <1>5 DEF OfNotification
  <2> QED BY <1>a, <1>b, <1>c, <1>d, <1>e, <2>1, <2>2, <2>3, Frames DEF IInv, TypeOK
<1>6. CASE UNCHANGED vars
  <2>1. UNCHANGED <<kind, polled, callVars, registrationVars, publicationVars,
                    subscriptionVars, notificationVars>>
    BY <1>6 DEF vars
  <2>2. polled' \in BOOLEAN
    BY <1>a, <2>1 DEF Call!TypeOK
  <2>3. CallHistory'
    BY <1>a, <2>1 DEF callVars, CallHistory, CallWaits, CallRefused, CallCompleted,
                      RedirectionSeen, ChallengeSeen
  <2>4. RegistrationHistory'
    BY <1>a, <2>1 DEF registrationVars, RegistrationHistory, RegistrarPrompt, BindingLasts
  <2>5. SubscriptionHistory'
    BY <1>a, <2>1 DEF subscriptionVars, SubscriptionHistory, NotifierPrompt,
                      SubscriptionLasts
  <2> QED BY <1>a, <1>c, <1>f, <2>1, <2>2, <2>3, <2>4, <2>5, Frames DEF IInv, TypeOK
<1> QED BY <1>1, <1>2, <1>3, <1>4, <1>5, <1>6 DEF Next

LEMMA Invariance == Spec => []IInv
BY InitIInv, NextIInv, PTL DEF Spec

-----------------------------------------------------------------------------
(***************************************************************************)
(* Every record keeps the values the code gives it: in particular the      *)
(* retries of eXosip_automatic_action stay within 3.                       *)
(***************************************************************************)
THEOREM TypeCorrect == Spec => []TypeOK
<1>1. IInv => TypeOK
  BY DEF IInv
<1> QED BY Invariance, <1>1, PTL

(***************************************************************************)
(* The release pass gives up no call that waits for a redirection to be    *)
(* followed or a challenge or a 422 to be answered                         *)
(* (_eXosip_release_terminated_calls, eXosip_automatic_action), and no     *)
(* incoming subscription before the time it was granted is over            *)
(* (_eXosip_release_terminated_in_subscriptions,                           *)
(* cb_nict_kill_transaction).                                              *)
(***************************************************************************)
THEOREM KeptLongEnough == Spec => NotReleasedEarly
<1> DEFINE Waited == call = "listed" /\ call' = "released" /\ c_age < RetryWindow =>
                        /\ c_response # "3xx"
                        /\ c_response \in Call!Retried => c_retry = 3 \/ Call!HasDialog
           Kept == Notified!Listed /\ jn' = "released" =>
                     \/ n_lease \in {Notified!Off, 0}
                     \/ n_inc_response = "refused"
                     \/ n_says = "terminated"
                     \/ n_ss_status = "TERMINATED"
                     \/ "failure" \in n_replaced \cup {n_response}
                     \/ n_state = "pending"
<1>1. IInv /\ [Next]_vars => [Waited]_(Call!vars)
  <2> SUFFICES ASSUME IInv, Next, call = "listed", call' = "released", c_age < RetryWindow
               PROVE  /\ c_response # "3xx"
                      /\ c_response \in Call!Retried => c_retry = 3 \/ Call!HasDialog
    BY DEF vars, callVars, Call!vars
  <2>1. Call!TypeOK /\ CallHistory
    BY DEF IInv, TypeOK
  <2>2. Call!Next
    BY DEF Next, OfRegistration, OfPublication, OfSubscription, OfNotification, callVars
  <2>3. Call!_eXosip_release_terminated_calls /\ Call!Release
    BY <2>2 DEF Call!Next, Call!eXosip_call_send_initial_invite, Call!eXosip_default_action,
                Call!eXosip_automatic_action, Call!Callee, Call!cb_rcv1xx,
                Call!cb_rcv2xx_4invite, Call!cb_rcv3456xx, Call!Receive, Call!CloseDialog,
                Call!Stack, Call!__osip_kill_transaction_callback, Call!EndBye,
                Call!_eXosip_release_terminated_calls, Call!Tick
  <2>4. \/ Call!HasDialog /\ Call!Aborted
        \/ Call!Unused
    BY <2>3 DEF Call!_eXosip_release_terminated_calls
  <2>5. /\ polled \in BOOLEAN /\ c_age \in Nat /\ completed \in Nat /\ c_retry \in 0..3
    BY <2>1, CallAssumption DEF Call!TypeOK, Call!AgeMax
  <2>6. c_state = "ICT_TERMINATED" /\ (completed > RedirectWait \/ completed > 3 \/ Call!HasDialog)
    BY <2>4, <2>5, CallAssumption DEF Call!Aborted, Call!Unused
  <2>7. c_response # "3xx"
    BY <2>1, <2>4, <2>5, CallAssumption
       DEF CallHistory, RedirectionSeen, Call!Aborted, Call!Unused, Call!Refusals,
           Call!Retried
  <2>8. c_response \in Call!Retried => c_retry = 3 \/ Call!HasDialog
    BY <2>1, <2>4, <2>5, CallAssumption DEF CallHistory, ChallengeSeen, Call!Unused
  <2> QED BY <2>7, <2>8
<1>2. IInv /\ [Next]_vars => [Kept]_(Notified!vars)
  <2> SUFFICES ASSUME IInv, Next, Notified!Listed, jn' = "released"
               PROVE  Kept
    BY DEF vars, notificationVars, Notified!vars, Notified!subscribe, Notified!notify
  <2>1. Notified!TypeOK /\ NotifyHistory
    BY DEF IInv, TypeOK
  <2>2. Notified!Next
    BY DEF Next, OfCall, OfRegistration, OfPublication, OfSubscription, notificationVars,
           Notified!Listed
  <2>3. \/ Notified!cb_rcv2xx
        \/ Notified!cb_transport_error
        \/ Notified!cb_nict_kill_transaction
        \/ Notified!_eXosip_release_terminated_in_subscriptions
    BY <2>2 DEF Notified!Next, Notified!_eXosip_process_new_subscription,
                Notified!_eXosip_process_subscribe_within_call, Notified!Application,
                Notified!eXosip_insubscription_send_answer, Notified!AnswerFirst,
                Notified!AnswerRefresh, Notified!eXosip_insubscription_send_request,
                Notified!eXosip_insubscription_remove, Notified!Free, Notified!Stack,
                Notified!osip_nist_timeout_j_event, Notified!cb_rcv1xx, Notified!Answer,
                Notified!cb_rcv3456xx, Notified!eXosip_automatic_action, Notified!Tick,
                Notified!Listed
  <2>4. CASE Notified!cb_rcv2xx \/ Notified!cb_transport_error
    BY <2>4 DEF Notified!cb_rcv2xx, Notified!cb_transport_error, Notified!Answer,
                Notified!Listed
  <2>5. CASE Notified!cb_nict_kill_transaction
    BY <2>1, <2>5 DEF Notified!cb_nict_kill_transaction, Notified!KillLast,
                      Notified!KillReplaced, Notified!GoesWith, Notified!Listed,
                      NotifyHistory, NotifyAnswered
  <2>6. CASE Notified!_eXosip_release_terminated_in_subscriptions
    <3>1. CASE Notified!Rejected
      BY <3>1 DEF Notified!Rejected
    <3>2. CASE Notified!Expired
      BY <2>1, <3>2 DEF Notified!Expired, Notified!TypeOK, NotifyHistory,
                        LeaseWithinExpires, Notified!Off
    <3> QED BY <2>6, <3>1, <3>2 DEF Notified!_eXosip_release_terminated_in_subscriptions
  <2> QED BY <2>3, <2>4, <2>5, <2>6
<1>3. Spec => [][Waited]_(Call!vars)
  BY Invariance, <1>1, PTL DEF Spec
<1>4. Spec => [][Kept]_(Notified!vars)
  BY Invariance, <1>2, PTL DEF Spec
<1> QED BY <1>3, <1>4
        DEF NotReleasedEarly, Call!RetriedBeforeRelease, Notified!KeptUntilExpiry

(***************************************************************************)
(* What the application registered or subscribed to does not lapse while   *)
(* the server is prompt and the connection lasts: the refresh leaves early *)
(* enough for one challenge or one 423 on the way (eXosip_automatic_action,*)
(* cb_rcv2xx, cb_rcv2xx_4subscribe).                                       *)
(***************************************************************************)
THEOREM Refreshed == Spec => []RefreshedBeforeExpiry
<1>1. IInv => RefreshedBeforeExpiry
  <2> SUFFICES ASSUME IInv PROVE RefreshedBeforeExpiry
    OBVIOUS
  <2>1. /\ RegistrationHistory /\ SubscriptionHistory
        /\ Registered!TypeOK /\ Subscribed!TypeOK
    BY DEF IInv, TypeOK
  <2>2. Registered!BindingKept
    BY <2>1 DEF Registered!BindingKept, Registered!RefreshedInTime, RegistrationHistory,
                RegistrarPrompt, BindingLasts, Off
  <2>3. Subscribed!SubscriptionKept
    BY <2>1 DEF Subscribed!SubscriptionKept, SubscriptionHistory, NotifierPrompt,
                SubscriptionLasts, Subscribed!TypeOK, Off
  <2> QED BY <2>2, <2>3 DEF RefreshedBeforeExpiry
<1> QED BY Invariance, <1>1, PTL

=============================================================================
