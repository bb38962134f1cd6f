--------------------------- MODULE AutomaticAction ---------------------------
(***************************************************************************)
(* What eXosip does by itself for the records an application has made: the *)
(* rules of eXosip_automatic_action, called from the application's loop,   *)
(* against the release pass of the stack thread (_eXosip_release_          *)
(* terminated_calls, _registrations, _publications, _subscriptions and     *)
(* _in_subscriptions).                                                     *)
(*                                                                         *)
(* Both walk the lists j_calls, j_reg, j_subscribes, j_requests and j_pub  *)
(* record by record, and no rule looks at a second record: a behaviour     *)
(* follows one record, of a kind chosen at the start.                      *)
(***************************************************************************)
EXTENDS Timers

CONSTANTS
    \* Calls.
    NoAnswer, RetryWindow, RedirectWait, Keep, TimerB, MaxRinging, MaxRedirects,
    \* Registrations and publications.
    MinPeriod, Margin, Part, Slack, Longest, RetryWait, ReleaseAge, DeletionGap, TimerF,
    Requested, Granted, MinExpires, MaxRequests, MaxLosses,
    Publishes,  \* what the application asks for when it publishes
    \* Subscriptions.
    DefaultPeriod, Settle, Linger, TimerK,
    Subscribes, \* what the application asks for when it subscribes
    \* Incoming subscriptions.
    Incoming,   \* what a subscriber asks for
    MaxNotifies \* bound: SUBSCRIBEs after the first and NOTIFYs

(***************************************************************************)
(* The order of the delays of the code: 2 < 10 < 32 < 120 < 180 seconds    *)
(* for calls.  A call is kept long enough for the three retries and one    *)
(* more turn of the application's loop.                                    *)
(***************************************************************************)
ASSUME CallAssumption ==
    /\ {RedirectWait, Keep, TimerB, RetryWindow, NoAnswer} \subseteq Nat \ {0}
    /\ RedirectWait < Keep /\ Keep < TimerB
    /\ TimerB < RetryWindow /\ RetryWindow < NoAnswer
    /\ 3 < Keep
    /\ {MaxRinging, MaxRedirects} \subseteq Nat

(***************************************************************************)
(* 32 < 75 < 120 < 900 seconds, for registrations and publications; the    *)
(* margin leaves room for the application's next turn and for the second a *)
(* challenge may cost.  A registration whose connection fails is made 120  *)
(* seconds old less one for each failure, of which 60 are counted.         *)
(***************************************************************************)
ASSUME RefreshAssumption ==
    /\ {TimerF, ReleaseAge, RetryWait, Longest} \subseteq Nat \ {0}
    /\ TimerF < ReleaseAge /\ ReleaseAge < RetryWait /\ RetryWait < Longest
    /\ {Margin, Part, Slack, DeletionGap, MinPeriod, MinExpires} \subseteq Nat \ {0}
    /\ 2 < Margin /\ Margin < MinPeriod
    /\ Requested \cup Granted \cup Publishes \subseteq Nat
    /\ {MaxRequests, MaxLosses} \subseteq Nat
    /\ 60 <= RetryWait \/ MaxLosses <= RetryWait

(***************************************************************************)
(* 5 < 15 < 64 < 120 < 3600 seconds, and 32 < 64, for subscriptions.       *)
(***************************************************************************)
ASSUME SubscriptionAssumption ==
    /\ {TimerK, Linger, Settle, DefaultPeriod} \subseteq Nat \ {0}
    /\ TimerK < Linger /\ Linger < Settle /\ TimerF < Settle
    /\ Settle < RetryWindow /\ RetryWindow < DefaultPeriod
    /\ Subscribes \subseteq Nat

(***************************************************************************)
(* A NOTIFY is answered within 32 < 120 seconds, and can be retried.       *)
(***************************************************************************)
ASSUME NotificationAssumption ==
    /\ TimerF < RetryWindow
    /\ Incoming \subseteq Nat
    /\ MaxNotifies \in Nat

VARIABLES
    kind,            \* of the record: "call", "registration", "publication", "subscription"
                     \* or "notification"
    polled,
    call, reliable, c_state, c_response, c_age, c_timer, completed, expire_time, c_retry,
    d_dialog, stale, bye, bye_timer, ringing, redirects,
    reg, prompt, r_reg_period, r_reg_expire, r_retry, r_retryfailover, registration_step,
    r_last_deletion, r_last_tr, r_response, r_age, r_timer, asked, refused_once, lease,
    r_requests, losses,
    pub, p_period, p_retry, p_last_tr, p_response, p_age, p_timer, p_requests,
    sub, s_prompt, s_reg_period, s_retry, d_retry, s_dialogs, s_state, s_response, s_age,
    s_timer, s_asked, s_refused_once, s_lease, s_requests,
    jn, n_inc_state, n_inc_response, n_refresh, n_ss_status, n_ss_expires, n_retry, n_state,
    n_response, n_age, n_timer, n_says, n_replaced, n_lease, n_requests

callVars == <<call, reliable, c_state, c_response, c_age, c_timer, completed, expire_time,
              c_retry, d_dialog, stale, bye, bye_timer, ringing, redirects>>
registrationVars == <<reg, prompt, r_reg_period, r_reg_expire, r_retry, r_retryfailover,
                      registration_step, r_last_deletion, r_last_tr, r_response, r_age,
                      r_timer, asked, refused_once, lease, r_requests, losses>>
publicationVars == <<pub, p_period, p_retry, p_last_tr, p_response, p_age, p_timer,
                     p_requests>>
subscriptionVars == <<sub, s_prompt, s_reg_period, s_retry, d_retry, s_dialogs, s_state,
                      s_response, s_age, s_timer, s_asked, s_refused_once, s_lease,
                      s_requests>>
notificationVars == <<jn, n_inc_state, n_inc_response, n_refresh, n_ss_status, n_ss_expires,
                      n_retry, n_state, n_response, n_age, n_timer, n_says, n_replaced,
                      n_lease, n_requests>>
vars == <<kind, polled, callVars, registrationVars, publicationVars, subscriptionVars,
          notificationVars>>

Call == INSTANCE OutgoingCall
        WITH state <- c_state, last_response <- c_response, age <- c_age, timer <- c_timer

Registered == INSTANCE Registration
              WITH last_response <- r_response, age <- r_age, timer_f <- r_timer,
                   requests <- r_requests

Published == INSTANCE Publication
             WITH last_response <- p_response, age <- p_age, timer_f <- p_timer,
                  requests <- p_requests, Requested <- Publishes

\* RetryWindow and RetryWait are both TRANSACTION_TIMEOUT_RETRY.
Subscribed == INSTANCE Subscription
              WITH prompt <- s_prompt, state <- s_state, last_response <- s_response,
                   age <- s_age, timer <- s_timer, asked <- s_asked,
                   refused_once <- s_refused_once, lease <- s_lease,
                   requests <- s_requests, Requested <- Subscribes,
                   RetryWait <- RetryWindow

Notified == INSTANCE Notification
            WITH refresh <- n_refresh, d_retry <- n_retry, state <- n_state,
                 last_response <- n_response, age <- n_age, timer <- n_timer, says <- n_says,
                 replaced <- n_replaced, lease <- n_lease, requests <- n_requests,
                 MaxRequests <- MaxNotifies, Requested <- Incoming, RetryWait <- RetryWindow

Init ==
    /\ kind \in {"call", "registration", "publication", "subscription", "notification"}
    /\ Call!Init
    /\ Registered!Init
    /\ Published!Init
    /\ Subscribed!Init
    /\ Notified!Init

-----------------------------------------------------------------------------
\* The record of the behaviour takes a step; the others do not exist.
OfCall ==
    /\ kind = "call"
    /\ UNCHANGED <<kind, registrationVars, publicationVars, subscriptionVars, notificationVars>>
OfRegistration ==
    /\ kind = "registration"
    /\ UNCHANGED <<kind, callVars, publicationVars, subscriptionVars, notificationVars>>
OfPublication ==
    /\ kind = "publication"
    /\ UNCHANGED <<kind, callVars, registrationVars, subscriptionVars, notificationVars>>
OfSubscription ==
    /\ kind = "subscription"
    /\ UNCHANGED <<kind, callVars, registrationVars, publicationVars, notificationVars>>
OfNotification ==
    /\ kind = "notification"
    /\ UNCHANGED <<kind, callVars, registrationVars, publicationVars, subscriptionVars>>

\* What the stack thread does by itself.
Stack ==
    \/ OfCall /\ Call!Stack
    \/ OfRegistration /\ Registered!Stack
    \/ OfPublication /\ Published!Stack
    \/ OfSubscription /\ Subscribed!Stack
    \/ OfNotification /\ Notified!Stack

eXosip_automatic_action ==
    \/ OfCall /\ Call!eXosip_automatic_action
    \/ OfRegistration /\ Registered!eXosip_automatic_action
    \/ OfPublication /\ Published!eXosip_automatic_action
    \/ OfSubscription /\ Subscribed!eXosip_automatic_action
    \/ OfNotification /\ Notified!eXosip_automatic_action

Tick ==
    \/ OfCall /\ Call!Tick
    \/ OfRegistration /\ Registered!Tick
    \/ OfPublication /\ Published!Tick
    \/ OfSubscription /\ Subscribed!Tick
    \/ OfNotification /\ Notified!Tick

Next ==
    \/ OfCall /\ Call!Next
    \/ OfRegistration /\ Registered!Next
    \/ OfPublication /\ Published!Next
    \/ OfSubscription /\ Subscribed!Next
    \/ OfNotification /\ Notified!Next

(***************************************************************************)
(* Fairness: the stack thread runs its passes for ever (_eXosip_thread),   *)
(* the application keeps calling eXosip_automatic_action from its loop, as *)
(* ht0-initialize.dox and sip_reg.c do, and time passes.  Nothing is       *)
(* assumed of the peer, but that a prompt one answers.                     *)
(***************************************************************************)
Fairness ==
    /\ WF_vars(Stack)
    /\ WF_vars(eXosip_automatic_action)
    /\ WF_vars(Tick)

Spec == Init /\ [][Next]_vars
FairSpec == Spec /\ Fairness

-----------------------------------------------------------------------------
(***************************************************************************)
(* Properties of the records, each stated in the module of its kind.       *)
(***************************************************************************)

\* Every record keeps the values the code gives it: in particular the counters of
\* retries stay within 3.
TypeOK ==
    /\ Call!TypeOK
    /\ Registered!TypeOK
    /\ Published!TypeOK
    /\ Subscribed!TypeOK
    /\ Notified!TypeOK

(***************************************************************************)
(* No record is given up early: a call while a redirection waits to be     *)
(* followed or a challenge or a 422 to be answered, an incoming            *)
(* subscription before the time it was granted is over: see OutgoingCall   *)
(* (_eXosip_release_aborted_calls, eXosip_automatic_action) and            *)
(* Notification (_eXosip_release_terminated_in_subscriptions,              *)
(* cb_xixt_kill_transaction).                                              *)
(***************************************************************************)
NotReleasedEarly == Call!RetriedBeforeRelease /\ Notified!KeptUntilExpiry

(***************************************************************************)
(* What the application initiates settles: a call ends up released or      *)
(* established, even when the callee rings and disappears, and so does a   *)
(* subscription: see OutgoingCall (_eXosip_release_terminated_calls) and   *)
(* Subscription (_eXosip_release_terminated_subscriptions).                *)
(***************************************************************************)
InitiatedSettles == []<>~(Call!Unsettled \/ Subscribed!Unsettled)

(***************************************************************************)
(* "Refresh REGISTER and SUBSCRIBE/REFER before the expiration delay": the *)
(* binding at a prompt registrar does not lapse as long as the connection  *)
(* has not failed, nor does what a prompt notifier has granted: see        *)
(* Registration and Subscription (eXosip_automatic_action, cb_rcv2xx,      *)
(* cb_rcv2xx_4subscribe).                                                  *)
(***************************************************************************)
RefreshedBeforeExpiry == Registered!BindingKept /\ Subscribed!SubscriptionKept

(***************************************************************************)
(* A removal ends with the record freed, unless the application registers  *)
(* again, a 423 revives or loses the registration, or a 2xx names a period *)
(* for what was removed: see Registration                                  *)
(* (_eXosip_release_terminated_registrations) and Subscription             *)
(* (_eXosip_release_terminated_subscriptions, cb_xixt_kill_transaction).   *)
(* So does an incoming subscription that was refused or whose time is      *)
(* over: see Notification (_eXosip_release_terminated_in_subscriptions).   *)
(***************************************************************************)
RemovalEnds == []<>~(Registered!Removing \/ Subscribed!Removing \/ Notified!Overdue)

(***************************************************************************)
(* A publication is published again and again: see Publication             *)
(* (_eXosip_publish_refresh).                                              *)
(***************************************************************************)
PublicationRefreshed == Published!PublicationRefreshed

=============================================================================
