-------------------------------- MODULE Nict --------------------------------
(***************************************************************************)
(* The non-INVITE client transaction of oSIP (nict_fsm.c, nict.c): BYE,    *)
(* REGISTER, SUBSCRIBE, CANCEL and the other requests, with its event      *)
(* queue and its timer pass (osip.c).                                      *)
(*                                                                         *)
(* Here the timer pass does not look at the queue before it adds an event: *)
(* a response may be waiting when a timer event is queued behind it, and   *)
(* the timer event is then consumed in a state it was not meant for.       *)
(***************************************************************************)
EXTENDS Timers, Sequences

CONSTANTS
    T1,             \* DEFAULT_T1, in clock ticks
    TcpProgress,    \* DEFAULT_T1_TCP_PROGRESS
    T2,             \* DEFAULT_T2
    T4,             \* DEFAULT_T4
    TimeoutFactor,  \* the 64 of timer F = 64 * T1
    MaxFifo         \* bound: events of the network that may wait in the queue

ASSUME NictAssumption ==
    /\ T1 \in Nat \ {0}
    /\ TcpProgress \in Nat \ {0}
    /\ T2 \in Nat /\ T1 <= T2 /\ TcpProgress <= T1
    /\ T4 \in Nat
    /\ TimeoutFactor \in Nat \ {0}
    /\ MaxFifo \in Nat \ {0}

VARIABLES
    reliable,        \* the top Via of the request says TCP, TLS or SCTP
    state,           \* nict->state
    fifo,            \* nict->transactionff
    timer_e_length,  \* nict_context->timer_e_length, -1 when E is not active
    timer_e,         \* nict_context->timer_e_start
    timer_f,         \* nict_context->timer_f_start
    timer_k,         \* nict_context->timer_k_start
    sent,            \* the request has reached the wire at least once
    out,             \* the message the step just taken put on the wire, or "none"
    told,            \* the verdicts given to the application, in order
    kills            \* calls of the kill callback

timers == <<timer_e_length, timer_e, timer_f, timer_k>>
vars == <<reliable, state, fifo, timers, sent, out, told, kills>>

States == {"NICT_PRE_TRYING", "NICT_TRYING", "NICT_PROCEEDING",
           "NICT_COMPLETED", "NICT_TERMINATED"}
ResponseEvents == {"RCV_STATUS_1XX", "RCV_STATUS_2XX", "RCV_STATUS_3456XX"}
TimerEvents == {"TIMEOUT_E", "TIMEOUT_F", "TIMEOUT_K"}
Events == {"SND_REQUEST"} \cup ResponseEvents \cup TimerEvents
Verdicts == {"2XX", "3456XX", "TIMEOUT", "TRANSPORT_ERROR"}

\* What cb_send_message may answer: 0, a positive value, a negative one.
SendResults == {"sent", "pending", "error"}

\* The transaction is still in osip_nict_transactions.
Listed == kills = 0

\* osip_transaction_init and __osip_nict_init: timer F runs from here, E does not.
Init ==
    /\ reliable \in BOOLEAN
    /\ state = "NICT_PRE_TRYING"
    /\ fifo = <<"SND_REQUEST">>
    /\ timer_e_length = T1
    /\ timer_e = Off
    /\ timer_f = Start(TimeoutFactor * T1)
    /\ timer_k = Off
    /\ sent = FALSE
    /\ out = "none"
    /\ told = <<>>
    /\ kills = 0

-----------------------------------------------------------------------------
(***************************************************************************)
(* Producers of events.                                                    *)
(***************************************************************************)

\* A response to a request that left is queued while the transaction is listed.
osip_find_transaction_and_add_event(evt) ==
    /\ Listed
    /\ sent
    /\ Len(fifo) < MaxFifo
    /\ fifo' = Append(fifo, evt)
    /\ out' = "none"
    /\ UNCHANGED <<reliable, state, timers, sent, told, kills>>

(***************************************************************************)
(* Both loops that drive the stack (eXosip_execute and the one of the      *)
(* demo) empty every queue between two timer passes, so a pass never meets *)
(* the timer event of the pass before.  It may well meet a response.       *)
(***************************************************************************)
Drained == \A i \in 1..Len(fifo) : fifo[i] \notin TimerEvents

\* __osip_nict_need_timer_e_event, _f_ and _k_: due, and tested in this state.
need_timer_e_event == state \in {"NICT_TRYING", "NICT_PROCEEDING"} /\ Due(timer_e)
need_timer_f_event == state \in {"NICT_TRYING", "NICT_PROCEEDING"} /\ Due(timer_f)
need_timer_k_event == state = "NICT_COMPLETED" /\ Due(timer_k)

\* One visit of osip_timers_nict_execute: timers K, F and E, in that order.
osip_timers_nict_execute ==
    /\ Listed
    /\ Drained
    /\ \/ need_timer_k_event /\ fifo' = Append(fifo, "TIMEOUT_K")
       \/ need_timer_f_event /\ fifo' = Append(fifo, "TIMEOUT_F")
       \/ ~need_timer_f_event /\ need_timer_e_event /\ fifo' = Append(fifo, "TIMEOUT_E")
    /\ out' = "none"
    /\ UNCHANGED <<reliable, state, timers, sent, told, kills>>

-----------------------------------------------------------------------------
(***************************************************************************)
(* Consumption of the event at the head of the queue.                      *)
(***************************************************************************)
Consume(evt) ==
    /\ fifo # <<>>
    /\ Head(fifo) = evt
    /\ fifo' = Tail(fifo)

Terminate ==
    /\ state' = "NICT_TERMINATED"
    /\ kills' = kills + 1

nict_handle_transport_error ==
    /\ told' = Append(told, "TRANSPORT_ERROR")
    /\ Terminate

(***************************************************************************)
(* Over a reliable transport timer E stops once the request is sent; while *)
(* the connection is being set up it runs fast, to poll its progress.      *)
(***************************************************************************)
nict_snd_request ==
    /\ state = "NICT_PRE_TRYING"
    /\ Consume("SND_REQUEST")
    /\ \/ /\ nict_handle_transport_error
          /\ out' = "none"
          /\ UNCHANGED <<timer_e_length, timer_e, sent>>
       \/ /\ timer_e_length' = IF reliable THEN -1 ELSE timer_e_length
          /\ timer_e' = IF reliable THEN Off ELSE Start(timer_e_length)
          /\ state' = "NICT_TRYING"
          /\ out' = "REQUEST"
          /\ sent' = TRUE
          /\ UNCHANGED <<told, kills>>
       \/ /\ timer_e_length' = IF reliable THEN TcpProgress ELSE timer_e_length
          /\ timer_e' = Start(timer_e_length')
          /\ state' = "NICT_TRYING"
          /\ out' = "none"
          /\ UNCHANGED <<sent, told, kills>>
    /\ UNCHANGED <<reliable, timer_f, timer_k>>

\* Mutant: the ceiling is tested before the length is doubled.
NextLengthE_capped_too_early ==
    CASE state # "NICT_TRYING" \/ timer_e_length >= T2 -> T2
      [] state = "NICT_TRYING" /\ timer_e_length < T1  -> timer_e_length + TcpProgress
      [] OTHER -> timer_e_length * 2

\* The next length of timer E: linear below T1, then doubling, never over T2.
NextLengthE ==
    LET grown == IF timer_e_length < T1
                 THEN timer_e_length + TcpProgress
                 ELSE timer_e_length * 2
    IN  IF state = "NICT_TRYING" /\ grown <= T2 THEN grown ELSE T2

\* Mutant: a late timeout E retransmits in NICT_COMPLETED too.
osip_nict_timeout_e_event_when_completed ==
    /\ state \in {"NICT_TRYING", "NICT_PROCEEDING", "NICT_COMPLETED"}
    /\ Consume("TIMEOUT_E")
    /\ timer_e_length' = NextLengthE
    /\ timer_e' = Start(NextLengthE)
    /\ out' = "REQUEST"
    /\ sent' = TRUE
    /\ UNCHANGED <<reliable, timer_f, timer_k, state, told, kills>>

osip_nict_timeout_e_event ==
    /\ state \in {"NICT_TRYING", "NICT_PROCEEDING"}
    /\ Consume("TIMEOUT_E")
    /\ \E i \in SendResults :
          /\ timer_e_length' = IF i = "sent" /\ reliable THEN -1 ELSE NextLengthE
          /\ timer_e' = IF i = "sent" /\ reliable THEN Off ELSE Start(NextLengthE)
          /\ out' = IF i = "sent" THEN "REQUEST" ELSE "none"
          /\ sent' = (sent \/ i = "sent")
          /\ IF i = "error"
             THEN nict_handle_transport_error
             ELSE UNCHANGED <<state, told, kills>>
    /\ UNCHANGED <<reliable, timer_f, timer_k>>

osip_nict_timeout_f_event ==
    /\ state \in {"NICT_TRYING", "NICT_PROCEEDING"}
    /\ Consume("TIMEOUT_F")
    /\ timer_f' = Off
    /\ told' = Append(told, "TIMEOUT")
    /\ Terminate
    /\ out' = "none"
    /\ UNCHANGED <<reliable, timer_e_length, timer_e, timer_k, sent>>

osip_nict_timeout_k_event ==
    /\ state = "NICT_COMPLETED"
    /\ Consume("TIMEOUT_K")
    /\ timer_k' = Off
    /\ Terminate
    /\ out' = "none"
    /\ UNCHANGED <<reliable, timer_e_length, timer_e, timer_f, sent, told>>

\* Mutant: a provisional response restarts timer F with E.
nict_rcv_1xx_restarts_f ==
    /\ state \in {"NICT_TRYING", "NICT_PROCEEDING"}
    /\ Consume("RCV_STATUS_1XX")
    /\ timer_f' = Start(TimeoutFactor * T1)
    /\ state' = "NICT_PROCEEDING"
    /\ out' = "none"
    /\ UNCHANGED <<reliable, timer_e_length, timer_e, timer_k, sent, told, kills>>

\* Mutant: timer E is started again although its length is -1.
nict_rcv_1xx_always_restarts_e ==
    /\ state \in {"NICT_TRYING", "NICT_PROCEEDING"}
    /\ Consume("RCV_STATUS_1XX")
    /\ timer_e_length' = T2
    /\ timer_e' = Start(T2)
    /\ state' = "NICT_PROCEEDING"
    /\ out' = "none"
    /\ UNCHANGED <<reliable, timer_f, timer_k, sent, told, kills>>

\* A provisional response slows timer E down to T2, if E is active.
nict_rcv_1xx ==
    /\ state \in {"NICT_TRYING", "NICT_PROCEEDING"}
    /\ Consume("RCV_STATUS_1XX")
    /\ IF timer_e_length > 0
       THEN timer_e_length' = T2 /\ timer_e' = Start(T2)
       ELSE UNCHANGED <<timer_e_length, timer_e>>
    /\ state' = "NICT_PROCEEDING"
    /\ out' = "none"
    /\ UNCHANGED <<reliable, timer_f, timer_k, sent, told, kills>>

nict_rcv_23456xx ==
    /\ state \in {"NICT_TRYING", "NICT_PROCEEDING"}
    /\ \/ Consume("RCV_STATUS_2XX") /\ told' = Append(told, "2XX")
       \/ Consume("RCV_STATUS_3456XX") /\ told' = Append(told, "3456XX")
    /\ timer_k' = Start(IF reliable THEN 0 ELSE T4)
    /\ state' = "NICT_COMPLETED"
    /\ out' = "none"
    /\ UNCHANGED <<reliable, timer_e_length, timer_e, timer_f, sent, kills>>

\* nict_transition: the events that have a method in each state.
nict_transition(s) ==
    CASE s = "NICT_PRE_TRYING" -> {"SND_REQUEST"}
      [] s \in {"NICT_TRYING", "NICT_PROCEEDING"} ->
            {"TIMEOUT_E", "TIMEOUT_F"} \cup ResponseEvents
      [] s = "NICT_COMPLETED"  -> {"TIMEOUT_K"}
      [] s = "NICT_TERMINATED" -> {}

\* An event without a method in the current state is freed, with its message.
USELESS_event ==
    /\ fifo # <<>>
    /\ Head(fifo) \notin nict_transition(state)
    /\ fifo' = Tail(fifo)
    /\ out' = "none"
    /\ UNCHANGED <<reliable, state, timers, sent, told, kills>>

osip_nict_execute ==
    \/ nict_snd_request
    \/ osip_nict_timeout_e_event
    \/ osip_nict_timeout_f_event
    \/ osip_nict_timeout_k_event
    \/ nict_rcv_1xx
    \/ nict_rcv_23456xx
    \/ USELESS_event

\* The clock.
Tick ==
    /\ timer_e' = Elapse(timer_e)
    /\ timer_f' = Elapse(timer_f)
    /\ timer_k' = Elapse(timer_k)
    /\ out' = "none"
    /\ UNCHANGED <<reliable, state, fifo, timer_e_length, sent, told, kills>>

Next ==
    \/ \E evt \in ResponseEvents : osip_find_transaction_and_add_event(evt)
    \/ osip_timers_nict_execute
    \/ osip_nict_execute
    \/ Tick

\* The loop that drives the stack and the clock go on; the network need not.
Fairness ==
    /\ WF_vars(osip_timers_nict_execute)
    /\ WF_vars(osip_nict_execute)
    /\ WF_vars(Tick)

Spec == Init /\ [][Next]_vars
FairSpec == Spec /\ Fairness

-----------------------------------------------------------------------------
(***************************************************************************)
(* Properties.                                                             *)
(***************************************************************************)

\* Every variable keeps its type; the length of timer E never exceeds T2.
TypeOK ==
    /\ reliable \in BOOLEAN
    /\ state \in States
    /\ fifo \in Seq(Events)
    /\ timer_e_length \in -1..T2
    /\ timer_e \in Nat \cup {Off}
    /\ timer_f \in Nat \cup {Off}
    /\ timer_k \in Nat \cup {Off}
    /\ sent \in BOOLEAN
    /\ out \in {"none", "REQUEST"}
    /\ told \in Seq(Verdicts)
    /\ kills \in Nat

(***************************************************************************)
(* Over TCP or TLS a request that left is never sent a second time,        *)
(* although timer E polls the connection while it is set up and its events *)
(* are queued behind whatever is waiting: the receiver would otherwise see *)
(* two copies of a BYE or a MESSAGE on a transport that loses nothing.     *)
(***************************************************************************)
QuietWhenReliable == [][reliable /\ sent => out' # "REQUEST"]_vars

(***************************************************************************)
(* Every non-INVITE client transaction ends and is taken off the list,     *)
(* whatever the network sends, provisional responses without end included. *)
(***************************************************************************)
EventuallyKilled == <>(kills = 1)

\* What the abstract transaction sees of the state.
phase ==
    CASE state \in {"NICT_PRE_TRYING", "NICT_TRYING", "NICT_PROCEEDING"} -> "waiting"
      [] state = "NICT_COMPLETED"  -> "answered"
      [] state = "NICT_TERMINATED" -> "dead"

Client == INSTANCE ClientTransaction
          WITH Request <- "REQUEST", Acked <- FALSE, Lingering <- {"2XX", "3456XX"}

(***************************************************************************)
(* The transaction does what a client transaction promises: one verdict,   *)
(* and no request after it, however late a timeout E is consumed.          *)
(***************************************************************************)
ClientSpec == Client!Spec

=============================================================================
