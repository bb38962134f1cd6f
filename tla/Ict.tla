-------------------------------- MODULE Ict --------------------------------
(***************************************************************************)
(* The INVITE client transaction of oSIP (ict_fsm.c, ict.c) with its event *)
(* queue and the timer pass that feeds it (osip.c, osip_transaction.c).    *)
(*                                                                         *)
(* One transaction is modelled, from the moment the application has        *)
(* created it and queued the outgoing INVITE.  Responses are queued by the *)
(* thread that reads the network, timer events by the timer pass, and both *)
(* are consumed one by one, in order, by osip_ict_execute.  Each of these  *)
(* is a step of its own, so every interleaving of them is explored.        *)
(***************************************************************************)
EXTENDS Timers, Sequences

CONSTANTS
    T1,             \* DEFAULT_T1, in clock ticks
    TimeoutFactor,  \* the 64 of timer B = 64 * T1
    LengthD,        \* timer D over an unreliable transport: MAX (64 * T1, 32000 ms)
    MaxFifo         \* bound: events that may wait in the queue

ASSUME IctAssumption ==
    /\ T1 \in Nat \ {0}
    /\ TimeoutFactor \in Nat \ {0}
    /\ LengthD \in Nat
    /\ MaxFifo \in Nat \ {0}

VARIABLES
    reliable,        \* the top Via of the INVITE says TCP, TLS or SCTP
    state,           \* ict->state
    fifo,            \* ict->transactionff: the events waiting to be consumed
    timer_a_length,  \* ict_context->timer_a_length, -1 when A is not active
    timer_a,         \* ict_context->timer_a_start
    timer_b,         \* ict_context->timer_b_start
    timer_d,         \* ict_context->timer_d_start
    last_response,   \* the class of ict->last_response, or "none"
    sent,            \* the INVITE has reached the wire at least once
    out,             \* the message the step just taken put on the wire, or "none"
    told,            \* the verdicts given to the application, in order
    kills            \* calls of the kill callback, which takes it off the osip list

timers == <<timer_a_length, timer_a, timer_b, timer_d>>
vars == <<reliable, state, fifo, timers, last_response, sent, out, told, kills>>

States == {"ICT_PRE_CALLING", "ICT_CALLING", "ICT_PROCEEDING",
           "ICT_COMPLETED", "ICT_TERMINATED"}
ResponseEvents == {"RCV_STATUS_1XX", "RCV_STATUS_2XX", "RCV_STATUS_3456XX"}
TimerEvents == {"TIMEOUT_A", "TIMEOUT_B", "TIMEOUT_D"}
Events == {"SND_REQINVITE"} \cup ResponseEvents \cup TimerEvents
Verdicts == {"2XX", "3456XX", "TIMEOUT", "TRANSPORT_ERROR"}

(***************************************************************************)
(* What cb_send_message may answer: the message left, the transport is     *)
(* still resolving or connecting and kept nothing (a positive value), or   *)
(* it failed (a negative one).                                             *)
(***************************************************************************)
SendResults == {"sent", "pending", "error"}

\* The transaction is still in osip_ict_transactions.
Listed == kills = 0

\* osip_transaction_init and __osip_ict_init: timers A and B run from here.
Init ==
    /\ reliable \in BOOLEAN
    /\ state = "ICT_PRE_CALLING"
    /\ fifo = <<"SND_REQINVITE">>
    /\ timer_a_length = T1
    /\ timer_a = Start(T1)
    /\ timer_b = Start(TimeoutFactor * T1)
    /\ timer_d = Off
    /\ last_response = "none"
    /\ sent = FALSE
    /\ out = "none"
    /\ told = <<>>
    /\ kills = 0

-----------------------------------------------------------------------------
(***************************************************************************)
(* Producers of events.                                                    *)
(***************************************************************************)

(***************************************************************************)
(* osip_find_transaction_and_add_event: a response that matches this       *)
(* transaction is queued while the transaction is on the list.  Nobody     *)
(* answers an INVITE that never left.                                      *)
(***************************************************************************)
osip_find_transaction_and_add_event(evt) ==
    /\ Listed
    /\ sent
    /\ Len(fifo) < MaxFifo
    /\ fifo' = Append(fifo, evt)
    /\ out' = "none"
    /\ UNCHANGED <<reliable, state, timers, last_response, sent, told, kills>>

\* __osip_ict_need_timer_a_event, _b_ and _d_: due, and tested in this state.
need_timer_a_event == state = "ICT_CALLING" /\ Due(timer_a)
need_timer_b_event == state = "ICT_CALLING" /\ Due(timer_b)
need_timer_d_event == state = "ICT_COMPLETED" /\ Due(timer_d)

\* Mutant: the queue is not looked at, as in the three other timer passes.
timers_without_pending_check ==
    /\ Listed
    /\ Len(fifo) < MaxFifo
    /\ \/ need_timer_b_event /\ fifo' = Append(fifo, "TIMEOUT_B")
       \/ ~need_timer_b_event /\ need_timer_a_event /\ fifo' = Append(fifo, "TIMEOUT_A")
       \/ need_timer_d_event /\ fifo' = Append(fifo, "TIMEOUT_D")
    /\ out' = "none"
    /\ UNCHANGED <<reliable, state, timers, last_response, sent, told, kills>>

\* Mutant: timer A is tested before timer B.
timers_a_before_b ==
    /\ Listed
    /\ fifo = <<>>
    /\ \/ need_timer_a_event /\ fifo' = <<"TIMEOUT_A">>
       \/ ~need_timer_a_event /\ need_timer_b_event /\ fifo' = <<"TIMEOUT_B">>
       \/ need_timer_d_event /\ fifo' = <<"TIMEOUT_D">>
    /\ out' = "none"
    /\ UNCHANGED <<reliable, state, timers, last_response, sent, told, kills>>

(***************************************************************************)
(* One visit of osip_timers_ict_execute to this transaction: timers B, A   *)
(* and D are tested in that order, and one event at most is queued.        *)
(* Unlike the three other kinds, a client INVITE transaction with any      *)
(* event pending is skipped.                                               *)
(***************************************************************************)
osip_timers_ict_execute ==
    /\ Listed
    /\ fifo = <<>>
    /\ \/ need_timer_b_event /\ fifo' = <<"TIMEOUT_B">>
       \/ ~need_timer_b_event /\ need_timer_a_event /\ fifo' = <<"TIMEOUT_A">>
       \/ need_timer_d_event /\ fifo' = <<"TIMEOUT_D">>
    /\ out' = "none"
    /\ UNCHANGED <<reliable, state, timers, last_response, sent, told, kills>>

-----------------------------------------------------------------------------
(***************************************************************************)
(* Consumption of the event at the head of the queue.                      *)
(***************************************************************************)
Consume(evt) ==
    /\ fifo # <<>>
    /\ Head(fifo) = evt
    /\ fifo' = Tail(fifo)

\* __osip_transaction_set_state (ICT_TERMINATED) and the kill callback.
Terminate ==
    /\ state' = "ICT_TERMINATED"
    /\ kills' = kills + 1

ict_handle_transport_error ==
    /\ told' = Append(told, "TRANSPORT_ERROR")
    /\ Terminate

\* Mutant: the length is cleared and the date is not.
StopAIfReliable_date_left ==
    IF reliable
    THEN timer_a_length' = -1 /\ UNCHANGED timer_a
    ELSE UNCHANGED <<timer_a_length, timer_a>>

\* Timer A is stopped for good once a reliable transport has taken the INVITE.
StopAIfReliable ==
    IF reliable
    THEN timer_a_length' = -1 /\ timer_a' = Off
    ELSE UNCHANGED <<timer_a_length, timer_a>>

\* Mutant: a transport that is still connecting is trusted to send the INVITE later.
ict_snd_invite_trusts_pending ==
    /\ state = "ICT_PRE_CALLING"
    /\ Consume("SND_REQINVITE")
    /\ \E i \in {"sent", "pending"} :
          /\ state' = "ICT_CALLING"
          /\ out' = IF i = "sent" THEN "INVITE" ELSE "none"
          /\ sent' = (i = "sent")
          /\ timer_a' = IF i = "sent" THEN timer_a ELSE Off
          /\ timer_b' = IF i = "sent" THEN timer_b ELSE Off
    /\ UNCHANGED <<reliable, timer_a_length, timer_d, last_response, told, kills>>

ict_snd_invite ==
    /\ state = "ICT_PRE_CALLING"
    /\ Consume("SND_REQINVITE")
    /\ \/ /\ ict_handle_transport_error
          /\ out' = "none"
          /\ UNCHANGED <<timer_a_length, timer_a, sent>>
       \/ /\ state' = "ICT_CALLING"
          /\ out' = "INVITE"
          /\ sent' = TRUE
          /\ StopAIfReliable
          /\ UNCHANGED <<told, kills>>
       \/ /\ state' = "ICT_CALLING"
          /\ out' = "none"
          /\ UNCHANGED <<timer_a_length, timer_a, sent, told, kills>>
    /\ UNCHANGED <<reliable, timer_b, timer_d, last_response>>

\* Timer A doubles without a ceiling: only timer B ends the retransmissions.
osip_ict_timeout_a_event ==
    /\ state = "ICT_CALLING"
    /\ Consume("TIMEOUT_A")
    /\ \E i \in SendResults :
          /\ IF i = "sent" /\ reliable
             THEN timer_a_length' = -1 /\ timer_a' = Off
             ELSE /\ timer_a_length' = timer_a_length * 2
                  /\ timer_a' = Start(timer_a_length * 2)
          /\ out' = IF i = "sent" THEN "INVITE" ELSE "none"
          /\ sent' = (sent \/ i = "sent")
          /\ IF i = "error"
             THEN ict_handle_transport_error
             ELSE UNCHANGED <<state, told, kills>>
    /\ UNCHANGED <<reliable, timer_b, timer_d, last_response>>

osip_ict_timeout_b_event ==
    /\ state = "ICT_CALLING"
    /\ Consume("TIMEOUT_B")
    /\ timer_b' = Off
    /\ told' = Append(told, "TIMEOUT")
    /\ Terminate
    /\ out' = "none"
    /\ UNCHANGED <<reliable, timer_a_length, timer_a, timer_d, last_response, sent>>

\* No timer is tested in ICT_PROCEEDING: the transaction may wait there for ever.
ict_rcv_1xx ==
    /\ state \in {"ICT_CALLING", "ICT_PROCEEDING"}
    /\ Consume("RCV_STATUS_1XX")
    /\ last_response' = "1XX"
    /\ state' = "ICT_PROCEEDING"
    /\ out' = "none"
    /\ UNCHANGED <<reliable, timers, sent, told, kills>>

\* Mutant: the table also accepts a 2xx after a final error response.
ict_rcv_2xx_when_completed ==
    /\ state \in {"ICT_CALLING", "ICT_PROCEEDING", "ICT_COMPLETED"}
    /\ Consume("RCV_STATUS_2XX")
    /\ last_response' = "2XX"
    /\ told' = Append(told, "2XX")
    /\ Terminate
    /\ out' = "none"
    /\ UNCHANGED <<reliable, timers, sent>>

ict_rcv_2xx ==
    /\ state \in {"ICT_CALLING", "ICT_PROCEEDING"}
    /\ Consume("RCV_STATUS_2XX")
    /\ last_response' = "2XX"
    /\ told' = Append(told, "2XX")
    /\ Terminate
    /\ out' = "none"
    /\ UNCHANGED <<reliable, timers, sent>>

\* Mutant: a final response that could not be acknowledged leaves A and B running.
ict_rcv_3456xx_stays ==
    /\ state \in {"ICT_CALLING", "ICT_PROCEEDING"}
    /\ Consume("RCV_STATUS_3456XX")
    /\ last_response' = "3456XX"
    /\ \E i \in SendResults :
          /\ told' = Append(told, "3456XX")
          /\ out' = IF i = "sent" THEN "ACK" ELSE "none"
          /\ state' = IF i = "sent" THEN "ICT_COMPLETED" ELSE state
          /\ timer_d' = IF i = "sent" THEN Start(LengthD) ELSE timer_d
    /\ UNCHANGED <<reliable, timer_a_length, timer_a, timer_b, sent, kills>>

\* Mutant: a timer D of length 0 is not started.
ict_rcv_3456xx_no_timer_d ==
    /\ state \in {"ICT_CALLING", "ICT_PROCEEDING"}
    /\ Consume("RCV_STATUS_3456XX")
    /\ last_response' = "3456XX"
    /\ out' = "ACK"
    /\ told' = Append(told, "3456XX")
    /\ timer_d' = IF reliable THEN Off ELSE Start(LengthD)
    /\ state' = "ICT_COMPLETED"
    /\ UNCHANGED <<reliable, timer_a_length, timer_a, timer_b, sent, kills>>

(***************************************************************************)
(* The ACK is sent before the response is announced, and any answer of     *)
(* cb_send_message other than 0 is taken as a transport error, "pending"   *)
(* included: the response is then not announced at all.  A response        *)
(* without From, To or Call-ID, which the ACK copies, ends the transaction *)
(* with no verdict.                                                        *)
(***************************************************************************)
ict_rcv_3456xx ==
    /\ state \in {"ICT_CALLING", "ICT_PROCEEDING"}
    /\ Consume("RCV_STATUS_3456XX")
    /\ last_response' = "3456XX"
    /\ \/ /\ out' = "ACK"
          /\ told' = Append(told, "3456XX")
          /\ timer_d' = Start(IF reliable THEN 0 ELSE LengthD)
          /\ state' = "ICT_COMPLETED"
          /\ UNCHANGED kills
       \/ /\ ict_handle_transport_error
          /\ out' = "none"
          /\ UNCHANGED timer_d
       \/ /\ Terminate      \* ict_create_ack failed
          /\ out' = "none"
          /\ UNCHANGED <<timer_d, told>>
    /\ UNCHANGED <<reliable, timer_a_length, timer_a, timer_b, sent>>

osip_ict_timeout_d_event ==
    /\ state = "ICT_COMPLETED"
    /\ Consume("TIMEOUT_D")
    /\ timer_d' = Off
    /\ Terminate
    /\ out' = "none"
    /\ UNCHANGED <<reliable, timer_a_length, timer_a, timer_b, last_response, sent, told>>

\* A retransmitted final response is answered by the stored ACK.
ict_retransmit_ack ==
    /\ state = "ICT_COMPLETED"
    /\ Consume("RCV_STATUS_3456XX")
    /\ \/ out' = "ACK" /\ UNCHANGED <<state, told, kills>>
       \/ out' = "none" /\ ict_handle_transport_error
    /\ UNCHANGED <<reliable, timers, last_response, sent>>

\* ict_transition: the events that have a method in each state.
ict_transition(s) ==
    CASE s = "ICT_PRE_CALLING" -> {"SND_REQINVITE"}
      [] s = "ICT_CALLING"     -> {"TIMEOUT_A", "TIMEOUT_B"} \cup ResponseEvents
      [] s = "ICT_PROCEEDING"  -> ResponseEvents
      [] s = "ICT_COMPLETED"   -> {"RCV_STATUS_3456XX", "TIMEOUT_D"}
      [] s = "ICT_TERMINATED"  -> {}

\* An event without a method in the current state is freed, with its message.
USELESS_event ==
    /\ fifo # <<>>
    /\ Head(fifo) \notin ict_transition(state)
    /\ fifo' = Tail(fifo)
    /\ out' = "none"
    /\ UNCHANGED <<reliable, state, timers, last_response, sent, told, kills>>

osip_ict_execute ==
    \/ ict_snd_invite
    \/ osip_ict_timeout_a_event
    \/ osip_ict_timeout_b_event
    \/ ict_rcv_1xx
    \/ ict_rcv_2xx
    \/ ict_rcv_3456xx
    \/ osip_ict_timeout_d_event
    \/ ict_retransmit_ack
    \/ USELESS_event

\* The clock.
Tick ==
    /\ timer_a' = Elapse(timer_a)
    /\ timer_b' = Elapse(timer_b)
    /\ timer_d' = Elapse(timer_d)
    /\ out' = "none"
    /\ UNCHANGED <<reliable, state, fifo, timer_a_length, last_response, sent, told, kills>>

Next ==
    \/ \E evt \in ResponseEvents : osip_find_transaction_and_add_event(evt)
    \/ osip_timers_ict_execute
    \/ osip_ict_execute
    \/ Tick

(***************************************************************************)
(* The thread of eXosip loops for ever over the timer pass and the         *)
(* execution of the queues, and the clock does not stop.  Nothing is       *)
(* assumed of the network.                                                 *)
(***************************************************************************)
Fairness ==
    /\ WF_vars(osip_timers_ict_execute)
    /\ WF_vars(osip_ict_execute)
    /\ WF_vars(Tick)

Spec == Init /\ [][Next]_vars
FairSpec == Spec /\ Fairness

-----------------------------------------------------------------------------
(***************************************************************************)
(* Properties.                                                             *)
(***************************************************************************)

\* Every variable keeps its type, the four timers included.
TypeOK ==
    /\ reliable \in BOOLEAN
    /\ state \in States
    /\ fifo \in Seq(Events)
    /\ timer_a_length \in Nat \cup {-1}
    /\ timer_a \in Nat \cup {Off}
    /\ timer_b \in Nat \cup {Off}
    /\ timer_d \in Nat \cup {Off}
    /\ last_response \in {"none", "1XX", "2XX", "3456XX"}
    /\ sent \in BOOLEAN
    /\ out \in {"none", "INVITE", "ACK"}
    /\ told \in Seq(Verdicts)
    /\ kills \in Nat

(***************************************************************************)
(* The pending check of osip_timers_ict_execute makes a timer event the    *)
(* next to be consumed, in a state that still has a method for it and with *)
(* its timer still due: no stale timeout is ever applied.                  *)
(***************************************************************************)
TimerEventIsFresh ==
    \A i \in 1..Len(fifo) :
        fifo[i] \in TimerEvents =>
            /\ i = 1
            /\ fifo[i] = "TIMEOUT_A" => state = "ICT_CALLING" /\ timer_a = 0
            /\ fifo[i] = "TIMEOUT_B" => state = "ICT_CALLING" /\ timer_b = 0
            /\ fifo[i] = "TIMEOUT_D" => state = "ICT_COMPLETED" /\ timer_d = 0

(***************************************************************************)
(* The application hears one verdict at most, except that a final error    *)
(* response may be followed by a transport error when a later ACK cannot   *)
(* be sent; the transaction is taken off the list once, exactly when it    *)
(* terminates; and it terminates silently only on a final error response   *)
(* that cannot be acknowledged.                                            *)
(***************************************************************************)
OneVerdict ==
    /\ \/ told = <<>> /\ (state = "ICT_TERMINATED" => last_response = "3456XX")
       \/ told = <<"3456XX">> /\ state \in {"ICT_COMPLETED", "ICT_TERMINATED"}
       \/ \E v \in Verdicts \ {"3456XX"} : told = <<v>> /\ state = "ICT_TERMINATED"
       \/ told = <<"3456XX", "TRANSPORT_ERROR">> /\ state = "ICT_TERMINATED"
    /\ kills = IF state = "ICT_TERMINATED" THEN 1 ELSE 0

(***************************************************************************)
(* Timer A doubles for ever in osip_ict_timeout_a_event, but timer B is    *)
(* tested first in the same pass, and so bounds the delay between two      *)
(* copies of the INVITE, however late each pass and each execution comes.  *)
(***************************************************************************)
BackoffBounded == timer_a_length <= (TimeoutFactor + 1) * T1

\* What the abstract transaction sees of the state.
phase ==
    CASE state \in {"ICT_PRE_CALLING", "ICT_CALLING", "ICT_PROCEEDING"} -> "waiting"
      [] state = "ICT_COMPLETED"  -> "answered"
      [] state = "ICT_TERMINATED" -> "dead"

Client == INSTANCE ClientTransaction
          WITH Request <- "INVITE", Acked <- TRUE, Lingering <- {"3456XX"}

(***************************************************************************)
(* The transaction does what a client transaction promises: one verdict,   *)
(* no INVITE after it, ACKs only for a final error response, and silence   *)
(* once it is dead.                                                        *)
(***************************************************************************)
ClientSpec == Client!Spec

(***************************************************************************)
(* A call that is not answered does not ring for ever in ICT_CALLING,      *)
(* whatever the transport answers to each retransmission.                  *)
(***************************************************************************)
CallingEnds == state = "ICT_CALLING" ~> state # "ICT_CALLING"

(***************************************************************************)
(* Timer D ends ICT_COMPLETED once the peer stops resending its response.  *)
(* The premise is needed: a queue that is never empty at the timer pass    *)
(* keeps timer D from being looked at.                                     *)
(***************************************************************************)
CompletedEnds ==
    <>[][\A evt \in ResponseEvents : ~osip_find_transaction_and_add_event(evt)]_vars
        => (state = "ICT_COMPLETED" ~> state = "ICT_TERMINATED")

(***************************************************************************)
(* The state diagram of the documentation announces a 300-699 response to  *)
(* the application whenever the transaction takes it.  The code does not   *)
(* when the ACK could not leave at once.                                   *)
(***************************************************************************)
FinalResponseTold ==
    last_response = "3456XX" => \E i \in 1..Len(told) : told[i] = "3456XX"

=============================================================================
