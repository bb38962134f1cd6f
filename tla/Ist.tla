-------------------------------- MODULE Ist --------------------------------
(***************************************************************************)
(* The INVITE server transaction of oSIP (ist_fsm.c, ist.c) with its event *)
(* queue and its timer pass (osip.c).                                      *)
(*                                                                         *)
(* Three parties fill the queue: the network thread with copies of the     *)
(* INVITE and with ACKs, the application (or the CANCEL handling of        *)
(* eXosip) with responses, and the timer pass.  None of them looks at what *)
(* is already waiting, so two final responses, or a response and a timeout *)
(* that have crossed, may be queued one behind the other.                  *)
(***************************************************************************)
EXTENDS Timers, Sequences

CONSTANTS
    T1,             \* DEFAULT_T1, in clock ticks
    T2,             \* DEFAULT_T2
    T4,             \* DEFAULT_T4
    TimeoutFactor,  \* the 64 of timer H = 64 * T1
    MaxFifo         \* bound: events of the network and the application that may wait

ASSUME IstAssumption ==
    /\ T1 \in Nat \ {0}
    /\ T2 \in Nat /\ T1 <= T2
    /\ T4 \in Nat
    /\ TimeoutFactor \in Nat \ {0}
    /\ MaxFifo \in Nat \ {0}

VARIABLES
    reliable,        \* the top Via of the INVITE says TCP, TLS or SCTP
    state,           \* ist->state
    fifo,            \* ist->transactionff
    timer_g_length,  \* ist_context->timer_g_length, -1 when G is not active
    timer_g,         \* ist_context->timer_g_start
    timer_h,         \* ist_context->timer_h_start
    timer_i,         \* ist_context->timer_i_start
    last_response,   \* ist->last_response, or "none"
    final,           \* the first final response put on the wire, or "none"
    out,             \* the message the step just taken put on the wire, or "none"
    errors,          \* transport errors reported to the application
    kills            \* calls of the kill callback

timers == <<timer_g_length, timer_g, timer_h, timer_i>>
vars == <<reliable, state, fifo, timers, last_response, final, out, errors, kills>>

States == {"IST_PRE_PROCEEDING", "IST_PROCEEDING", "IST_COMPLETED",
           "IST_CONFIRMED", "IST_TERMINATED"}

(***************************************************************************)
(* The responses the application may queue; each is the event that carries *)
(* it.  Two error responses, to tell one from the other.                   *)
(***************************************************************************)
SND_STATUS_1XX == {"180"}
SND_STATUS_2XX == {"200"}
SND_STATUS_3456XX == {"486", "487"}
Responses == SND_STATUS_1XX \cup SND_STATUS_2XX \cup SND_STATUS_3456XX

NetworkEvents == {"RCV_REQINVITE", "RCV_REQACK"}
TimerEvents == {"TIMEOUT_G", "TIMEOUT_H", "TIMEOUT_I"}
Events == NetworkEvents \cup Responses \cup TimerEvents

\* The transaction is still in osip_ist_transactions.
Listed == kills = 0

\* osip_transaction_init and __osip_ist_init: no timer is started.
Init ==
    /\ reliable \in BOOLEAN
    /\ state = "IST_PRE_PROCEEDING"
    /\ fifo = <<"RCV_REQINVITE">>
    /\ timer_g_length = IF reliable THEN -1 ELSE T1
    /\ timer_g = Off
    /\ timer_h = Off
    /\ timer_i = Off
    /\ last_response = "none"
    /\ final = "none"
    /\ out = "none"
    /\ errors = 0
    /\ kills = 0

-----------------------------------------------------------------------------
(***************************************************************************)
(* Producers of events.                                                    *)
(***************************************************************************)
AddEvent(evt) ==
    /\ Listed
    /\ Len(fifo) < MaxFifo
    /\ fifo' = Append(fifo, evt)
    /\ out' = "none"
    /\ UNCHANGED <<reliable, state, timers, last_response, final, errors, kills>>

(***************************************************************************)
(* A copy of the INVITE, or an ACK with its branch.  The peer sends such   *)
(* an ACK only for a final error response it has seen.                     *)
(***************************************************************************)
osip_find_transaction_and_add_event(evt) ==
    /\ evt = "RCV_REQACK" => final \in SND_STATUS_3456XX
    /\ AddEvent(evt)

\* The application answers; nothing keeps it from answering twice.
osip_transaction_add_event(response) == AddEvent(response)

\* The loops that drive the stack empty the queues between two timer passes.
Drained == \A i \in 1..Len(fifo) : fifo[i] \notin TimerEvents

\* __osip_ist_need_timer_g_event, _h_ and _i_: due, and tested in this state.
need_timer_g_event == state = "IST_COMPLETED" /\ Due(timer_g)
need_timer_h_event == state = "IST_COMPLETED" /\ Due(timer_h)
need_timer_i_event == state = "IST_CONFIRMED" /\ Due(timer_i)

\* One visit of osip_timers_ist_execute: timers I, H and G, in that order.
osip_timers_ist_execute ==
    /\ Listed
    /\ Drained
    /\ \/ need_timer_i_event /\ fifo' = Append(fifo, "TIMEOUT_I")
       \/ need_timer_h_event /\ fifo' = Append(fifo, "TIMEOUT_H")
       \/ ~need_timer_h_event /\ need_timer_g_event /\ fifo' = Append(fifo, "TIMEOUT_G")
    /\ out' = "none"
    /\ UNCHANGED <<reliable, state, timers, last_response, final, errors, kills>>

-----------------------------------------------------------------------------
(***************************************************************************)
(* Consumption of the event at the head of the queue.                      *)
(***************************************************************************)
Consume(evt) ==
    /\ fifo # <<>>
    /\ Head(fifo) = evt
    /\ fifo' = Tail(fifo)

Terminate ==
    /\ state' = "IST_TERMINATED"
    /\ kills' = kills + 1

ist_handle_transport_error ==
    /\ errors' = errors + 1
    /\ Terminate

\* __osip_transaction_snd_xxx failed or is pending: both are transport errors here.
SendFails ==
    /\ ist_handle_transport_error
    /\ out' = "none"

\* Mutant: a copy of the INVITE is answered after the ACK too.
ist_rcv_invite_when_confirmed ==
    /\ Consume("RCV_REQINVITE")
    /\ \/ state = "IST_PRE_PROCEEDING" /\ state' = "IST_PROCEEDING" /\ out' = "none"
       \/ /\ state \in {"IST_PROCEEDING", "IST_COMPLETED", "IST_CONFIRMED"}
          /\ out' = last_response
          /\ UNCHANGED state
    /\ UNCHANGED <<reliable, timers, last_response, final, errors, kills>>

\* The first INVITE is announced; a copy is answered by the last response, if any.
ist_rcv_invite ==
    /\ Consume("RCV_REQINVITE")
    /\ \/ /\ state = "IST_PRE_PROCEEDING"
          /\ state' = "IST_PROCEEDING"
          /\ out' = "none"
          /\ UNCHANGED <<errors, kills>>
       \/ /\ state \in {"IST_PROCEEDING", "IST_COMPLETED"}
          /\ \/ out' = last_response /\ UNCHANGED <<state, errors, kills>>
             \/ last_response # "none" /\ SendFails
    /\ UNCHANGED <<reliable, timers, last_response, final>>

\* Mutant: timer G doubles without a ceiling.
osip_ist_timeout_g_event_uncapped ==
    /\ state = "IST_COMPLETED"
    /\ Consume("TIMEOUT_G")
    /\ timer_g_length' = timer_g_length * 2
    /\ timer_g' = Start(timer_g_length')
    /\ out' = last_response
    /\ UNCHANGED <<reliable, state, timer_h, timer_i, last_response, final, errors, kills>>

osip_ist_timeout_g_event ==
    /\ state = "IST_COMPLETED"
    /\ Consume("TIMEOUT_G")
    /\ timer_g_length' = IF timer_g_length * 2 > T2 THEN T2 ELSE timer_g_length * 2
    /\ timer_g' = Start(timer_g_length')
    /\ \/ out' = last_response /\ UNCHANGED <<state, errors, kills>>
       \/ SendFails
    /\ UNCHANGED <<reliable, timer_h, timer_i, last_response, final>>

osip_ist_timeout_h_event ==
    /\ state = "IST_COMPLETED"
    /\ Consume("TIMEOUT_H")
    /\ timer_h' = Off
    /\ Terminate
    /\ out' = "none"
    /\ UNCHANGED <<reliable, timer_g_length, timer_g, timer_i, last_response, final, errors>>

osip_ist_timeout_i_event ==
    /\ state = "IST_CONFIRMED"
    /\ Consume("TIMEOUT_I")
    /\ timer_i' = Off
    /\ Terminate
    /\ out' = "none"
    /\ UNCHANGED <<reliable, timer_g_length, timer_g, timer_h, last_response, final, errors>>

\* Mutant: a provisional response is still accepted after the final one.
ist_snd_1xx_when_completed ==
    /\ state \in {"IST_PROCEEDING", "IST_COMPLETED"}
    /\ \E r \in SND_STATUS_1XX : Consume(r) /\ last_response' = r
    /\ out' = last_response'
    /\ UNCHANGED <<reliable, state, timers, final, errors, kills>>

ist_snd_1xx ==
    /\ state = "IST_PROCEEDING"
    /\ \E r \in SND_STATUS_1XX : Consume(r) /\ last_response' = r
    /\ \/ out' = last_response' /\ UNCHANGED <<state, errors, kills>>
       \/ SendFails
    /\ UNCHANGED <<reliable, timers, final>>

\* Mutant: a success queued behind a refusal is sent too.
ist_snd_2xx_when_completed ==
    /\ state \in {"IST_PROCEEDING", "IST_COMPLETED"}
    /\ \E r \in SND_STATUS_2XX : Consume(r) /\ last_response' = r
    /\ out' = last_response'
    /\ final' = last_response'
    /\ Terminate
    /\ UNCHANGED <<reliable, timers, errors>>

\* The transaction ends at once: eXosip repeats the 2xx itself.
ist_snd_2xx ==
    /\ state = "IST_PROCEEDING"
    /\ \E r \in SND_STATUS_2XX : Consume(r) /\ last_response' = r
    /\ \/ /\ out' = last_response'
          /\ final' = last_response'
          /\ Terminate
          /\ UNCHANGED errors
       \/ SendFails /\ UNCHANGED final
    /\ UNCHANGED <<reliable, timers>>

\* Mutant: timer H is started with timer G, only when G is active.
ist_snd_3456xx_h_with_g ==
    /\ state = "IST_PROCEEDING"
    /\ \E r \in SND_STATUS_3456XX : Consume(r) /\ last_response' = r
    /\ out' = last_response'
    /\ final' = last_response'
    /\ timer_g' = IF timer_g_length # -1 THEN Start(timer_g_length) ELSE timer_g
    /\ timer_h' = IF timer_g_length # -1 THEN Start(TimeoutFactor * T1) ELSE timer_h
    /\ state' = "IST_COMPLETED"
    /\ UNCHANGED <<reliable, timer_g_length, timer_i, errors, kills>>

ist_snd_3456xx ==
    /\ state = "IST_PROCEEDING"
    /\ \E r \in SND_STATUS_3456XX : Consume(r) /\ last_response' = r
    /\ \/ /\ out' = last_response'
          /\ final' = last_response'
          /\ timer_g' = IF timer_g_length # -1 THEN Start(timer_g_length) ELSE timer_g
          /\ timer_h' = Start(TimeoutFactor * T1)
          /\ state' = "IST_COMPLETED"
          /\ UNCHANGED <<errors, kills>>
       \/ SendFails /\ UNCHANGED <<timer_g, timer_h, final>>
    /\ UNCHANGED <<reliable, timer_g_length, timer_i>>

\* Mutant: timer I of a reliable transport, of length 0, is not started.
ist_rcv_ack_no_timer_i ==
    /\ state \in {"IST_COMPLETED", "IST_CONFIRMED"}
    /\ Consume("RCV_REQACK")
    /\ timer_i' = IF reliable THEN timer_i ELSE Start(T4)
    /\ state' = "IST_CONFIRMED"
    /\ out' = "none"
    /\ UNCHANGED <<reliable, timer_g_length, timer_g, timer_h, last_response, final,
                   errors, kills>>

\* Every ACK restarts timer I.
ist_rcv_ack ==
    /\ state \in {"IST_COMPLETED", "IST_CONFIRMED"}
    /\ Consume("RCV_REQACK")
    /\ timer_i' = Start(IF reliable THEN 0 ELSE T4)
    /\ state' = "IST_CONFIRMED"
    /\ out' = "none"
    /\ UNCHANGED <<reliable, timer_g_length, timer_g, timer_h, last_response, final,
                   errors, kills>>

\* ist_transition: the events that have a method in each state.
ist_transition(s) ==
    CASE s = "IST_PRE_PROCEEDING" -> {"RCV_REQINVITE"}
      [] s = "IST_PROCEEDING"     -> {"RCV_REQINVITE"} \cup Responses
      [] s = "IST_COMPLETED"      -> {"RCV_REQINVITE", "TIMEOUT_G", "TIMEOUT_H", "RCV_REQACK"}
      [] s = "IST_CONFIRMED"      -> {"RCV_REQACK", "TIMEOUT_I"}
      [] s = "IST_TERMINATED"     -> {}

\* An event without a method in the current state is freed, with its message.
USELESS_event ==
    /\ fifo # <<>>
    /\ Head(fifo) \notin ist_transition(state)
    /\ fifo' = Tail(fifo)
    /\ out' = "none"
    /\ UNCHANGED <<reliable, state, timers, last_response, final, errors, kills>>

osip_ist_execute ==
    \/ ist_rcv_invite
    \/ osip_ist_timeout_g_event
    \/ osip_ist_timeout_h_event
    \/ osip_ist_timeout_i_event
    \/ ist_snd_1xx
    \/ ist_snd_2xx
    \/ ist_snd_3456xx
    \/ ist_rcv_ack
    \/ USELESS_event

\* The clock.
Tick ==
    /\ timer_g' = Elapse(timer_g)
    /\ timer_h' = Elapse(timer_h)
    /\ timer_i' = Elapse(timer_i)
    /\ out' = "none"
    /\ UNCHANGED <<reliable, state, fifo, timer_g_length, last_response, final, errors, kills>>

Next ==
    \/ \E evt \in NetworkEvents : osip_find_transaction_and_add_event(evt)
    \/ \E response \in Responses : osip_transaction_add_event(response)
    \/ osip_timers_ist_execute
    \/ osip_ist_execute
    \/ Tick

\* The loop that drives the stack and the clock go on; peer and application need not.
Fairness ==
    /\ WF_vars(osip_timers_ist_execute)
    /\ WF_vars(osip_ist_execute)
    /\ WF_vars(Tick)

Spec == Init /\ [][Next]_vars
FairSpec == Spec /\ Fairness

-----------------------------------------------------------------------------
(***************************************************************************)
(* Properties.                                                             *)
(***************************************************************************)

\* Every variable keeps its type; the length of timer G never exceeds T2.
TypeOK ==
    /\ reliable \in BOOLEAN
    /\ state \in States
    /\ fifo \in Seq(Events)
    /\ timer_g_length \in -1..T2
    /\ timer_g \in Nat \cup {Off}
    /\ timer_h \in Nat \cup {Off}
    /\ timer_i \in Nat \cup {Off}
    /\ last_response \in {"none"} \cup Responses
    /\ final \in {"none"} \cup SND_STATUS_2XX \cup SND_STATUS_3456XX
    /\ out \in {"none"} \cup Responses
    /\ errors \in Nat
    /\ kills \in Nat

(***************************************************************************)
(* What is repeated from IST_COMPLETED on, by timer G or for a copy of the *)
(* INVITE, is the response that moved the transaction there, and it is an  *)
(* error response; over a reliable transport timer G never runs.           *)
(***************************************************************************)
RepeatsItsAnswer ==
    /\ state \in {"IST_COMPLETED", "IST_CONFIRMED"}
          => last_response = final /\ final \in SND_STATUS_3456XX
    /\ reliable => timer_g = Off /\ \A i \in 1..Len(fifo) : fifo[i] # "TIMEOUT_G"

\* What the abstract transaction sees of the state.
phase ==
    CASE state \in {"IST_PRE_PROCEEDING", "IST_PROCEEDING"} -> "open"
      [] state = "IST_COMPLETED"  -> "answered"
      [] state = "IST_CONFIRMED"  -> "confirmed"
      [] state = "IST_TERMINATED" -> "dead"

Server == INSTANCE ServerTransaction
          WITH Provisional <- SND_STATUS_1XX,
               Finals <- SND_STATUS_2XX \cup SND_STATUS_3456XX,
               Lingering <- SND_STATUS_3456XX,
               Acked <- TRUE

(***************************************************************************)
(* The transaction does what a server transaction promises: one final      *)
(* response, whatever the application queues behind it, and silence after  *)
(* the ACK although timer events queued before it are still consumed.      *)
(***************************************************************************)
ServerSpec == Server!Spec

(***************************************************************************)
(* A refused call whose ACK never comes does not keep the transaction:     *)
(* timer H ends IST_COMPLETED, whatever the peer and the application send. *)
(***************************************************************************)
CompletedEnds == state = "IST_COMPLETED" ~> state # "IST_COMPLETED"

(***************************************************************************)
(* Timer I ends IST_CONFIRMED once the ACKs stop, each of which restarts   *)
(* it.                                                                     *)
(***************************************************************************)
ConfirmedEnds ==
    <>[][~osip_find_transaction_and_add_event("RCV_REQACK")]_vars
        => (state = "IST_CONFIRMED" ~> state = "IST_TERMINATED")

=============================================================================
