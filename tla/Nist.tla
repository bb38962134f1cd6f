-------------------------------- MODULE Nist --------------------------------
(***************************************************************************)
(* The non-INVITE server transaction of oSIP (nist_fsm.c, nist.c) with its *)
(* event queue and its timer pass (osip.c).                                *)
(***************************************************************************)
EXTENDS Timers, Sequences

CONSTANTS
    T1,             \* DEFAULT_T1, in clock ticks
    TimeoutFactor,  \* the 64 of timer J = 64 * T1
    MaxFifo         \* bound: events of the network and the application that may wait

ASSUME NistAssumption ==
    /\ T1 \in Nat \ {0}
    /\ TimeoutFactor \in Nat \ {0}
    /\ MaxFifo \in Nat \ {0}

VARIABLES
    reliable,       \* the top Via of the request says TCP, TLS or SCTP
    state,          \* nist->state
    fifo,           \* nist->transactionff
    timer_j,        \* nist_context->timer_j_start
    last_response,  \* nist->last_response, or "none"
    final,          \* the first final response put on the wire, or "none"
    out,            \* the message the step just taken put on the wire, or "none"
    errors,         \* transport errors reported to the application
    kills           \* calls of the kill callback

vars == <<reliable, state, fifo, timer_j, last_response, final, out, errors, kills>>

States == {"NIST_PRE_TRYING", "NIST_TRYING", "NIST_PROCEEDING",
           "NIST_COMPLETED", "NIST_TERMINATED"}

\* The responses the application may queue; each is the event that carries it.
SND_STATUS_1XX == {"100"}
SND_STATUS_2XX == {"200"}
SND_STATUS_3456XX == {"404", "481"}
Finals == SND_STATUS_2XX \cup SND_STATUS_3456XX
Responses == SND_STATUS_1XX \cup Finals
Events == {"RCV_REQUEST", "TIMEOUT_J"} \cup Responses

\* The transaction is still in osip_nist_transactions.
Listed == kills = 0

\* osip_transaction_init and __osip_nist_init: timer J is not started.
Init ==
    /\ reliable \in BOOLEAN
    /\ state = "NIST_PRE_TRYING"
    /\ fifo = <<"RCV_REQUEST">>
    /\ timer_j = Off
    /\ last_response = "none"
    /\ final = "none"
    /\ out = "none"
    /\ errors = 0
    /\ kills = 0

-----------------------------------------------------------------------------
(***************************************************************************)
(* Producers of events.                                                    *)
(***************************************************************************)
AddEvent(evt) ==
    /\ Listed
    /\ Len(fifo) < MaxFifo
    /\ fifo' = Append(fifo, evt)
    /\ out' = "none"
    /\ UNCHANGED <<reliable, state, timer_j, last_response, final, errors, kills>>

\* A copy of the request.
osip_find_transaction_and_add_event == AddEvent("RCV_REQUEST")

\* The application answers; nothing keeps it from answering twice.
osip_transaction_add_event(response) == AddEvent(response)

\* One visit of osip_timers_nist_execute; the queues are emptied between two passes.
osip_timers_nist_execute ==
    /\ Listed
    /\ \A i \in 1..Len(fifo) : fifo[i] # "TIMEOUT_J"
    /\ state = "NIST_COMPLETED"
    /\ Due(timer_j)
    /\ fifo' = Append(fifo, "TIMEOUT_J")
    /\ out' = "none"
    /\ UNCHANGED <<reliable, state, timer_j, last_response, final, errors, kills>>

-----------------------------------------------------------------------------
(***************************************************************************)
(* Consumption of the event at the head of the queue.                      *)
(***************************************************************************)
Consume(evt) ==
    /\ fifo # <<>>
    /\ Head(fifo) = evt
    /\ fifo' = Tail(fifo)

Terminate ==
    /\ state' = "NIST_TERMINATED"
    /\ kills' = kills + 1

nist_handle_transport_error ==
    /\ errors' = errors + 1
    /\ Terminate

\* __osip_transaction_snd_xxx failed or is pending: both are transport errors here.
SendFails ==
    /\ nist_handle_transport_error
    /\ out' = "none"

(***************************************************************************)
(* The first request is announced; a copy is answered by the last          *)
(* response.  A copy that comes in NIST_TRYING has no method: nothing has  *)
(* been answered yet.                                                      *)
(***************************************************************************)
nist_rcv_request ==
    /\ Consume("RCV_REQUEST")
    /\ \/ /\ state = "NIST_PRE_TRYING"
          /\ state' = "NIST_TRYING"
          /\ out' = "none"
          /\ UNCHANGED <<errors, kills>>
       \/ /\ state \in {"NIST_PROCEEDING", "NIST_COMPLETED"}
          /\ \/ out' = last_response /\ UNCHANGED <<state, errors, kills>>
             \/ last_response # "none" /\ SendFails
    /\ UNCHANGED <<reliable, timer_j, last_response, final>>

\* Mutant: a provisional response is handled by the method of the final ones.
nist_snd_1xx_as_final ==
    /\ state \in {"NIST_TRYING", "NIST_PROCEEDING"}
    /\ \E r \in SND_STATUS_1XX : Consume(r) /\ last_response' = r
    /\ out' = last_response'
    /\ final' = last_response'
    /\ timer_j' = Start(IF reliable THEN 0 ELSE TimeoutFactor * T1)
    /\ state' = "NIST_COMPLETED"
    /\ UNCHANGED <<reliable, errors, kills>>

nist_snd_1xx ==
    /\ state \in {"NIST_TRYING", "NIST_PROCEEDING"}
    /\ \E r \in SND_STATUS_1XX : Consume(r) /\ last_response' = r
    /\ \/ /\ out' = last_response'
          /\ state' = "NIST_PROCEEDING"
          /\ UNCHANGED <<errors, kills>>
       \/ SendFails
    /\ UNCHANGED <<reliable, timer_j, final>>

\* Mutant: the table accepts a final response after the final response.
nist_snd_23456xx_when_completed ==
    /\ state \in {"NIST_TRYING", "NIST_PROCEEDING", "NIST_COMPLETED"}
    /\ \E r \in Finals : Consume(r) /\ last_response' = r
    /\ out' = last_response'
    /\ final' = last_response'
    /\ timer_j' = IF state # "NIST_COMPLETED"
                  THEN Start(IF reliable THEN 0 ELSE TimeoutFactor * T1)
                  ELSE timer_j
    /\ state' = "NIST_COMPLETED"
    /\ UNCHANGED <<reliable, errors, kills>>

\* Mutant: timer J of a reliable transport, of length 0, is not started.
nist_snd_23456xx_no_timer_j ==
    /\ state \in {"NIST_TRYING", "NIST_PROCEEDING"}
    /\ \E r \in Finals : Consume(r) /\ last_response' = r
    /\ out' = last_response'
    /\ final' = last_response'
    /\ timer_j' = IF reliable THEN timer_j ELSE Start(TimeoutFactor * T1)
    /\ state' = "NIST_COMPLETED"
    /\ UNCHANGED <<reliable, errors, kills>>

nist_snd_23456xx ==
    /\ state \in {"NIST_TRYING", "NIST_PROCEEDING"}
    /\ \E r \in Finals : Consume(r) /\ last_response' = r
    /\ \/ /\ out' = last_response'
          /\ final' = last_response'
          /\ timer_j' = Start(IF reliable THEN 0 ELSE TimeoutFactor * T1)
          /\ state' = "NIST_COMPLETED"
          /\ UNCHANGED <<errors, kills>>
       \/ SendFails /\ UNCHANGED <<timer_j, final>>
    /\ UNCHANGED reliable

osip_nist_timeout_j_event ==
    /\ state = "NIST_COMPLETED"
    /\ Consume("TIMEOUT_J")
    /\ timer_j' = Off
    /\ Terminate
    /\ out' = "none"
    /\ UNCHANGED <<reliable, last_response, final, errors>>

\* nist_transition: the events that have a method in each state.
nist_transition(s) ==
    CASE s = "NIST_PRE_TRYING" -> {"RCV_REQUEST"}
      [] s = "NIST_TRYING"     -> Responses
      [] s = "NIST_PROCEEDING" -> {"RCV_REQUEST"} \cup Responses
      [] s = "NIST_COMPLETED"  -> {"TIMEOUT_J", "RCV_REQUEST"}
      [] s = "NIST_TERMINATED" -> {}

\* An event without a method in the current state is freed, with its message.
USELESS_event ==
    /\ fifo # <<>>
    /\ Head(fifo) \notin nist_transition(state)
    /\ fifo' = Tail(fifo)
    /\ out' = "none"
    /\ UNCHANGED <<reliable, state, timer_j, last_response, final, errors, kills>>

osip_nist_execute ==
    \/ nist_rcv_request
    \/ nist_snd_1xx
    \/ nist_snd_23456xx
    \/ osip_nist_timeout_j_event
    \/ USELESS_event

\* The clock.
Tick ==
    /\ timer_j' = Elapse(timer_j)
    /\ out' = "none"
    /\ UNCHANGED <<reliable, state, fifo, last_response, final, errors, kills>>

Next ==
    \/ osip_find_transaction_and_add_event
    \/ \E response \in Responses : osip_transaction_add_event(response)
    \/ osip_timers_nist_execute
    \/ osip_nist_execute
    \/ Tick

\* The loop that drives the stack and the clock go on; peer and application need not.
Fairness ==
    /\ WF_vars(osip_timers_nist_execute)
    /\ WF_vars(osip_nist_execute)
    /\ WF_vars(Tick)

Spec == Init /\ [][Next]_vars
FairSpec == Spec /\ Fairness

-----------------------------------------------------------------------------
(***************************************************************************)
(* Properties.                                                             *)
(***************************************************************************)

\* Every variable keeps its type.
TypeOK ==
    /\ reliable \in BOOLEAN
    /\ state \in States
    /\ fifo \in Seq(Events)
    /\ timer_j \in Nat \cup {Off}
    /\ last_response \in {"none"} \cup Responses
    /\ final \in {"none"} \cup Finals
    /\ out \in {"none"} \cup Responses
    /\ errors \in Nat
    /\ kills \in Nat

\* What the abstract transaction sees of the state.
phase ==
    CASE state \in {"NIST_PRE_TRYING", "NIST_TRYING", "NIST_PROCEEDING"} -> "open"
      [] state = "NIST_COMPLETED"  -> "answered"
      [] state = "NIST_TERMINATED" -> "dead"

Server == INSTANCE ServerTransaction
          WITH Provisional <- SND_STATUS_1XX,
               Lingering <- Finals,
               Acked <- FALSE

(***************************************************************************)
(* The transaction does what a server transaction promises: the first      *)
(* final response the application queued is the only one that leaves, and  *)
(* it is the one repeated for every copy of the request.                   *)
(***************************************************************************)
ServerSpec == Server!Spec

(***************************************************************************)
(* An answered transaction ends, whatever the peer and the application     *)
(* still send: copies of the request do not restart timer J.               *)
(***************************************************************************)
CompletedEnds == state = "NIST_COMPLETED" ~> state = "NIST_TERMINATED"

=============================================================================
