----------------------------- MODULE NistProofs -----------------------------
(***************************************************************************)
(* Proofs about the non-INVITE server transaction, for every length of     *)
(* timer J and every bound of the queue.                                   *)
(*                                                                         *)
(* The queue may hold anything in any order here: several final responses, *)
(* copies of the request, a timeout that is no longer due.  What the       *)
(* transaction promises must follow from its state alone, so the inductive *)
(* invariant says what each state knows of the response that was sent.     *)
(***************************************************************************)
EXTENDS Nist, TLAPS

\* Before the final response nothing but a provisional one may be repeated; after it,
\* nothing but the final one.
AnswerByState ==
    /\ state \in {"NIST_PRE_TRYING", "NIST_TRYING", "NIST_PROCEEDING"}
          => final = "none" /\ last_response \in {"none"} \cup SND_STATUS_1XX
    /\ state = "NIST_COMPLETED" => final \in Finals /\ last_response = final

\* The kill callback has run once in a terminated transaction, and never in another.
KilledOnce == kills = IF state = "NIST_TERMINATED" THEN 1 ELSE 0

IInv == TypeOK /\ AnswerByState /\ KilledOnce

-----------------------------------------------------------------------------
(***************************************************************************)
(* The queue.                                                              *)
(***************************************************************************)

\* Consuming the head.
LEMMA ConsumedQueue ==
    ASSUME fifo \in Seq(Events), fifo # <<>>
    PROVE  Tail(fifo) \in Seq(Events) /\ Head(fifo) \in Events
OBVIOUS

\* Every step consumes the head of the queue, adds an event to its end, or leaves it.
LEMMA QueueStep ==
    ASSUME [Next]_vars
    PROVE  \/ fifo # <<>> /\ fifo' = Tail(fifo)
           \/ \E evt \in Events : fifo' = Append(fifo, evt)
           \/ fifo' = fifo
<1>1. CASE osip_nist_execute
  BY <1>1 DEF osip_nist_execute, nist_rcv_request, nist_snd_1xx, nist_snd_23456xx,
              osip_nist_timeout_j_event, USELESS_event, Consume
<1>2. CASE osip_find_transaction_and_add_event
  BY <1>2 DEF osip_find_transaction_and_add_event, AddEvent, Events
<1>3. ASSUME NEW response \in Responses, osip_transaction_add_event(response)
      PROVE  \E evt \in Events : fifo' = Append(fifo, evt)
  BY <1>3 DEF osip_transaction_add_event, AddEvent, Events
<1>4. CASE osip_timers_nist_execute
  BY <1>4 DEF osip_timers_nist_execute, Events
<1>5. CASE Tick \/ UNCHANGED vars
  BY <1>5 DEF Tick, vars
<1> QED BY <1>1, <1>2, <1>3, <1>4, <1>5 DEF Next

\* The queue keeps its type.
LEMMA QueueTyped == ASSUME fifo \in Seq(Events), [Next]_vars PROVE fifo' \in Seq(Events)
<1>1. CASE fifo # <<>> /\ fifo' = Tail(fifo)
  BY <1>1, ConsumedQueue
<1>2. ASSUME NEW evt \in Events, fifo' = Append(fifo, evt) PROVE fifo' \in Seq(Events)
  BY <1>2
<1>3. CASE fifo' = fifo
  BY <1>3
<1> QED BY <1>1, <1>2, <1>3, QueueStep

-----------------------------------------------------------------------------
(***************************************************************************)
(* The inductive invariant.                                                *)
(***************************************************************************)

LEMMA InitIInv == Init => IInv
<1> SUFFICES ASSUME Init PROVE IInv
  OBVIOUS
<1>1. reliable \in BOOLEAN
  BY Zenon DEF Init
<1>2. fifo \in Seq(Events)
  <2>1. "RCV_REQUEST" \in Events
    BY DEF Events
  <2> QED BY <2>1 DEF Init
<1>3. TypeOK
  BY <1>1, <1>2 DEF Init, TypeOK, States, Off
<1>4. AnswerByState /\ KilledOnce
  BY DEF Init, AnswerByState, KilledOnce
<1> QED BY <1>3, <1>4 DEF IInv

\* An unsuccessful send ends the transaction, whatever it was about to do.
LEMMA FailedSend ==
    ASSUME TypeOK, KilledOnce, state # "NIST_TERMINATED", SendFails
    PROVE  /\ state' = "NIST_TERMINATED" /\ state' \in States
           /\ kills' = 1 /\ errors' \in Nat /\ out' = "none"
BY DEF TypeOK, KilledOnce, SendFails, nist_handle_transport_error, Terminate, States

\* Every step preserves the inductive invariant.
LEMMA NextIInv == IInv /\ [Next]_vars => IInv'
<1> SUFFICES ASSUME IInv, [Next]_vars PROVE IInv'
  OBVIOUS
<1>a. TypeOK /\ AnswerByState /\ KilledOnce
  BY DEF IInv
<1>b. fifo' \in Seq(Events)
  BY <1>a, QueueTyped DEF TypeOK
<1> USE <1>a
<1>1. CASE nist_rcv_request
  <2>1. reliable' = reliable /\ timer_j' = timer_j /\ final' = final
        /\ last_response' = last_response
    BY <1>1 DEF nist_rcv_request
  <2>2. CASE state = "NIST_PRE_TRYING"
    BY <1>1, <1>b, <2>1, <2>2
       DEF nist_rcv_request, IInv, TypeOK, AnswerByState, KilledOnce, States
  <2>3. CASE state \in {"NIST_PROCEEDING", "NIST_COMPLETED"} /\ ~SendFails
    BY <1>1, <1>b, <2>1, <2>3
       DEF nist_rcv_request, IInv, TypeOK, AnswerByState, KilledOnce, States
  <2>4. CASE state \in {"NIST_PROCEEDING", "NIST_COMPLETED"} /\ SendFails
    BY <1>b, <2>1, <2>4, FailedSend DEF IInv, TypeOK, AnswerByState, KilledOnce
  <2> QED BY <1>1, <2>2, <2>3, <2>4 DEF nist_rcv_request
<1>2. CASE nist_snd_1xx
  <2>1. /\ reliable' = reliable /\ timer_j' = timer_j /\ final' = final
        /\ last_response' \in SND_STATUS_1XX
        /\ state \in {"NIST_TRYING", "NIST_PROCEEDING"}
    BY <1>2 DEF nist_snd_1xx
  <2>2. CASE out' = last_response' /\ state' = "NIST_PROCEEDING" /\ UNCHANGED <<errors, kills>>
    BY <1>b, <2>1, <2>2 DEF IInv, TypeOK, AnswerByState, KilledOnce, States, Responses
  <2>3. CASE SendFails
    BY <1>b, <2>1, <2>3, FailedSend DEF IInv, TypeOK, AnswerByState, KilledOnce, Responses
  <2> QED BY <1>2, <2>2, <2>3 DEF nist_snd_1xx
<1>3. CASE nist_snd_23456xx
  <2>1. /\ reliable' = reliable /\ last_response' \in Finals
        /\ state \in {"NIST_TRYING", "NIST_PROCEEDING"}
    BY <1>3 DEF nist_snd_23456xx
  <2>2. CASE SendFails /\ UNCHANGED <<timer_j, final>>
    BY <1>b, <2>1, <2>2, FailedSend DEF IInv, TypeOK, AnswerByState, KilledOnce, Responses
  <2>3. CASE ~(SendFails /\ UNCHANGED <<timer_j, final>>)
    <3>1. /\ out' = last_response' /\ final' = last_response' /\ state' = "NIST_COMPLETED"
          /\ timer_j' = Start(IF reliable THEN 0 ELSE TimeoutFactor * T1)
          /\ UNCHANGED <<errors, kills>>
      BY <1>3, <2>3 DEF nist_snd_23456xx
    <3>2. timer_j' \in Nat
      <4>1. TimeoutFactor * T1 \in Nat
        BY NistAssumption
      <4> QED BY <3>1, <4>1 DEF Start
    <3> QED BY <1>b, <2>1, <3>1, <3>2
            DEF IInv, TypeOK, AnswerByState, KilledOnce, States, Responses
  <2> QED BY <1>3, <2>2, <2>3 DEF nist_snd_23456xx
<1>4. CASE osip_nist_timeout_j_event
  BY <1>4, <1>b DEF osip_nist_timeout_j_event, Terminate, IInv, TypeOK, AnswerByState,
                    KilledOnce, States, Off
<1>5. ASSUME \/ USELESS_event \/ osip_timers_nist_execute
             \/ osip_find_transaction_and_add_event
             \/ \E response \in Responses : osip_transaction_add_event(response)
      PROVE  IInv'
  <2>1. out' = "none"
        /\ UNCHANGED <<reliable, state, timer_j, last_response, final, errors, kills>>
    BY <1>5 DEF USELESS_event, osip_timers_nist_execute, osip_find_transaction_and_add_event,
                osip_transaction_add_event, AddEvent
  <2> QED BY <1>b, <2>1 DEF IInv, TypeOK, AnswerByState, KilledOnce
<1>6. CASE Tick
  BY <1>6, <1>b DEF Tick, Elapse, Off, IInv, TypeOK, AnswerByState, KilledOnce
<1>7. CASE UNCHANGED vars
  BY <1>7 DEF vars, IInv, TypeOK, AnswerByState, KilledOnce
<1> QED
  BY <1>1, <1>2, <1>3, <1>4, <1>5, <1>6, <1>7 DEF Next, osip_nist_execute

LEMMA Invariance == Spec => []IInv
BY InitIInv, NextIInv, PTL DEF Spec

(***************************************************************************)
(* Type correctness, whatever the peer and the application queue.          *)
(***************************************************************************)
THEOREM TypeCorrect == Spec => []TypeOK
<1>1. IInv => TypeOK
  BY DEF IInv
<1> QED BY Invariance, <1>1, PTL

(***************************************************************************)
(* The transaction is handed to the kill callback (cb_nist_kill_           *)
(* transaction), which takes it off the list, exactly once, when it        *)
(* terminates: a second call would remove and release it again.            *)
(***************************************************************************)
THEOREM Killed == Spec => []KilledOnce
<1>1. IInv => KilledOnce
  BY DEF IInv
<1> QED BY Invariance, <1>1, PTL

-----------------------------------------------------------------------------
(***************************************************************************)
(* The refinement.                                                         *)
(***************************************************************************)
LEMMA PhaseOf ==
    ASSUME TypeOK
    PROVE  /\ state \in {"NIST_PRE_TRYING", "NIST_TRYING", "NIST_PROCEEDING"}
                 <=> phase = "open"
           /\ state = "NIST_COMPLETED" <=> phase = "answered"
           /\ state = "NIST_TERMINATED" <=> phase = "dead"
BY DEF TypeOK, States, phase

\* A step that sends nothing and changes neither the state nor the final response.
LEMMA QuietStep ==
    ASSUME TypeOK, state' = state, final' = final, out' = "none"
    PROVE  Server!Next
<1>1. phase' = phase /\ phase \in {"open", "answered", "dead"}
  BY PhaseOf DEF TypeOK, States, phase
<1> QED BY <1>1 DEF Server!Next, Server!Proceed, Server!Repeat, Server!Silence

\* A step that ends the transaction without a message.
LEMMA DyingStep ==
    ASSUME state' = "NIST_TERMINATED", final' = final, out' = "none"
    PROVE  Server!Next
BY DEF Server!Next, Server!Die, phase

\* Every step, one action at a time.
LEMMA NextServer == IInv /\ IInv' /\ [Next]_vars => [Server!Next]_(Server!vars)
<1> SUFFICES ASSUME IInv, IInv', [Next]_vars PROVE [Server!Next]_(Server!vars)
  OBVIOUS
<1>a. TypeOK /\ TypeOK' /\ AnswerByState
  BY DEF IInv
<1>b. /\ state \in {"NIST_PRE_TRYING", "NIST_TRYING", "NIST_PROCEEDING"} <=> phase = "open"
      /\ state = "NIST_COMPLETED" <=> phase = "answered"
  BY <1>a, PhaseOf
<1>c. /\ state' \in {"NIST_PRE_TRYING", "NIST_TRYING", "NIST_PROCEEDING"} => phase' = "open"
      /\ state' = "NIST_COMPLETED" => phase' = "answered"
  BY DEF phase
<1>1. CASE nist_rcv_request
  <2>1. final' = final
    BY <1>1 DEF nist_rcv_request
  <2>2. CASE state = "NIST_PRE_TRYING"
    <3>1. phase = "open" /\ phase' = "open" /\ out' = "none"
      BY <1>1, <1>b, <1>c, <2>2 DEF nist_rcv_request
    <3> QED BY <2>1, <3>1 DEF Server!Next, Server!Proceed
  <2>3. CASE state = "NIST_PROCEEDING" /\ state' = state
    <3>1. phase = "open" /\ phase' = "open" /\ out' \in {"none"} \cup SND_STATUS_1XX
      BY <1>1, <1>a, <1>b, <1>c, <2>3
         DEF nist_rcv_request, AnswerByState, SendFails, nist_handle_transport_error, Terminate
    <3> QED BY <2>1, <3>1 DEF Server!Next, Server!Proceed
  <2>4. CASE state = "NIST_COMPLETED" /\ state' = state
    <3>1. phase = "answered" /\ phase' = "answered" /\ out' \in {"none", final}
      BY <1>1, <1>a, <1>b, <1>c, <2>4
         DEF nist_rcv_request, AnswerByState, SendFails, nist_handle_transport_error, Terminate
    <3> QED BY <2>1, <3>1 DEF Server!Next, Server!Repeat
  <2>5. CASE state \in {"NIST_PROCEEDING", "NIST_COMPLETED"} /\ state' # state
    BY <1>1, <2>1, <2>5, DyingStep
       DEF nist_rcv_request, SendFails, nist_handle_transport_error, Terminate
  <2> QED BY <1>1, <2>2, <2>3, <2>4, <2>5 DEF nist_rcv_request
<1>2. CASE nist_snd_1xx
  <2>1. CASE SendFails
    BY <1>2, <2>1, DyingStep
       DEF nist_snd_1xx, SendFails, nist_handle_transport_error, Terminate
  <2>2. CASE ~SendFails
    <3>1. /\ phase = "open" /\ phase' = "open" /\ final' = final
          /\ out' \in {"none"} \cup SND_STATUS_1XX
      BY <1>2, <1>b, <1>c, <2>2 DEF nist_snd_1xx
    <3> QED BY <3>1 DEF Server!Next, Server!Proceed
  <2> QED BY <2>1, <2>2
<1>3. CASE nist_snd_23456xx
  <2>1. CASE SendFails /\ final' = final
    BY <2>1, DyingStep DEF SendFails, nist_handle_transport_error, Terminate
  <2>2. CASE ~(SendFails /\ final' = final)
    <3>1. /\ phase = "open" /\ phase' = "answered" /\ final' \in Finals
          /\ out' = final'
      BY <1>3, <1>b, <1>c, <2>2 DEF nist_snd_23456xx
    <3> QED BY <3>1 DEF Server!Next, Server!Answer
  <2> QED BY <2>1, <2>2
<1>4. CASE osip_nist_timeout_j_event
  BY <1>4, DyingStep DEF osip_nist_timeout_j_event, Terminate
<1>5. ASSUME \/ USELESS_event \/ osip_timers_nist_execute \/ Tick
             \/ osip_find_transaction_and_add_event
             \/ \E response \in Responses : osip_transaction_add_event(response)
      PROVE  Server!Next
  <2>1. state' = state /\ final' = final /\ out' = "none"
    BY <1>5 DEF USELESS_event, osip_timers_nist_execute, Tick,
                osip_find_transaction_and_add_event, osip_transaction_add_event, AddEvent
  <2> QED BY <1>a, <2>1, QuietStep
<1>6. CASE UNCHANGED vars
  BY <1>6 DEF vars, Server!vars, phase
<1> QED
  BY <1>1, <1>2, <1>3, <1>4, <1>5, <1>6 DEF Next, osip_nist_execute

(***************************************************************************)
(* The non-INVITE server transaction implements the abstract server        *)
(* transaction: the first final response the application queued is the     *)
(* only one that leaves, and nothing leaves a dead transaction.            *)
(***************************************************************************)
THEOREM Refinement == Spec => ServerSpec
<1>1. Init => Server!Init
  BY DEF Init, Server!Init, phase
<1> QED BY Invariance, NextServer, <1>1, PTL DEF Spec, ServerSpec, Server!Spec

=============================================================================
