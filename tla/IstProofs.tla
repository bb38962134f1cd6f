------------------------------ MODULE IstProofs ------------------------------
(***************************************************************************)
(* Proofs about the INVITE server transaction, for all timer values and    *)
(* queue bounds.                                                           *)
(*                                                                         *)
(* TypeOK is not inductive: a TIMEOUT_G consumed over a reliable           *)
(* transport, where the length of timer G is -1, would double it to -2.    *)
(* That no such event is ever queued rests on timer G never being started  *)
(* there (TimerGByTransport).                                              *)
(***************************************************************************)
EXTENDS Ist, TLAPS

\* Timer G and its events exist over an unreliable transport only.
TimerGByTransport ==
    IF reliable
    THEN /\ timer_g_length = -1
         /\ timer_g = Off
         /\ \A i \in 1..Len(fifo) : fifo[i] # "TIMEOUT_G"
    ELSE timer_g_length \in 1..T2

\* Before the final response nothing but a provisional one may be repeated, and after a
\* refusal nothing but that refusal.
AnswerByState ==
    /\ state \in {"IST_PRE_PROCEEDING", "IST_PROCEEDING"}
          => final = "none" /\ last_response \in {"none"} \cup SND_STATUS_1XX
    /\ state \in {"IST_COMPLETED", "IST_CONFIRMED"}
          => last_response = final /\ final \in SND_STATUS_3456XX

\* The kill callback has run once in a terminated transaction, and never in another.
KilledOnce == kills = IF state = "IST_TERMINATED" THEN 1 ELSE 0

IInv == TypeOK /\ TimerGByTransport /\ AnswerByState /\ KilledOnce

-----------------------------------------------------------------------------
(***************************************************************************)
(* The queue.                                                              *)
(***************************************************************************)

\* Consuming the head: what is left is a part of what was there.
LEMMA ConsumedQueue ==
    ASSUME fifo \in Seq(Events), fifo # <<>>
    PROVE  /\ Tail(fifo) \in Seq(Events) /\ Head(fifo) \in Events
           /\ Head(fifo) = fifo[1] /\ 1 \in 1..Len(fifo)
           /\ \A i \in 1..Len(Tail(fifo)) : i + 1 \in 1..Len(fifo) /\ Tail(fifo)[i] = fifo[i + 1]
OBVIOUS

\* Adding an event to the end.
LEMMA AppendedQueue ==
    ASSUME fifo \in Seq(Events), NEW evt \in Events
    PROVE  /\ Append(fifo, evt) \in Seq(Events)
           /\ \A i \in 1..Len(Append(fifo, evt)) :
                 \/ i \in 1..Len(fifo) /\ Append(fifo, evt)[i] = fifo[i]
                 \/ Append(fifo, evt)[i] = evt
<1>1. Append(fifo, evt) \in Seq(Events) /\ Len(Append(fifo, evt)) = Len(fifo) + 1
  OBVIOUS
<1>2. ASSUME NEW i \in 1..Len(Append(fifo, evt))
      PROVE  \/ i \in 1..Len(fifo) /\ Append(fifo, evt)[i] = fifo[i]
             \/ Append(fifo, evt)[i] = evt
  <2>1. CASE i = Len(fifo) + 1
    BY <2>1
  <2>2. CASE i # Len(fifo) + 1
    BY <1>1, <2>2
  <2> QED BY <2>1, <2>2
<1> QED BY <1>1, <1>2

\* Every step consumes the head of the queue, adds an event to its end, or leaves it; a
\* TIMEOUT_G is added only for a timer G that is due.
LEMMA QueueStep ==
    ASSUME [Next]_vars
    PROVE  \/ fifo # <<>> /\ fifo' = Tail(fifo)
           \/ \E evt \in Events : /\ fifo' = Append(fifo, evt)
                                  /\ evt = "TIMEOUT_G" => timer_g = 0
           \/ fifo' = fifo
<1>1. CASE osip_ist_execute
  BY <1>1 DEF osip_ist_execute, ist_rcv_invite, osip_ist_timeout_g_event,
              osip_ist_timeout_h_event, osip_ist_timeout_i_event, ist_snd_1xx, ist_snd_2xx,
              ist_snd_3456xx, ist_rcv_ack, USELESS_event, Consume
<1>2. ASSUME NEW evt \in NetworkEvents, osip_find_transaction_and_add_event(evt)
      PROVE  fifo' = Append(fifo, evt) /\ evt \in Events /\ evt # "TIMEOUT_G"
  BY <1>2 DEF osip_find_transaction_and_add_event, AddEvent, Events, NetworkEvents
<1>3. ASSUME NEW response \in Responses, osip_transaction_add_event(response)
      PROVE  fifo' = Append(fifo, response) /\ response \in Events /\ response # "TIMEOUT_G"
  BY <1>3 DEF osip_transaction_add_event, AddEvent, Events, Responses, SND_STATUS_1XX,
              SND_STATUS_2XX, SND_STATUS_3456XX
<1>4. CASE osip_timers_ist_execute
  BY <1>4 DEF osip_timers_ist_execute, need_timer_g_event, Due, Events, TimerEvents
<1>5. CASE Tick \/ UNCHANGED vars
  BY <1>5 DEF Tick, vars
<1> QED BY <1>1, <1>2, <1>3, <1>4, <1>5 DEF Next

(***************************************************************************)
(* The queue keeps its type, and without a running timer G it gets no      *)
(* TIMEOUT_G.                                                              *)
(***************************************************************************)
LEMMA QueueTyped ==
    ASSUME fifo \in Seq(Events), [Next]_vars
    PROVE  /\ fifo' \in Seq(Events)
           /\ timer_g = Off /\ (\A i \in 1..Len(fifo) : fifo[i] # "TIMEOUT_G")
                 => \A i \in 1..Len(fifo') : fifo'[i] # "TIMEOUT_G"
<1>1. CASE fifo # <<>> /\ fifo' = Tail(fifo)
  BY <1>1, ConsumedQueue, Zenon
<1>2. ASSUME NEW evt \in Events, fifo' = Append(fifo, evt), evt = "TIMEOUT_G" => timer_g = 0
      PROVE  /\ fifo' \in Seq(Events)
             /\ timer_g = Off /\ (\A i \in 1..Len(fifo) : fifo[i] # "TIMEOUT_G")
                   => \A i \in 1..Len(fifo') : fifo'[i] # "TIMEOUT_G"
  <2>1. timer_g = Off => evt # "TIMEOUT_G"
    BY <1>2 DEF Off
  <2> QED BY <1>2, <2>1, AppendedQueue, Zenon
<1>3. CASE fifo' = fifo
  BY <1>3
<1> QED BY <1>1, <1>2, <1>3, QueueStep, Zenon

-----------------------------------------------------------------------------
(***************************************************************************)
(* The inductive invariant.                                                *)
(***************************************************************************)
LEMMA InitIInv == Init => IInv
<1> SUFFICES ASSUME Init PROVE IInv
  OBVIOUS
<1>1. reliable \in BOOLEAN
  BY Zenon DEF Init
<1>2. fifo \in Seq(Events) /\ \A i \in 1..Len(fifo) : fifo[i] # "TIMEOUT_G"
  <2>1. "RCV_REQINVITE" \in Events
    BY DEF Events, NetworkEvents
  <2> QED BY <2>1 DEF Init
<1>3. TypeOK
  BY <1>1, <1>2, IstAssumption DEF Init, TypeOK, States, Off
<1>4. TimerGByTransport
  BY <1>2, IstAssumption DEF Init, TimerGByTransport
<1>5. AnswerByState /\ KilledOnce
  BY DEF Init, AnswerByState, KilledOnce
<1> QED BY <1>3, <1>4, <1>5 DEF IInv

\* An unsuccessful send ends the transaction, whatever it was about to do.
LEMMA FailedSend ==
    ASSUME TypeOK, KilledOnce, state # "IST_TERMINATED", SendFails
    PROVE  /\ state' = "IST_TERMINATED" /\ state' \in States
           /\ kills' = 1 /\ errors' \in Nat /\ out' = "none"
BY DEF TypeOK, KilledOnce, SendFails, ist_handle_transport_error, Terminate, States

\* A step that leaves timer G alone keeps it in line with the transport.
LEMMA TimerGKept ==
    ASSUME IInv, [Next]_vars, reliable' = reliable, timer_g_length' = timer_g_length,
           timer_g' = timer_g
    PROVE  TimerGByTransport'
BY QueueTyped DEF IInv, TypeOK, TimerGByTransport

\* Every step preserves the inductive invariant.
LEMMA NextIInv == IInv /\ [Next]_vars => IInv'
<1> SUFFICES ASSUME IInv, [Next]_vars PROVE IInv'
  OBVIOUS
<1>a. TypeOK /\ TimerGByTransport /\ AnswerByState /\ KilledOnce
  BY DEF IInv
<1>b. fifo' \in Seq(Events)
  BY <1>a, QueueTyped DEF TypeOK
<1> USE <1>a
<1>1. CASE ist_rcv_invite
  <2>1. UNCHANGED <<reliable, timers, last_response, final>>
    BY <1>1 DEF ist_rcv_invite
  <2>2. TimerGByTransport'
    BY <2>1, TimerGKept DEF timers
  <2>3. TypeOK' /\ AnswerByState' /\ KilledOnce'
    <3>1. CASE state = "IST_PRE_PROCEEDING"
      BY <1>1, <1>b, <2>1, <3>1
         DEF ist_rcv_invite, timers, TypeOK, AnswerByState, KilledOnce, States
    <3>2. CASE state \in {"IST_PROCEEDING", "IST_COMPLETED"} /\ ~SendFails
      BY <1>1, <1>b, <2>1, <3>2
         DEF ist_rcv_invite, timers, TypeOK, AnswerByState, KilledOnce, States
    <3>3. CASE state \in {"IST_PROCEEDING", "IST_COMPLETED"} /\ SendFails
      BY <1>b, <2>1, <3>3, FailedSend DEF timers, TypeOK, AnswerByState, KilledOnce
    <3> QED BY <1>1, <3>1, <3>2, <3>3 DEF ist_rcv_invite
  <2> QED BY <2>2, <2>3 DEF IInv
<1>2. CASE osip_ist_timeout_g_event
  <2>1. state = "IST_COMPLETED"
        /\ UNCHANGED <<reliable, timer_h, timer_i, last_response, final>>
    BY <1>2 DEF osip_ist_timeout_g_event
  <2>2. ~reliable /\ timer_g_length \in 1..T2
    <3>1. Head(fifo) = "TIMEOUT_G" /\ fifo # <<>>
      BY <1>2 DEF osip_ist_timeout_g_event, Consume
    <3>2. fifo[1] = "TIMEOUT_G" /\ 1 \in 1..Len(fifo)
      BY <3>1, ConsumedQueue DEF TypeOK
    <3> QED BY <3>2 DEF TimerGByTransport
  <2>3. timer_g_length' \in 1..T2 /\ timer_g' \in Nat
    BY <1>2, <2>2, IstAssumption DEF osip_ist_timeout_g_event, Start
  <2>4. TimerGByTransport'
    BY <2>1, <2>2, <2>3 DEF TimerGByTransport
  <2>5. TypeOK' /\ AnswerByState' /\ KilledOnce'
    <3>1. CASE SendFails
      BY <1>b, <2>1, <2>3, <3>1, FailedSend DEF TypeOK, AnswerByState, KilledOnce
    <3>2. CASE ~SendFails
      BY <1>2, <1>b, <2>1, <2>3, <3>2
         DEF osip_ist_timeout_g_event, TypeOK, AnswerByState, KilledOnce, Responses
    <3> QED BY <3>1, <3>2
  <2> QED BY <2>4, <2>5 DEF IInv
<1>3. CASE osip_ist_timeout_h_event \/ osip_ist_timeout_i_event
  <2>1. TimerGByTransport'
    BY <1>3, TimerGKept DEF osip_ist_timeout_h_event, osip_ist_timeout_i_event
  <2>2. TypeOK' /\ AnswerByState' /\ KilledOnce'
    BY <1>3, <1>b DEF osip_ist_timeout_h_event, osip_ist_timeout_i_event, Terminate, TypeOK,
                      AnswerByState, KilledOnce, States, Off
  <2> QED BY <2>1, <2>2 DEF IInv
<1>4. CASE ist_snd_1xx
  <2>1. /\ UNCHANGED <<reliable, timers, final>>
        /\ last_response' \in SND_STATUS_1XX
        /\ state = "IST_PROCEEDING"
    BY <1>4 DEF ist_snd_1xx
  <2>2. TimerGByTransport'
    BY <2>1, TimerGKept DEF timers
  <2>3. TypeOK' /\ AnswerByState' /\ KilledOnce'
    <3>1. CASE SendFails
      BY <1>b, <2>1, <3>1, FailedSend
         DEF timers, TypeOK, AnswerByState, KilledOnce, Responses
    <3>2. CASE ~SendFails
      BY <1>4, <1>b, <2>1, <3>2
         DEF ist_snd_1xx, timers, TypeOK, AnswerByState, KilledOnce, Responses
    <3> QED BY <3>1, <3>2
  <2> QED BY <2>2, <2>3 DEF IInv
<1>5. CASE ist_snd_2xx
  <2>1. /\ UNCHANGED <<reliable, timers>>
        /\ last_response' \in SND_STATUS_2XX
        /\ state = "IST_PROCEEDING"
    BY <1>5 DEF ist_snd_2xx
  <2>2. TimerGByTransport'
    BY <2>1, TimerGKept DEF timers
  <2>3. TypeOK' /\ AnswerByState' /\ KilledOnce'
    <3>1. CASE SendFails /\ final' = final
      BY <1>b, <2>1, <3>1, FailedSend
         DEF timers, TypeOK, AnswerByState, KilledOnce, Responses
    <3>2. CASE ~(SendFails /\ final' = final)
      BY <1>5, <1>b, <2>1, <3>2
         DEF ist_snd_2xx, timers, Terminate, TypeOK, AnswerByState, KilledOnce, States,
             Responses
    <3> QED BY <3>1, <3>2
  <2> QED BY <2>2, <2>3 DEF IInv
<1>6. CASE ist_snd_3456xx
  <2>1. /\ UNCHANGED <<reliable, timer_g_length, timer_i>>
        /\ last_response' \in SND_STATUS_3456XX
        /\ state = "IST_PROCEEDING"
    BY <1>6 DEF ist_snd_3456xx
  <2>2. CASE SendFails /\ UNCHANGED <<timer_g, timer_h, final>>
    <3>1. TimerGByTransport'
      BY <2>1, <2>2, TimerGKept
    <3>2. TypeOK' /\ AnswerByState' /\ KilledOnce'
      BY <1>b, <2>1, <2>2, FailedSend DEF TypeOK, AnswerByState, KilledOnce, Responses
    <3> QED BY <3>1, <3>2 DEF IInv
  <2>3. CASE ~(SendFails /\ UNCHANGED <<timer_g, timer_h, final>>)
    <3>1. /\ out' = last_response' /\ final' = last_response' /\ state' = "IST_COMPLETED"
          /\ timer_g' = IF timer_g_length # -1 THEN Start(timer_g_length) ELSE timer_g
          /\ timer_h' = Start(TimeoutFactor * T1)
          /\ UNCHANGED <<errors, kills>>
      BY <1>6, <2>3 DEF ist_snd_3456xx
    <3>2. timer_h' \in Nat
      <4>1. TimeoutFactor * T1 \in Nat
        BY IstAssumption
      <4> QED BY <3>1, <4>1 DEF Start
    <3>3. timer_g' \in Nat \cup {Off} /\ (reliable => timer_g' = Off)
      BY <3>1, IstAssumption DEF TimerGByTransport, Start, TypeOK
    <3>4. TimerGByTransport'
      <4>1. reliable => \A i \in 1..Len(fifo') : fifo'[i] # "TIMEOUT_G"
        BY QueueTyped DEF TypeOK, TimerGByTransport
      <4> QED BY <2>1, <3>3, <4>1 DEF TimerGByTransport
    <3>5. TypeOK' /\ AnswerByState' /\ KilledOnce'
      BY <1>b, <2>1, <3>1, <3>2, <3>3
         DEF TypeOK, AnswerByState, KilledOnce, States, Responses
    <3> QED BY <3>4, <3>5 DEF IInv
  <2> QED BY <2>2, <2>3
<1>7. CASE ist_rcv_ack
  <2>1. TimerGByTransport'
    BY <1>7, TimerGKept DEF ist_rcv_ack
  <2>2. timer_i' \in Nat
    BY <1>7, IstAssumption DEF ist_rcv_ack, Start
  <2>3. TypeOK' /\ AnswerByState' /\ KilledOnce'
    BY <1>7, <1>b, <2>2 DEF ist_rcv_ack, TypeOK, AnswerByState, KilledOnce, States
  <2> QED BY <2>1, <2>3 DEF IInv
<1>8. ASSUME \/ USELESS_event \/ osip_timers_ist_execute
             \/ \E evt \in NetworkEvents : osip_find_transaction_and_add_event(evt)
             \/ \E response \in Responses : osip_transaction_add_event(response)
      PROVE  IInv'
  <2>1. /\ out' = "none"
        /\ UNCHANGED <<reliable, state, timers, last_response, final, errors, kills>>
    BY <1>8 DEF USELESS_event, osip_timers_ist_execute, osip_find_transaction_and_add_event,
                osip_transaction_add_event, AddEvent
  <2>2. TimerGByTransport'
    BY <2>1, TimerGKept DEF timers
  <2>3. TypeOK' /\ AnswerByState' /\ KilledOnce'
    BY <1>b, <2>1 DEF timers, TypeOK, AnswerByState, KilledOnce
  <2> QED BY <2>2, <2>3 DEF IInv
<1>9. CASE Tick
  <2>1. TypeOK' /\ AnswerByState' /\ KilledOnce'
    BY <1>9, <1>b DEF Tick, Elapse, Off, TypeOK, AnswerByState, KilledOnce
  <2>2. TimerGByTransport'
    BY <1>9 DEF Tick, Elapse, Off, TypeOK, TimerGByTransport
  <2> QED BY <2>1, <2>2 DEF IInv
<1>10. CASE UNCHANGED vars
  BY <1>10 DEF vars, timers, IInv, TypeOK, TimerGByTransport, AnswerByState, KilledOnce
<1> QED
  BY <1>1, <1>2, <1>3, <1>4, <1>5, <1>6, <1>7, <1>8, <1>9, <1>10 DEF Next, osip_ist_execute

LEMMA Invariance == Spec => []IInv
BY InitIInv, NextIInv, PTL DEF Spec

(***************************************************************************)
(* Type correctness, and the length of timer G never over T2, for every    *)
(* T1 and T2.                                                              *)
(***************************************************************************)
THEOREM TypeCorrect == Spec => []TypeOK
<1>1. IInv => TypeOK
  BY DEF IInv
<1> QED BY Invariance, <1>1, PTL

(***************************************************************************)
(* A refused INVITE is answered by the same refusal from then on, by timer *)
(* G and for every copy of the INVITE, and timer G never runs over a       *)
(* reliable transport (ist_snd_3456xx, osip_ist_timeout_g_event).          *)
(***************************************************************************)
THEOREM Repeats == Spec => []RepeatsItsAnswer
<1>1. IInv => RepeatsItsAnswer
  BY DEF IInv, TimerGByTransport, AnswerByState, RepeatsItsAnswer
<1> QED BY Invariance, <1>1, PTL

(***************************************************************************)
(* The kill callback (cb_ist_kill_transaction) runs exactly once, when the *)
(* transaction terminates.                                                 *)
(***************************************************************************)
THEOREM Killed == Spec => []KilledOnce
<1>1. IInv => KilledOnce
  BY DEF IInv
<1> QED BY Invariance, <1>1, PTL

-----------------------------------------------------------------------------
(***************************************************************************)
(* The refinement.                                                         *)
(***************************************************************************)
LEMMA PhaseOf ==
    ASSUME TypeOK
    PROVE  /\ state \in {"IST_PRE_PROCEEDING", "IST_PROCEEDING"} <=> phase = "open"
           /\ state = "IST_COMPLETED" <=> phase = "answered"
           /\ state = "IST_CONFIRMED" <=> phase = "confirmed"
           /\ state = "IST_TERMINATED" <=> phase = "dead"
BY DEF TypeOK, States, phase

\* A step that sends nothing and changes neither the state nor the final response.
LEMMA QuietStep ==
    ASSUME TypeOK, state' = state, final' = final, out' = "none"
    PROVE  Server!Next
<1>1. phase' = phase /\ phase \in {"open", "answered", "confirmed", "dead"}
  BY PhaseOf DEF TypeOK, States, phase
<1> QED BY <1>1 DEF Server!Next, Server!Proceed, Server!Repeat, Server!Silence

\* A step that ends the transaction without a message.
LEMMA DyingStep ==
    ASSUME state' = "IST_TERMINATED", final' = final, out' = "none"
    PROVE  Server!Next
BY DEF Server!Next, Server!Die, phase

\* A failed send is such a step.
LEMMA FailedStep == ASSUME SendFails, final' = final PROVE Server!Next
BY DyingStep DEF SendFails, ist_handle_transport_error, Terminate

\* Every step, one action at a time.
LEMMA NextServer == IInv /\ [Next]_vars => [Server!Next]_(Server!vars)
<1> SUFFICES ASSUME IInv, [Next]_vars PROVE [Server!Next]_(Server!vars)
  OBVIOUS
<1>a. TypeOK /\ AnswerByState
  BY DEF IInv
<1>b. /\ state \in {"IST_PRE_PROCEEDING", "IST_PROCEEDING"} <=> phase = "open"
      /\ state = "IST_COMPLETED" <=> phase = "answered"
      /\ state = "IST_CONFIRMED" <=> phase = "confirmed"
  BY <1>a, PhaseOf
<1>c. /\ state' \in {"IST_PRE_PROCEEDING", "IST_PROCEEDING"} => phase' = "open"
      /\ state' = "IST_COMPLETED" => phase' = "answered"
      /\ state' = "IST_CONFIRMED" => phase' = "confirmed"
      /\ state' = "IST_TERMINATED" => phase' = "dead"
  BY DEF phase
<1>1. CASE ist_rcv_invite
  <2>1. final' = final
    BY <1>1 DEF ist_rcv_invite
  <2>2. CASE SendFails
    BY <2>1, <2>2, FailedStep
  <2>3. CASE state = "IST_PRE_PROCEEDING"
    <3>1. phase = "open" /\ phase' = "open" /\ out' = "none"
      BY <1>1, <1>b, <1>c, <2>3 DEF ist_rcv_invite
    <3> QED BY <2>1, <3>1 DEF Server!Next, Server!Proceed
  <2>4. CASE state = "IST_PROCEEDING" /\ ~SendFails
    <3>1. phase = "open" /\ phase' = "open" /\ out' \in {"none"} \cup SND_STATUS_1XX
      BY <1>1, <1>a, <1>b, <1>c, <2>4 DEF ist_rcv_invite, AnswerByState
    <3> QED BY <2>1, <3>1 DEF Server!Next, Server!Proceed
  <2>5. CASE state = "IST_COMPLETED" /\ ~SendFails
    <3>1. phase = "answered" /\ phase' = "answered" /\ out' = final
      BY <1>1, <1>a, <1>b, <1>c, <2>5 DEF ist_rcv_invite, AnswerByState
    <3> QED BY <2>1, <3>1 DEF Server!Next, Server!Repeat
  <2> QED BY <1>1, <2>2, <2>3, <2>4, <2>5 DEF ist_rcv_invite
<1>2. CASE osip_ist_timeout_g_event
  <2>1. final' = final
    BY <1>2 DEF osip_ist_timeout_g_event
  <2>2. CASE SendFails
    BY <2>1, <2>2, FailedStep
  <2>3. CASE ~SendFails
    <3>1. phase = "answered" /\ phase' = "answered" /\ out' = final
      BY <1>2, <1>a, <1>b, <1>c, <2>3 DEF osip_ist_timeout_g_event, AnswerByState
    <3> QED BY <2>1, <3>1 DEF Server!Next, Server!Repeat
  <2> QED BY <2>2, <2>3
<1>3. CASE osip_ist_timeout_h_event \/ osip_ist_timeout_i_event
  BY <1>3, DyingStep DEF osip_ist_timeout_h_event, osip_ist_timeout_i_event, Terminate
<1>4. CASE ist_snd_1xx
  <2>1. final' = final
    BY <1>4 DEF ist_snd_1xx
  <2>2. CASE SendFails
    BY <2>1, <2>2, FailedStep
  <2>3. CASE ~SendFails
    <3>1. phase = "open" /\ phase' = "open" /\ out' \in SND_STATUS_1XX
      BY <1>4, <1>b, <1>c, <2>3 DEF ist_snd_1xx
    <3> QED BY <2>1, <3>1 DEF Server!Next, Server!Proceed
  <2> QED BY <2>2, <2>3
<1>5. CASE ist_snd_2xx
  <2>1. CASE SendFails /\ final' = final
    BY <2>1, FailedStep
  <2>2. CASE ~(SendFails /\ final' = final)
    <3>1. /\ phase = "open" /\ phase' = "dead"
          /\ final' \in SND_STATUS_2XX /\ out' = final'
      BY <1>5, <1>b, <1>c, <2>2 DEF ist_snd_2xx, Terminate
    <3>2. final' \notin SND_STATUS_3456XX
      BY <3>1 DEF SND_STATUS_2XX, SND_STATUS_3456XX
    <3> QED BY <3>1, <3>2 DEF Server!Next, Server!Answer
  <2> QED BY <2>1, <2>2
<1>6. CASE ist_snd_3456xx
  <2>1. CASE SendFails /\ final' = final
    BY <2>1, FailedStep
  <2>2. CASE ~(SendFails /\ final' = final)
    <3>1. /\ phase = "open" /\ phase' = "answered"
          /\ final' \in SND_STATUS_3456XX /\ out' = final'
      BY <1>6, <1>b, <1>c, <2>2 DEF ist_snd_3456xx
    <3> QED BY <3>1 DEF Server!Next, Server!Answer
  <2> QED BY <2>1, <2>2
<1>7. CASE ist_rcv_ack
  <2>1. phase \in {"answered", "confirmed"} /\ phase' = "confirmed"
        /\ final' = final /\ out' = "none"
    BY <1>7, <1>b, <1>c DEF ist_rcv_ack
  <2> QED BY <2>1 DEF Server!Next, Server!Confirm, Server!Silence
<1>8. ASSUME \/ USELESS_event \/ osip_timers_ist_execute \/ Tick
             \/ \E evt \in NetworkEvents : osip_find_transaction_and_add_event(evt)
             \/ \E response \in Responses : osip_transaction_add_event(response)
      PROVE  Server!Next
  <2>1. state' = state /\ final' = final /\ out' = "none"
    BY <1>8 DEF USELESS_event, osip_timers_ist_execute, Tick,
                osip_find_transaction_and_add_event, osip_transaction_add_event, AddEvent
  <2> QED BY <1>a, <2>1, QuietStep
<1>9. CASE UNCHANGED vars
  BY <1>9 DEF vars, Server!vars, phase
<1> QED
  BY <1>1, <1>2, <1>3, <1>4, <1>5, <1>6, <1>7, <1>8, <1>9 DEF Next, osip_ist_execute

(***************************************************************************)
(* The INVITE server transaction implements the abstract server            *)
(* transaction: one final response, whatever the application and the       *)
(* handling of a CANCEL queue behind it, and silence after its ACK         *)
(* although timer events queued before it are still consumed.              *)
(***************************************************************************)
THEOREM Refinement == Spec => ServerSpec
<1>1. Init => Server!Init
  BY DEF Init, Server!Init, phase
<1> QED BY Invariance, NextServer, <1>1, PTL DEF Spec, ServerSpec, Server!Spec

=============================================================================
