----------------------------- MODULE NictProofs -----------------------------
(***************************************************************************)
(* Proofs about the non-INVITE client transaction, for all timer values    *)
(* and queue bounds.                                                       *)
(*                                                                         *)
(* The timer pass adds its event behind whatever is waiting, so nothing    *)
(* can be said of the state in which a timeout will be consumed.  What     *)
(* holds is weaker: one timer event at most is waiting, and once a request *)
(* has left over a reliable transport timer E is stopped together with its *)
(* event.                                                                  *)
(***************************************************************************)
EXTENDS Nict, TLAPS

\* At most one timer event waits in the queue.
OneTimerEvent ==
    \A i, j \in 1..Len(fifo) :
        fifo[i] \in TimerEvents /\ fifo[j] \in TimerEvents => i = j

\* Nothing is queued behind a request that has not been handed to the transport.
BeforeSend == state = "NICT_PRE_TRYING" => ~sent /\ fifo = <<"SND_REQUEST">>

\* A request that left over a reliable transport has stopped timer E for good.
TimerEStopped ==
    reliable /\ sent =>
        /\ timer_e_length = -1
        /\ timer_e = Off
        /\ \A i \in 1..Len(fifo) : fifo[i] # "TIMEOUT_E"

\* What the application was told, and the kill count, state by state.
VerdictByState ==
    /\ state \in {"NICT_PRE_TRYING", "NICT_TRYING", "NICT_PROCEEDING"}
          => told = <<>> /\ kills = 0
    /\ state = "NICT_COMPLETED" => told \in {<<"2XX">>, <<"3456XX">>} /\ kills = 0
    /\ state = "NICT_TERMINATED" =>
          kills = 1 /\ \E v \in Verdicts : told = <<v>>

IInv == TypeOK /\ OneTimerEvent /\ BeforeSend /\ TimerEStopped /\ VerdictByState

-----------------------------------------------------------------------------
(***************************************************************************)
(* The queue.                                                              *)
(***************************************************************************)

\* A history of one verdict, or a queue of one event.
LEMMA SingletonSeq == ASSUME NEW S, NEW e \in S PROVE <<e>> \in Seq(S)
OBVIOUS

\* Consuming the head: what is left is a part of what was there.
LEMMA ConsumedQueue ==
    ASSUME fifo \in Seq(Events), fifo # <<>>
    PROVE  /\ Tail(fifo) \in Seq(Events) /\ Head(fifo) \in Events
           /\ Head(fifo) = fifo[1] /\ 1 \in 1..Len(fifo)
           /\ \A i \in 1..Len(Tail(fifo)) :
                 i + 1 \in 1..Len(fifo) /\ i + 1 # 1 /\ Tail(fifo)[i] = fifo[i + 1]
OBVIOUS

\* Adding an event to the end.
LEMMA AppendedQueue ==
    ASSUME fifo \in Seq(Events), NEW evt \in Events
    PROVE  /\ Append(fifo, evt) \in Seq(Events)
           /\ Len(Append(fifo, evt)) = Len(fifo) + 1
           /\ Append(fifo, evt)[Len(fifo) + 1] = evt
           /\ \A i \in 1..Len(fifo) : Append(fifo, evt)[i] = fifo[i]
           /\ \A i \in 1..Len(Append(fifo, evt)) : i \in 1..Len(fifo) \/ i = Len(fifo) + 1
OBVIOUS

\* Consuming an event keeps OneTimerEvent, and a timer event leaves none behind it.
LEMMA ConsumedTimers ==
    ASSUME TypeOK, OneTimerEvent, fifo # <<>>, fifo' = Tail(fifo)
    PROVE  /\ fifo' \in Seq(Events)
           /\ OneTimerEvent'
           /\ (\A i \in 1..Len(fifo) : fifo[i] # "TIMEOUT_E")
                 => \A i \in 1..Len(fifo') : fifo'[i] # "TIMEOUT_E"
           /\ Head(fifo) \in TimerEvents
                 => \A i \in 1..Len(fifo') : fifo'[i] \notin TimerEvents
<1>1. /\ fifo' \in Seq(Events)
      /\ Head(fifo) = fifo[1] /\ 1 \in 1..Len(fifo)
      /\ \A i \in 1..Len(fifo') :
            i + 1 \in 1..Len(fifo) /\ i + 1 # 1 /\ fifo'[i] = fifo[i + 1]
  BY ConsumedQueue DEF TypeOK
<1>2. OneTimerEvent'
  <2> SUFFICES ASSUME NEW i \in 1..Len(fifo'), NEW j \in 1..Len(fifo'),
                      fifo'[i] \in TimerEvents, fifo'[j] \in TimerEvents
               PROVE  i = j
    BY DEF OneTimerEvent
  <2>1. i + 1 = j + 1
    BY <1>1 DEF OneTimerEvent
  <2> QED BY <2>1
<1>3. ASSUME Head(fifo) \in TimerEvents, NEW i \in 1..Len(fifo')
      PROVE  fifo'[i] \notin TimerEvents
  BY <1>1, <1>3 DEF OneTimerEvent
<1> QED BY <1>1, <1>2, <1>3

\* Adding an event keeps OneTimerEvent when it is no timer event, or the only one.
LEMMA AppendedTimers ==
    ASSUME TypeOK, OneTimerEvent, NEW evt \in Events, fifo' = Append(fifo, evt),
           evt \in TimerEvents => Drained
    PROVE  /\ fifo' \in Seq(Events)
           /\ OneTimerEvent'
           /\ evt # "TIMEOUT_E" /\ (\A i \in 1..Len(fifo) : fifo[i] # "TIMEOUT_E")
                 => \A i \in 1..Len(fifo') : fifo'[i] # "TIMEOUT_E"
<1>1. /\ fifo' \in Seq(Events)
      /\ fifo'[Len(fifo) + 1] = evt
      /\ \A i \in 1..Len(fifo) : fifo'[i] = fifo[i]
      /\ \A i \in 1..Len(fifo') : i \in 1..Len(fifo) \/ i = Len(fifo) + 1
  BY AppendedQueue DEF TypeOK
<1>2. OneTimerEvent'
  BY <1>1 DEF OneTimerEvent, Drained
<1> QED BY <1>1, <1>2

-----------------------------------------------------------------------------
(***************************************************************************)
(* The inductive invariant.                                                *)
(***************************************************************************)
LEMMA InitIInv == Init => IInv
<1> SUFFICES ASSUME Init PROVE IInv
  OBVIOUS
<1>1. reliable \in BOOLEAN /\ sent \in BOOLEAN
  BY Zenon DEF Init
<1>2. fifo \in Seq(Events) /\ told \in Seq(Verdicts)
  <2>1. "SND_REQUEST" \in Events
    BY DEF Events
  <2> QED BY <2>1, SingletonSeq DEF Init
<1>3. TimeoutFactor * T1 \in Nat
  BY NictAssumption
<1>4. TypeOK
  BY <1>1, <1>2, <1>3, NictAssumption DEF Init, TypeOK, States, Off, Start
<1>5. OneTimerEvent /\ BeforeSend /\ TimerEStopped /\ VerdictByState
  BY DEF Init, OneTimerEvent, BeforeSend, TimerEStopped, VerdictByState, TimerEvents
<1> QED BY <1>4, <1>5 DEF IInv

\* The next length of timer E never exceeds T2.
LEMMA LengthE ==
    ASSUME timer_e_length \in -1..T2
    PROVE  NextLengthE \in 0..T2
BY NictAssumption DEF NextLengthE

\* A failed send ends a waiting transaction with that verdict.
LEMMA FailedSend ==
    ASSUME VerdictByState, nict_handle_transport_error,
           state \in {"NICT_PRE_TRYING", "NICT_TRYING", "NICT_PROCEEDING"}
    PROVE  /\ state' = "NICT_TERMINATED" /\ state' \in States
           /\ told' = <<"TRANSPORT_ERROR">> /\ told' \in Seq(Verdicts)
           /\ kills' = 1 /\ kills' \in Nat
           /\ BeforeSend' /\ VerdictByState'
<1>1. state' = "NICT_TERMINATED" /\ told' = <<"TRANSPORT_ERROR">> /\ kills' = 1
  <2>1. told = <<>> /\ kills = 0
    BY DEF VerdictByState
  <2> QED BY <2>1 DEF nict_handle_transport_error, Terminate
<1>2. "TRANSPORT_ERROR" \in Verdicts
  BY DEF Verdicts
<1>3. told' \in Seq(Verdicts)
  BY <1>1, <1>2, SingletonSeq
<1> QED BY <1>1, <1>2, <1>3 DEF BeforeSend, VerdictByState, States

\* Every step preserves the inductive invariant.
LEMMA NextIInv == IInv /\ [Next]_vars => IInv'
<1> SUFFICES ASSUME IInv, [Next]_vars PROVE IInv'
  OBVIOUS
<1>a. TypeOK /\ OneTimerEvent /\ BeforeSend /\ TimerEStopped /\ VerdictByState
  BY DEF IInv
<1>b. timer_e_length \in -1..T2 /\ sent \in BOOLEAN /\ reliable \in BOOLEAN
  BY <1>a, Zenon DEF TypeOK
<1> USE <1>a
<1>1. CASE nict_snd_request
  <2>1. /\ state = "NICT_PRE_TRYING" /\ fifo # <<>> /\ fifo' = Tail(fifo)
        /\ UNCHANGED <<reliable, timer_f, timer_k>>
    BY <1>1 DEF nict_snd_request, Consume
  <2>2. fifo' \in Seq(Events) /\ OneTimerEvent' /\ fifo' = <<>> /\ ~sent
    BY <2>1, ConsumedTimers DEF BeforeSend
  <2>3. CASE nict_handle_transport_error /\ out' = "none"
             /\ UNCHANGED <<timer_e_length, timer_e, sent>>
    <3>1. /\ state' \in States /\ told' \in Seq(Verdicts) /\ kills' \in Nat
          /\ BeforeSend' /\ VerdictByState'
      BY <2>1, <2>3, FailedSend
    <3>2. TypeOK'
      BY <2>1, <2>2, <2>3, <3>1, Zenon DEF TypeOK
    <3>3. TimerEStopped'
      BY <2>2, <2>3 DEF TimerEStopped
    <3> QED BY <2>2, <3>1, <3>2, <3>3 DEF IInv
  <2>4. CASE /\ timer_e_length' = IF reliable THEN -1 ELSE timer_e_length
             /\ timer_e' = IF reliable THEN Off ELSE Start(timer_e_length)
             /\ state' = "NICT_TRYING" /\ out' = "REQUEST" /\ sent' = TRUE
             /\ UNCHANGED <<told, kills>>
    <3>1. timer_e_length' \in -1..T2 /\ timer_e' \in Nat \cup {Off} /\ sent' \in BOOLEAN
      BY <1>b, <2>4, NictAssumption DEF Off, Start
    <3>2. TypeOK'
      BY <2>1, <2>2, <2>4, <3>1 DEF TypeOK, States
    <3>3. TimerEStopped'
      <4>1. \A i \in 1..Len(fifo') : fifo'[i] # "TIMEOUT_E"
        BY <2>2
      <4>2. reliable' => timer_e_length' = -1 /\ timer_e' = Off
        BY <2>1, <2>4
      <4> QED BY <4>1, <4>2 DEF TimerEStopped
    <3>4. BeforeSend' /\ VerdictByState'
      BY <2>1, <2>4 DEF BeforeSend, VerdictByState
    <3> QED BY <2>2, <3>2, <3>3, <3>4 DEF IInv
  <2>5. CASE /\ timer_e_length' = IF reliable THEN TcpProgress ELSE timer_e_length
             /\ timer_e' = Start(timer_e_length')
             /\ state' = "NICT_TRYING" /\ out' = "none"
             /\ UNCHANGED <<sent, told, kills>>
    <3>1. timer_e_length' \in -1..T2 /\ timer_e' \in Nat
      BY <1>b, <2>5, NictAssumption DEF Start
    <3>2. TypeOK'
      BY <2>1, <2>2, <2>5, <3>1 DEF TypeOK, States
    <3>3. TimerEStopped' /\ BeforeSend' /\ VerdictByState'
      BY <2>1, <2>2, <2>5 DEF TimerEStopped, BeforeSend, VerdictByState
    <3> QED BY <2>2, <3>2, <3>3 DEF IInv
  <2> QED BY <1>1, <2>3, <2>4, <2>5 DEF nict_snd_request
<1>2. CASE osip_nict_timeout_e_event
  <2>1. /\ state \in {"NICT_TRYING", "NICT_PROCEEDING"}
        /\ fifo # <<>> /\ Head(fifo) = "TIMEOUT_E" /\ fifo' = Tail(fifo)
        /\ UNCHANGED <<reliable, timer_f, timer_k>>
    BY <1>2 DEF osip_nict_timeout_e_event, Consume
  <2>2. /\ fifo' \in Seq(Events) /\ OneTimerEvent'
        /\ \A i \in 1..Len(fifo') : fifo'[i] # "TIMEOUT_E"
    BY <2>1, ConsumedTimers DEF TimerEvents
  <2>3. ~(reliable /\ sent)
    <3>1. Head(fifo) = fifo[1] /\ 1 \in 1..Len(fifo)
      BY <2>1, ConsumedQueue DEF TypeOK
    <3> QED BY <2>1, <3>1 DEF TimerEStopped
  <2>4. PICK i \in SendResults :
          /\ timer_e_length' = IF i = "sent" /\ reliable THEN -1 ELSE NextLengthE
          /\ timer_e' = IF i = "sent" /\ reliable THEN Off ELSE Start(NextLengthE)
          /\ out' = IF i = "sent" THEN "REQUEST" ELSE "none"
          /\ sent' = (sent \/ i = "sent")
          /\ IF i = "error"
             THEN nict_handle_transport_error
             ELSE UNCHANGED <<state, told, kills>>
    BY <1>2 DEF osip_nict_timeout_e_event
  <2>5. timer_e_length' \in -1..T2 /\ timer_e' \in Nat \cup {Off}
    BY <1>b, <2>4, LengthE, NictAssumption DEF Off, Start
  <2>6. sent' \in BOOLEAN
    BY <1>b, <2>4, Zenon
  <2>7. TimerEStopped'
    BY <2>1, <2>2, <2>3, <2>4 DEF TimerEStopped
  <2>8. CASE nict_handle_transport_error
    <3>1. TypeOK'
      BY <2>1, <2>2, <2>4, <2>5, <2>6, <2>8, FailedSend DEF TypeOK
    <3> QED BY <2>1, <2>2, <2>7, <2>8, <3>1, FailedSend DEF IInv
  <2>9. CASE UNCHANGED <<state, told, kills>>
    <3>1. TypeOK'
      BY <2>1, <2>2, <2>4, <2>5, <2>6, <2>9 DEF TypeOK
    <3>2. BeforeSend' /\ VerdictByState'
      BY <2>1, <2>9 DEF BeforeSend, VerdictByState
    <3> QED BY <2>2, <2>7, <3>1, <3>2 DEF IInv
  <2> QED BY <2>4, <2>8, <2>9
<1>3. CASE osip_nict_timeout_f_event
  <2>1. /\ state \in {"NICT_TRYING", "NICT_PROCEEDING"} /\ state' = "NICT_TERMINATED"
        /\ fifo # <<>> /\ fifo' = Tail(fifo) /\ timer_f' = Off /\ out' = "none"
        /\ UNCHANGED <<reliable, timer_e_length, timer_e, timer_k, sent>>
    BY <1>3 DEF osip_nict_timeout_f_event, Consume, Terminate
  <2>2. told' = <<"TIMEOUT">> /\ kills' = 1
    <3>1. told = <<>> /\ kills = 0
      BY <2>1 DEF VerdictByState
    <3> QED BY <1>3, <3>1 DEF osip_nict_timeout_f_event, Terminate
  <2>3. told' \in Seq(Verdicts) /\ \E v \in Verdicts : told' = <<v>>
    <3>1. "TIMEOUT" \in Verdicts
      BY DEF Verdicts
    <3> QED BY <2>2, <3>1, SingletonSeq
  <2>4. fifo' \in Seq(Events) /\ OneTimerEvent' /\ TimerEStopped'
    BY <2>1, ConsumedTimers DEF TimerEStopped
  <2>5. TypeOK'
    BY <2>1, <2>2, <2>3, <2>4 DEF TypeOK, States, Off
  <2> QED BY <2>1, <2>2, <2>3, <2>4, <2>5 DEF IInv, BeforeSend, VerdictByState
<1>4. CASE osip_nict_timeout_k_event
  <2>1. /\ state = "NICT_COMPLETED" /\ state' = "NICT_TERMINATED"
        /\ fifo # <<>> /\ fifo' = Tail(fifo) /\ timer_k' = Off /\ out' = "none"
        /\ kills' = 1
        /\ UNCHANGED <<reliable, timer_e_length, timer_e, timer_f, sent, told>>
    BY <1>4 DEF osip_nict_timeout_k_event, Consume, Terminate, VerdictByState
  <2>2. fifo' \in Seq(Events) /\ OneTimerEvent' /\ TimerEStopped'
    BY <2>1, ConsumedTimers DEF TimerEStopped
  <2>3. TypeOK'
    BY <2>1, <2>2 DEF TypeOK, States, Off
  <2>4. BeforeSend' /\ VerdictByState'
    BY <2>1 DEF BeforeSend, VerdictByState, Verdicts
  <2> QED BY <2>2, <2>3, <2>4 DEF IInv
<1>5. CASE nict_rcv_1xx
  <2>1. /\ state \in {"NICT_TRYING", "NICT_PROCEEDING"} /\ state' = "NICT_PROCEEDING"
        /\ fifo # <<>> /\ fifo' = Tail(fifo) /\ out' = "none"
        /\ UNCHANGED <<reliable, timer_f, timer_k, sent, told, kills>>
    BY <1>5 DEF nict_rcv_1xx, Consume
  <2>2. /\ timer_e_length' \in -1..T2 /\ timer_e' \in Nat \cup {Off}
        /\ timer_e_length = -1 => UNCHANGED <<timer_e_length, timer_e>>
    BY <1>5, <1>b, NictAssumption DEF nict_rcv_1xx, TypeOK, Start
  <2>3. fifo' \in Seq(Events) /\ OneTimerEvent' /\ TimerEStopped'
    BY <2>1, <2>2, ConsumedTimers DEF TimerEStopped
  <2>4. TypeOK'
    BY <2>1, <2>2, <2>3 DEF TypeOK, States
  <2>5. BeforeSend' /\ VerdictByState'
    BY <2>1 DEF BeforeSend, VerdictByState
  <2> QED BY <2>3, <2>4, <2>5 DEF IInv
<1>6. CASE nict_rcv_23456xx
  <2>1. /\ state \in {"NICT_TRYING", "NICT_PROCEEDING"} /\ state' = "NICT_COMPLETED"
        /\ fifo # <<>> /\ fifo' = Tail(fifo) /\ out' = "none"
        /\ UNCHANGED <<reliable, timer_e_length, timer_e, timer_f, sent, kills>>
    BY <1>6 DEF nict_rcv_23456xx, Consume
  <2>2. told' \in {<<"2XX">>, <<"3456XX">>}
    <3>1. told = <<>>
      BY <2>1 DEF VerdictByState
    <3> QED BY <1>6, <3>1 DEF nict_rcv_23456xx
  <2>3. told' \in Seq(Verdicts)
    <3>1. "2XX" \in Verdicts /\ "3456XX" \in Verdicts
      BY DEF Verdicts
    <3>2. <<"2XX">> \in Seq(Verdicts) /\ <<"3456XX">> \in Seq(Verdicts)
      BY <3>1, SingletonSeq
    <3> QED BY <2>2, <3>2, Zenon
  <2>4. timer_k' \in Nat
    BY <1>6, NictAssumption DEF nict_rcv_23456xx, Start
  <2>5. fifo' \in Seq(Events) /\ OneTimerEvent' /\ TimerEStopped'
    BY <2>1, ConsumedTimers DEF TimerEStopped
  <2>6. TypeOK'
    BY <2>1, <2>3, <2>4, <2>5 DEF TypeOK, States
  <2>7. BeforeSend' /\ VerdictByState'
    BY <2>1, <2>2 DEF BeforeSend, VerdictByState
  <2> QED BY <2>5, <2>6, <2>7 DEF IInv
<1>7. CASE USELESS_event
  <2>1. /\ fifo # <<>> /\ fifo' = Tail(fifo) /\ out' = "none"
        /\ UNCHANGED <<reliable, state, timers, sent, told, kills>>
    BY <1>7 DEF USELESS_event
  <2>2. state # "NICT_PRE_TRYING"
    BY <1>7 DEF USELESS_event, BeforeSend, nict_transition
  <2>3. fifo' \in Seq(Events) /\ OneTimerEvent' /\ TimerEStopped'
    BY <2>1, ConsumedTimers DEF TimerEStopped, timers
  <2>4. TypeOK'
    BY <2>1, <2>3 DEF TypeOK, timers
  <2>5. BeforeSend' /\ VerdictByState'
    BY <2>1, <2>2 DEF BeforeSend, VerdictByState
  <2> QED BY <2>3, <2>4, <2>5 DEF IInv
<1>8. ASSUME NEW evt \in ResponseEvents, osip_find_transaction_and_add_event(evt)
      PROVE  IInv'
  <2>1. /\ sent /\ fifo' = Append(fifo, evt) /\ out' = "none"
        /\ UNCHANGED <<reliable, state, timers, sent, told, kills>>
    BY <1>8 DEF osip_find_transaction_and_add_event
  <2>2. evt \in Events /\ evt \notin TimerEvents /\ evt # "TIMEOUT_E"
    BY DEF Events, ResponseEvents, TimerEvents
  <2>3. fifo' \in Seq(Events) /\ OneTimerEvent' /\ TimerEStopped'
    BY <2>1, <2>2, AppendedTimers DEF TimerEStopped, timers
  <2>4. TypeOK'
    BY <2>1, <2>3 DEF TypeOK, timers
  <2>5. BeforeSend' /\ VerdictByState'
    BY <2>1 DEF BeforeSend, VerdictByState
  <2> QED BY <2>3, <2>4, <2>5 DEF IInv
<1>9. CASE osip_timers_nict_execute
  <2>1. /\ Drained /\ out' = "none" /\ state # "NICT_PRE_TRYING"
        /\ UNCHANGED <<reliable, state, timers, sent, told, kills>>
    BY <1>9 DEF osip_timers_nict_execute, need_timer_e_event, need_timer_f_event,
                need_timer_k_event
  <2>2. PICK evt \in TimerEvents : fifo' = Append(fifo, evt) /\ (evt = "TIMEOUT_E" => timer_e = 0)
    BY <1>9 DEF osip_timers_nict_execute, need_timer_e_event, TimerEvents, Due
  <2>3. evt \in Events
    BY DEF Events
  <2>4. fifo' \in Seq(Events) /\ OneTimerEvent'
    BY <2>1, <2>2, <2>3, AppendedTimers
  <2>5. TimerEStopped'
    <3>1. reliable /\ sent => evt # "TIMEOUT_E"
      BY <2>2 DEF TimerEStopped, Off
    <3> QED BY <2>1, <2>2, <2>3, <3>1, AppendedTimers DEF TimerEStopped, timers
  <2>6. TypeOK'
    BY <2>1, <2>4 DEF TypeOK, timers
  <2>7. BeforeSend' /\ VerdictByState'
    BY <2>1 DEF BeforeSend, VerdictByState
  <2> QED BY <2>4, <2>5, <2>6, <2>7 DEF IInv
<1>10. CASE Tick
  <2>1. /\ timer_e' \in Nat \cup {Off} /\ timer_f' \in Nat \cup {Off}
        /\ timer_k' \in Nat \cup {Off} /\ (timer_e = Off => timer_e' = Off)
    BY <1>10 DEF Tick, Elapse, Off, TypeOK
  <2>2. TypeOK'
    BY <1>10, <2>1 DEF Tick, TypeOK
  <2>3. OneTimerEvent' /\ BeforeSend' /\ TimerEStopped' /\ VerdictByState'
    BY <1>10, <2>1 DEF Tick, OneTimerEvent, BeforeSend, TimerEStopped, VerdictByState
  <2> QED BY <2>2, <2>3 DEF IInv
<1>11. CASE UNCHANGED vars
  BY <1>11 DEF vars, timers, IInv, TypeOK, OneTimerEvent, BeforeSend, TimerEStopped,
               VerdictByState
<1> QED
  BY <1>1, <1>2, <1>3, <1>4, <1>5, <1>6, <1>7, <1>8, <1>9, <1>10, <1>11
     DEF Next, osip_nict_execute

LEMMA Invariance == Spec => []IInv
BY InitIInv, NextIInv, PTL DEF Spec

(***************************************************************************)
(* Type correctness, and the length of timer E never over T2: it grows     *)
(* linearly below T1 and doubles above it, and is never doubled past the   *)
(* ceiling, for every T1, T2 and polling interval the code may be built    *)
(* with.                                                                   *)
(***************************************************************************)
THEOREM TypeCorrect == Spec => []TypeOK
<1>1. IInv => TypeOK
  BY DEF IInv
<1> QED BY Invariance, <1>1, PTL

\* The verdicts and the kill callback, state by state.
THEOREM Verdict == Spec => []VerdictByState
<1>1. IInv => VerdictByState
  BY DEF IInv
<1> QED BY Invariance, <1>1, PTL

(***************************************************************************)
(* A request that left over a reliable transport never leaves again,       *)
(* although timer E polls the connection while it is set up and its event  *)
(* may wait in the queue while the request is sent                         *)
(* (osip_nict_timeout_e_event, nict_snd_request).                          *)
(***************************************************************************)
THEOREM Quiet == Spec => QuietWhenReliable
<1>1. IInv /\ [Next]_vars => [reliable /\ sent => out' # "REQUEST"]_vars
  <2> SUFFICES ASSUME IInv, Next, reliable, sent PROVE out' # "REQUEST"
    OBVIOUS
  <2>a. TypeOK /\ BeforeSend /\ TimerEStopped
    BY DEF IInv
  <2>1. ~nict_snd_request
    BY <2>a DEF nict_snd_request, BeforeSend
  <2>2. ~osip_nict_timeout_e_event
    <3>1. fifo # <<>> => Head(fifo) = fifo[1] /\ 1 \in 1..Len(fifo)
      BY <2>a, ConsumedQueue DEF TypeOK
    <3> QED BY <2>a, <3>1 DEF osip_nict_timeout_e_event, Consume, TimerEStopped
  <2> QED
    BY <2>1, <2>2
       DEF Next, osip_nict_execute, osip_nict_timeout_f_event, osip_nict_timeout_k_event,
           nict_rcv_1xx, nict_rcv_23456xx, USELESS_event, osip_timers_nict_execute, Tick,
           osip_find_transaction_and_add_event
<1> QED BY Invariance, <1>1, PTL DEF Spec, QuietWhenReliable

-----------------------------------------------------------------------------
(***************************************************************************)
(* The refinement.                                                         *)
(***************************************************************************)
LEMMA PhaseOf ==
    ASSUME TypeOK
    PROVE  /\ state \in {"NICT_PRE_TRYING", "NICT_TRYING", "NICT_PROCEEDING"}
                 <=> phase = "waiting"
           /\ state = "NICT_COMPLETED" <=> phase = "answered"
           /\ state = "NICT_TERMINATED" <=> phase = "dead"
BY DEF TypeOK, States, phase

\* A step that keeps the phase and the verdicts and sends nothing.
LEMMA QuietStep ==
    ASSUME TypeOK, phase' = phase, told' = told, out' = "none"
    PROVE  Client!Next
<1>1. phase \in {"waiting", "answered", "dead"}
  BY PhaseOf DEF TypeOK, States
<1> QED BY <1>1 DEF Client!Next, Client!Wait, Client!Linger, Client!Rest

\* Every step, one action at a time.
LEMMA NextClient == IInv /\ [Next]_vars => [Client!Next]_(Client!vars)
<1> SUFFICES ASSUME IInv, [Next]_vars PROVE [Client!Next]_(Client!vars)
  OBVIOUS
<1>a. TypeOK /\ VerdictByState
  BY DEF IInv
<1>b. /\ state \in {"NICT_PRE_TRYING", "NICT_TRYING", "NICT_PROCEEDING"}
            <=> phase = "waiting"
      /\ state = "NICT_COMPLETED" <=> phase = "answered"
  BY <1>a, PhaseOf
<1>c. /\ state' \in {"NICT_PRE_TRYING", "NICT_TRYING", "NICT_PROCEEDING"} => phase' = "waiting"
      /\ state' = "NICT_COMPLETED" => phase' = "answered"
      /\ state' = "NICT_TERMINATED" => phase' = "dead"
  BY DEF phase
<1>d. phase = "waiting" => told = <<>>
  BY <1>a, <1>b DEF VerdictByState
<1>e. told = <<>> => /\ Append(told, "TRANSPORT_ERROR") = <<"TRANSPORT_ERROR">>
                     /\ Append(told, "TIMEOUT") = <<"TIMEOUT">>
                     /\ Append(told, "2XX") = <<"2XX">>
                     /\ Append(told, "3456XX") = <<"3456XX">>
  OBVIOUS
<1>f. ASSUME nict_handle_transport_error, phase = "waiting", out' = "none" PROVE Client!Next
  <2>1. phase' = "dead" /\ told' = <<"TRANSPORT_ERROR">>
    BY <1>c, <1>d, <1>e, <1>f DEF nict_handle_transport_error, Terminate
  <2> QED BY <1>f, <2>1 DEF Client!Next, Client!Fail
<1>1. CASE nict_snd_request
  <2>1. phase = "waiting"
    BY <1>1, <1>b DEF nict_snd_request
  <2>2. \/ phase' = "waiting" /\ told' = told /\ out' \in {"none", "REQUEST"}
        \/ nict_handle_transport_error /\ out' = "none"
    BY <1>1, <1>c DEF nict_snd_request
  <2> QED BY <1>f, <2>1, <2>2 DEF Client!Next, Client!Wait
<1>2. CASE osip_nict_timeout_e_event
  <2>1. phase = "waiting"
    BY <1>2, <1>b DEF osip_nict_timeout_e_event
  <2>2. \/ state' = state /\ told' = told /\ out' \in {"none", "REQUEST"}
        \/ nict_handle_transport_error /\ out' = "none"
    BY <1>2 DEF osip_nict_timeout_e_event
  <2>3. state' = state => phase' = "waiting"
    BY <1>b, <1>c, <2>1
  <2> QED BY <1>f, <2>1, <2>2, <2>3 DEF Client!Next, Client!Wait
<1>3. CASE osip_nict_timeout_f_event
  <2>1. phase = "waiting" /\ phase' = "dead" /\ told' = <<"TIMEOUT">> /\ out' = "none"
    BY <1>3, <1>b, <1>c, <1>d, <1>e DEF osip_nict_timeout_f_event, Terminate
  <2> QED BY <2>1 DEF Client!Next, Client!Fail
<1>4. CASE osip_nict_timeout_k_event
  <2>1. phase = "answered" /\ phase' = "dead" /\ told' = told /\ out' = "none"
    BY <1>4, <1>b, <1>c DEF osip_nict_timeout_k_event, Terminate
  <2> QED BY <2>1 DEF Client!Next, Client!End
<1>5. CASE nict_rcv_1xx
  <2>1. phase = "waiting" /\ phase' = "waiting" /\ told' = told /\ out' = "none"
    BY <1>5, <1>b, <1>c DEF nict_rcv_1xx
  <2> QED BY <2>1 DEF Client!Next, Client!Wait
<1>6. CASE nict_rcv_23456xx
  <2>1. /\ phase = "waiting" /\ phase' = "answered" /\ out' = "none"
        /\ told' \in {<<"2XX">>, <<"3456XX">>}
    BY <1>6, <1>b, <1>c, <1>d, <1>e DEF nict_rcv_23456xx
  <2> QED BY <2>1 DEF Client!Next, Client!Answer
<1>7. ASSUME \/ USELESS_event \/ osip_timers_nict_execute \/ Tick
             \/ \E evt \in ResponseEvents : osip_find_transaction_and_add_event(evt)
      PROVE  Client!Next
  <2>1. state' = state /\ told' = told /\ out' = "none"
    BY <1>7 DEF USELESS_event, osip_timers_nict_execute, Tick,
                osip_find_transaction_and_add_event
  <2>2. phase' = phase
    BY <2>1 DEF phase
  <2> QED BY <1>a, <2>1, <2>2, QuietStep
<1>8. CASE UNCHANGED vars
  BY <1>8 DEF vars, Client!vars, phase
<1> QED
  BY <1>1, <1>2, <1>3, <1>4, <1>5, <1>6, <1>7, <1>8 DEF Next, osip_nict_execute

(***************************************************************************)
(* The non-INVITE client transaction implements the abstract client        *)
(* transaction: one verdict, and no request after it, however late a       *)
(* timeout E is consumed.                                                  *)
(***************************************************************************)
THEOREM Refinement == Spec => ClientSpec
<1>1. Init => Client!Init
  BY DEF Init, Client!Init, phase
<1> QED BY Invariance, NextClient, <1>1, PTL DEF Spec, ClientSpec, Client!Spec

=============================================================================
