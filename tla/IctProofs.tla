----------------------------- MODULE IctProofs -----------------------------
(***************************************************************************)
(* Proofs about the INVITE client transaction, for all timer values and    *)
(* queue bounds.                                                           *)
(*                                                                         *)
(* None of the invariants is inductive alone.  Even the type of            *)
(* timer_a_length rests on the freshness of the event at the head of the   *)
(* queue: a TIMEOUT_A consumed after timer A was stopped would double -1.  *)
(***************************************************************************)
EXTENDS Ict, TLAPS

\* Only the head of the queue may be a timer event.
OnlyHeadIsTimer ==
    \A i \in 1..Len(fifo) : fifo[i] \in TimerEvents => i = 1

\* A timer event at the head is the one of a timer that is due in this state.
HeadIsFresh ==
    fifo # <<>> =>
        /\ Head(fifo) = "TIMEOUT_A" => state = "ICT_CALLING" /\ timer_a = 0
        /\ Head(fifo) = "TIMEOUT_B" => state = "ICT_CALLING" /\ timer_b = 0
        /\ Head(fifo) = "TIMEOUT_D" => state = "ICT_COMPLETED" /\ timer_d = 0

\* Timer A runs only with a positive length.
RunningHasLength == timer_a # Off => timer_a_length \in Nat \ {0}

\* What the application was told and the kill count, state by state.
VerdictByState ==
    /\ state \in {"ICT_PRE_CALLING", "ICT_CALLING", "ICT_PROCEEDING"}
          => told = <<>> /\ kills = 0
    /\ state = "ICT_COMPLETED" => told = <<"3456XX">> /\ kills = 0
    /\ state = "ICT_TERMINATED" =>
          /\ kills = 1
          /\ \/ told = <<>> /\ last_response = "3456XX"
             \/ \E v \in Verdicts : told = <<v>>
             \/ told = <<"3456XX", "TRANSPORT_ERROR">>

IInv == TypeOK /\ OnlyHeadIsTimer /\ HeadIsFresh /\ RunningHasLength /\ VerdictByState

-----------------------------------------------------------------------------
(***************************************************************************)
(* The queue operations, as facts about sequences of events.               *)
(***************************************************************************)

\* A queue, or a history of verdicts, of one element.
LEMMA SingletonSeq == ASSUME NEW S, NEW e \in S PROVE <<e>> \in Seq(S)
OBVIOUS

\* Consuming the head leaves a queue without timer events.
LEMMA ConsumedTail ==
    ASSUME TypeOK, OnlyHeadIsTimer, fifo # <<>>, fifo' = Tail(fifo)
    PROVE  /\ Head(fifo) \in Events
           /\ fifo' \in Seq(Events)
           /\ \A i \in 1..Len(fifo') : fifo'[i] \notin TimerEvents
<1>1. fifo \in Seq(Events) /\ Len(fifo) \in Nat /\ Len(fifo) >= 1
  BY DEF TypeOK
<1>2. Head(fifo) = fifo[1] /\ fifo[1] \in Events
  BY <1>1
<1>3. fifo' \in Seq(Events) /\ Len(fifo') = Len(fifo) - 1
  BY <1>1
<1>4. ASSUME NEW i \in 1..Len(fifo') PROVE fifo'[i] \notin TimerEvents
  <2>1. i + 1 \in 1..Len(fifo) /\ fifo'[i] = fifo[i + 1] /\ i + 1 # 1
    BY <1>1, <1>3, <1>4
  <2> QED BY <2>1 DEF OnlyHeadIsTimer
<1> QED BY <1>2, <1>3, <1>4

(***************************************************************************)
(* A step that consumes the head of the queue re-establishes the two       *)
(* conditions on timer events, whatever it does to the timers.             *)
(***************************************************************************)
LEMMA ConsumedQueue ==
    ASSUME TypeOK, OnlyHeadIsTimer, fifo # <<>>, fifo' = Tail(fifo)
    PROVE  fifo' \in Seq(Events) /\ OnlyHeadIsTimer' /\ HeadIsFresh'
<1>1. fifo' \in Seq(Events) /\ \A i \in 1..Len(fifo') : fifo'[i] \notin TimerEvents
  BY ConsumedTail
<1>2. OnlyHeadIsTimer'
  BY <1>1 DEF OnlyHeadIsTimer
<1>3. HeadIsFresh'
  <2>1. CASE fifo' = <<>>
    BY <2>1 DEF HeadIsFresh
  <2>2. CASE fifo' # <<>>
    <3>1. Head(fifo') = fifo'[1] /\ 1 \in 1..Len(fifo')
      BY <1>1, <2>2
    <3>2. Head(fifo') \notin TimerEvents
      BY <1>1, <3>1
    <3> QED BY <3>2 DEF HeadIsFresh, TimerEvents
  <2> QED BY <2>1, <2>2
<1> QED BY <1>1, <1>2, <1>3

\* Initially the queue holds the outgoing INVITE, and timers A and B run.
LEMMA InitIInv == Init => IInv
<1> SUFFICES ASSUME Init PROVE IInv
  OBVIOUS
<1> USE IctAssumption DEF Init, Start, Off
<1>1. TimeoutFactor * T1 \in Nat
  OBVIOUS
<1>2. TypeOK
  <2>1. reliable \in BOOLEAN /\ sent \in BOOLEAN
    BY Zenon
  <2>2. "SND_REQINVITE" \in Events
    BY DEF Events
  <2>3. fifo \in Seq(Events) /\ told \in Seq(Verdicts)
    BY <2>2
  <2>4. /\ timer_a_length \in Nat \cup {-1} /\ timer_a \in Nat \cup {Off}
        /\ timer_b \in Nat \cup {Off} /\ timer_d \in Nat \cup {Off} /\ kills \in Nat
    BY <1>1
  <2>5. /\ state \in States
        /\ last_response \in {"none", "1XX", "2XX", "3456XX"}
        /\ out \in {"none", "INVITE", "ACK"}
    BY DEF States
  <2> QED BY <2>1, <2>3, <2>4, <2>5, Zenon DEF TypeOK
<1>3. OnlyHeadIsTimer /\ HeadIsFresh
  BY DEF OnlyHeadIsTimer, HeadIsFresh, TimerEvents
<1>4. RunningHasLength /\ VerdictByState
  BY DEF RunningHasLength, VerdictByState
<1> QED BY <1>2, <1>3, <1>4 DEF IInv

\* Every step preserves the inductive invariant.
LEMMA NextIInv == IInv /\ [Next]_vars => IInv'
<1> SUFFICES ASSUME IInv, [Next]_vars PROVE IInv'
  OBVIOUS
<1>a. TypeOK /\ OnlyHeadIsTimer /\ HeadIsFresh /\ RunningHasLength /\ VerdictByState
  BY DEF IInv
<1> USE <1>a, IctAssumption
<1>1. CASE ict_snd_invite
  <2> USE <1>1 DEF ict_snd_invite
  <2>1. fifo' \in Seq(Events) /\ OnlyHeadIsTimer' /\ HeadIsFresh'
    BY ConsumedQueue DEF Consume
  <2>2. reliable' \in BOOLEAN /\ sent' \in BOOLEAN
    BY Zenon DEF TypeOK
  <2>3. /\ timer_a_length' \in Nat \cup {-1} /\ timer_a' \in Nat \cup {Off}
        /\ timer_b' \in Nat \cup {Off} /\ timer_d' \in Nat \cup {Off} /\ kills' \in Nat
        /\ RunningHasLength'
    BY DEF TypeOK, Terminate, RunningHasLength, Off, Start, StopAIfReliable, ict_handle_transport_error
  <2>4. told' \in Seq(Verdicts)
    BY DEF TypeOK, Verdicts, StopAIfReliable, ict_handle_transport_error
  <2>5. /\ state' \in States
        /\ last_response' \in {"none", "1XX", "2XX", "3456XX"}
        /\ out' \in {"none", "INVITE", "ACK"}
    BY DEF TypeOK, States, Terminate, StopAIfReliable, ict_handle_transport_error
  <2>6. VerdictByState'
    BY DEF VerdictByState, Verdicts, Terminate, StopAIfReliable, ict_handle_transport_error
  <2>7. TypeOK'
    BY <2>1, <2>2, <2>3, <2>4, <2>5, Zenon DEF TypeOK
  <2> QED BY <2>1, <2>3, <2>6, <2>7 DEF IInv
<1>2. CASE osip_ict_timeout_a_event
  <2> USE <1>2 DEF osip_ict_timeout_a_event
  <2>a. timer_a_length \in Nat \ {0}
    BY DEF Consume, HeadIsFresh, RunningHasLength, Off
  <2>1. fifo' \in Seq(Events) /\ OnlyHeadIsTimer' /\ HeadIsFresh'
    BY ConsumedQueue DEF Consume
  <2>2. reliable' \in BOOLEAN /\ sent' \in BOOLEAN
    BY Zenon DEF TypeOK
  <2>3. /\ timer_a_length' \in Nat \cup {-1} /\ timer_a' \in Nat \cup {Off}
        /\ timer_b' \in Nat \cup {Off} /\ timer_d' \in Nat \cup {Off} /\ kills' \in Nat
        /\ RunningHasLength'
    BY <2>a DEF TypeOK, Terminate, RunningHasLength, Off, Start, ict_handle_transport_error
  <2>4. told' \in Seq(Verdicts)
    BY DEF TypeOK, Verdicts, ict_handle_transport_error
  <2>5. /\ state' \in States
        /\ last_response' \in {"none", "1XX", "2XX", "3456XX"}
        /\ out' \in {"none", "INVITE", "ACK"}
    BY DEF TypeOK, States, Terminate, ict_handle_transport_error
  <2>6. VerdictByState'
    BY DEF VerdictByState, Verdicts, Terminate, ict_handle_transport_error
  <2>7. TypeOK'
    BY <2>1, <2>2, <2>3, <2>4, <2>5, Zenon DEF TypeOK
  <2> QED BY <2>1, <2>3, <2>6, <2>7 DEF IInv
<1>3. CASE osip_ict_timeout_b_event
  <2> USE <1>3 DEF osip_ict_timeout_b_event
  <2>1. fifo' \in Seq(Events) /\ OnlyHeadIsTimer' /\ HeadIsFresh'
    BY ConsumedQueue DEF Consume
  <2>2. reliable' \in BOOLEAN /\ sent' \in BOOLEAN
    BY Zenon DEF TypeOK
  <2>3. /\ timer_a_length' \in Nat \cup {-1} /\ timer_a' \in Nat \cup {Off}
        /\ timer_b' \in Nat \cup {Off} /\ timer_d' \in Nat \cup {Off} /\ kills' \in Nat
        /\ RunningHasLength'
    BY DEF TypeOK, Terminate, RunningHasLength, Off, Start
  <2>4. told' \in Seq(Verdicts)
    BY DEF TypeOK, Verdicts
  <2>5. /\ state' \in States
        /\ last_response' \in {"none", "1XX", "2XX", "3456XX"}
        /\ out' \in {"none", "INVITE", "ACK"}
    BY DEF TypeOK, States, Terminate
  <2>6. VerdictByState'
    BY DEF VerdictByState, Verdicts, Terminate
  <2>7. TypeOK'
    BY <2>1, <2>2, <2>3, <2>4, <2>5, Zenon DEF TypeOK
  <2> QED BY <2>1, <2>3, <2>6, <2>7 DEF IInv
<1>4. CASE ict_rcv_1xx
  <2> USE <1>4 DEF ict_rcv_1xx
  <2>1. fifo' \in Seq(Events) /\ OnlyHeadIsTimer' /\ HeadIsFresh'
    BY ConsumedQueue DEF Consume
  <2>2. reliable' \in BOOLEAN /\ sent' \in BOOLEAN
    BY Zenon DEF TypeOK
  <2>3. /\ timer_a_length' \in Nat \cup {-1} /\ timer_a' \in Nat \cup {Off}
        /\ timer_b' \in Nat \cup {Off} /\ timer_d' \in Nat \cup {Off} /\ kills' \in Nat
        /\ RunningHasLength'
    BY DEF TypeOK, Terminate, RunningHasLength, Off, Start, timers
  <2>4. told' \in Seq(Verdicts)
    BY DEF TypeOK, Verdicts, timers
  <2>5. /\ state' \in States
        /\ last_response' \in {"none", "1XX", "2XX", "3456XX"}
        /\ out' \in {"none", "INVITE", "ACK"}
    BY DEF TypeOK, States, Terminate, timers
  <2>6. VerdictByState'
    BY DEF VerdictByState, Verdicts, Terminate, timers
  <2>7. TypeOK'
    BY <2>1, <2>2, <2>3, <2>4, <2>5, Zenon DEF TypeOK
  <2> QED BY <2>1, <2>3, <2>6, <2>7 DEF IInv
<1>5. CASE ict_rcv_2xx
  <2> USE <1>5 DEF ict_rcv_2xx
  <2>a. told = <<>> /\ kills = 0
    BY DEF VerdictByState
  <2>b. told' = <<"2XX">>
    BY <2>a
  <2>1. fifo' \in Seq(Events) /\ OnlyHeadIsTimer' /\ HeadIsFresh'
    BY ConsumedQueue DEF Consume
  <2>2. reliable' \in BOOLEAN /\ sent' \in BOOLEAN
    BY Zenon DEF TypeOK
  <2>3. /\ timer_a_length' \in Nat \cup {-1} /\ timer_a' \in Nat \cup {Off}
        /\ timer_b' \in Nat \cup {Off} /\ timer_d' \in Nat \cup {Off} /\ kills' \in Nat
        /\ RunningHasLength'
    BY DEF TypeOK, Terminate, RunningHasLength, Off, Start, timers
  <2>4. told' \in Seq(Verdicts)
    BY DEF TypeOK, Verdicts, timers
  <2>5. /\ state' \in States
        /\ last_response' \in {"none", "1XX", "2XX", "3456XX"}
        /\ out' \in {"none", "INVITE", "ACK"}
    BY DEF TypeOK, States, Terminate, timers
  <2>6. VerdictByState'
    BY <2>a, <2>b DEF VerdictByState, Verdicts, Terminate
  <2>7. TypeOK'
    BY <2>1, <2>2, <2>3, <2>4, <2>5, Zenon DEF TypeOK
  <2> QED BY <2>1, <2>3, <2>6, <2>7 DEF IInv
<1>6. CASE ict_rcv_3456xx
  <2> USE <1>6 DEF ict_rcv_3456xx
  <2>a. told = <<>> /\ kills = 0
    BY DEF VerdictByState
  <2>b. \/ told' = <<"3456XX">> /\ state' = "ICT_COMPLETED" /\ kills' = 0
        \/ told' = <<"TRANSPORT_ERROR">> /\ state' = "ICT_TERMINATED" /\ kills' = 1
        \/ told' = <<>> /\ state' = "ICT_TERMINATED" /\ kills' = 1
    BY <2>a DEF ict_handle_transport_error, Terminate
  <2>1. fifo' \in Seq(Events) /\ OnlyHeadIsTimer' /\ HeadIsFresh'
    BY ConsumedQueue DEF Consume
  <2>2. reliable' \in BOOLEAN /\ sent' \in BOOLEAN
    BY Zenon DEF TypeOK
  <2>3. /\ timer_a_length' \in Nat \cup {-1} /\ timer_a' \in Nat \cup {Off}
        /\ timer_b' \in Nat \cup {Off} /\ timer_d' \in Nat \cup {Off} /\ kills' \in Nat
        /\ RunningHasLength'
    BY DEF TypeOK, Terminate, RunningHasLength, Off, Start, ict_handle_transport_error
  <2>4. told' \in Seq(Verdicts)
    <3>1. "3456XX" \in Verdicts /\ "TRANSPORT_ERROR" \in Verdicts
      BY DEF Verdicts
    <3>2. <<"3456XX">> \in Seq(Verdicts) /\ <<"TRANSPORT_ERROR">> \in Seq(Verdicts)
      BY <3>1, SingletonSeq
    <3>3. <<>> \in Seq(Verdicts)
      OBVIOUS
    <3> QED BY <2>b, <3>2, <3>3, Zenon
  <2>5. /\ state' \in States
        /\ last_response' \in {"none", "1XX", "2XX", "3456XX"}
        /\ out' \in {"none", "INVITE", "ACK"}
    BY DEF TypeOK, States, Terminate, ict_handle_transport_error
  <2>6. VerdictByState'
    BY <2>b DEF VerdictByState, Verdicts
  <2>7. TypeOK'
    BY <2>1, <2>2, <2>3, <2>4, <2>5, Zenon DEF TypeOK
  <2> QED BY <2>1, <2>3, <2>6, <2>7 DEF IInv
<1>7. CASE osip_ict_timeout_d_event
  <2> USE <1>7 DEF osip_ict_timeout_d_event
  <2>1. fifo' \in Seq(Events) /\ OnlyHeadIsTimer' /\ HeadIsFresh'
    BY ConsumedQueue DEF Consume
  <2>2. reliable' \in BOOLEAN /\ sent' \in BOOLEAN
    BY Zenon DEF TypeOK
  <2>3. /\ timer_a_length' \in Nat \cup {-1} /\ timer_a' \in Nat \cup {Off}
        /\ timer_b' \in Nat \cup {Off} /\ timer_d' \in Nat \cup {Off} /\ kills' \in Nat
        /\ RunningHasLength'
    BY DEF TypeOK, Terminate, RunningHasLength, Off, Start
  <2>4. told' \in Seq(Verdicts)
    BY DEF TypeOK, Verdicts
  <2>5. /\ state' \in States
        /\ last_response' \in {"none", "1XX", "2XX", "3456XX"}
        /\ out' \in {"none", "INVITE", "ACK"}
    BY DEF TypeOK, States, Terminate
  <2>6. VerdictByState'
    BY DEF VerdictByState, Verdicts, Terminate
  <2>7. TypeOK'
    BY <2>1, <2>2, <2>3, <2>4, <2>5, Zenon DEF TypeOK
  <2> QED BY <2>1, <2>3, <2>6, <2>7 DEF IInv
<1>8. CASE ict_retransmit_ack
  <2> USE <1>8 DEF ict_retransmit_ack
  <2>a. told = <<"3456XX">> /\ kills = 0
    BY DEF VerdictByState
  <2>b. \/ told' = told /\ state' = "ICT_COMPLETED" /\ kills' = 0
        \/ /\ told' = <<"3456XX", "TRANSPORT_ERROR">>
           /\ state' = "ICT_TERMINATED" /\ kills' = 1
    BY <2>a DEF ict_handle_transport_error, Terminate
  <2>1. fifo' \in Seq(Events) /\ OnlyHeadIsTimer' /\ HeadIsFresh'
    BY ConsumedQueue DEF Consume
  <2>2. reliable' \in BOOLEAN /\ sent' \in BOOLEAN
    BY Zenon DEF TypeOK
  <2>3. /\ timer_a_length' \in Nat \cup {-1} /\ timer_a' \in Nat \cup {Off}
        /\ timer_b' \in Nat \cup {Off} /\ timer_d' \in Nat \cup {Off} /\ kills' \in Nat
        /\ RunningHasLength'
    BY DEF TypeOK, Terminate, RunningHasLength, Off, Start, ict_handle_transport_error, timers
  <2>4. told' \in Seq(Verdicts)
    BY DEF TypeOK, Verdicts, ict_handle_transport_error, timers
  <2>5. /\ state' \in States
        /\ last_response' \in {"none", "1XX", "2XX", "3456XX"}
        /\ out' \in {"none", "INVITE", "ACK"}
    BY DEF TypeOK, States, Terminate, ict_handle_transport_error, timers
  <2>6. VerdictByState'
    BY <2>a, <2>b DEF VerdictByState, Verdicts
  <2>7. TypeOK'
    BY <2>1, <2>2, <2>3, <2>4, <2>5, Zenon DEF TypeOK
  <2> QED BY <2>1, <2>3, <2>6, <2>7 DEF IInv
<1>9. CASE USELESS_event
  <2> USE <1>9 DEF USELESS_event
  <2>1. fifo' \in Seq(Events) /\ OnlyHeadIsTimer' /\ HeadIsFresh'
    BY ConsumedQueue DEF Consume
  <2>2. reliable' \in BOOLEAN /\ sent' \in BOOLEAN
    BY Zenon DEF TypeOK
  <2>3. /\ timer_a_length' \in Nat \cup {-1} /\ timer_a' \in Nat \cup {Off}
        /\ timer_b' \in Nat \cup {Off} /\ timer_d' \in Nat \cup {Off} /\ kills' \in Nat
        /\ RunningHasLength'
    BY DEF TypeOK, Terminate, RunningHasLength, Off, Start, timers
  <2>4. told' \in Seq(Verdicts)
    BY DEF TypeOK, Verdicts, timers
  <2>5. /\ state' \in States
        /\ last_response' \in {"none", "1XX", "2XX", "3456XX"}
        /\ out' \in {"none", "INVITE", "ACK"}
    BY DEF TypeOK, States, Terminate, timers
  <2>6. VerdictByState'
    BY DEF VerdictByState, Verdicts, Terminate, timers
  <2>7. TypeOK'
    BY <2>1, <2>2, <2>3, <2>4, <2>5, Zenon DEF TypeOK
  <2> QED BY <2>1, <2>3, <2>6, <2>7 DEF IInv
<1>10. ASSUME NEW evt \in ResponseEvents, osip_find_transaction_and_add_event(evt)
       PROVE  IInv'
  <2> USE <1>10 DEF osip_find_transaction_and_add_event, timers
  <2>1. fifo \in Seq(Events) /\ evt \in Events /\ evt \notin TimerEvents
    BY DEF TypeOK, Events, ResponseEvents, TimerEvents
  <2>2. /\ fifo' \in Seq(Events) /\ Len(fifo') = Len(fifo) + 1 /\ Len(fifo) \in Nat
        /\ fifo'[Len(fifo) + 1] = evt
        /\ \A i \in 1..Len(fifo) : fifo'[i] = fifo[i]
    BY <2>1
  <2>3. OnlyHeadIsTimer'
    BY <2>1, <2>2 DEF OnlyHeadIsTimer
  <2>4. HeadIsFresh'
    <3>1. CASE fifo = <<>>
      <4>1. Head(fifo') = evt
        BY <2>1, <3>1
      <4> QED BY <2>1, <4>1 DEF HeadIsFresh, TimerEvents
    <3>2. CASE fifo # <<>>
      <4>1. Head(fifo') = Head(fifo) /\ fifo' # <<>>
        BY <2>1, <2>2, <3>2
      <4> QED BY <3>2, <4>1 DEF HeadIsFresh
    <3> QED BY <3>1, <3>2
  <2>5. TypeOK'
    <3>1. out' \in {"none", "INVITE", "ACK"}
      OBVIOUS
    <3> QED BY <2>2, <3>1, Zenon DEF TypeOK
  <2>6. RunningHasLength' /\ VerdictByState'
    BY DEF RunningHasLength, VerdictByState
  <2> QED BY <2>3, <2>4, <2>5, <2>6 DEF IInv
<1>11. CASE osip_timers_ict_execute
  <2> USE <1>11 DEF osip_timers_ict_execute, timers
  <2>1. \/ fifo' = <<"TIMEOUT_A">> /\ state = "ICT_CALLING" /\ timer_a = 0
        \/ fifo' = <<"TIMEOUT_B">> /\ state = "ICT_CALLING" /\ timer_b = 0
        \/ fifo' = <<"TIMEOUT_D">> /\ state = "ICT_COMPLETED" /\ timer_d = 0
    BY DEF need_timer_a_event, need_timer_b_event, need_timer_d_event, Due
  <2>2. fifo' \in Seq(Events)
    <3>1. "TIMEOUT_A" \in Events /\ "TIMEOUT_B" \in Events /\ "TIMEOUT_D" \in Events
      BY DEF Events, TimerEvents
    <3>2. /\ <<"TIMEOUT_A">> \in Seq(Events) /\ <<"TIMEOUT_B">> \in Seq(Events)
          /\ <<"TIMEOUT_D">> \in Seq(Events)
      BY <3>1, SingletonSeq
    <3> QED BY <2>1, <3>2, Zenon
  <2>3. OnlyHeadIsTimer' /\ HeadIsFresh'
    BY <2>1 DEF OnlyHeadIsTimer, HeadIsFresh
  <2>4. TypeOK'
    <3>1. out' \in {"none", "INVITE", "ACK"}
      OBVIOUS
    <3> QED BY <2>2, <3>1, Zenon DEF TypeOK
  <2>5. RunningHasLength' /\ VerdictByState'
    BY DEF RunningHasLength, VerdictByState
  <2> QED BY <2>3, <2>4, <2>5 DEF IInv
<1>12. CASE Tick
  <2> USE <1>12 DEF Tick
  <2>1. /\ timer_a' \in Nat \cup {Off} /\ timer_b' \in Nat \cup {Off}
        /\ timer_d' \in Nat \cup {Off}
        /\ timer_a = 0 => timer_a' = 0
        /\ timer_b = 0 => timer_b' = 0
        /\ timer_d = 0 => timer_d' = 0
        /\ timer_a' # Off => timer_a # Off
    BY DEF TypeOK, Elapse, Off
  <2>2. TypeOK'
    <3>1. out' \in {"none", "INVITE", "ACK"}
      OBVIOUS
    <3> QED BY <2>1, <3>1, Zenon DEF TypeOK
  <2>3. OnlyHeadIsTimer' /\ HeadIsFresh'
    BY <2>1 DEF OnlyHeadIsTimer, HeadIsFresh
  <2>4. RunningHasLength' /\ VerdictByState'
    BY <2>1 DEF RunningHasLength, VerdictByState
  <2> QED BY <2>2, <2>3, <2>4 DEF IInv
<1>13. CASE UNCHANGED vars
  <2> USE <1>13 DEF vars, timers
  <2>1. TypeOK'
    BY Zenon DEF TypeOK
  <2>2. OnlyHeadIsTimer' /\ HeadIsFresh'
    BY DEF OnlyHeadIsTimer, HeadIsFresh
  <2>3. RunningHasLength' /\ VerdictByState'
    BY DEF RunningHasLength, VerdictByState
  <2> QED BY <2>1, <2>2, <2>3 DEF IInv
<1> QED
  BY <1>1, <1>2, <1>3, <1>4, <1>5, <1>6, <1>7, <1>8, <1>9, <1>10, <1>11, <1>12, <1>13
     DEF Next, osip_ict_execute

(***************************************************************************)
(* The inductive invariant holds in every reachable state.                 *)
(***************************************************************************)
THEOREM Invariance == Spec => []IInv
<1>1. Init => IInv
  BY InitIInv
<1>2. IInv /\ [Next]_vars => IInv'
  BY NextIInv
<1> QED BY <1>1, <1>2, PTL DEF Spec

(***************************************************************************)
(* Type correctness of the INVITE client transaction: in particular timer  *)
(* A is never doubled by osip_ict_timeout_a_event once it was cleared.     *)
(***************************************************************************)
THEOREM TypeCorrect == Spec => []TypeOK
<1>1. IInv => TypeOK
  BY DEF IInv
<1> QED BY Invariance, <1>1, PTL

(***************************************************************************)
(* No stale timeout: the pending check of osip_timers_ict_execute keeps    *)
(* every timer event fresh until osip_ict_execute consumes it.             *)
(***************************************************************************)
THEOREM Freshness == Spec => []TimerEventIsFresh
<1>1. IInv => TimerEventIsFresh
  <2> SUFFICES ASSUME IInv, NEW i \in 1..Len(fifo), fifo[i] \in TimerEvents
               PROVE  /\ i = 1
                      /\ fifo[i] = "TIMEOUT_A" => state = "ICT_CALLING" /\ timer_a = 0
                      /\ fifo[i] = "TIMEOUT_B" => state = "ICT_CALLING" /\ timer_b = 0
                      /\ fifo[i] = "TIMEOUT_D" => state = "ICT_COMPLETED" /\ timer_d = 0
    BY DEF TimerEventIsFresh
  <2>1. i = 1
    BY DEF IInv, OnlyHeadIsTimer
  <2>2. fifo # <<>> /\ Head(fifo) = fifo[i]
    BY <2>1 DEF IInv, TypeOK
  <2> QED BY <2>1, <2>2 DEF IInv, HeadIsFresh
<1> QED BY Invariance, <1>1, PTL

(***************************************************************************)
(* One verdict and one kill, whatever order events and timeouts come in    *)
(* and whatever the transport answers.                                     *)
(***************************************************************************)
THEOREM Verdict == Spec => []OneVerdict
<1>1. IInv => OneVerdict
  BY DEF IInv, TypeOK, VerdictByState, OneVerdict, States, Verdicts
<1> QED BY Invariance, <1>1, PTL

-----------------------------------------------------------------------------
(***************************************************************************)
(* The delay between two INVITEs.  While timer B runs, the time it has     *)
(* already run is at least what the doublings of timer A took so far, plus *)
(* what timer A has run since.  The margin matters: a TIMEOUT_A queued     *)
(* just before timer B falls due is still consumed after it.               *)
(***************************************************************************)
LengthB == TimeoutFactor * T1

BackoffInv ==
    /\ timer_a_length <= LengthB + T1
    /\ timer_b <= LengthB + 1
    /\ timer_a # Off /\ timer_b > 0 =>
          LengthB + 1 - timer_b >= (timer_a_length - T1) + (timer_a_length + 1 - timer_a)
    /\ fifo # <<>> /\ Head(fifo) = "TIMEOUT_A" => 2 * timer_a_length <= LengthB + T1

\* Timer B is cleared only by its own timeout, which ends the transaction.
TimerBRuns == timer_b = Off => state = "ICT_TERMINATED"

LEMMA LengthBType == LengthB \in Nat /\ (TimeoutFactor + 1) * T1 = LengthB + T1
BY IctAssumption DEF LengthB

LEMMA InitBackoff == Init => BackoffInv
BY LengthBType, IctAssumption DEF Init, BackoffInv, Start, Off, LengthB

\* A step that consumes an event and leaves timers A and B alone preserves BackoffInv.
LEMMA ConsumedBackoff ==
    ASSUME IInv, BackoffInv, fifo # <<>>, fifo' = Tail(fifo),
           UNCHANGED <<timer_a_length, timer_a, timer_b>>
    PROVE  BackoffInv'
<1>1. fifo' # <<>> => Head(fifo') # "TIMEOUT_A"
  <2>1. TypeOK /\ OnlyHeadIsTimer
    BY DEF IInv
  <2>2. fifo' \in Seq(Events) /\ \A i \in 1..Len(fifo') : fifo'[i] \notin TimerEvents
    BY <2>1, ConsumedTail
  <2>3. fifo' # <<>> => Head(fifo') = fifo'[1] /\ 1 \in 1..Len(fifo')
    BY <2>2
  <2> QED BY <2>2, <2>3 DEF TimerEvents
<1> QED BY <1>1 DEF BackoffInv

LEMMA NextTimerBRuns == IInv /\ TimerBRuns /\ [Next]_vars => TimerBRuns'
<1> SUFFICES ASSUME IInv, TimerBRuns, [Next]_vars PROVE TimerBRuns'
  OBVIOUS
<1> USE DEF TimerBRuns, Terminate, ict_handle_transport_error, timers
<1>1. CASE osip_ict_execute
  BY <1>1 DEF osip_ict_execute, ict_snd_invite, osip_ict_timeout_a_event,
              osip_ict_timeout_b_event, ict_rcv_1xx, ict_rcv_2xx, ict_rcv_3456xx,
              osip_ict_timeout_d_event, ict_retransmit_ack, USELESS_event
<1>2. ASSUME NEW evt \in ResponseEvents, osip_find_transaction_and_add_event(evt)
      PROVE  TimerBRuns'
  BY <1>2 DEF osip_find_transaction_and_add_event
<1>3. CASE osip_timers_ict_execute
  BY <1>3 DEF osip_timers_ict_execute
<1>4. CASE Tick
  BY <1>4 DEF Tick, Elapse, Off, IInv, TypeOK
<1>5. CASE UNCHANGED vars
  BY <1>5 DEF vars
<1> QED BY <1>1, <1>2, <1>3, <1>4, <1>5 DEF Next

\* Every step preserves the relation between timers A and B.
LEMMA NextBackoff == IInv /\ TimerBRuns /\ BackoffInv /\ [Next]_vars => BackoffInv'
<1> SUFFICES ASSUME IInv, TimerBRuns, BackoffInv, [Next]_vars PROVE BackoffInv'
  OBVIOUS
<1> USE LengthBType, IctAssumption
<1>a. /\ timer_a_length \in Nat \cup {-1} /\ timer_a \in Nat \cup {-1}
      /\ timer_b \in Nat \cup {-1} /\ fifo \in Seq(Events)
  BY DEF IInv, TypeOK, Off
<1>b. ASSUME fifo # <<>>, fifo' = Tail(fifo), Head(fifo) \in Events
      PROVE  fifo' # <<>> => Head(fifo') # "TIMEOUT_A"
  <2>1. TypeOK /\ OnlyHeadIsTimer
    BY DEF IInv
  <2>2. fifo' \in Seq(Events) /\ \A i \in 1..Len(fifo') : fifo'[i] \notin TimerEvents
    BY <1>b, <2>1, ConsumedTail
  <2>3. fifo' # <<>> => Head(fifo') = fifo'[1] /\ 1 \in 1..Len(fifo')
    BY <2>2
  <2> QED BY <2>2, <2>3 DEF TimerEvents
<1>1. CASE ict_snd_invite
  <2>1. fifo # <<>> /\ fifo' = Tail(fifo) /\ Head(fifo) \in Events /\ timer_b' = timer_b
    BY <1>1 DEF ict_snd_invite, Consume, Events
  <2>2. fifo' # <<>> => Head(fifo') # "TIMEOUT_A"
    BY <1>b, <2>1
  <2>3. \/ timer_a_length' = -1 /\ timer_a' = Off
        \/ timer_a_length' = timer_a_length /\ timer_a' = timer_a
    BY <1>1 DEF ict_snd_invite, StopAIfReliable
  <2> QED BY <1>a, <2>1, <2>2, <2>3 DEF BackoffInv, Off
<1>2. CASE osip_ict_timeout_a_event
  <2>1. /\ fifo # <<>> /\ fifo' = Tail(fifo) /\ Head(fifo) = "TIMEOUT_A"
        /\ timer_b' = timer_b
    BY <1>2 DEF osip_ict_timeout_a_event, Consume
  <2>2. fifo' # <<>> => Head(fifo') # "TIMEOUT_A"
    BY <1>b, <2>1 DEF Events, TimerEvents
  <2>3. timer_a = 0 /\ timer_a_length \in Nat \ {0}
    BY <2>1 DEF IInv, HeadIsFresh, RunningHasLength, Off
  <2>4. \/ timer_a_length' = -1 /\ timer_a' = Off
        \/ timer_a_length' = timer_a_length * 2 /\ timer_a' = timer_a_length * 2 + 1
    BY <1>2 DEF osip_ict_timeout_a_event, Start
  <2> QED BY <1>a, <2>1, <2>2, <2>3, <2>4 DEF BackoffInv, Off
<1>3. CASE osip_ict_timeout_b_event
  <2>1. /\ fifo # <<>> /\ fifo' = Tail(fifo) /\ Head(fifo) = "TIMEOUT_B"
        /\ timer_b' = Off /\ timer_a' = timer_a /\ timer_a_length' = timer_a_length
    BY <1>3 DEF osip_ict_timeout_b_event, Consume
  <2>2. fifo' # <<>> => Head(fifo') # "TIMEOUT_A"
    BY <1>b, <2>1 DEF Events, TimerEvents
  <2> QED BY <1>a, <2>1, <2>2 DEF BackoffInv, Off
<1>4. CASE \/ ict_rcv_1xx \/ ict_rcv_2xx \/ ict_rcv_3456xx \/ osip_ict_timeout_d_event
           \/ ict_retransmit_ack \/ USELESS_event
  <2>1. /\ fifo # <<>> /\ fifo' = Tail(fifo)
        /\ UNCHANGED <<timer_a_length, timer_a, timer_b>>
    BY <1>4 DEF ict_rcv_1xx, ict_rcv_2xx, ict_rcv_3456xx, osip_ict_timeout_d_event,
                ict_retransmit_ack, USELESS_event, Consume, timers
  <2> QED BY <2>1, ConsumedBackoff
<1>5. ASSUME NEW evt \in ResponseEvents, osip_find_transaction_and_add_event(evt)
      PROVE  BackoffInv'
  <2>1. fifo' = Append(fifo, evt) /\ UNCHANGED <<timer_a_length, timer_a, timer_b>>
    BY <1>5 DEF osip_find_transaction_and_add_event, timers
  <2>2. evt # "TIMEOUT_A"
    BY DEF ResponseEvents
  <2>3. fifo' # <<>> /\ Head(fifo') = "TIMEOUT_A" => fifo # <<>> /\ Head(fifo) = "TIMEOUT_A"
    <3>1. CASE fifo = <<>>
      BY <2>1, <2>2, <3>1
    <3>2. CASE fifo # <<>>
      BY <1>a, <2>1, <3>2
    <3> QED BY <3>1, <3>2
  <2> QED BY <2>1, <2>3 DEF BackoffInv
<1>6. CASE osip_timers_ict_execute
  <2>1. UNCHANGED <<timer_a_length, timer_a, timer_b>>
    BY <1>6 DEF osip_timers_ict_execute, timers
  <2>2. CASE Head(fifo') = "TIMEOUT_A"
    <3>1. state = "ICT_CALLING" /\ timer_a = 0 /\ timer_b # 0
      BY <1>6, <2>2 DEF osip_timers_ict_execute, need_timer_a_event, need_timer_b_event,
                        need_timer_d_event, Due
    <3>2. timer_a_length \in Nat \ {0}
      BY <3>1 DEF IInv, RunningHasLength, Off
    <3>3. CASE timer_b > 0
      BY <1>a, <2>1, <3>1, <3>2, <3>3 DEF BackoffInv, Off
    <3>4. CASE timer_b = Off
      BY <3>1, <3>4 DEF TimerBRuns
    <3> QED BY <1>a, <3>1, <3>3, <3>4 DEF Off
  <2>3. CASE Head(fifo') # "TIMEOUT_A"
    BY <2>1, <2>3 DEF BackoffInv
  <2> QED BY <2>2, <2>3
<1>7. CASE Tick
  <2>1. /\ fifo' = fifo /\ timer_a_length' = timer_a_length
        /\ timer_a' = Elapse(timer_a) /\ timer_b' = Elapse(timer_b)
    BY <1>7 DEF Tick
  <2>2. timer_a # Off => timer_a_length \in Nat \ {0}
    BY DEF IInv, RunningHasLength
  <2> QED BY <1>a, <2>1, <2>2 DEF BackoffInv, Elapse, Off
<1>8. CASE UNCHANGED vars
  BY <1>8 DEF BackoffInv, vars, timers
<1> QED
  BY <1>1, <1>2, <1>3, <1>4, <1>5, <1>6, <1>7, <1>8 DEF Next, osip_ict_execute

(***************************************************************************)
(* osip_ict_timeout_a_event doubles timer A without a ceiling, yet the     *)
(* delay between two copies of the INVITE never exceeds timer B by more    *)
(* than T1, for every T1 and every multiple of it chosen for timer B.      *)
(***************************************************************************)
THEOREM Backoff == Spec => []BackoffBounded
<1>1. Init => TimerBRuns /\ BackoffInv
  <2>1. Init => TimerBRuns
    BY LengthBType, IctAssumption DEF Init, TimerBRuns, Start, Off, LengthB
  <2> QED BY <2>1, InitBackoff
<1>2. IInv /\ (TimerBRuns /\ BackoffInv) /\ [Next]_vars => (TimerBRuns /\ BackoffInv)'
  BY NextTimerBRuns, NextBackoff
<1>3. BackoffInv => BackoffBounded
  BY LengthBType DEF BackoffInv, BackoffBounded
<1> QED BY Invariance, <1>1, <1>2, <1>3, PTL DEF Spec

-----------------------------------------------------------------------------
(***************************************************************************)
(* The refinement: every step of the detailed transaction is a step of the *)
(* abstract one, or leaves what the abstract one sees alone.               *)
(***************************************************************************)
LEMMA PhaseOf ==
    ASSUME TypeOK
    PROVE  /\ state \in {"ICT_PRE_CALLING", "ICT_CALLING", "ICT_PROCEEDING"}
                 <=> phase = "waiting"
           /\ state = "ICT_COMPLETED" <=> phase = "answered"
           /\ state = "ICT_TERMINATED" <=> phase = "dead"
BY DEF TypeOK, States, phase

\* A step that keeps the state, the verdicts and sends nothing.
LEMMA QuietStep ==
    ASSUME TypeOK, TypeOK', phase' = phase, told' = told, out' = "none"
    PROVE  Client!Next
<1>1. phase = "waiting" \/ phase = "answered" \/ phase = "dead"
  BY PhaseOf DEF TypeOK, States
<1>2. CASE phase = "waiting"
  BY <1>2 DEF Client!Next, Client!Wait
<1>3. CASE phase = "answered"
  BY <1>3 DEF Client!Next, Client!Linger
<1>4. CASE phase = "dead"
  BY <1>4 DEF Client!Next, Client!Rest
<1> QED BY <1>1, <1>2, <1>3, <1>4

\* Every step, one action at a time.
LEMMA NextClient == IInv /\ IInv' /\ [Next]_vars => [Client!Next]_(Client!vars)
<1> SUFFICES ASSUME IInv, IInv', [Next]_vars PROVE [Client!Next]_(Client!vars)
  OBVIOUS
<1>a. TypeOK /\ TypeOK' /\ VerdictByState
  BY DEF IInv
<1>b. /\ state \in {"ICT_PRE_CALLING", "ICT_CALLING", "ICT_PROCEEDING"}
            <=> phase = "waiting"
      /\ state = "ICT_COMPLETED" <=> phase = "answered"
      /\ state = "ICT_TERMINATED" <=> phase = "dead"
  BY <1>a, PhaseOf
<1>c. /\ state' \in {"ICT_PRE_CALLING", "ICT_CALLING", "ICT_PROCEEDING"} => phase' = "waiting"
      /\ state' = "ICT_COMPLETED" => phase' = "answered"
      /\ state' = "ICT_TERMINATED" => phase' = "dead"
  BY DEF phase
<1>d. phase = "waiting" => told = <<>>
  BY <1>a, <1>b DEF VerdictByState
<1>e. told = <<>> => /\ Append(told, "TRANSPORT_ERROR") = <<"TRANSPORT_ERROR">>
                     /\ Append(told, "TIMEOUT") = <<"TIMEOUT">>
                     /\ Append(told, "2XX") = <<"2XX">>
                     /\ Append(told, "3456XX") = <<"3456XX">>
  OBVIOUS
<1>1. CASE ict_snd_invite
  <2>1. phase = "waiting"
    BY <1>1, <1>b DEF ict_snd_invite
  <2>2. \/ phase' = "waiting" /\ told' = told /\ out' \in {"none", "INVITE"}
        \/ phase' = "dead" /\ told' = <<"TRANSPORT_ERROR">> /\ out' = "none"
    BY <1>1, <1>c, <1>d, <1>e, <2>1
       DEF ict_snd_invite, ict_handle_transport_error, Terminate
  <2> QED BY <2>1, <2>2 DEF Client!Next, Client!Wait, Client!Fail
<1>2. CASE osip_ict_timeout_a_event
  <2>1. phase = "waiting"
    BY <1>2, <1>b DEF osip_ict_timeout_a_event
  <2>2. \/ phase' = "waiting" /\ told' = told /\ out' \in {"none", "INVITE"}
        \/ phase' = "dead" /\ told' = <<"TRANSPORT_ERROR">> /\ out' = "none"
    BY <1>2, <1>c, <1>d, <1>e, <2>1
       DEF osip_ict_timeout_a_event, ict_handle_transport_error, Terminate
  <2> QED BY <2>1, <2>2 DEF Client!Next, Client!Wait, Client!Fail
<1>3. CASE osip_ict_timeout_b_event
  <2>1. phase = "waiting" /\ phase' = "dead" /\ told' = <<"TIMEOUT">> /\ out' = "none"
    BY <1>3, <1>b, <1>c, <1>d, <1>e DEF osip_ict_timeout_b_event, Terminate
  <2> QED BY <2>1 DEF Client!Next, Client!Fail
<1>4. CASE ict_rcv_1xx
  <2>1. phase' = phase /\ told' = told /\ out' = "none"
    BY <1>4, <1>b, <1>c DEF ict_rcv_1xx
  <2> QED BY <1>a, <2>1, QuietStep
<1>5. CASE ict_rcv_2xx
  <2>1. phase = "waiting" /\ phase' = "dead" /\ told' = <<"2XX">> /\ out' = "none"
    BY <1>5, <1>b, <1>c, <1>d, <1>e DEF ict_rcv_2xx, Terminate
  <2> QED BY <2>1 DEF Client!Next, Client!Answer
<1>6. CASE ict_rcv_3456xx
  <2>1. phase = "waiting"
    BY <1>6, <1>b DEF ict_rcv_3456xx
  <2>2. \/ phase' = "answered" /\ told' = <<"3456XX">> /\ out' = "ACK"
        \/ phase' = "dead" /\ told' = <<"TRANSPORT_ERROR">> /\ out' = "none"
        \/ phase' = "dead" /\ told' = <<>> /\ out' = "none"
    BY <1>6, <1>c, <1>d, <1>e, <2>1
       DEF ict_rcv_3456xx, ict_handle_transport_error, Terminate
  <2> QED BY <2>1, <2>2 DEF Client!Next, Client!Answer, Client!Fail
<1>7. CASE osip_ict_timeout_d_event
  <2>1. phase = "answered" /\ phase' = "dead" /\ told' = told /\ out' = "none"
    BY <1>7, <1>b, <1>c DEF osip_ict_timeout_d_event, Terminate
  <2> QED BY <2>1 DEF Client!Next, Client!End
<1>8. CASE ict_retransmit_ack
  <2>1. phase = "answered"
    BY <1>8, <1>b DEF ict_retransmit_ack
  <2>2. \/ phase' = "answered" /\ told' = told /\ out' = "ACK"
        \/ phase' = "dead" /\ told' = Append(told, "TRANSPORT_ERROR") /\ out' = "none"
    BY <1>8, <1>c DEF ict_retransmit_ack, ict_handle_transport_error, Terminate
  <2> QED BY <2>1, <2>2 DEF Client!Next, Client!Linger, Client!End
<1>9. CASE USELESS_event \/ osip_timers_ict_execute \/ Tick
  <2>1. state' = state /\ told' = told /\ out' = "none"
    BY <1>9 DEF USELESS_event, osip_timers_ict_execute, Tick
  <2>2. phase' = phase
    BY <2>1 DEF phase
  <2> QED BY <1>a, <2>1, <2>2, QuietStep
<1>10. ASSUME NEW evt \in ResponseEvents, osip_find_transaction_and_add_event(evt)
       PROVE  Client!Next
  <2>1. state' = state /\ told' = told /\ out' = "none"
    BY <1>10 DEF osip_find_transaction_and_add_event
  <2>2. phase' = phase
    BY <2>1 DEF phase
  <2> QED BY <1>a, <2>1, <2>2, QuietStep
<1>11. CASE UNCHANGED vars
  BY <1>11 DEF vars, Client!vars, phase
<1> QED
  BY <1>1, <1>2, <1>3, <1>4, <1>5, <1>6, <1>7, <1>8, <1>9, <1>10, <1>11
     DEF Next, osip_ict_execute

(***************************************************************************)
(* The INVITE client transaction, with its timers, its queue and every     *)
(* answer of the transport, implements the abstract client transaction:    *)
(* one verdict, no INVITE after it, no ACK but for a final error response, *)
(* silence once it is dead.                                                *)
(***************************************************************************)
THEOREM Refinement == Spec => ClientSpec
<1>1. Init => Client!Init
  BY DEF Init, Client!Init, phase
<1>2. IInv /\ IInv' /\ [Next]_vars => [Client!Next]_(Client!vars)
  BY NextClient
<1> QED BY Invariance, <1>1, <1>2, PTL DEF Spec, ClientSpec, Client!Spec

=============================================================================
