------------------------ MODULE InviteExchangeProofs ------------------------
(***************************************************************************)
(* Proofs about an INVITE exchange over UDP, for all timer values and      *)
(* queue bounds, with a network that loses, repeats and reorders without   *)
(* bound.                                                                  *)
(*                                                                         *)
(* What the two ends know of each other travels in datagrams and waits in  *)
(* queues.  The inductive invariant therefore follows the final response   *)
(* on its way from the server to the verdict, and the refusal on its way   *)
(* back in the ACK: each place that may hold a trace of one carries its    *)
(* own conjunct.                                                           *)
(***************************************************************************)
EXTENDS InviteExchange, TLAPS

Finals == S!SND_STATUS_2XX \cup S!SND_STATUS_3456XX

\* Queues and history are sequences of what their modules allow.
Typed ==
    /\ c_fifo \in Seq(C!Events)
    /\ c_told \in Seq(C!Verdicts)
    /\ s_fifo \in Seq(S!Events)
    /\ s_last_response \in {"none"} \cup S!Responses

\* The final response and the last one, in the states the server sends from.
AnswerByState ==
    /\ s_state \in {"IST_PRE_PROCEEDING", "IST_PROCEEDING"}
          => s_final = "none" /\ s_last_response \notin Finals
    /\ s_state = "IST_COMPLETED" => s_last_response = s_final

\* The only final response in the network is the one the server has sent.
NetHoldsTheAnswer == \A r \in net \cap Finals : r = s_final

\* Final responses that wait to be read are of the class of the answer.
QueuedIsTheAnswer ==
    \A i \in 1..Len(c_fifo) :
        /\ c_fifo[i] = "RCV_STATUS_2XX" => s_final \in S!SND_STATUS_2XX
        /\ c_fifo[i] = "RCV_STATUS_3456XX" => s_final \in S!SND_STATUS_3456XX

\* The application of the caller was told of a refusal.
ToldRefusal == \E i \in 1..Len(c_told) : c_told[i] = "3456XX"

\* An ACK, wherever it is, and what it leads to follow from a told refusal.
AckFollowsRefusal ==
    \/ ToldRefusal
    \/ /\ c_state # "ICT_COMPLETED"
       /\ "ACK" \notin net
       /\ \A i \in 1..Len(s_fifo) : s_fifo[i] # "RCV_REQACK"
       /\ s_state # "IST_CONFIRMED"

IInv ==
    /\ Typed
    /\ AnswerByState
    /\ NetHoldsTheAnswer
    /\ QueuedIsTheAnswer
    /\ VerdictIsTheAnswer
    /\ AckFollowsRefusal

-----------------------------------------------------------------------------
(***************************************************************************)
(* Each end is a transaction of its own module.                            *)
(***************************************************************************)

LEMMA EventOfType == \A response \in S!Responses : EventOf(response) \in C!ResponseEvents
BY DEF EventOf, S!Responses, S!SND_STATUS_1XX, S!SND_STATUS_2XX, S!SND_STATUS_3456XX,
       C!ResponseEvents

LEMMA ClientNext == [Next]_vars => [C!Next]_(C!vars)
<1> SUFFICES ASSUME [Next]_vars PROVE [C!Next]_(C!vars)
  OBVIOUS
<1>1. CASE ClientStep
  BY <1>1 DEF ClientStep, C!Next
<1>2. CASE DeliverToClient
  BY <1>2, EventOfType DEF DeliverToClient, C!Next
<1>3. CASE Tick
  BY <1>3 DEF Tick, C!Next
<1>4. ASSUME UNCHANGED c_vars PROVE UNCHANGED C!vars
  BY <1>4 DEF c_vars, C!vars, C!timers
<1> QED
  BY <1>1, <1>2, <1>3, <1>4
     DEF Next, ServerStep, Answer, osip_create_transaction, DeliverToServer, vars

LEMMA ServerNext == [Next]_vars => [S!Next]_(S!vars)
<1> SUFFICES ASSUME [Next]_vars PROVE [S!Next]_(S!vars)
  OBVIOUS
<1>1. CASE ServerStep
  BY <1>1 DEF ServerStep, S!Next
<1>2. CASE \E response \in S!Responses : Answer(response)
  BY <1>2 DEF Answer, S!Next
<1>3. CASE DeliverToServer
  BY <1>3 DEF DeliverToServer, S!Next, S!NetworkEvents
<1>4. CASE Tick
  BY <1>4 DEF Tick, S!Next
<1>5. ASSUME UNCHANGED s_vars PROVE UNCHANGED S!vars
  BY <1>5 DEF s_vars, S!vars, S!timers
<1> QED
  BY <1>1, <1>2, <1>3, <1>4, <1>5
     DEF Next, ClientStep, osip_create_transaction, DeliverToClient, vars

(***************************************************************************)
(* The two ends of the exchange are the transactions of Ict and Ist: the   *)
(* network gives neither of them an event its module does not allow, so    *)
(* whatever those modules establish holds of the ends of an exchange.      *)
(***************************************************************************)
THEOREM EndsAreTransactions == Spec => C!Spec /\ S!Spec
<1>1. Init => C!Init /\ S!Init
  BY DEF Init
<1> QED BY <1>1, ClientNext, ServerNext, PTL DEF Spec, C!Spec, S!Spec

-----------------------------------------------------------------------------
(***************************************************************************)
(* The queues and the history, as facts about sequences.                   *)
(***************************************************************************)

\* A queue that grows at its end or loses its head holds nothing else that is new.
LEMMA Grown ==
    ASSUME NEW A, NEW q \in Seq(A), NEW e \in A
    PROVE  /\ Append(q, e) \in Seq(A)
           /\ \A i \in 1..Len(Append(q, e)) :
                 Append(q, e)[i] = e \/ \E j \in 1..Len(q) : Append(q, e)[i] = q[j]
           /\ \A j \in 1..Len(q) : \E i \in 1..Len(Append(q, e)) : Append(q, e)[i] = q[j]
<1> DEFINE r == Append(q, e)
<1>1. /\ r \in Seq(A) /\ Len(r) = Len(q) + 1 /\ Len(q) \in Nat
      /\ r[Len(q) + 1] = e
      /\ \A j \in 1..Len(q) : r[j] = q[j]
  OBVIOUS
<1>2. \A i \in 1..Len(r) : i \in 1..Len(q) \/ i = Len(q) + 1
  BY <1>1
<1>3. Len(q) + 1 \in 1..Len(r) /\ 1..Len(q) \subseteq 1..Len(r)
  BY <1>1
<1> HIDE DEF r
<1>4. /\ \A i \in 1..Len(r) : r[i] = e \/ \E j \in 1..Len(q) : r[i] = q[j]
      /\ \A j \in 1..Len(q) : \E i \in 1..Len(r) : r[i] = q[j]
  BY <1>1, <1>2, <1>3
<1> QED BY <1>1, <1>4 DEF r

LEMMA Shrunk ==
    ASSUME NEW A, NEW q \in Seq(A), q # <<>>
    PROVE  /\ Head(q) \in A /\ \E j \in 1..Len(q) : Head(q) = q[j]
           /\ Tail(q) \in Seq(A)
           /\ \A i \in 1..Len(Tail(q)) : \E j \in 1..Len(q) : Tail(q)[i] = q[j]
<1> DEFINE r == Tail(q)
<1>1. /\ r \in Seq(A) /\ Len(r) = Len(q) - 1 /\ Len(q) \in Nat /\ Len(q) >= 1
      /\ \A i \in 1..Len(r) : r[i] = q[i + 1]
  OBVIOUS
<1>2. Head(q) = q[1] /\ 1 \in 1..Len(q) /\ q[1] \in A
  BY <1>1
<1>3. \A i \in 1..Len(r) : i + 1 \in 1..Len(q)
  BY <1>1
<1> HIDE DEF r
<1>4. \A i \in 1..Len(r) : \E j \in 1..Len(q) : r[i] = q[j]
  BY <1>1, <1>3
<1> QED BY <1>1, <1>2, <1>4 DEF r

(***************************************************************************)
(* What a step of the client, other than the arrival of a response, does   *)
(* to its queue, its history and the wire.                                 *)
(***************************************************************************)
LEMMA ClientQueue ==
    ASSUME Typed, C!osip_timers_ict_execute \/ C!osip_ict_execute
    PROVE  /\ c_fifo' \in Seq(C!Events)
           /\ \A i \in 1..Len(c_fifo') :
                 \/ c_fifo'[i] \in C!TimerEvents
                 \/ \E j \in 1..Len(c_fifo) : c_fifo'[i] = c_fifo[j]
<1>1. CASE C!osip_timers_ict_execute
  <2>1. PICK e \in C!TimerEvents : c_fifo' = <<e>>
    BY <1>1 DEF C!osip_timers_ict_execute, C!TimerEvents
  <2>2. e \in C!Events
    BY DEF C!Events
  <2> QED BY <2>1, <2>2
<1>2. CASE C!osip_ict_execute
  <2>1. c_fifo # <<>> /\ c_fifo' = Tail(c_fifo)
    BY <1>2 DEF C!osip_ict_execute, C!ict_snd_invite, C!osip_ict_timeout_a_event,
                C!osip_ict_timeout_b_event, C!ict_rcv_1xx, C!ict_rcv_2xx, C!ict_rcv_3456xx,
                C!osip_ict_timeout_d_event, C!ict_retransmit_ack, C!USELESS_event, C!Consume
  <2> QED BY <2>1, Shrunk DEF Typed
<1> QED BY <1>1, <1>2

LEMMA ClientTells ==
    ASSUME Typed, C!osip_timers_ict_execute \/ C!osip_ict_execute
    PROVE  \/ c_told' = c_told
           \/ \E v \in C!Verdicts :
                 /\ c_told' = Append(c_told, v)
                 /\ v \in {"2XX", "3456XX"} =>
                       /\ c_fifo # <<>>
                       /\ v = "2XX" => Head(c_fifo) = "RCV_STATUS_2XX"
                       /\ v = "3456XX" => Head(c_fifo) = "RCV_STATUS_3456XX"
BY DEF C!osip_timers_ict_execute, C!osip_ict_execute, C!ict_snd_invite,
       C!osip_ict_timeout_a_event, C!osip_ict_timeout_b_event, C!ict_rcv_1xx, C!ict_rcv_2xx,
       C!ict_rcv_3456xx, C!osip_ict_timeout_d_event, C!ict_retransmit_ack, C!USELESS_event,
       C!Consume, C!ict_handle_transport_error, C!Verdicts

LEMMA ClientSends ==
    ASSUME C!osip_timers_ict_execute \/ C!osip_ict_execute
    PROVE  /\ c_out' \in {"none", "INVITE", "ACK"}
           /\ c_state' = "ICT_COMPLETED" \/ c_out' = "ACK" =>
                 c_state = "ICT_COMPLETED" \/ c_told' = Append(c_told, "3456XX")
BY DEF C!osip_timers_ict_execute, C!osip_ict_execute, C!ict_snd_invite,
       C!osip_ict_timeout_a_event, C!osip_ict_timeout_b_event, C!ict_rcv_1xx, C!ict_rcv_2xx,
       C!ict_rcv_3456xx, C!osip_ict_timeout_d_event, C!ict_retransmit_ack, C!USELESS_event,
       C!ict_handle_transport_error, C!Terminate

(***************************************************************************)
(* The same of the server: it sends no final response but its own, and     *)
(* never exchanges it for another.                                         *)
(***************************************************************************)
LEMMA ServerQueue ==
    ASSUME Typed, S!osip_timers_ist_execute \/ S!osip_ist_execute
    PROVE  /\ s_fifo' \in Seq(S!Events)
           /\ \A i \in 1..Len(s_fifo') :
                 \/ s_fifo'[i] \in S!TimerEvents
                 \/ \E j \in 1..Len(s_fifo) : s_fifo'[i] = s_fifo[j]
<1>1. CASE S!osip_timers_ist_execute
  <2>1. PICK e \in S!TimerEvents : s_fifo' = Append(s_fifo, e)
    BY <1>1 DEF S!osip_timers_ist_execute, S!TimerEvents
  <2>2. e \in S!Events
    BY DEF S!Events
  <2>3. /\ s_fifo' \in Seq(S!Events)
        /\ \A i \in 1..Len(s_fifo') :
              s_fifo'[i] = e \/ \E j \in 1..Len(s_fifo) : s_fifo'[i] = s_fifo[j]
    BY <2>1, <2>2, Grown DEF Typed
  <2> QED BY <2>3
<1>2. CASE S!osip_ist_execute
  <2>1. s_fifo # <<>> /\ s_fifo' = Tail(s_fifo)
    BY <1>2 DEF S!osip_ist_execute, S!ist_rcv_invite, S!osip_ist_timeout_g_event,
                S!osip_ist_timeout_h_event, S!osip_ist_timeout_i_event, S!ist_snd_1xx,
                S!ist_snd_2xx, S!ist_snd_3456xx, S!ist_rcv_ack, S!USELESS_event, S!Consume
  <2> QED BY <2>1, Shrunk DEF Typed
<1> QED BY <1>1, <1>2

LEMMA ServerSends ==
    ASSUME Typed, AnswerByState, S!osip_timers_ist_execute \/ S!osip_ist_execute
    PROVE  /\ s_last_response' \in {"none"} \cup S!Responses
           /\ AnswerByState'
           /\ s_out' \in {"none"} \cup S!Responses
           /\ s_out' \in Finals => s_out' = s_final'
           /\ s_final' = s_final \/ s_final = "none"
<1> USE DEF Typed, AnswerByState, Finals, S!Responses, S!SND_STATUS_1XX, S!SND_STATUS_2XX,
            S!SND_STATUS_3456XX, S!SendFails, S!ist_handle_transport_error, S!Terminate
<1>1. CASE S!ist_rcv_invite
  BY <1>1 DEF S!ist_rcv_invite
<1>2. CASE S!osip_ist_timeout_g_event
  BY <1>2 DEF S!osip_ist_timeout_g_event
<1>3. CASE S!ist_snd_1xx
  BY <1>3 DEF S!ist_snd_1xx
<1>4. CASE S!ist_snd_2xx
  BY <1>4 DEF S!ist_snd_2xx
<1>5. CASE S!ist_snd_3456xx
  BY <1>5 DEF S!ist_snd_3456xx
<1>6. CASE \/ S!osip_timers_ist_execute \/ S!osip_ist_timeout_h_event
           \/ S!osip_ist_timeout_i_event \/ S!ist_rcv_ack \/ S!USELESS_event
  BY <1>6 DEF S!osip_timers_ist_execute, S!osip_ist_timeout_h_event,
              S!osip_ist_timeout_i_event, S!ist_rcv_ack, S!USELESS_event
<1> QED BY <1>1, <1>2, <1>3, <1>4, <1>5, <1>6 DEF S!osip_ist_execute

\* Only an ACK at the head of the queue confirms.
LEMMA ServerConfirms ==
    ASSUME S!osip_timers_ist_execute \/ S!osip_ist_execute, s_state' = "IST_CONFIRMED"
    PROVE  s_state = "IST_CONFIRMED" \/ (s_fifo # <<>> /\ Head(s_fifo) = "RCV_REQACK")
<1> USE DEF S!SendFails, S!ist_handle_transport_error, S!Terminate
<1>1. CASE S!ist_rcv_ack
  BY <1>1 DEF S!ist_rcv_ack, S!Consume
<1>2. CASE S!ist_rcv_invite \/ S!osip_ist_timeout_g_event
  BY <1>2 DEF S!ist_rcv_invite, S!osip_ist_timeout_g_event
<1>3. CASE S!ist_snd_1xx \/ S!ist_snd_2xx \/ S!ist_snd_3456xx
  BY <1>3 DEF S!ist_snd_1xx, S!ist_snd_2xx, S!ist_snd_3456xx
<1>4. CASE \/ S!osip_timers_ist_execute \/ S!osip_ist_timeout_h_event
           \/ S!osip_ist_timeout_i_event \/ S!USELESS_event
  BY <1>4 DEF S!osip_timers_ist_execute, S!osip_ist_timeout_h_event,
              S!osip_ist_timeout_i_event, S!USELESS_event
<1> QED BY <1>1, <1>2, <1>3, <1>4 DEF S!osip_ist_execute

-----------------------------------------------------------------------------
(***************************************************************************)
(* The invariant.                                                          *)
(***************************************************************************)
LEMMA InitIInv == Init => IInv
<1> SUFFICES ASSUME Init PROVE IInv
  OBVIOUS
<1>1. /\ c_fifo = <<"SND_REQINVITE">> /\ c_told = <<>> /\ c_state = "ICT_PRE_CALLING"
      /\ s_fifo = <<"RCV_REQINVITE">> /\ s_state = "IST_PRE_PROCEEDING"
      /\ s_last_response = "none" /\ s_final = "none" /\ net = {}
  BY DEF Init, C!Init, S!Init
<1>2. "SND_REQINVITE" \in C!Events /\ "RCV_REQINVITE" \in S!Events
  BY DEF C!Events, S!Events, S!NetworkEvents
<1>3. Typed
  BY <1>1, <1>2 DEF Typed
<1>4. AnswerByState
  BY <1>1 DEF AnswerByState, Finals, S!SND_STATUS_2XX, S!SND_STATUS_3456XX
<1>5. NetHoldsTheAnswer /\ QueuedIsTheAnswer /\ VerdictIsTheAnswer /\ AckFollowsRefusal
  BY <1>1 DEF NetHoldsTheAnswer, QueuedIsTheAnswer, VerdictIsTheAnswer, AckFollowsRefusal
<1> QED BY <1>3, <1>4, <1>5 DEF IInv

\* A told refusal stays told, and a verdict that is told is in the history.
LEMMA ToldStays ==
    ASSUME Typed, ToldRefusal,
           c_told' = c_told \/ \E v \in C!Verdicts : c_told' = Append(c_told, v)
    PROVE  ToldRefusal'
<1>1. CASE c_told' = c_told
  BY <1>1 DEF ToldRefusal
<1>2. ASSUME NEW v \in C!Verdicts, c_told' = Append(c_told, v) PROVE ToldRefusal'
  <2>1. \A j \in 1..Len(c_told) : \E i \in 1..Len(c_told') : c_told'[i] = c_told[j]
    BY <1>2, Grown DEF Typed
  <2> QED BY <2>1 DEF ToldRefusal
<1> QED BY <1>1, <1>2

LEMMA ToldNow == ASSUME Typed, c_told' = Append(c_told, "3456XX") PROVE ToldRefusal'
<1>1. "3456XX" \in C!Verdicts
  BY DEF C!Verdicts
<1>2. \E i \in 1..Len(c_told') : c_told'[i] = "3456XX"
  <2>1. c_told \in Seq(C!Verdicts)
    BY DEF Typed
  <2>2. c_told'[Len(c_told) + 1] = "3456XX" /\ Len(c_told) + 1 \in 1..Len(c_told')
    BY <1>1, <2>1
  <2> QED BY <2>2
<1> QED BY <1>2 DEF ToldRefusal

\* A step of the client.
LEMMA ClientStepIInv == ASSUME IInv, ClientStep PROVE IInv'
<1>a. Typed /\ AnswerByState /\ NetHoldsTheAnswer /\ QueuedIsTheAnswer
      /\ VerdictIsTheAnswer /\ AckFollowsRefusal
  BY DEF IInv
<1>b. C!osip_timers_ict_execute \/ C!osip_ict_execute
  BY DEF ClientStep
<1>c. /\ UNCHANGED <<s_state, s_fifo, s_last_response, s_final>>
      /\ net' = net \cup ({c_out'} \ {"none"})
  BY DEF ClientStep, s_vars, Emit
<1>d. c_out' \in {"none", "INVITE", "ACK"}
  BY <1>b, ClientSends
<1>1. Typed'
  <2>1. c_fifo' \in Seq(C!Events)
    BY <1>a, <1>b, ClientQueue
  <2>2. c_told' \in Seq(C!Verdicts)
    BY <1>a, <1>b, ClientTells DEF Typed
  <2> QED BY <1>a, <1>c, <2>1, <2>2 DEF Typed
<1>2. AnswerByState'
  BY <1>a, <1>c DEF AnswerByState
<1>3. NetHoldsTheAnswer'
  BY <1>a, <1>c, <1>d
     DEF NetHoldsTheAnswer, Finals, S!SND_STATUS_2XX, S!SND_STATUS_3456XX
<1>4. QueuedIsTheAnswer'
  <2>1. \A i \in 1..Len(c_fifo') :
           \/ c_fifo'[i] \in C!TimerEvents
           \/ \E j \in 1..Len(c_fifo) : c_fifo'[i] = c_fifo[j]
    BY <1>a, <1>b, ClientQueue
  <2> QED BY <1>a, <1>c, <2>1 DEF QueuedIsTheAnswer, C!TimerEvents
<1>5. VerdictIsTheAnswer'
  <2>1. CASE c_told' = c_told
    BY <1>a, <1>c, <2>1 DEF VerdictIsTheAnswer
  <2>2. ASSUME NEW v \in C!Verdicts, c_told' = Append(c_told, v),
               v \in {"2XX", "3456XX"} =>
                  /\ c_fifo # <<>>
                  /\ v = "2XX" => Head(c_fifo) = "RCV_STATUS_2XX"
                  /\ v = "3456XX" => Head(c_fifo) = "RCV_STATUS_3456XX"
        PROVE  VerdictIsTheAnswer'
    <3>1. /\ v = "2XX" => s_final \in S!SND_STATUS_2XX
          /\ v = "3456XX" => s_final \in S!SND_STATUS_3456XX
      <4>1. CASE c_fifo # <<>>
        <5>1. PICK j \in 1..Len(c_fifo) : Head(c_fifo) = c_fifo[j]
          BY <1>a, <4>1, Shrunk DEF Typed
        <5> QED BY <1>a, <2>2, <5>1 DEF QueuedIsTheAnswer
      <4>2. CASE c_fifo = <<>>
        BY <2>2, <4>2
      <4> QED BY <4>1, <4>2
    <3>2. \A i \in 1..Len(c_told') :
             c_told'[i] = v \/ \E j \in 1..Len(c_told) : c_told'[i] = c_told[j]
      BY <1>a, <2>2, Grown DEF Typed
    <3> QED BY <1>a, <1>c, <3>1, <3>2 DEF VerdictIsTheAnswer
  <2> QED BY <1>a, <1>b, <2>1, <2>2, ClientTells
<1>6. AckFollowsRefusal'
  <2>1. CASE ToldRefusal
    BY <1>a, <1>b, <2>1, ClientTells, ToldStays DEF AckFollowsRefusal
  <2>2. CASE c_told' = Append(c_told, "3456XX")
    BY <1>a, <2>2, ToldNow DEF AckFollowsRefusal
  <2>3. CASE ~ToldRefusal /\ c_told' # Append(c_told, "3456XX")
    <3>1. c_state' # "ICT_COMPLETED" /\ c_out' # "ACK"
      BY <1>a, <1>b, <2>3, ClientSends DEF AckFollowsRefusal
    <3> QED BY <1>a, <1>c, <2>3, <3>1 DEF AckFollowsRefusal
  <2> QED BY <2>1, <2>2, <2>3
<1> QED BY <1>1, <1>2, <1>3, <1>4, <1>5, <1>6 DEF IInv

\* A step of the server: the final response it may send is the first one.
LEMMA ServerStepIInv == ASSUME IInv, ServerStep PROVE IInv'
<1>a. Typed /\ AnswerByState /\ NetHoldsTheAnswer /\ QueuedIsTheAnswer
      /\ VerdictIsTheAnswer /\ AckFollowsRefusal
  BY DEF IInv
<1>b. S!osip_timers_ist_execute \/ S!osip_ist_execute
  BY DEF ServerStep
<1>c. /\ UNCHANGED <<c_state, c_fifo, c_told>>
      /\ net' = net \cup ({s_out'} \ {"none"})
  BY DEF ServerStep, c_vars, Emit
<1>d. /\ s_last_response' \in {"none"} \cup S!Responses
      /\ AnswerByState'
      /\ s_out' \in {"none"} \cup S!Responses
      /\ s_out' \in Finals => s_out' = s_final'
      /\ s_final' = s_final \/ s_final = "none"
  BY <1>a, <1>b, ServerSends
<1>e. "none" \notin S!SND_STATUS_2XX /\ "none" \notin S!SND_STATUS_3456XX
  BY DEF S!SND_STATUS_2XX, S!SND_STATUS_3456XX
<1>1. Typed'
  BY <1>a, <1>b, <1>c, <1>d, ServerQueue DEF Typed
<1>2. NetHoldsTheAnswer'
  BY <1>a, <1>c, <1>d, <1>e DEF NetHoldsTheAnswer, Finals
<1>3. QueuedIsTheAnswer' /\ VerdictIsTheAnswer'
  BY <1>a, <1>c, <1>d, <1>e DEF QueuedIsTheAnswer, VerdictIsTheAnswer
<1>4. AckFollowsRefusal'
  <2>1. CASE ToldRefusal
    BY <1>c, <2>1 DEF AckFollowsRefusal, ToldRefusal
  <2>2. CASE ~ToldRefusal
    <3>1. "ACK" \notin net'
      BY <1>a, <1>c, <1>d, <2>2
         DEF AckFollowsRefusal, S!Responses, S!SND_STATUS_1XX, S!SND_STATUS_2XX,
             S!SND_STATUS_3456XX
    <3>2. \A i \in 1..Len(s_fifo') : s_fifo'[i] # "RCV_REQACK"
      <4>1. \A i \in 1..Len(s_fifo') :
               \/ s_fifo'[i] \in S!TimerEvents
               \/ \E j \in 1..Len(s_fifo) : s_fifo'[i] = s_fifo[j]
        BY <1>a, <1>b, ServerQueue
      <4> QED BY <1>a, <2>2, <4>1 DEF AckFollowsRefusal, S!TimerEvents
    <3>3. s_state' # "IST_CONFIRMED"
      <4>1. ASSUME s_fifo # <<>>, Head(s_fifo) = "RCV_REQACK" PROVE FALSE
        <5>1. PICK j \in 1..Len(s_fifo) : Head(s_fifo) = s_fifo[j]
          BY <1>a, <4>1, Shrunk DEF Typed
        <5> QED BY <1>a, <2>2, <4>1, <5>1 DEF AckFollowsRefusal
      <4> QED BY <1>a, <1>b, <2>2, <4>1, ServerConfirms DEF AckFollowsRefusal
    <3> QED BY <1>a, <1>c, <2>2, <3>1, <3>2, <3>3 DEF AckFollowsRefusal
  <2> QED BY <2>1, <2>2
<1> QED BY <1>1, <1>d, <1>2, <1>3, <1>4 DEF IInv

\* The application of the callee answers: the response waits in the queue.
LEMMA AnswerIInv ==
    ASSUME IInv, NEW response \in S!Responses, Answer(response) PROVE IInv'
<1>a. Typed /\ AnswerByState /\ NetHoldsTheAnswer /\ QueuedIsTheAnswer
      /\ VerdictIsTheAnswer /\ AckFollowsRefusal
  BY DEF IInv
<1>b. /\ s_fifo' = Append(s_fifo, response)
      /\ UNCHANGED <<c_state, c_fifo, c_told, s_state, s_last_response, s_final, net>>
  BY DEF Answer, S!osip_transaction_add_event, S!AddEvent, c_vars
<1>c. response \in S!Events /\ response # "RCV_REQACK"
  BY DEF S!Events, S!Responses, S!SND_STATUS_1XX, S!SND_STATUS_2XX, S!SND_STATUS_3456XX
<1>d. /\ s_fifo' \in Seq(S!Events)
      /\ \A i \in 1..Len(s_fifo') :
            s_fifo'[i] = response \/ \E j \in 1..Len(s_fifo) : s_fifo'[i] = s_fifo[j]
  <2>1. s_fifo \in Seq(S!Events)
    BY <1>a DEF Typed
  <2>2. s_fifo' = Append(s_fifo, response) /\ response \in S!Events
    BY <1>b, <1>c
  <2> QED BY <2>1, <2>2, Grown
<1>1. Typed' /\ AnswerByState' /\ NetHoldsTheAnswer' /\ QueuedIsTheAnswer'
      /\ VerdictIsTheAnswer'
  BY <1>a, <1>b, <1>d
     DEF Typed, AnswerByState, NetHoldsTheAnswer, QueuedIsTheAnswer, VerdictIsTheAnswer
<1>2. AckFollowsRefusal'
  BY <1>a, <1>b, <1>c, <1>d DEF AckFollowsRefusal, ToldRefusal
<1> QED BY <1>1, <1>2 DEF IInv

\* A copy of the INVITE or of the ACK arrives: an ACK was told before it was sent.
LEMMA DeliverToServerIInv == ASSUME IInv, DeliverToServer PROVE IInv'
<1>a. Typed /\ AnswerByState /\ NetHoldsTheAnswer /\ QueuedIsTheAnswer
      /\ VerdictIsTheAnswer /\ AckFollowsRefusal
  BY DEF IInv
<1>b. PICK e \in {"RCV_REQINVITE", "RCV_REQACK"} :
         /\ e = "RCV_REQACK" => "ACK" \in net
         /\ s_fifo' = Append(s_fifo, e)
         /\ UNCHANGED <<c_state, c_fifo, c_told, s_state, s_last_response, s_final, net>>
  BY DEF DeliverToServer, S!osip_find_transaction_and_add_event, S!AddEvent, c_vars
<1>c. e \in S!Events
  BY DEF S!Events, S!NetworkEvents
<1>d. /\ s_fifo' \in Seq(S!Events)
      /\ \A i \in 1..Len(s_fifo') :
            s_fifo'[i] = e \/ \E j \in 1..Len(s_fifo) : s_fifo'[i] = s_fifo[j]
  BY <1>a, <1>b, <1>c, Grown DEF Typed
<1>1. Typed' /\ AnswerByState' /\ NetHoldsTheAnswer' /\ QueuedIsTheAnswer'
      /\ VerdictIsTheAnswer'
  BY <1>a, <1>b, <1>d
     DEF Typed, AnswerByState, NetHoldsTheAnswer, QueuedIsTheAnswer, VerdictIsTheAnswer
<1>2. AckFollowsRefusal'
  BY <1>a, <1>b, <1>d DEF AckFollowsRefusal, ToldRefusal
<1> QED BY <1>1, <1>2 DEF IInv

\* A copy of a response arrives: a final one is the answer.
LEMMA DeliverToClientIInv == ASSUME IInv, DeliverToClient PROVE IInv'
<1>a. Typed /\ AnswerByState /\ NetHoldsTheAnswer /\ QueuedIsTheAnswer
      /\ VerdictIsTheAnswer /\ AckFollowsRefusal
  BY DEF IInv
<1>b. PICK response \in net \cap S!Responses :
         /\ c_fifo' = Append(c_fifo, EventOf(response))
         /\ UNCHANGED <<c_state, c_told, s_fifo, s_state, s_last_response, s_final, net>>
  BY DEF DeliverToClient, C!osip_find_transaction_and_add_event, s_vars
<1>c. EventOf(response) \in C!Events
  BY EventOfType DEF C!Events
<1>d. /\ EventOf(response) = "RCV_STATUS_2XX" => response \in S!SND_STATUS_2XX
      /\ EventOf(response) = "RCV_STATUS_3456XX" => response \in S!SND_STATUS_3456XX
  BY DEF EventOf, S!Responses
<1>e. response \in Finals => response = s_final
  BY <1>a DEF NetHoldsTheAnswer
<1>f. /\ c_fifo' \in Seq(C!Events)
      /\ \A i \in 1..Len(c_fifo') :
            \/ c_fifo'[i] = EventOf(response)
            \/ \E j \in 1..Len(c_fifo) : c_fifo'[i] = c_fifo[j]
  BY <1>a, <1>b, <1>c, Grown DEF Typed
<1>1. Typed' /\ AnswerByState' /\ NetHoldsTheAnswer' /\ VerdictIsTheAnswer'
      /\ AckFollowsRefusal'
  BY <1>a, <1>b, <1>f
     DEF Typed, AnswerByState, NetHoldsTheAnswer, VerdictIsTheAnswer, AckFollowsRefusal,
         ToldRefusal
<1>2. QueuedIsTheAnswer'
  BY <1>a, <1>b, <1>d, <1>e, <1>f DEF QueuedIsTheAnswer, Finals
<1> QED BY <1>1, <1>2 DEF IInv

\* Every step preserves the inductive invariant.
LEMMA NextIInv == IInv /\ [Next]_vars => IInv'
<1> SUFFICES ASSUME IInv, [Next]_vars PROVE IInv'
  OBVIOUS
<1>1. ASSUME osip_create_transaction \/ Tick \/ UNCHANGED vars PROVE IInv'
  <2>1. UNCHANGED <<c_state, c_fifo, c_told, s_fifo, s_state, s_last_response, s_final, net>>
    BY <1>1 DEF osip_create_transaction, Tick, C!Tick, S!Tick, vars, c_vars, s_vars
  <2> QED BY <2>1 DEF IInv, Typed, AnswerByState, NetHoldsTheAnswer, QueuedIsTheAnswer,
                      VerdictIsTheAnswer, AckFollowsRefusal, ToldRefusal
<1> QED BY <1>1, ClientStepIInv, ServerStepIInv, AnswerIInv, DeliverToServerIInv,
           DeliverToClientIInv DEF Next

LEMMA Invariance == Spec => []IInv
BY InitIInv, NextIInv, PTL DEF Spec

-----------------------------------------------------------------------------
(***************************************************************************)
(* The verdict the application of the caller hears is of the class of the  *)
(* final response the callee has sent (ict_rcv_2xx, ict_rcv_3456xx), on a  *)
(* network that loses, repeats and reorders, whatever the timers.          *)
(***************************************************************************)
THEOREM Verdict == Spec => []VerdictIsTheAnswer
<1>1. IInv => VerdictIsTheAnswer
  BY DEF IInv
<1> QED BY Invariance, <1>1, PTL

(***************************************************************************)
(* A callee that takes its refusal for acknowledged (ist_rcv_ack) is right *)
(* to: the caller has announced it to its application.                     *)
(***************************************************************************)
THEOREM AckTold == Spec => []AckMeansTold
<1>1. IInv => AckMeansTold
  BY DEF IInv, AckFollowsRefusal, ToldRefusal, AckMeansTold
<1> QED BY Invariance, <1>1, PTL

(***************************************************************************)
(* However many answers the application queues, the server transaction     *)
(* puts no two different final responses on the wire (ist_snd_2xx,         *)
(* ist_snd_3456xx, osip_ist_timeout_g_event, ist_rcv_invite).              *)
(***************************************************************************)
THEOREM OneFinal == Spec => []OneFinalResponse
<1>1. IInv => OneFinalResponse
  BY DEF IInv, NetHoldsTheAnswer, Finals, OneFinalResponse
<1> QED BY Invariance, <1>1, PTL

=============================================================================
