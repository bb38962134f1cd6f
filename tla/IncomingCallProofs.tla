------------------------- MODULE IncomingCallProofs -------------------------
(***************************************************************************)
(* Proofs about an incoming call of eXosip, for all durations, repetition  *)
(* limits and queue bounds.                                                *)
(*                                                                         *)
(* The release pass decides from the transactions and the dialog what the  *)
(* history should have decided.  The inductive invariant says what the     *)
(* history is whenever the pass looks: which states of the INVITE          *)
(* transaction mean that a refusal was sent, and that a dialog is gone     *)
(* only for a reason.                                                      *)
(***************************************************************************)
EXTENDS IncomingCall, TLAPS

\* Nothing has happened before the INVITE.
BeforeTheInvite ==
    call = "none" =>
        /\ phase = "free" /\ ~again /\ state = "IST_PRE_PROCEEDING" /\ fifo = <<>>
        /\ d_dialog = "NULL" /\ ~d_200Ok /\ sent = {} /\ reported = {}
        /\ bye_in = "none" /\ bye_out = "none"

\* The stack works on a listed call, whose INVITE it has taken.
WhileListed ==
    /\ phase # "free" => Listed
    /\ Listed => state # "IST_PRE_PROCEEDING"
    /\ call = "released" => "CALL_RELEASED" \in reported

NoBye == bye_in = "none" /\ bye_out = "none"
NoRefusal == sent \cap Refusals = {}

\* The dialog of a listed call is gone only when somebody ended it, and was told.
ClosedForAReason ==
    Listed /\ d_dialog = "NULL" =>
        /\ terminated \/ "CALL_CLOSED" \in reported
        /\ ~NoBye \/ ~NoRefusal

\* While the INVITE is unanswered, a 200 OK to repeat still waits to be sent at all.
UnansweredWaits ==
    state = "IST_PROCEEDING" =>
        /\ "200" \notin sent
        /\ d_200Ok => /\ \E i \in 1..Len(fifo) : fifo[i] = "200"
                      /\ d_timer > 0 /\ d_count = 0

RefusedWasSent == state \in {"IST_COMPLETED", "IST_CONFIRMED"} => ~NoRefusal

\* A refusal that could not be sent: the pass that met it releases the call.
LostRefusalIsReleased ==
    Listed /\ state = "IST_TERMINATED" /\ last_response \in Refusals /\ NoRefusal /\ NoBye =>
        phase # "free" /\ "200" \notin sent

\* No rule of the release pass takes an accepted call without a BYE.
AcceptedIsKept ==
    Listed /\ "200" \in sent /\ NoRefusal /\ NoBye =>
        /\ d_dialog # "NULL"
        /\ state = "IST_TERMINATED"
        /\ last_response \notin Refusals

QuietAfterAck == "CALL_ACK" \in reported => "200" \in sent /\ ~d_200Ok

QuietAfterClose ==
    autoanswer_bye =>
        /\ bye_in # "queued"
        /\ NoRefusal /\ "CALL_CLOSED" \in reported => d_dialog = "NULL"

History ==
    /\ BeforeTheInvite /\ WhileListed /\ ClosedForAReason /\ UnansweredWaits
    /\ RefusedWasSent /\ LostRefusalIsReleased /\ AcceptedIsKept
    /\ QuietAfterAck /\ QuietAfterClose
    /\ AcceptedEndsWithBye /\ NoSecondCall

IInv == TypeOK /\ History

-----------------------------------------------------------------------------
(***************************************************************************)
(* The queue of answers.                                                   *)
(***************************************************************************)
Responses == Provisional \cup Finals

LEMMA QueuedAnswer ==
    ASSUME TypeOK, NEW a \in Responses, Len(fifo) < MaxFifo, fifo' = Append(fifo, a)
    PROVE  /\ fifo' \in Seq(Responses) /\ Len(fifo') <= MaxFifo
           /\ \E i \in 1..Len(fifo') : fifo'[i] = a
           /\ (\E i \in 1..Len(fifo) : fifo[i] = "200")
                 => \E i \in 1..Len(fifo') : fifo'[i] = "200"
<1>1. fifo \in Seq(Responses)
  BY DEF TypeOK, Responses
<1>2. MaxFifo \in Nat
  BY IncomingCallAssumption
<1>3. /\ fifo' \in Seq(Responses) /\ Len(fifo') = Len(fifo) + 1 /\ Len(fifo) \in Nat
      /\ fifo'[Len(fifo) + 1] = a /\ \A i \in 1..Len(fifo) : fifo'[i] = fifo[i]
  BY <1>1
<1>4. Len(fifo) + 1 \in 1..Len(fifo') /\ 1..Len(fifo) \subseteq 1..Len(fifo')
  BY <1>3
<1> QED BY <1>2, <1>3, <1>4

LEMMA ConsumedAnswer ==
    ASSUME TypeOK, fifo # <<>>, fifo' = Tail(fifo)
    PROVE  /\ Head(fifo) \in Responses
           /\ fifo' \in Seq(Responses) /\ Len(fifo') <= MaxFifo
           /\ Head(fifo) # "200" /\ (\E i \in 1..Len(fifo) : fifo[i] = "200")
                 => \E i \in 1..Len(fifo') : fifo'[i] = "200"
<1>1. fifo \in Seq(Responses) /\ Len(fifo) <= MaxFifo
  BY DEF TypeOK, Responses
<1>2. MaxFifo \in Nat
  BY IncomingCallAssumption
<1>3. /\ fifo' \in Seq(Responses) /\ Len(fifo') = Len(fifo) - 1 /\ Len(fifo) \in Nat
      /\ Len(fifo) >= 1 /\ Head(fifo) = fifo[1] /\ Head(fifo) \in Responses
      /\ \A i \in 1..Len(fifo') : fifo'[i] = fifo[i + 1]
  BY <1>1
<1>4. ASSUME Head(fifo) # "200", NEW i \in 1..Len(fifo), fifo[i] = "200"
      PROVE  i - 1 \in 1..Len(fifo') /\ fifo'[i - 1] = "200"
  BY <1>3, <1>4
<1>5. Len(fifo') <= MaxFifo
  BY <1>1, <1>2, <1>3
<1> QED BY <1>3, <1>4, <1>5

-----------------------------------------------------------------------------
(***************************************************************************)
(* Type correctness is inductive by itself.                                *)
(***************************************************************************)
LEMMA InitType == Init => TypeOK
<1> SUFFICES ASSUME Init PROVE TypeOK
  OBVIOUS
<1>1. autoanswer_bye \in BOOLEAN /\ again \in BOOLEAN /\ d_200Ok \in BOOLEAN
      /\ built \in BOOLEAN /\ terminated \in BOOLEAN
  BY Zenon DEF Init
<1>2. /\ TimerOK(birth, NoAnswer) /\ TimerOK(timer_h, Linger) /\ d_count \in 0..RepeatLimit
      /\ TimerOK(d_timer, 4) /\ bye_in_timer \in Off..Start(NoAnswer + Linger)
      /\ TimerOK(bye_out_timer, Linger)
  BY IncomingCallAssumption DEF Init, TimerOK, Off, Start
<1>3. fifo \in Seq(Provisional \cup Finals) /\ Len(fifo) <= MaxFifo
  BY IncomingCallAssumption DEF Init
<1> QED BY <1>1, <1>2, <1>3, Zenon DEF Init, TypeOK

\* The parts of the type invariant: one prover is good at each.
Flags ==
    /\ autoanswer_bye \in BOOLEAN /\ again \in BOOLEAN /\ d_200Ok \in BOOLEAN
    /\ built \in BOOLEAN /\ terminated \in BOOLEAN

Clocks ==
    /\ TimerOK(birth, NoAnswer) /\ TimerOK(timer_h, Linger) /\ d_count \in 0..RepeatLimit
    /\ TimerOK(d_timer, 4) /\ bye_in_timer \in Off..Start(NoAnswer + Linger)
    /\ TimerOK(bye_out_timer, Linger)

Answers == fifo \in Seq(Responses) /\ Len(fifo) <= MaxFifo

Labels ==
    /\ phase \in {"free", "ist", "release"}
    /\ call \in {"none", "listed", "released"}
    /\ state \in {"IST_PRE_PROCEEDING", "IST_PROCEEDING", "IST_COMPLETED",
                  "IST_CONFIRMED", "IST_TERMINATED"}
    /\ last_response \in {"none"} \cup Responses
    /\ d_dialog \in {"NULL", "EARLY", "CONFIRMED"}
    /\ cancel \in {"none", "queued", "done"}
    /\ bye_in \in {"none", "queued", "answered", "removed",
                   "NIST_TRYING", "NIST_COMPLETED", "NIST_TERMINATED"}
    /\ bye_out \in {"none", "NICT_TRYING", "NICT_TERMINATED"}
    /\ sent \subseteq Responses
    /\ reported \subseteq {"CALL_INVITE", "CALL_CANCELLED", "CALL_ACK", "CALL_CLOSED",
                           "CALL_NOANSWER", "CALL_RELEASED"}

LEMMA TypeParts == TypeOK <=> Flags /\ Clocks /\ Answers /\ Labels
<1>1. {"none"} \cup Responses = {"none"} \cup Provisional \cup Finals
  BY DEF Responses
<1> QED BY <1>1, Zenon DEF TypeOK, Flags, Clocks, Answers, Labels, Responses

\* Every step keeps the types, one action at a time.
LEMMA NextType == TypeOK /\ [Next]_vars => TypeOK'
<1> SUFFICES ASSUME TypeOK, [Next]_vars PROVE TypeOK'
  OBVIOUS
<1>a. Flags /\ Clocks /\ Answers /\ Labels
  BY TypeParts
<1>b. ASSUME Flags', Clocks', Answers', Labels' PROVE TypeOK'
  <2>1. ({"none"} \cup Responses = {"none"} \cup Provisional \cup Finals)'
    BY DEF Responses
  <2> QED BY <1>b, <2>1, Zenon DEF TypeOK, Flags, Clocks, Answers, Labels, Responses
<1> USE IncomingCallAssumption DEF TimerOK, Start, Off
<1>1. CASE osip_nist_execute
  <2>1. Flags'
    BY <1>a, <1>1, Zenon DEF osip_nist_execute, ReportCancel, invite, dialog, Flags
  <2>2. Clocks'
    BY <1>a, <1>1 DEF osip_nist_execute, ReportCancel, invite, dialog, Clocks, Labels
  <2>3. Answers'
    BY <1>a, <1>1 DEF osip_nist_execute, ReportCancel, invite, dialog, Answers
  <2>4. Labels'
    <3>1. /\ cancel' \in {"none", "queued", "done"}
          /\ reported' \subseteq {"CALL_INVITE", "CALL_CANCELLED", "CALL_ACK", "CALL_CLOSED",
                                  "CALL_NOANSWER", "CALL_RELEASED"}
      <4>1. PICK events \in {{}, {"CALL_CLOSED"}} : ReportCancel(events)
        BY <1>1 DEF osip_nist_execute
      <4> QED BY <1>a, <4>1 DEF ReportCancel, Labels
    <3>2. bye_in' \in {"none", "queued", "answered", "removed",
                       "NIST_TRYING", "NIST_COMPLETED", "NIST_TERMINATED"}
      BY <1>a, <1>1 DEF osip_nist_execute, Labels
    <3>3. bye_out' \in {"none", "NICT_TRYING", "NICT_TERMINATED"} /\ phase' = "ist"
      BY <1>a, <1>1 DEF osip_nist_execute, Labels
    <3>4. UNCHANGED <<call, invite, dialog, sent>>
      BY <1>1 DEF osip_nist_execute
    <3> QED BY <1>a, <3>1, <3>2, <3>3, <3>4 DEF invite, dialog, Labels
  <2> QED BY <1>b, <2>1, <2>2, <2>3, <2>4
<1>2. CASE osip_ist_execute
  <2>1. Flags'
    BY <1>a, <1>2, Zenon DEF osip_ist_execute, ist_snd_1xx, ist_snd_2xx, ist_snd_3456xx, byes, Flags
  <2>2. Clocks'
    BY <1>a, <1>2 DEF osip_ist_execute, ist_snd_1xx, ist_snd_2xx, ist_snd_3456xx, byes, Clocks, Labels
  <2>3. Answers'
    BY <1>a, <1>2, ConsumedAnswer DEF osip_ist_execute, ist_snd_1xx, ist_snd_2xx, ist_snd_3456xx, byes, Answers
  <2>4. Labels'
    <3>1. Head(fifo) \in Responses
      BY <1>2, ConsumedAnswer DEF osip_ist_execute
    <3>2. CASE state # "IST_PROCEEDING"
      BY <1>a, <1>2, <3>2 DEF osip_ist_execute, byes, Labels
    <3>3. CASE state = "IST_PROCEEDING"
      <4>1. /\ last_response' = Head(fifo)
            /\ ist_snd_1xx \/ ist_snd_2xx \/ ist_snd_3456xx
            /\ UNCHANGED <<phase, call, cancel, byes>>
        BY <1>2, <3>3 DEF osip_ist_execute
      <4>2. sent' \in {sent, sent \cup {Head(fifo)}}
            /\ reported' \in {reported, reported \cup {"CALL_CLOSED"}}
        BY <4>1 DEF ist_snd_1xx, ist_snd_2xx, ist_snd_3456xx
      <4>3. state' \in {"IST_PROCEEDING", "IST_COMPLETED", "IST_TERMINATED"}
            /\ d_dialog' \in {d_dialog, "NULL"}
        BY <3>3, <4>1 DEF ist_snd_1xx, ist_snd_2xx, ist_snd_3456xx
      <4> QED BY <1>a, <3>1, <4>1, <4>2, <4>3 DEF byes, Labels
    <3> QED BY <3>2, <3>3
  <2> QED BY <1>b, <2>1, <2>2, <2>3, <2>4
<1>3. CASE EndIst
  BY <1>3 DEF EndIst, dialog, byes, history, TypeOK
<1>4. CASE _eXosip_release_terminated_calls
  <2>1. Flags'
    BY <1>a, <1>4, Zenon DEF _eXosip_release_terminated_calls, dialog, Flags
  <2>2. Clocks'
    BY <1>a, <1>4 DEF _eXosip_release_terminated_calls, dialog, Clocks, Labels
  <2>3. Answers'
    BY <1>a, <1>4 DEF _eXosip_release_terminated_calls, dialog, Answers
  <2>4. Labels'
    BY <1>a, <1>4 DEF _eXosip_release_terminated_calls, dialog, Labels
  <2> QED BY <1>b, <2>1, <2>2, <2>3, <2>4
<1>5. CASE _eXosip_process_new_invite
  BY <1>5 DEF _eXosip_process_new_invite, byes, TypeOK, Provisional
<1>6. CASE _eXosip_process_newrequest_invite
  BY <1>6 DEF _eXosip_process_newrequest_invite, invite, dialog, byes, history, TypeOK
<1>7. CASE _eXosip_process_cancel
  BY <1>7, QueuedAnswer
     DEF _eXosip_process_cancel, dialog, byes, history, TypeOK, Responses, Finals, Refusals
<1>8. CASE _eXosip_process_bye
  <2>1. Flags'
    BY <1>a, <1>8, Zenon DEF _eXosip_process_bye, ReportCancel, invite, Flags
  <2>2. Clocks'
    BY <1>a, <1>8 DEF _eXosip_process_bye, ReportCancel, invite, Clocks, Labels
  <2>3. Answers'
    BY <1>a, <1>8 DEF _eXosip_process_bye, ReportCancel, invite, Answers
  <2>4. Labels'
    BY <1>a, <1>8 DEF _eXosip_process_bye, ReportCancel, invite, Labels
  <2> QED BY <1>b, <2>1, <2>2, <2>3, <2>4
<1>9. CASE _eXosip_process_ack
  <2>1. Flags'
    BY <1>a, <1>9, Zenon DEF _eXosip_process_ack, invite, byes, Flags
  <2>2. Clocks'
    BY <1>a, <1>9 DEF _eXosip_process_ack, invite, byes, Clocks, Labels
  <2>3. Answers'
    BY <1>a, <1>9 DEF _eXosip_process_ack, invite, byes, Answers
  <2>4. Labels'
    BY <1>a, <1>9 DEF _eXosip_process_ack, invite, byes, Labels
  <2> QED BY <1>b, <2>1, <2>2, <2>3, <2>4
<1>10. CASE eXosip_call_build_answer
  BY <1>10 DEF eXosip_call_build_answer, invite, dialog, byes, history, TypeOK
<1>11. ASSUME NEW answer \in {"180", "200", "486"}, eXosip_call_send_answer(answer)
       PROVE  TypeOK'
  <2>1. Flags'
    BY <1>a, <1>11, Zenon DEF eXosip_call_send_answer, Queue, dialog, byes, history, Flags
  <2>2. Clocks'
    BY <1>a, <1>11 DEF eXosip_call_send_answer, Queue, dialog, byes, history, Clocks, Labels
  <2>3. Answers'
    <3>1. answer \in Responses
      BY DEF Responses, Provisional, Finals, Refusals
    <3>2. Len(fifo) < MaxFifo /\ fifo' = Append(fifo, answer)
      BY <1>11 DEF eXosip_call_send_answer, Queue
    <3> QED BY <3>1, <3>2, QueuedAnswer DEF Answers
  <2>4. Labels'
    BY <1>a, <1>11, QueuedAnswer DEF eXosip_call_send_answer, Queue, dialog, byes, history, Labels
  <2> QED BY <1>b, <2>1, <2>2, <2>3, <2>4
<1>12. CASE AnswerBye
  BY <1>12 DEF AnswerBye, invite, dialog, history, TypeOK
<1>13. CASE eXosip_call_terminate
  BY <1>13, QueuedAnswer
     DEF eXosip_call_terminate, Terminate, Queue, byes, TypeOK, Responses, Finals, Refusals
<1>14. CASE _eXosip_retransmit_lost200ok
  <2>1. /\ \/ Repeat200ok
           \/ Drop200ok /\ Terminate
           \/ Drop200ok /\ UNCHANGED <<d_dialog, fifo, byes, reported>>
        /\ UNCHANGED <<autoanswer_bye, phase, call, again, birth, built, cancel, state,
                       last_response, timer_h, terminated>>
    BY <1>14 DEF _eXosip_retransmit_lost200ok, Drop200ok
  <2>2. Flags'
    BY <1>a, <2>1, Zenon DEF Repeat200ok, Drop200ok, Flags
  <2>3. Clocks'
    <3>1. CASE Repeat200ok
      <4>1. d_count' \in 0..RepeatLimit /\ Interval(d_count + 1) \in 0..4
        BY <1>a, <3>1 DEF Repeat200ok, Clocks, Interval
      <4> QED BY <1>a, <2>1, <3>1, <4>1 DEF Repeat200ok, byes, Clocks
    <3>2. CASE Drop200ok /\ Terminate
      BY <1>a, <2>1, <3>2 DEF Drop200ok, Terminate, byes, Clocks
    <3>3. CASE Drop200ok /\ UNCHANGED <<d_dialog, fifo, byes, reported>>
      BY <1>a, <2>1, <3>3 DEF Drop200ok, byes, Clocks
    <3> QED BY <2>1, <3>1, <3>2, <3>3
  <2>4. Answers'
    <3>1. CASE fifo' = fifo
      BY <1>a, <3>1 DEF Answers
    <3>2. CASE Queue("603")
      <4>1. "603" \in Responses
        BY DEF Responses, Finals, Refusals
      <4>2. Len(fifo) < MaxFifo /\ fifo' = Append(fifo, "603")
        BY <3>2 DEF Queue
      <4> QED BY <4>1, <4>2, QueuedAnswer DEF Answers
    <3> QED BY <2>1, <3>1, <3>2 DEF Repeat200ok, Terminate
  <2>5. Labels'
    <3>1. CASE Repeat200ok
      <4>1. sent' \subseteq Responses
        BY <1>a, <3>1 DEF Repeat200ok, Labels, Responses, Finals
      <4> QED BY <1>a, <2>1, <3>1, <4>1 DEF Repeat200ok, byes, Labels
    <3>2. CASE Drop200ok /\ Terminate
      <4>1. sent' = sent /\ reported' \in {reported, reported \cup {"CALL_CLOSED"}}
        BY <3>2 DEF Drop200ok
      <4>2. d_dialog' \in {d_dialog, "NULL"} /\ bye_in' = bye_in
            /\ bye_out' \in {bye_out, "NICT_TRYING"}
        BY <3>2 DEF Terminate, byes
      <4> QED BY <1>a, <2>1, <4>1, <4>2 DEF Labels
    <3>3. CASE Drop200ok /\ UNCHANGED <<d_dialog, fifo, byes, reported>>
      BY <1>a, <2>1, <3>3 DEF Drop200ok, byes, Labels
    <3> QED BY <2>1, <3>1, <3>2, <3>3
  <2> QED BY <1>b, <2>2, <2>3, <2>4, <2>5
<1>15. CASE Tick
  BY <1>15 DEF Tick, Elapse, history, TypeOK
<1>16. CASE UNCHANGED vars
  BY <1>16 DEF vars, invite, dialog, byes, history, TypeOK
<1> QED
  BY <1>1, <1>2, <1>3, <1>4, <1>5, <1>6, <1>7, <1>8, <1>9, <1>10, <1>11, <1>12, <1>13,
     <1>14, <1>15, <1>16
     DEF Next, Stack, Peer, Application

-----------------------------------------------------------------------------
(***************************************************************************)
(* The history.                                                            *)
(***************************************************************************)
LEMMA InitHistory == Init => History
BY DEF Init, History, Listed, NoBye, NoRefusal, BeforeTheInvite, WhileListed,
       ClosedForAReason, UnansweredWaits, RefusedWasSent, LostRefusalIsReleased,
       AcceptedIsKept, QuietAfterAck, QuietAfterClose, AcceptedEndsWithBye, NoSecondCall

LEMMA NextHistory == IInv /\ [Next]_vars => History'
<1> SUFFICES ASSUME IInv, [Next]_vars PROVE History'
  OBVIOUS
<1>a. TypeOK /\ History /\ Clocks /\ Labels
  BY TypeParts DEF IInv
<1> USE <1>a, IncomingCallAssumption
    DEF History, BeforeTheInvite, WhileListed, ClosedForAReason, UnansweredWaits, RefusedWasSent,
            LostRefusalIsReleased, AcceptedIsKept, QuietAfterAck, QuietAfterClose,
            AcceptedEndsWithBye, NoSecondCall,
            Free, Listed, Answered, NoBye, NoRefusal, Labels, Refusals
<1>1. CASE osip_nist_execute
  BY <1>1 DEF osip_nist_execute, ReportCancel, invite, dialog
<1>2. CASE osip_ist_execute
  <2>1. CASE state # "IST_PROCEEDING"
    BY <1>2, <2>1 DEF osip_ist_execute, byes
  <2>2. CASE state = "IST_PROCEEDING"
    <3>1. /\ last_response' = Head(fifo)
          /\ ist_snd_1xx \/ ist_snd_2xx \/ ist_snd_3456xx
          /\ UNCHANGED <<autoanswer_bye, phase, call, again, d_200Ok, d_count, d_timer, byes,
                         terminated>>
      BY <1>2, <2>2 DEF osip_ist_execute
    <3>2. phase = "ist" /\ fifo # <<>> /\ fifo' = Tail(fifo)
      BY <1>2 DEF osip_ist_execute
    <3>3. CASE ist_snd_1xx
      \* A provisional answer leaves a 200 OK that waits behind it where it is.
      BY <2>2, <3>1, <3>2, <3>3, ConsumedAnswer DEF ist_snd_1xx, byes, Provisional
    <3>4. CASE ist_snd_2xx
      BY <2>2, <3>1, <3>2, <3>4 DEF ist_snd_2xx, byes
    <3>5. CASE ist_snd_3456xx
      \* Sent, it closes the call; lost, the release pass comes before anything else.
      BY <2>2, <3>1, <3>2, <3>5 DEF ist_snd_3456xx, byes
    <3> QED BY <3>1, <3>3, <3>4, <3>5
  <2> QED BY <2>1, <2>2
<1>3. CASE EndIst
  BY <1>3 DEF EndIst, dialog, byes, history
<1>4. CASE _eXosip_release_terminated_calls
  <2>1. CASE call' = "released"
    <3>1. ~Pending /\ (Finished \/ NotAnswered \/ Refused \/ d_dialog = "NULL")
      BY <1>4, <2>1 DEF _eXosip_release_terminated_calls
    <3>2. AcceptedEndsWithBye'
      \* None of the four reasons holds of an accepted call without a BYE.
      BY <1>4, <3>1 DEF _eXosip_release_terminated_calls, Finished, NotAnswered, Refused,
                        ByeInOld
    <3>3. /\ phase' = "free" /\ d_dialog' = "NULL" /\ ~d_200Ok' /\ state' = "IST_TERMINATED"
          /\ reported \subseteq reported' /\ "CALL_RELEASED" \in reported'
          /\ "CALL_ACK" \in reported' => "CALL_ACK" \in reported
          /\ bye_in' \in {bye_in, "removed"}
          /\ UNCHANGED <<autoanswer_bye, again, fifo, bye_out, sent, terminated>>
      BY <1>4, <3>1 DEF _eXosip_release_terminated_calls
    <3> QED BY <2>1, <3>2, <3>3
  <2>2. CASE call' # "released"
    BY <1>4, <2>2 DEF _eXosip_release_terminated_calls, dialog, Pending, Refused, ByeInOld
  <2> QED BY <2>1, <2>2
<1>5. CASE _eXosip_process_new_invite
  BY <1>5 DEF _eXosip_process_new_invite, byes
<1>6. CASE _eXosip_process_newrequest_invite
  BY <1>6 DEF _eXosip_process_newrequest_invite, CopyIsNewCall, invite, dialog, byes, history
<1>7. CASE _eXosip_process_cancel
  <2>1. "487" \in Responses /\ Len(fifo) < MaxFifo /\ fifo' = Append(fifo, "487")
    BY <1>7 DEF _eXosip_process_cancel, Responses, Finals
  <2> QED BY <1>7, <2>1, QueuedAnswer DEF _eXosip_process_cancel, dialog, byes, history
<1>8. CASE _eXosip_process_bye
  BY <1>8 DEF _eXosip_process_bye, ReportCancel, invite
<1>9. CASE _eXosip_process_ack
  BY <1>9 DEF _eXosip_process_ack, invite, byes
<1>10. CASE eXosip_call_build_answer
  BY <1>10 DEF eXosip_call_build_answer, invite, dialog, byes, history
<1>11. ASSUME NEW answer \in {"180", "200", "486"}, eXosip_call_send_answer(answer)
       PROVE  History'
  <2>1. /\ Listed /\ ~Answered /\ phase = "free"
        /\ Len(fifo) < MaxFifo /\ fifo' = Append(fifo, answer)
        /\ UNCHANGED <<autoanswer_bye, phase, call, again, state, last_response, byes,
                       history>>
    BY <1>11 DEF eXosip_call_send_answer, Queue
  <2>2. answer \in Responses
    BY DEF Responses, Provisional, Finals
  <2>3. \/ /\ answer = "200" /\ d_200Ok' /\ d_timer' = 2 /\ d_count' = 0
           /\ d_dialog' = "NULL" <=> d_dialog = "NULL"
        \/ UNCHANGED dialog
    BY <1>11 DEF eXosip_call_send_answer, Start
  <2>4. /\ answer = "200" => \E i \in 1..Len(fifo') : fifo'[i] = "200"
        /\ (\E i \in 1..Len(fifo) : fifo[i] = "200") => \E i \in 1..Len(fifo') : fifo'[i] = "200"
    BY <2>1, <2>2, QueuedAnswer
  <2>5. UnansweredWaits'
    BY <2>1, <2>3, <2>4 DEF dialog, history
  <2> QED BY <2>1, <2>3, <2>5 DEF dialog, byes, history
<1>12. CASE AnswerBye
  BY <1>12 DEF AnswerBye, invite, dialog, history
<1>13. CASE eXosip_call_terminate
  <2>1. CASE Queue("603") /\ UNCHANGED <<d_dialog, byes>>
    <3>1. "603" \in Responses /\ Len(fifo) < MaxFifo /\ fifo' = Append(fifo, "603")
      BY <2>1 DEF Queue, Responses, Finals
    <3> QED BY <1>13, <2>1, <3>1, QueuedAnswer DEF eXosip_call_terminate, byes
  <2>2. CASE ~(Queue("603") /\ UNCHANGED <<d_dialog, byes>>)
    BY <1>13, <2>2 DEF eXosip_call_terminate, Terminate
  <2> QED BY <2>1, <2>2
<1>14. CASE _eXosip_retransmit_lost200ok
  <2>1. /\ Listed /\ phase = "free" /\ d_200Ok /\ d_dialog # "NULL"
        /\ UNCHANGED <<autoanswer_bye, phase, call, again, state, last_response, terminated>>
    BY <1>14 DEF _eXosip_retransmit_lost200ok
  <2>2. (Due(d_timer) /\ d_count # RepeatLimit) \/ d_count = RepeatLimit
    BY <1>14 DEF _eXosip_retransmit_lost200ok, Repeat200ok, Drop200ok
  <2>3. state # "IST_PROCEEDING"
    \* There the first repetition is not due, and none is counted.
    BY <2>1, <2>2 DEF Due
  <2>4. CASE Repeat200ok
    BY <2>1, <2>3, <2>4 DEF Repeat200ok, byes
  <2>5. CASE Drop200ok
    BY <2>1, <2>3, <2>5 DEF Drop200ok, Terminate, TerminateRefused, Queue, byes
  <2> QED BY <1>14, <2>4, <2>5 DEF _eXosip_retransmit_lost200ok
<1>15. CASE Tick
  BY <1>15 DEF Tick, Elapse, history
<1>16. CASE UNCHANGED vars
  BY <1>16 DEF vars, invite, dialog, byes, history
<1> QED
  BY <1>1, <1>2, <1>3, <1>4, <1>5, <1>6, <1>7, <1>8, <1>9, <1>10, <1>11, <1>12, <1>13,
     <1>14, <1>15, <1>16
     DEF Next, Stack, Peer, Application

LEMMA Invariance == Spec => []IInv
<1>1. Init => IInv
  BY InitType, InitHistory DEF IInv
<1>2. IInv /\ [Next]_vars => IInv'
  BY NextType, NextHistory DEF IInv
<1> QED BY <1>1, <1>2, PTL DEF Spec

-----------------------------------------------------------------------------
(***************************************************************************)
(* Type correctness of the record of a call and its transactions.          *)
(***************************************************************************)
THEOREM TypeCorrect == Spec => []TypeOK
<1>1. IInv => TypeOK
  BY DEF IInv
<1> QED BY Invariance, <1>1, PTL

(***************************************************************************)
(* The release pass (_eXosip_release_terminated_calls) never forgets a     *)
(* call whose peer holds a 200 OK and no refusal, unless a BYE has gone    *)
(* one way or the other.                                                   *)
(***************************************************************************)
THEOREM Accepted == Spec => []AcceptedEndsWithBye
<1>1. IInv => AcceptedEndsWithBye
  BY DEF IInv, History
<1> QED BY Invariance, <1>1, PTL

(***************************************************************************)
(* A copy of the INVITE makes a second call only after the application was *)
(* told the end of the first, or asked for it                              *)
(* (_eXosip_process_newrequest).                                           *)
(***************************************************************************)
THEOREM SecondCall == Spec => []NoSecondCall
<1>1. IInv => NoSecondCall
  BY DEF IInv, History
<1> QED BY Invariance, <1>1, PTL

(***************************************************************************)
(* The 200 OK is not repeated (_eXosip_retransmit_lost200ok) after its ACK *)
(* was reported, nor, when the stack answers BYEs itself and no refusal    *)
(* was sent, after CALL_CLOSED.                                            *)
(***************************************************************************)
THEOREM RepeatEnds == Spec => NoRepeatAfterClose
<1> DEFINE A == d_count' > d_count =>
                  /\ "CALL_ACK" \notin reported
                  /\ autoanswer_bye /\ sent \cap Refusals = {} => "CALL_CLOSED" \notin reported
<1>1. IInv /\ [Next]_vars => [A]_vars
  <2> SUFFICES ASSUME IInv, Next, d_count' > d_count PROVE A
    OBVIOUS
  <2>1. d_count \in Nat
    BY IncomingCallAssumption DEF IInv, TypeOK
  <2>2. _eXosip_retransmit_lost200ok
    BY <2>1 DEF Next, Stack, Peer, Application, osip_nist_execute, osip_ist_execute, EndIst,
                _eXosip_release_terminated_calls, _eXosip_process_new_invite,
                _eXosip_process_newrequest_invite, _eXosip_process_cancel,
                _eXosip_process_bye, _eXosip_process_ack, eXosip_call_build_answer,
                eXosip_call_send_answer, AnswerBye, eXosip_call_terminate, Tick, dialog
  <2>3. d_200Ok /\ d_dialog # "NULL"
    BY <2>2 DEF _eXosip_retransmit_lost200ok
  <2> QED BY <2>3 DEF IInv, History, QuietAfterAck, QuietAfterClose, NoRefusal
<1> QED BY Invariance, <1>1, PTL DEF Spec, NoRepeatAfterClose

=============================================================================
