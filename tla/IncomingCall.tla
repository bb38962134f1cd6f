---------------------------- MODULE IncomingCall ----------------------------
(***************************************************************************)
(* A call received by eXosip: the record jc (eXosip_call_t) with its       *)
(* dialog jd (eXosip_dialog_t), the INVITE server transaction c_inc_tr,    *)
(* and the BYE and CANCEL transactions of the dialog (udp.c, eXcall_api.c, *)
(* jcallback.c, eXosip.c).                                                 *)
(*                                                                         *)
(* Three parties change the record, each holding the eXosip lock: the      *)
(* stack thread handing over messages of the peer and then running the     *)
(* transactions and the release pass (eXosip_execute), the application     *)
(* through the API, and the application's thread inside eXosip_event_wait, *)
(* which repeats the 200 OK.  An answer of the application is only queued; *)
(* what the dialog records at that moment and what the transaction sends   *)
(* later may differ.                                                       *)
(*                                                                         *)
(* The transactions are reduced to what the modules Ist, Nist and Nict     *)
(* show of them: the first final answer of the queue wins, a send may      *)
(* fail, and a transaction with a final answer ends within a bounded time. *)
(* The initial INVITE is the only INVITE of the dialog.                    *)
(***************************************************************************)
EXTENDS Timers, Sequences

CONSTANTS
    NoAnswer,     \* the 180 seconds after which an unanswered call is dropped
    Linger,       \* timers H, J and F: a transaction with nothing to wait for is over
    RepeatLimit,  \* the 9 of d_count == 9: repetitions of the 200 OK before giving up
    MaxFifo       \* bound: answers that may wait in the queue of the INVITE

ASSUME IncomingCallAssumption ==
    /\ NoAnswer \in Nat \ {0}
    /\ Linger \in Nat \ {0}
    /\ RepeatLimit \in Nat \ {0}
    /\ MaxFifo \in Nat \ {0}

VARIABLES
    autoanswer_bye, \* excontext->autoanswer_bye
    phase,          \* what the holder of the lock is doing; "free": nobody holds it
    call,           \* the record jc: "none", "listed" in j_calls, or "released"
    again,          \* a copy of the INVITE created a second call
    state,          \* c_inc_tr->state
    fifo,           \* the answers in c_inc_tr->transactionff
    last_response,  \* c_inc_tr->last_response
    birth,          \* distance to c_inc_tr->birth_time + 180
    timer_h,        \* distance to the end of c_inc_tr once it is answered
    d_dialog,       \* jd->d_dialog: "NULL", "EARLY" or "CONFIRMED"
    d_200Ok,        \* jd->d_200Ok # NULL: the 200 OK to repeat until the ACK
    d_count,        \* jd->d_count
    d_timer,        \* distance to jd->d_timer
    built,          \* the application holds a 200 OK made by eXosip_call_build_answer
    cancel,         \* the CANCEL transaction of jd: "none", "queued" or "done"
    bye_in,         \* the BYE received on jd
    bye_out,        \* the BYE sent on jd
    bye_in_timer,   \* distance to birth_time + 180 of bye_in, then to its timer J
    bye_out_timer,  \* distance to timer F of bye_out
    sent,           \* responses to the INVITE above 100 that were put on the wire
    reported,       \* the events reported to the application
    terminated      \* eXosip_call_terminate returned OSIP_SUCCESS

dialog == <<d_dialog, d_200Ok, d_count, d_timer>>
invite == <<state, fifo, last_response, timer_h>>
byes == <<bye_in, bye_out, bye_in_timer, bye_out_timer>>
history == <<sent, reported, terminated>>
vars == <<autoanswer_bye, phase, call, again, birth, built, cancel,
          invite, dialog, byes, history>>

\* The answers the application gives, and the one process_cancel queues.
Provisional == {"100", "180"}
Refusals == {"486", "487", "603"}
Finals == {"200"} \cup Refusals

\* "the transaction is already answered"
Answered == state \in {"IST_COMPLETED", "IST_CONFIRMED", "IST_TERMINATED"}

Listed == call = "listed"

\* The lock is free, for a message of the peer or a call of the API.
Free == phase = "free" /\ Listed

Init ==
    /\ autoanswer_bye \in BOOLEAN
    /\ phase = "free"
    /\ call = "none"
    /\ again = FALSE
    /\ state = "IST_PRE_PROCEEDING"
    /\ fifo = <<>>
    /\ last_response = "none"
    /\ birth = Off
    /\ timer_h = Off
    /\ d_dialog = "NULL"
    /\ d_200Ok = FALSE
    /\ d_count = 0
    /\ d_timer = Off
    /\ built = FALSE
    /\ cancel = "none"
    /\ bye_in = "none"
    /\ bye_out = "none"
    /\ bye_in_timer = Off
    /\ bye_out_timer = Off
    /\ sent = {}
    /\ reported = {}
    /\ terminated = FALSE

-----------------------------------------------------------------------------
(***************************************************************************)
(* Messages of the peer (_eXosip_handle_incoming_message and               *)
(* _eXosip_process_newrequest).                                            *)
(***************************************************************************)

\* The INVITE: the early dialog is created, 100 Trying is sent at once, and the call
\* is reported even when that send failed and ended the transaction.
_eXosip_process_new_invite ==
    /\ phase = "free"
    /\ call = "none"
    /\ call' = "listed"
    /\ birth' = Start(NoAnswer)
    /\ d_dialog' = "EARLY"
    /\ last_response' = "100"
    /\ state' \in {"IST_PROCEEDING", "IST_TERMINATED"}
    /\ reported' = {"CALL_INVITE"}
    /\ UNCHANGED <<autoanswer_bye, phase, again, fifo, timer_h, d_200Ok, d_count, d_timer,
                   built, cancel, byes, sent, terminated>>

\* Mutant: the dialog is not asked whether it knows the INVITE.
CopyIsNewCallAfterIst == ~Listed \/ state = "IST_TERMINATED"

\* A late copy of the INVITE is a new call once c_inc_tr has left the list, where it
\* would answer the copy itself, and the dialog is gone, which would know it by its CSeq
\* and its branch.
CopyIsNewCall == ~Listed \/ (state = "IST_TERMINATED" /\ d_dialog = "NULL")

_eXosip_process_newrequest_invite ==
    /\ phase = "free"
    /\ call # "none"
    /\ again' = (again \/ CopyIsNewCall)
    /\ UNCHANGED <<autoanswer_bye, phase, call, birth, built, cancel, invite, dialog, byes,
                   history>>

\* A CANCEL.  An answered INVITE gets 481; otherwise the CANCEL gets 200 and 487 is
\* queued for the INVITE, behind whatever the application queued before.
_eXosip_process_cancel ==
    /\ Free
    /\ cancel = "none"
    /\ ~Answered
    /\ Len(fifo) < MaxFifo
    /\ cancel' = "queued"
    /\ fifo' = Append(fifo, "487")
    /\ UNCHANGED <<autoanswer_bye, phase, call, again, state, last_response, timer_h, birth,
                   built, dialog, byes, history>>

\* osip_nist_execute handing a CANCEL to cb_rcvcancel.
ReportCancel(events) ==
    /\ cancel' = IF cancel = "queued" THEN "done" ELSE cancel
    /\ reported' = reported \cup events
                   \cup (IF cancel = "queued" THEN {"CALL_CANCELLED"} ELSE {})

\* A BYE of the peer, who knows the dialog from a 180 or a 200.  With autoanswer_bye it
\* is answered at once and the dialog is closed; otherwise it waits for the application.
_eXosip_process_bye ==
    /\ Free
    /\ d_dialog # "NULL"
    /\ sent \cap {"180", "200"} # {}
    /\ bye_in \in {"none", "removed"}
    /\ \/ /\ autoanswer_bye
          /\ bye_in' \in {"NIST_COMPLETED", "NIST_TERMINATED"}
          /\ bye_in_timer' = Start(Linger)
          /\ d_dialog' = "NULL"
          /\ ReportCancel({"CALL_CLOSED"})
       \/ /\ ~autoanswer_bye
          /\ bye_in' = "queued"
          /\ bye_in_timer' = Start(NoAnswer)
          /\ UNCHANGED <<d_dialog, cancel, reported>>
    /\ UNCHANGED <<autoanswer_bye, phase, call, again, birth, built, invite,
                   d_200Ok, d_count, d_timer, bye_out, bye_out_timer, sent, terminated>>

\* Mutant: the 200 OK is kept.
_eXosip_process_ack_keeping_200ok ==
    /\ Free
    /\ d_dialog # "NULL"
    /\ "200" \in sent
    /\ d_count' = 0
    /\ reported' = reported \cup {"CALL_ACK"}
    /\ UNCHANGED <<autoanswer_bye, phase, call, again, birth, built, cancel, invite,
                   d_200Ok, d_dialog, d_timer, byes, sent, terminated>>

\* The ACK of the 200 OK stops its repetition.
_eXosip_process_ack ==
    /\ Free
    /\ d_dialog # "NULL"
    /\ "200" \in sent
    /\ d_count' = 0
    /\ d_200Ok' = FALSE
    /\ reported' = reported \cup {"CALL_ACK"}
    /\ UNCHANGED <<autoanswer_bye, phase, call, again, birth, built, cancel, invite,
                   d_dialog, d_timer, byes, sent, terminated>>

-----------------------------------------------------------------------------
(***************************************************************************)
(* The application.                                                        *)
(***************************************************************************)

\* A 200 OK can be made only while the dialog is there; it may be sent much later.
eXosip_call_build_answer ==
    /\ Free
    /\ d_dialog # "NULL"
    /\ ~Answered
    /\ built' = TRUE
    /\ UNCHANGED <<autoanswer_bye, phase, call, again, birth, cancel, invite, dialog, byes,
                   history>>

\* osip_transaction_add_event, refused when "transaction already answered".
Queue(answer) ==
    /\ ~Answered
    /\ Len(fifo) < MaxFifo
    /\ fifo' = Append(fifo, answer)

\* A 200 OK makes the dialog confirmed, and due for repetition, before the transaction
\* has sent it.
eXosip_call_send_answer(answer) ==
    /\ Free
    /\ Queue(answer)
    /\ IF answer = "200"
       THEN /\ built
            /\ built' = FALSE
            /\ d_200Ok' = TRUE
            /\ d_timer' = Start(1)
            /\ d_count' = 0
            /\ d_dialog' = IF d_dialog = "NULL" THEN "NULL" ELSE "CONFIRMED"
       ELSE UNCHANGED <<built, dialog>>
    /\ UNCHANGED <<autoanswer_bye, phase, call, again, birth, cancel, state, last_response,
                   timer_h, byes, history>>

\* The application answers a BYE it was told of; the answer is queued.
AnswerBye ==
    /\ Free
    /\ bye_in = "NIST_TRYING"
    /\ bye_in' = "answered"
    /\ UNCHANGED <<autoanswer_bye, phase, call, again, birth, built, cancel, invite, dialog,
                   bye_out, bye_in_timer, bye_out_timer, history>>

\* Mutant: a call that nobody was told is ringing is only forgotten.
TerminateSilently ==
    \/ /\ last_response \in Provisional
       /\ last_response = "180" => Queue("603")
       /\ last_response # "180" => UNCHANGED fifo
       /\ UNCHANGED <<d_dialog, byes>>
    \/ /\ last_response \notin Provisional
       /\ bye_out' = "NICT_TRYING"
       /\ bye_out_timer' = Start(Linger)
       /\ d_dialog' = "NULL"
       /\ UNCHANGED <<bye_in, bye_in_timer, fifo>>

\* eXosip_call_terminate, when it succeeds: 603 when the last response the transaction
\* has processed is provisional, else a BYE, which closes the dialog.
Terminate ==
    \/ /\ last_response \in Provisional
       /\ Queue("603")
       /\ UNCHANGED <<d_dialog, byes>>
    \/ /\ last_response \notin Provisional
       /\ bye_out' = "NICT_TRYING"
       /\ bye_out_timer' = Start(Linger)
       /\ d_dialog' = "NULL"
       /\ UNCHANGED <<bye_in, bye_in_timer, fifo>>

\* Its failure: the 603 is refused with OSIP_WRONG_STATE.
TerminateRefused == last_response \in Provisional /\ Answered

eXosip_call_terminate ==
    /\ Free
    /\ d_dialog # "NULL"
    /\ Terminate
    /\ terminated' = TRUE
    /\ UNCHANGED <<autoanswer_bye, phase, call, again, birth, built, cancel, state,
                   last_response, timer_h, d_200Ok, d_count, d_timer, sent, reported>>

\* jd->d_timer for the next repetition.
Interval(count) == IF count < 3 THEN count ELSE 4

\* Mutant: the repetitions are not counted against the limit.
Repeat200okForever ==
    /\ Due(d_timer)
    /\ d_count' = d_count + 1
    /\ d_timer' = Start(Interval(d_count + 1))
    /\ sent' = sent \cup {"200"}
    /\ UNCHANGED <<d_200Ok, d_dialog, fifo, byes, reported>>

\* The turn of _eXosip_retransmit_lost200ok that repeats the 200 OK.
Repeat200ok ==
    /\ d_count # RepeatLimit
    /\ Due(d_timer)
    /\ d_count' = d_count + 1
    /\ d_timer' = Start(Interval(d_count + 1))
    /\ sent' = sent \cup {"200"}
    /\ UNCHANGED <<d_200Ok, d_dialog, fifo, byes, reported>>

\* Mutant: giving up stops the repetitions and forgets the BYE.
Drop200okSilently ==
    /\ d_count = RepeatLimit
    /\ d_count' = 0
    /\ d_200Ok' = FALSE
    /\ reported' = reported \cup {"CALL_CLOSED"}
    /\ UNCHANGED <<d_timer, sent, d_dialog, fifo, byes>>

\* The turn that gives up: it ends the call.
Drop200ok ==
    /\ d_count = RepeatLimit
    /\ d_count' = 0
    /\ d_200Ok' = FALSE
    /\ \/ /\ Terminate
          /\ reported' = reported \cup {"CALL_CLOSED"}
       \/ /\ TerminateRefused
          /\ UNCHANGED <<d_dialog, fifo, byes, reported>>
    /\ UNCHANGED <<d_timer, sent>>

\* Called by eXosip_event_wait.
_eXosip_retransmit_lost200ok ==
    /\ Free
    /\ d_dialog # "NULL"
    /\ d_200Ok
    /\ Repeat200ok \/ Drop200ok
    /\ UNCHANGED <<autoanswer_bye, phase, call, again, birth, built, cancel, state,
                   last_response, timer_h, terminated>>

-----------------------------------------------------------------------------
(***************************************************************************)
(* The stack thread: eXosip_execute, under one hold of the lock.           *)
(***************************************************************************)

\* The timers and the non-INVITE queues.  An answered transaction has ended by its
\* timer at the latest; the answer or the failure of a send may end it before.
osip_nist_execute ==
    /\ Free
    /\ phase' = "ist"
    /\ \/ /\ bye_in = "queued"
          /\ bye_in' = "NIST_TRYING"
          /\ ReportCancel({"CALL_CLOSED"})
          /\ UNCHANGED bye_in_timer
       \/ /\ bye_in = "answered"
          /\ bye_in' \in {"NIST_COMPLETED", "NIST_TERMINATED"}
          /\ bye_in_timer' = Start(Linger)
          /\ ReportCancel({})
       \/ /\ bye_in \notin {"queued", "answered"}
          /\ bye_in' = IF bye_in = "NIST_COMPLETED" /\ Due(bye_in_timer)
                       THEN "NIST_TERMINATED" ELSE bye_in
          /\ ReportCancel({})
          /\ UNCHANGED bye_in_timer
    /\ \/ bye_out = "NICT_TRYING" /\ bye_out' = "NICT_TERMINATED"
       \/ (bye_out = "NICT_TRYING" => ~Due(bye_out_timer)) /\ UNCHANGED bye_out
    /\ UNCHANGED <<autoanswer_bye, call, again, birth, built, invite, dialog, bye_out_timer,
                   sent, terminated>>

\* The INVITE transaction sends an answer of its queue; last_response is replaced
\* before the send, which may fail.
ist_snd_1xx ==
    /\ Head(fifo) \in Provisional
    /\ \/ sent' = sent \cup {Head(fifo)} /\ UNCHANGED state
       \/ state' = "IST_TERMINATED" /\ UNCHANGED sent
    /\ UNCHANGED <<timer_h, d_dialog, reported>>

ist_snd_2xx ==
    /\ Head(fifo) = "200"
    /\ state' = "IST_TERMINATED"
    /\ sent' \in {sent, sent \cup {"200"}}
    /\ UNCHANGED <<timer_h, d_dialog, reported>>

\* A refusal that was sent deletes the early dialog and closes the call (cb_snd123456xx).
ist_snd_3456xx ==
    /\ Head(fifo) \in Refusals
    /\ \/ /\ state' = "IST_COMPLETED"
          /\ timer_h' = Start(Linger)
          /\ sent' = sent \cup {Head(fifo)}
          /\ d_dialog' = IF d_dialog = "EARLY" THEN "NULL" ELSE d_dialog
          /\ reported' = reported \cup {"CALL_CLOSED"}
       \/ /\ state' = "IST_TERMINATED"
          /\ UNCHANGED <<timer_h, sent, d_dialog, reported>>

\* One answer of the queue; once the INVITE is answered the others are discarded.
osip_ist_execute ==
    /\ phase = "ist"
    /\ fifo # <<>>
    /\ fifo' = Tail(fifo)
    /\ IF state = "IST_PROCEEDING"
       THEN /\ last_response' = Head(fifo)
            /\ ist_snd_1xx \/ ist_snd_2xx \/ ist_snd_3456xx
       ELSE UNCHANGED <<state, last_response, timer_h, sent, d_dialog, reported>>
    /\ UNCHANGED <<autoanswer_bye, phase, call, again, birth, built, cancel, d_200Ok, d_count,
                   d_timer, byes, terminated>>

\* The rest of the pass over the INVITE transaction: the ACK of a refusal, timers H and
\* I, and a copy of the INVITE or timer G whose resend fails.
EndIst ==
    /\ phase = "ist"
    /\ fifo = <<>>
    /\ phase' = "release"
    /\ state' \in CASE state = "IST_PROCEEDING" -> {"IST_PROCEEDING", "IST_TERMINATED"}
                    [] state = "IST_COMPLETED" /\ ~Due(timer_h) ->
                           {"IST_COMPLETED", "IST_CONFIRMED", "IST_TERMINATED"}
                    [] state = "IST_CONFIRMED" /\ ~Due(timer_h) ->
                           {"IST_CONFIRMED", "IST_TERMINATED"}
                    [] OTHER -> {"IST_TERMINATED"}
    /\ timer_h' = IF state = "IST_COMPLETED" /\ state' = "IST_CONFIRMED"
                  THEN Start(Linger) ELSE timer_h
    /\ UNCHANGED <<autoanswer_bye, call, again, birth, built, cancel, fifo, last_response,
                   dialog, byes, history>>

\* _eXosip_pendingosip_transaction_exist: something of the call is still under way.
ByeInOld == bye_in \in {"NIST_TRYING", "answered"} /\ Due(bye_in_timer)

\* Mutant: an INVITE without a final answer is waited for without a limit.
PendingForever ==
    \/ bye_in \in {"NIST_TRYING", "answered", "NIST_COMPLETED"} /\ ~ByeInOld
    \/ bye_out = "NICT_TRYING"
    \/ state # "IST_TERMINATED"

Pending ==
    \/ bye_in \in {"NIST_TRYING", "answered", "NIST_COMPLETED"} /\ ~ByeInOld
    \/ bye_out = "NICT_TRYING"
    \/ state # "IST_TERMINATED" /\ ~Due(birth)

\* _eXosip_release_finished_calls
Finished ==
    IF bye_in \in {"none", "removed"} \/ ByeInOld
    THEN bye_out = "NICT_TERMINATED"
    ELSE bye_in = "NIST_TERMINATED"

\* Mutant: the age alone decides.
NotAnsweredByAge == Due(birth)

\* _eXosip_release_aborted_calls: no answer for 180 seconds, or a refusal.
NotAnswered == state # "IST_TERMINATED" /\ Due(birth)

Refused == state = "IST_TERMINATED" /\ last_response \in Refusals

\* The dialog is removed or the call is released at once; a call without a dialog is
\* released by the second loop of the same pass.  What a release frees is reset.
_eXosip_release_terminated_calls ==
    /\ phase = "release"
    /\ phase' = "free"
    /\ bye_in' = IF ByeInOld THEN "removed" ELSE bye_in
    /\ IF ~Pending /\ (Finished \/ NotAnswered \/ Refused \/ d_dialog = "NULL")
       THEN /\ call' = "released"
            /\ d_dialog' = "NULL"
            /\ d_200Ok' = FALSE
            /\ d_count' = 0
            /\ state' = "IST_TERMINATED"
            /\ birth' = Off /\ timer_h' = Off /\ d_timer' = Off
            /\ bye_in_timer' = Off /\ bye_out_timer' = Off
            /\ reported' = reported \cup {"CALL_RELEASED"}
                   \cup (IF ~Finished /\ NotAnswered THEN {"CALL_NOANSWER"} ELSE {})
       ELSE UNCHANGED <<call, dialog, state, birth, timer_h, bye_in_timer, bye_out_timer,
                        reported>>
    /\ UNCHANGED <<autoanswer_bye, again, built, cancel, fifo, last_response,
                   bye_out, sent, terminated>>

\* A second passes.  The API wakes the stack thread up, so that a second does not pass
\* between an answer that was queued and the pass that sends it.
Tick ==
    /\ phase = "free"
    /\ fifo = <<>>
    /\ birth' = Elapse(birth)
    /\ timer_h' = Elapse(timer_h)
    /\ d_timer' = Elapse(d_timer)
    /\ bye_in_timer' = Elapse(bye_in_timer)
    /\ bye_out_timer' = Elapse(bye_out_timer)
    /\ UNCHANGED <<autoanswer_bye, phase, call, again, built, cancel, state, fifo,
                   last_response, d_dialog, d_200Ok, d_count, bye_in, bye_out, history>>

-----------------------------------------------------------------------------
Stack ==
    \/ osip_nist_execute
    \/ osip_ist_execute
    \/ EndIst
    \/ _eXosip_release_terminated_calls

Peer ==
    \/ _eXosip_process_new_invite
    \/ _eXosip_process_newrequest_invite
    \/ _eXosip_process_cancel
    \/ _eXosip_process_bye
    \/ _eXosip_process_ack

Application ==
    \/ eXosip_call_build_answer
    \/ \E answer \in {"180", "200", "486"} : eXosip_call_send_answer(answer)
    \/ AnswerBye
    \/ eXosip_call_terminate

Next == Stack \/ Peer \/ Application \/ _eXosip_retransmit_lost200ok \/ Tick

Spec == Init /\ [][Next]_vars

(***************************************************************************)
(* Fairness: the loop of the stack thread never stops running passes       *)
(* (eXosip_thread), the application keeps calling eXosip_event_wait, as    *)
(* every program of the repository does, and time passes.  Neither the     *)
(* peer nor the application need do anything else.                         *)
(***************************************************************************)
Fairness ==
    /\ WF_vars(Stack)
    /\ SF_vars(_eXosip_retransmit_lost200ok)
    /\ SF_vars(Tick)

FairSpec == Spec /\ Fairness

-----------------------------------------------------------------------------
(***************************************************************************)
(* Properties.                                                             *)
(***************************************************************************)
TimerOK(timer, length) == timer \in Off..Start(length)

(***************************************************************************)
(* The record and its transactions keep the values the code gives them: in *)
(* particular the dialog of a released call is freed, and the queue of an  *)
(* answer never holds what the application was refused.                    *)
(***************************************************************************)
TypeOK ==
    /\ autoanswer_bye \in BOOLEAN
    /\ phase \in {"free", "ist", "release"}
    /\ call \in {"none", "listed", "released"}
    /\ again \in BOOLEAN
    /\ state \in {"IST_PRE_PROCEEDING", "IST_PROCEEDING", "IST_COMPLETED",
                  "IST_CONFIRMED", "IST_TERMINATED"}
    /\ fifo \in Seq(Provisional \cup Finals) /\ Len(fifo) <= MaxFifo
    /\ last_response \in {"none"} \cup Provisional \cup Finals
    /\ TimerOK(birth, NoAnswer)
    /\ TimerOK(timer_h, Linger)
    /\ d_dialog \in {"NULL", "EARLY", "CONFIRMED"}
    /\ d_200Ok \in BOOLEAN
    /\ d_count \in 0..RepeatLimit
    /\ TimerOK(d_timer, 4)
    /\ built \in BOOLEAN
    /\ cancel \in {"none", "queued", "done"}
    /\ bye_in \in {"none", "queued", "answered", "removed",
                   "NIST_TRYING", "NIST_COMPLETED", "NIST_TERMINATED"}
    /\ bye_out \in {"none", "NICT_TRYING", "NICT_TERMINATED"}
    /\ bye_in_timer \in Off..Start(NoAnswer + Linger)
    /\ TimerOK(bye_out_timer, Linger)
    /\ sent \subseteq Provisional \cup Finals
    /\ reported \subseteq {"CALL_INVITE", "CALL_CANCELLED", "CALL_ACK", "CALL_CLOSED",
                           "CALL_NOANSWER", "CALL_RELEASED"}
    /\ terminated \in BOOLEAN

(***************************************************************************)
(* A call whose peer was sent a 200 OK and no refusal is not forgotten     *)
(* without a BYE of one of the two: otherwise the peer would be left in a  *)
(* call nobody ends.  The release pass decides from the transactions, the  *)
(* ages and d_dialog, never from the 200 OK (udp.c, release pass).         *)
(***************************************************************************)
AcceptedEndsWithBye ==
    call = "released" /\ "200" \in sent /\ sent \cap Refusals = {} =>
        bye_in # "none" \/ bye_out # "none"

(***************************************************************************)
(* A late copy of the INVITE makes a second call, and a second CALL_INVITE *)
(* event, only when the application was told that the first call is over   *)
(* or has ended it (_eXosip_process_newrequest).                           *)
(***************************************************************************)
NoSecondCall ==
    again => terminated \/ reported \cap {"CALL_CLOSED", "CALL_RELEASED"} # {}

(***************************************************************************)
(* The 200 OK is not repeated to a peer that acknowledged it, nor, when    *)
(* BYEs are answered by the stack and no refusal was queued before the 200 *)
(* OK, after the application was told CALL_CLOSED                          *)
(* (_eXosip_retransmit_lost200ok).                                         *)
(***************************************************************************)
NoRepeatAfterClose ==
    [][d_count' > d_count =>
          /\ "CALL_ACK" \notin reported
          /\ autoanswer_bye /\ sent \cap Refusals = {} => "CALL_CLOSED" \notin reported]_vars

\* A provisional answer that could not be sent ended the INVITE transaction.
Broken == state = "IST_TERMINATED" /\ last_response \in Provisional

\* The call is up: answered with 200, and the dialog is open.
Established == Listed /\ state = "IST_TERMINATED" /\ d_dialog = "CONFIRMED"

(***************************************************************************)
(* A 200 OK that is never acknowledged does not keep the call up: the      *)
(* repetitions end, and the dialog with them ("no ACK received during 20s: *)
(* dropping call", _eXosip_retransmit_lost200ok).                          *)
(***************************************************************************)
UnackedCallEnds ==
    d_200Ok ~> "CALL_ACK" \in reported \/ d_dialog = "NULL" \/ Broken

(***************************************************************************)
(* Whatever the peer and the application do or omit, an incoming call ends *)
(* up released or established, unless a provisional answer was lost to a   *)
(* transport error (_eXosip_release_terminated_calls).                     *)
(***************************************************************************)
CallEnds == Listed ~> call = "released" \/ Established \/ Broken

\* A transport error ended the INVITE: its last answer was not sent, or was not final.
Lost ==
    /\ "CALL_NOANSWER" \notin reported
    /\ \/ Broken
       \/ state = "IST_TERMINATED" /\ last_response \notin sent

(***************************************************************************)
(* eXosip_call_terminate, "send CANCEL, BYE or 603 Decline" (eX_call.h):   *)
(* once it has returned OSIP_SUCCESS the peer is sent a refusal or a BYE,  *)
(* unless a transport error ended the INVITE, or a 200 OK was in the queue *)
(* before the 603: then the 603 is dropped and the call stays up.          *)
(***************************************************************************)
TerminateEnds ==
    terminated ~> \/ sent \cap Refusals # {}
                  \/ bye_out # "none" \/ bye_in # "none"
                  \/ Lost
                  \/ last_response = "200"

=============================================================================
