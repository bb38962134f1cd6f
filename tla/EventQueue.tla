----------------------------- MODULE EventQueue -----------------------------
(***************************************************************************)
(* The queue of eXosip events between the thread of the stack and the      *)
(* application (jevents.c): a FIFO, and a pipe whose bytes wake the        *)
(* application up.                                                         *)
(*                                                                         *)
(* The stack adds the event and writes the byte in two steps.  The         *)
(* application looks at the FIFO, empties the pipe, and waits on the pipe, *)
(* in steps of its own.  All orders of these steps are explored.  One call *)
(* empties the pipe: it reads up to 499 bytes and no run writes that many. *)
(***************************************************************************)
EXTENDS Naturals, Sequences

CONSTANT
    MaxEvents    \* bound: events the stack reports in a run

ASSUME EventQueueAssumption == MaxEvents \in Nat

VARIABLES
    j_events,    \* the FIFO; the n-th event reported is the number n
    reported,    \* number of events reported so far
    waking,      \* _eXosip_event_add has added its event and not yet written its byte
    pipe,        \* bytes in j_socketctl_event
    j_stop_ua,   \* eXosip_quit was called
    pc,          \* where the application is
    delivered    \* number of the last event handed to the application

vars == <<j_events, reported, waking, pipe, j_stop_ua, pc, delivered>>

Init ==
    /\ j_events = <<>>
    /\ reported = 0
    /\ waking = FALSE
    /\ pipe = 0
    /\ j_stop_ua = FALSE
    /\ pc = "idle"
    /\ delivered = 0

-----------------------------------------------------------------------------
(***************************************************************************)
(* The thread of the stack.                                                *)
(***************************************************************************)

\* _eXosip_event_add, first half: osip_fifo_add.  Until eXosip_quit has joined the
\* thread, events may still be reported after j_stop_ua was set.
_eXosip_event_add ==
    /\ ~waking
    /\ reported < MaxEvents
    /\ reported' = reported + 1
    /\ j_events' = Append(j_events, reported + 1)
    /\ waking' = TRUE
    /\ UNCHANGED <<pipe, j_stop_ua, pc, delivered>>

\* _eXosip_event_add, second half: the byte that wakes the application.
eXosip_wakeup_event ==
    /\ waking
    /\ waking' = FALSE
    /\ pipe' = pipe + 1
    /\ UNCHANGED <<j_events, reported, j_stop_ua, pc, delivered>>

\* eXosip_quit, called by another thread, wakes the application as well.
eXosip_quit ==
    /\ ~j_stop_ua
    /\ j_stop_ua' = TRUE
    /\ pipe' = pipe + 1
    /\ UNCHANGED <<j_events, reported, waking, pc, delivered>>

-----------------------------------------------------------------------------
(***************************************************************************)
(* The application.                                                        *)
(***************************************************************************)
Deliver ==
    /\ delivered' = Head(j_events)
    /\ j_events' = Tail(j_events)

\* Mutant: the FIFO is looked at only after the pipe has announced something.
wait_tryget_skipped ==
    /\ pc = "idle"
    /\ pc' = "drain"
    /\ UNCHANGED <<j_events, reported, waking, pipe, j_stop_ua, delivered>>

\* eXosip_event_wait, entry: osip_fifo_tryget.
wait_tryget ==
    /\ pc = "idle"
    /\ IF j_events # <<>>
       THEN Deliver /\ pc' = "idle"
       ELSE pc' = "drain" /\ UNCHANGED <<j_events, delivered>>
    /\ UNCHANGED <<reported, waking, pipe, j_stop_ua>>

\* Bytes already in the pipe are read; with a null timeout the call is over.
wait_drain ==
    /\ pc = "drain"
    /\ pipe' = 0
    /\ \/ pc' = "returned"    \* tv_s = 0 /\ tv_ms = 0
       \/ pc' = "select"
    /\ UNCHANGED <<j_events, reported, waking, j_stop_ua, delivered>>

\* The second select: a byte, or the timeout.
wait_select ==
    /\ pc = "select"
    /\ \/ pipe > 0 /\ pc' = IF j_stop_ua THEN "idle" ELSE "read"
       \/ pc' = "idle"
    /\ UNCHANGED <<j_events, reported, waking, pipe, j_stop_ua, delivered>>

wait_read ==
    /\ pc = "read"
    /\ pipe' = 0
    /\ pc' = "tryget"
    /\ UNCHANGED <<j_events, reported, waking, j_stop_ua, delivered>>

wait_second_tryget ==
    /\ pc = "tryget"
    /\ pc' = "idle"
    /\ IF j_events # <<>> THEN Deliver ELSE UNCHANGED <<j_events, delivered>>
    /\ UNCHANGED <<reported, waking, pipe, j_stop_ua>>

\* eXosip_event_get: empties the pipe, then blocks on the FIFO itself.
get_drain ==
    /\ pc = "idle"
    /\ pipe' = 0
    /\ pc' = "get"
    /\ UNCHANGED <<j_events, reported, waking, j_stop_ua, delivered>>

get_block ==
    /\ pc = "get"
    /\ j_events # <<>>
    /\ Deliver
    /\ pc' = "idle"
    /\ UNCHANGED <<reported, waking, pipe, j_stop_ua>>

(***************************************************************************)
(* After a call that did not wait and found nothing, the application may   *)
(* sleep in a select of its own on the event socket, until it has data or  *)
(* until the timeout the application has chosen.                           *)
(***************************************************************************)
watch ==
    /\ \/ pc = "returned" /\ pc' = "watching"
       \/ pc \in {"returned", "watching"} /\ pc' = "idle"
    /\ UNCHANGED <<j_events, reported, waking, pipe, j_stop_ua, delivered>>

eXosip_event_wait ==
    wait_tryget \/ wait_drain \/ wait_select \/ wait_read \/ wait_second_tryget

eXosip_event_get == get_drain \/ get_block

Next ==
    \/ _eXosip_event_add
    \/ eXosip_wakeup_event
    \/ eXosip_quit
    \/ eXosip_event_wait
    \/ eXosip_event_get
    \/ watch

(***************************************************************************)
(* The application calls eXosip_event_wait in a loop, as its documentation *)
(* asks, and every select ends with its timeout at the latest.             *)
(***************************************************************************)
Fairness ==
    /\ WF_vars(eXosip_wakeup_event)
    /\ WF_vars(eXosip_event_wait)
    /\ WF_vars(get_block)
    /\ WF_vars(watch)

Spec == Init /\ [][Next]_vars /\ Fairness

-----------------------------------------------------------------------------
(***************************************************************************)
(* Properties.                                                             *)
(***************************************************************************)

(***************************************************************************)
(* An application that keeps calling eXosip_event_wait gets every event,   *)
(* although the first read of the pipe may swallow the byte of an event    *)
(* that has just been added: the next call looks at the FIFO first.        *)
(***************************************************************************)
EventuallyDelivered ==
    \A n \in 1..MaxEvents : reported >= n ~> delivered >= n \/ j_stop_ua

(***************************************************************************)
(* The header says that the event socket receives data when an event       *)
(* happens, and that eXosip_event_wait is to be called until there are no  *)
(* more events.  An application that did so and sleeps on the socket       *)
(* should find it readable whenever an event is waiting.                   *)
(***************************************************************************)
SocketAnnouncesEvents ==
    pc = "watching" /\ j_events # <<>> /\ ~waking => pipe > 0

=============================================================================
