--------------------------- MODULE InviteExchange ---------------------------
(***************************************************************************)
(* An INVITE client transaction and the INVITE server transaction at the   *)
(* other end, over UDP.                                                    *)
(*                                                                         *)
(* The network keeps every datagram ever sent and delivers any of them,    *)
(* any number of times, in any order, or never: loss, duplication, delay   *)
(* and reordering without bound.  The two ends share the passing of time   *)
(* and nothing else.  The server transaction is created by the first copy  *)
(* of the INVITE that arrives; a copy that arrives after its end is not    *)
(* followed here.                                                          *)
(***************************************************************************)
EXTENDS Timers, Sequences

CONSTANTS T1, T2, T4, TimeoutFactor, LengthD, MaxFifo

VARIABLES
    c_reliable, c_state, c_fifo, c_timer_a_length, c_timer_a, c_timer_b, c_timer_d,
    c_last_response, c_sent, c_out, c_told, c_kills,
    s_reliable, s_state, s_fifo, s_timer_g_length, s_timer_g, s_timer_h, s_timer_i,
    s_last_response, s_final, s_out, s_errors, s_kills,
    created,    \* the server transaction exists
    net         \* the datagrams sent so far

c_vars == <<c_reliable, c_state, c_fifo, c_timer_a_length, c_timer_a, c_timer_b, c_timer_d,
            c_last_response, c_sent, c_out, c_told, c_kills>>
s_vars == <<s_reliable, s_state, s_fifo, s_timer_g_length, s_timer_g, s_timer_h, s_timer_i,
            s_last_response, s_final, s_out, s_errors, s_kills>>
vars == <<c_vars, s_vars, created, net>>

C == INSTANCE Ict
     WITH reliable <- c_reliable, state <- c_state, fifo <- c_fifo,
          timer_a_length <- c_timer_a_length, timer_a <- c_timer_a, timer_b <- c_timer_b,
          timer_d <- c_timer_d, last_response <- c_last_response, sent <- c_sent,
          out <- c_out, told <- c_told, kills <- c_kills

S == INSTANCE Ist
     WITH reliable <- s_reliable, state <- s_state, fifo <- s_fifo,
          timer_g_length <- s_timer_g_length, timer_g <- s_timer_g, timer_h <- s_timer_h,
          timer_i <- s_timer_i, last_response <- s_last_response, final <- s_final,
          out <- s_out, errors <- s_errors, kills <- s_kills

Init ==
    /\ C!Init /\ ~c_reliable
    /\ S!Init /\ ~s_reliable
    /\ created = FALSE
    /\ net = {}

\* What a step put on the wire is in the network from then on.
Emit(message) == net' = net \cup ({message} \ {"none"})

\* Mutant: every response below 300 is taken for a final success.
EventOf_1xx_as_2xx(response) ==
    IF response \in S!SND_STATUS_3456XX THEN "RCV_STATUS_3456XX" ELSE "RCV_STATUS_2XX"

\* evt_set_type_incoming_sipmessage, for a response.
EventOf(response) ==
    CASE response \in S!SND_STATUS_1XX    -> "RCV_STATUS_1XX"
      [] response \in S!SND_STATUS_2XX    -> "RCV_STATUS_2XX"
      [] response \in S!SND_STATUS_3456XX -> "RCV_STATUS_3456XX"

ClientStep ==
    /\ C!osip_timers_ict_execute \/ C!osip_ict_execute
    /\ Emit(c_out')
    /\ UNCHANGED <<s_vars, created>>

ServerStep ==
    /\ created
    /\ S!osip_timers_ist_execute \/ S!osip_ist_execute
    /\ Emit(s_out')
    /\ UNCHANGED <<c_vars, created>>

Answer(response) ==
    /\ created
    /\ S!osip_transaction_add_event(response)
    /\ UNCHANGED <<c_vars, created, net>>

\* osip_create_transaction, for an INVITE that no server transaction matches.
osip_create_transaction ==
    /\ "INVITE" \in net
    /\ ~created
    /\ created' = TRUE
    /\ UNCHANGED <<c_vars, s_vars, net>>

\* Mutant: once a refusal was sent, a copy of the INVITE is taken for its ACK.
DeliverToServer_invite_as_ack ==
    /\ created
    /\ "INVITE" \in net
    /\ \/ s_final = "none" /\ S!osip_find_transaction_and_add_event("RCV_REQINVITE")
       \/ S!osip_find_transaction_and_add_event("RCV_REQACK")
    /\ UNCHANGED <<c_vars, created, net>>

DeliverToServer ==
    /\ created
    /\ \/ "INVITE" \in net /\ S!osip_find_transaction_and_add_event("RCV_REQINVITE")
       \/ "ACK" \in net /\ S!osip_find_transaction_and_add_event("RCV_REQACK")
    /\ UNCHANGED <<c_vars, created, net>>

DeliverToClient ==
    /\ \E response \in net \cap S!Responses :
          C!osip_find_transaction_and_add_event(EventOf(response))
    /\ UNCHANGED <<s_vars, created, net>>

Tick ==
    /\ C!Tick
    /\ S!Tick
    /\ UNCHANGED <<created, net>>

Next ==
    \/ ClientStep
    \/ ServerStep
    \/ \E response \in S!Responses : Answer(response)
    \/ osip_create_transaction
    \/ DeliverToServer
    \/ DeliverToClient
    \/ Tick

Spec == Init /\ [][Next]_vars

-----------------------------------------------------------------------------
(***************************************************************************)
(* Properties.                                                             *)
(***************************************************************************)

(***************************************************************************)
(* The verdict of the caller is the answer of the callee: a success or a   *)
(* refusal announced by the client transaction is of the class of the one  *)
(* final response the server transaction put on the wire.                  *)
(***************************************************************************)
VerdictIsTheAnswer ==
    \A i \in 1..Len(c_told) :
        /\ c_told[i] = "2XX" => s_final \in S!SND_STATUS_2XX
        /\ c_told[i] = "3456XX" => s_final \in S!SND_STATUS_3456XX

(***************************************************************************)
(* The callee takes its refusal for acknowledged only if the caller has    *)
(* announced a refusal: no ACK is made of anything else.                   *)
(***************************************************************************)
AckMeansTold ==
    s_state = "IST_CONFIRMED" => \E i \in 1..Len(c_told) : c_told[i] = "3456XX"

(***************************************************************************)
(* No more than one final response is ever in the network, although the    *)
(* application may queue several and the timers of both ends race with     *)
(* them.                                                                   *)
(***************************************************************************)
OneFinalResponse ==
    \A r1, r2 \in net \cap (S!SND_STATUS_2XX \cup S!SND_STATUS_3456XX) : r1 = r2

=============================================================================
