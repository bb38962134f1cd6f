------------------------- MODULE ClientTransaction -------------------------
(***************************************************************************)
(* What a client transaction of oSIP promises to the application above it  *)
(* and to the peer, without timers, queues or transports.                  *)
(*                                                                         *)
(* A transaction waits, and may (re)send its request while it waits.  It   *)
(* then either gives the application one verdict - the class of the final  *)
(* response, a timeout, a transport error - or dies without one.  After a  *)
(* final response it may linger to absorb retransmitted responses, which   *)
(* it acknowledges if its method has an ACK, and it never sends the        *)
(* request again.  Once dead it sends nothing.                             *)
(***************************************************************************)
EXTENDS Sequences

CONSTANTS
    Request,    \* the message this transaction sends
    Acked,      \* TRUE for INVITE: a lingering transaction sends ACKs
    Lingering   \* the final response classes after which it lingers

VARIABLES
    phase,      \* "waiting", "answered" or "dead"
    told,       \* the verdicts given to the application
    out         \* the message the last step put on the wire, or "none"

vars == <<phase, told, out>>

Init == phase = "waiting" /\ told = <<>> /\ out = "none"

Wait ==
    /\ phase = "waiting"
    /\ out' \in {"none", Request}
    /\ UNCHANGED <<phase, told>>

\* A final response ends the wait.
Answer ==
    /\ phase = "waiting"
    /\ \E class \in {"2XX", "3456XX"} :
          /\ told' = <<class>>
          /\ phase' = IF class \in Lingering THEN "answered" ELSE "dead"
          /\ out' = IF class \in Lingering /\ Acked THEN "ACK" ELSE "none"

\* So does a failure.
Fail ==
    /\ phase = "waiting"
    /\ told' \in {<<"TIMEOUT">>, <<"TRANSPORT_ERROR">>, <<>>}
    /\ phase' = "dead"
    /\ out' = "none"

Linger ==
    /\ phase = "answered"
    /\ out' \in IF Acked THEN {"none", "ACK"} ELSE {"none"}
    /\ UNCHANGED <<phase, told>>

\* A lingering transaction ends by its timer, or because an ACK could not be sent.
End ==
    /\ phase = "answered"
    /\ told' \in IF Acked THEN {told, Append(told, "TRANSPORT_ERROR")} ELSE {told}
    /\ phase' = "dead"
    /\ out' = "none"

Rest ==
    /\ phase = "dead"
    /\ out' = "none"
    /\ UNCHANGED <<phase, told>>

Next == Wait \/ Answer \/ Fail \/ Linger \/ End \/ Rest

Spec == Init /\ [][Next]_vars

=============================================================================
