------------------------- MODULE ServerTransaction -------------------------
(***************************************************************************)
(* What a server transaction of oSIP promises to the peer, without timers, *)
(* queues or transports.                                                   *)
(*                                                                         *)
(* Provisional responses may be sent and repeated until a final response   *)
(* is sent.  From then on that very response is the only one that leaves,  *)
(* however many the application tries to send; and nothing leaves once the *)
(* peer has acknowledged it or the transaction is dead.                    *)
(***************************************************************************)
CONSTANTS
    Provisional,  \* the provisional responses
    Finals,       \* the final responses
    Lingering,    \* the final responses after which the transaction lingers
    Acked         \* TRUE for INVITE: an ACK ends the repetition of the final response

VARIABLES
    phase,        \* "open", "answered", "confirmed" or "dead"
    final,        \* the final response that was sent, or "none"
    out           \* the message the last step put on the wire, or "none"

vars == <<phase, final, out>>

Init == phase = "open" /\ final = "none" /\ out = "none"

Proceed ==
    /\ phase = "open"
    /\ out' \in {"none"} \cup Provisional
    /\ UNCHANGED <<phase, final>>

Answer ==
    /\ phase = "open"
    /\ \E r \in Finals :
          /\ final' = r
          /\ out' = r
          /\ phase' = IF r \in Lingering THEN "answered" ELSE "dead"

Repeat ==
    /\ phase = "answered"
    /\ out' \in {"none", final}
    /\ UNCHANGED <<phase, final>>

Confirm ==
    /\ Acked
    /\ phase = "answered"
    /\ phase' = "confirmed"
    /\ out' = "none"
    /\ UNCHANGED final

Silence ==
    /\ phase \in {"confirmed", "dead"}
    /\ out' = "none"
    /\ UNCHANGED <<phase, final>>

\* A timer or a transport error ends the transaction.
Die ==
    /\ phase' = "dead"
    /\ out' = "none"
    /\ UNCHANGED final

Next == Proceed \/ Answer \/ Repeat \/ Confirm \/ Silence \/ Die

Spec == Init /\ [][Next]_vars

=============================================================================
