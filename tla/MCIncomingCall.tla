--------------------------- MODULE MCIncomingCall ---------------------------
(***************************************************************************)
(* Model checking of an incoming call.                                     *)
(***************************************************************************)
EXTENDS IncomingCall

=============================================================================
