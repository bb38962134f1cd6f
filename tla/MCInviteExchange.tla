-------------------------- MODULE MCInviteExchange --------------------------
(***************************************************************************)
(* Model checking of an INVITE exchange over UDP.                          *)
(***************************************************************************)
EXTENDS InviteExchange

=============================================================================
