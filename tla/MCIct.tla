------------------------------- MODULE MCIct -------------------------------
(***************************************************************************)
(* Model checking of the INVITE client transaction.                        *)
(***************************************************************************)
EXTENDS Ict

=============================================================================
