------------------------------- MODULE MCIst -------------------------------
(***************************************************************************)
(* Model checking of the INVITE server transaction.                        *)
(***************************************************************************)
EXTENDS Ist

=============================================================================
