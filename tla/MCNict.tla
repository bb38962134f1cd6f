------------------------------- MODULE MCNict -------------------------------
(***************************************************************************)
(* Model checking of the non-INVITE client transaction.                    *)
(***************************************************************************)
EXTENDS Nict

=============================================================================
