------------------------------- MODULE MCNist -------------------------------
(***************************************************************************)
(* Model checking of the non-INVITE server transaction.                    *)
(***************************************************************************)
EXTENDS Nist

=============================================================================
