-------------------------- MODULE MCAutomaticAction --------------------------
(***************************************************************************)
(* Model checking of the automatic actions and of the release pass.        *)
(***************************************************************************)
EXTENDS AutomaticAction

=============================================================================
