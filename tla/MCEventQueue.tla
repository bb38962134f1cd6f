---------------------------- MODULE MCEventQueue ----------------------------
(***************************************************************************)
(* Model checking of the event queue of eXosip.                            *)
(***************************************************************************)
EXTENDS EventQueue

=============================================================================
