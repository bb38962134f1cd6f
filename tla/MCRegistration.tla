--------------------------- MODULE MCRegistration ----------------------------
(***************************************************************************)
(* Model checking of a registration with the delays of the code: one       *)
(* REGISTER for 300 seconds, a registrar that grants what is asked, and    *)
(* one failure of the connection.                                          *)
(***************************************************************************)
EXTENDS Registration

=============================================================================
