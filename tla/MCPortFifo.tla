----------------------------- MODULE MCPortFifo -----------------------------
(***************************************************************************)
(* Model checking of the FIFO shared by three threads, which are           *)
(* interchangeable.                                                        *)
(***************************************************************************)
EXTENDS PortFifo, TLC

ThreadSymmetry == Permutations(Threads)

=============================================================================
