------------------------------ MODULE MCTiming ------------------------------
(***************************************************************************)
(* TLC instance of Timing: three packets, two ticks apart, with waits that *)
(* are slept and waits that are not, and a step of the wall clock.         *)
(***************************************************************************)
EXTENDS Timing

MCSteps == {-2, 4}
=============================================================================
