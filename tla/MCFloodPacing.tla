--------------------------- MODULE MCFloodPacing ---------------------------
(***************************************************************************)
(* TLC instance of FloodPacing: a packet every two ticks, a forgiven lag   *)
(* of two, and a clock stepped twice by more and by less than the lag.    *)
(***************************************************************************)
EXTENDS FloodPacing

MCSteps == {-3, 2, 5}
=============================================================================
