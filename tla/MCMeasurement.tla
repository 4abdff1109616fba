--------------------------- MODULE MCMeasurement ---------------------------
(***************************************************************************)
(* TLC instance of Measurement: four packets, one duplicate, one runt and *)
(* a socket that holds two datagrams, so that every kind of loss, a        *)
(* duplicate of a reordered packet and a full socket occur.                *)
(***************************************************************************)
EXTENDS Measurement
=============================================================================
