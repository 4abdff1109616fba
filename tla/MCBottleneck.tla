---------------------------- MODULE MCBottleneck ----------------------------
(***************************************************************************)
(* TLC instance of Bottleneck; the cfg gives the bounds.                   *)
(***************************************************************************)
EXTENDS Bottleneck
=============================================================================
