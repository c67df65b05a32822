----------------------------- MODULE MCCadence -----------------------------
(***************************************************************************)
(* Cadence for TLC: model values for the agents and the passes.            *)
(***************************************************************************)
EXTENDS Cadence
=============================================================================
