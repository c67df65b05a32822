---------------------------- MODULE MCDreamerRun ----------------------------
(***************************************************************************)
(* DreamerRun for TLC: model values for the processes and the run ids.     *)
(***************************************************************************)
EXTENDS DreamerRun
=============================================================================
