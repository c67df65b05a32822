--------------------------- MODULE MCDafsaDaemon ---------------------------
(***************************************************************************)
(* DafsaDaemon for TLC: model values for the directories and the threads.  *)
(***************************************************************************)
EXTENDS DafsaDaemon
=============================================================================
