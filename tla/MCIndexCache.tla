---------------------------- MODULE MCIndexCache -----------------------------
(* Small instances of IndexCache for TLC.                                  *)
EXTENDS IndexCache, TLC

ThreadSymmetry == Permutations(Threads)
=============================================================================
