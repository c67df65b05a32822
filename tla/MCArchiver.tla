----------------------------- MODULE MCArchiver ------------------------------
(* Small instances of Archiver for TLC.                                    *)
EXTENDS Archiver, TLC

RunSymmetry == Permutations(Runs)
=============================================================================
