---------------------------- MODULE MCIndexStore -----------------------------
(* Small instances of IndexStore for TLC.                                  *)
EXTENDS IndexStore

CONSTANTS f1, f2, w1, w2

MCFiles == <<f1, f2>>
MCWords == {w1, w2}
MCTexts == {{w1}, {w2}}
StateWithoutSeq == <<world, fst, wal, sidecars, manifest.exists, manifest.files, pc, plan, history>>
WordSymmetry == Permutations(Words)
=============================================================================
