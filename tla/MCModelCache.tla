---------------------------- MODULE MCModelCache ----------------------------
(* Two workers, and three caches: a dead run and a restart.                  *)
EXTENDS ModelCache, TLC

CONSTANTS w1, w2

MCWorker == {w1, w2}
Symmetry == Permutations(MCWorker)
=============================================================================
