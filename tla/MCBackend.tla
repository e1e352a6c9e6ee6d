----------------------------- MODULE MCBackend -----------------------------
(***************************************************************************)
(* Backend for TLC.  The threads are interchangeable, so the safety runs   *)
(* take them up to permutation; the liveness runs do not.                  *)
(***************************************************************************)
EXTENDS Backend, TLC

Symmetry == Permutations(Readers) \cup Permutations(Openers) \cup Permutations(SqlThreads)
=============================================================================
