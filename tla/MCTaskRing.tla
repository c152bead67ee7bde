----------------------------- MODULE MCTaskRing -----------------------------
(* TLC instances of TaskRing. *)
EXTENDS TaskRing, TLC

Symmetry == Permutations(Threads)
=============================================================================
