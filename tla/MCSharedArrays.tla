---------------------------- MODULE MCSharedArrays ----------------------------
(* TLC instance of SharedArrays: threads are interchangeable, and nothing   *)
(* is claimed of what comes after an end has been contested.                *)
EXTENDS SharedArrays, TLC

Symmetry == Permutations(Threads)
Orderly == ~contested
=============================================================================
