----------------------------- MODULE MCAtomMap -----------------------------
(* TLC instances of AtomMap: plain is a bare word; escape2                   *)
(* stands for escape, and escape for newline, as backslash backslash n does *)
(* for backslash n and that for the newline character. Their hashes let     *)
(* tombstones spread over the whole map.                                    *)
EXTENDS AtomMap

CONSTANTS plain, escape2, escape, newline

MCStrings == {plain, escape2, escape, newline}

MCRequests == {plain} \X {FALSE} \cup {escape2, escape, newline} \X {TRUE}

MCText == (escape2 :> escape @@ escape :> newline) @@ [s \in MCStrings |-> s]

MCHash == escape2 :> 7 @@ plain :> 0 @@ escape :> 3 @@ newline :> 5

Symmetry == Permutations(Items) \cup Permutations(Threads)
=============================================================================
