---------------------------- MODULE MCEvalStack ----------------------------
(* TLC instances of EvalStack: a program, which the host evaluates, a        *)
(* function that ignores its parameters and has fewer registers than those, *)
(* and a variadic one with more registers.                                  *)
EXTENDS EvalStack

CONSTANTS main, small, wide

MCRegisters == main :> 2 @@ small :> 1 @@ wide :> 2
MCArity == main :> 0 @@ small :> 2 @@ wide :> 1

(* Nothing is claimed of what comes after an error has spilled frames.      *)
Orderly == ~spilled
=============================================================================
