---------------------------- MODULE MCScheduler ----------------------------
(* TLC instances of Scheduler: the root forks three tasks, each of which    *)
(* forks another one.                                                       *)
EXTENDS Scheduler

CONSTANTS a, b, c, d, e, f

MCKids == [task \in Tasks \cup {Root} |->
             CASE task = Root -> <<a, b, c>>
               [] task = a -> <<d>>
               [] task = b -> <<e>>
               [] task = c -> <<f>>
               [] OTHER -> <<>>]
=============================================================================
