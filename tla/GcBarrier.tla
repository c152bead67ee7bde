----------------------------- MODULE GcBarrier -----------------------------
(***************************************************************************)
(* Stopping the world: reduct_gc (src/gc.c), the barrier it is built on    *)
(* (reduct_task_barrier, src/task.c), the points where a thread looks for  *)
(* a requested collection (REDUCT_GC_CHECK), the idle workers that have to *)
(* be woken for it, and reduct_free, whose shutdown flag breaks a barrier. *)
(*                                                                         *)
(* A thread in "run" evaluates code or looks for work: it may use the heap *)
(* at any moment. Each atomic access of the barrier is a step.             *)
(***************************************************************************)
EXTENDS Integers, FiniteSets

CONSTANTS
  Threads,      (* global->threads                                         *)
  Master,       (* the thread that called reduct_new, and may reduct_free  *)
  GenMod        (* 2^32, the number of values of barrierGen                *)

ASSUME ThreadsAssumption ==
  /\ IsFiniteSet(Threads)
  /\ Master \in Threads
  /\ GenMod \in Nat /\ GenMod >= 2

VARIABLES
  requested,     (* gc->requested                                          *)
  barrierCount,  (* threads that have arrived at the barrier               *)
  barrierGen,    (* barriers completed, a wrapping counter                 *)
  shutdown,      (* task->shutdown                                         *)
  pc,            (* per thread, its next step                              *)
  barrier,       (* per thread, which of reduct_gc's barriers it is in     *)
  gen,           (* per thread, the local variable gen of the barrier      *)
  freeList,      (* per thread, whether its private free list holds items  *)
  sweeps         (* history: sweeps since barrierGen last moved            *)

barrierVars == <<barrierCount, barrierGen>>
localVars == <<pc, barrier, gen>>
vars == <<requested, barrierVars, shutdown, localVars, freeList, sweeps>>

threadCount == Cardinality(Threads)
Workers == Threads \ {Master}

BarrierSteps == {"b_load", "b_add", "b_reset", "b_bump", "b_wake", "b_spin"}
GcSteps == BarrierSteps \cup {"store", "mark", "exchange", "sweep"}
Steps == GcSteps \cup {"run", "locked", "asleep", "woken", "joining", "exited"}

Init ==
  /\ requested = FALSE
  /\ barrierCount = 0
  /\ barrierGen = 0
  /\ shutdown = FALSE
  /\ pc = [t \in Threads |-> "run"]
  /\ barrier = [t \in Threads |-> 1]
  /\ gen = [t \in Threads |-> 0]
  /\ freeList = [t \in Threads |-> FALSE]
  /\ sweeps = 0

Goto(t, step) == pc' = [pc EXCEPT ![t] = step]

(* cnd_broadcast, after which thread t is at step.                          *)
BroadcastAnd(t, step) ==
  pc' = [u \in Threads |-> IF u = t THEN step
                           ELSE IF pc[u] = "asleep" THEN "woken" ELSE pc[u]]

-----------------------------------------------------------------------------
(* reduct_item_new: items move to the private free list, and when a block   *)
(* had to be allocated for them a collection is requested.                  *)
Allocate(t) ==
  /\ pc[t] = "run"
  /\ freeList' = [freeList EXCEPT ![t] = TRUE]
  /\ UNCHANGED requested \/ requested' = TRUE
  /\ UNCHANGED <<barrierVars, shutdown, localVars, sweeps>>

(* REDUCT_GC_CHECK, between two instructions, in a join or after a sleep.   *)
GcCheck(t) ==
  /\ pc[t] \in {"run", "woken"}
  /\ Goto(t, IF requested THEN "store" ELSE "run")
  /\ UNCHANGED <<requested, barrierVars, shutdown, barrier, gen, freeList, sweeps>>

(* A worker that found no task takes the mutex, looks once more for a task  *)
(* and for the shutdown, and waits on the condition variable, which gives   *)
(* the mutex back. In between it misses every broadcast.                    *)
Locked == \E t \in Threads : pc[t] = "locked"

Lock(t) ==
  /\ t \in Workers
  /\ pc[t] = "run"
  /\ ~Locked
  /\ ~shutdown
  /\ Goto(t, "locked")
  /\ UNCHANGED <<requested, barrierVars, shutdown, barrier, gen, freeList, sweeps>>

Sleep(t) ==
  /\ pc[t] = "locked"
  /\ Goto(t, "asleep")
  /\ UNCHANGED <<requested, barrierVars, shutdown, barrier, gen, freeList, sweeps>>

(* The signal of a new task, or nothing at all, wakes it.                   *)
Wake(t) ==
  /\ pc[t] = "asleep"
  /\ Goto(t, "woken")
  /\ UNCHANGED <<requested, barrierVars, shutdown, barrier, gen, freeList, sweeps>>

-----------------------------------------------------------------------------
(* reduct_gc, with its three barriers. *)
GcStore(t) ==
  /\ pc[t] = "store"
  /\ requested' = TRUE
  /\ barrier' = [barrier EXCEPT ![t] = 1]
  /\ Goto(t, "b_load")
  /\ UNCHANGED <<barrierVars, shutdown, gen, freeList, sweeps>>

AfterBarrier(t) == CASE barrier[t] = 1 -> "mark"
                     [] barrier[t] = 2 -> "exchange"
                     [] barrier[t] = 3 -> "run"

BarrierLoad(t) ==
  /\ pc[t] = "b_load"
  /\ gen' = [gen EXCEPT ![t] = barrierGen]
  /\ Goto(t, "b_add")
  /\ UNCHANGED <<requested, barrierVars, shutdown, barrier, freeList, sweeps>>

(* Mutant: the barrier opens when all threads but one have arrived.         *)
BarrierAddEarly(t) ==
  /\ pc[t] = "b_add"
  /\ barrierCount' = barrierCount + 1
  /\ Goto(t, IF barrierCount + 2 >= threadCount THEN "b_reset" ELSE "b_spin")
  /\ UNCHANGED <<requested, barrierGen, shutdown, barrier, gen, freeList, sweeps>>

BarrierAdd(t) ==
  /\ pc[t] = "b_add"
  /\ barrierCount' = barrierCount + 1
  /\ Goto(t, IF barrierCount + 1 >= threadCount THEN "b_reset" ELSE "b_spin")
  /\ UNCHANGED <<requested, barrierGen, shutdown, barrier, gen, freeList, sweeps>>

BarrierReset(t) ==
  /\ pc[t] = "b_reset"
  /\ barrierCount' = 0
  /\ Goto(t, "b_bump")
  /\ UNCHANGED <<requested, barrierGen, shutdown, barrier, gen, freeList, sweeps>>

BarrierBump(t) ==
  /\ pc[t] = "b_bump"
  /\ barrierGen' = (barrierGen + 1) % GenMod
  /\ sweeps' = 0
  /\ Goto(t, "b_wake")
  /\ UNCHANGED <<requested, barrierCount, shutdown, barrier, gen, freeList>>

BarrierWake(t) ==
  /\ pc[t] = "b_wake"
  /\ BroadcastAnd(t, AfterBarrier(t))
  /\ UNCHANGED <<requested, barrierVars, shutdown, barrier, gen, freeList, sweeps>>

(* Mutant: the waiting threads do not wake the sleeping workers.            *)
BarrierSpinQuiet(t) ==
  /\ pc[t] = "b_spin"
  /\ barrierGen # gen[t] \/ shutdown
  /\ Goto(t, AfterBarrier(t))
  /\ UNCHANGED <<requested, barrierVars, shutdown, barrier, gen, freeList, sweeps>>

(* Mutant: a barrier is not broken by the shutdown.                         *)
BarrierSpinDeaf(t) ==
  /\ pc[t] = "b_spin"
  /\ \/ barrierGen # gen[t] /\ Goto(t, AfterBarrier(t))
     \/ barrierGen = gen[t] /\ BroadcastAnd(t, "b_spin")
  /\ UNCHANGED <<requested, barrierVars, shutdown, barrier, gen, freeList, sweeps>>

(* One turn of the loop: it ends when the generation has moved, or on a     *)
(* shutdown, and otherwise wakes the sleeping workers.                      *)
BarrierSpin(t) ==
  /\ pc[t] = "b_spin"
  /\ \/ barrierGen # gen[t] /\ Goto(t, AfterBarrier(t))
     \/ barrierGen = gen[t] /\ shutdown /\ Goto(t, AfterBarrier(t))
     \/ barrierGen = gen[t] /\ ~shutdown /\ BroadcastAnd(t, "b_spin")
  /\ UNCHANGED <<requested, barrierVars, shutdown, barrier, gen, freeList, sweeps>>

(* The thread marks its own roots and drops its own free list.              *)
GcMark(t) ==
  /\ pc[t] = "mark"
  /\ freeList' = [freeList EXCEPT ![t] = FALSE]
  /\ barrier' = [barrier EXCEPT ![t] = 2]
  /\ Goto(t, "b_load")
  /\ UNCHANGED <<requested, barrierVars, shutdown, gen, sweeps>>

(* Mutant: the request is read but not withdrawn.                           *)
GcExchangeKeep(t) ==
  /\ pc[t] = "exchange"
  /\ IF requested
     THEN /\ freeList' = [u \in Threads |-> FALSE]
          /\ Goto(t, "sweep")
          /\ UNCHANGED barrier
     ELSE /\ barrier' = [barrier EXCEPT ![t] = 3]
          /\ Goto(t, "b_load")
          /\ UNCHANGED freeList
  /\ UNCHANGED <<requested, barrierVars, shutdown, gen, sweeps>>

(* One thread wins the exchange: it marks the roots of every thread, drops  *)
(* every free list and sweeps.                                              *)
GcExchange(t) ==
  /\ pc[t] = "exchange"
  /\ requested' = FALSE
  /\ IF requested
     THEN /\ freeList' = [u \in Threads |-> FALSE]
          /\ Goto(t, "sweep")
          /\ UNCHANGED barrier
     ELSE /\ barrier' = [barrier EXCEPT ![t] = 3]
          /\ Goto(t, "b_load")
          /\ UNCHANGED freeList
  /\ UNCHANGED <<barrierVars, shutdown, gen, sweeps>>

GcSweep(t) ==
  /\ pc[t] = "sweep"
  /\ sweeps' = sweeps + 1
  /\ barrier' = [barrier EXCEPT ![t] = 3]
  /\ Goto(t, "b_load")
  /\ UNCHANGED <<requested, barrierVars, shutdown, gen, freeList>>

-----------------------------------------------------------------------------
(* Mutant: the flag is set without the mutex.                               *)
ShutdownUnlocked ==
  /\ pc[Master] = "run"
  /\ shutdown' = TRUE
  /\ BroadcastAnd(Master, "joining")
  /\ UNCHANGED <<requested, barrierVars, barrier, gen, freeList, sweeps>>

(* reduct_free on the master: under the mutex the flag is set and everyone  *)
(* is woken, then the workers are joined. A worker leaves its loop once it sees the flag.  *)
Shutdown ==
  /\ pc[Master] = "run"
  /\ ~Locked
  /\ shutdown' = TRUE
  /\ BroadcastAnd(Master, "joining")
  /\ UNCHANGED <<requested, barrierVars, barrier, gen, freeList, sweeps>>

WorkerExit(t) ==
  /\ t \in Workers
  /\ pc[t] = "run"
  /\ shutdown
  /\ Goto(t, "exited")
  /\ UNCHANGED <<requested, barrierVars, shutdown, barrier, gen, freeList, sweeps>>

MasterJoined ==
  /\ pc[Master] = "joining"
  /\ \A t \in Workers : pc[t] = "exited"
  /\ Goto(Master, "exited")
  /\ UNCHANGED <<requested, barrierVars, shutdown, barrier, gen, freeList, sweeps>>

Gc(t) ==
  \/ GcStore(t) \/ GcMark(t) \/ GcExchange(t) \/ GcSweep(t)
  \/ BarrierLoad(t) \/ BarrierAdd(t) \/ BarrierReset(t) \/ BarrierBump(t)
  \/ BarrierWake(t) \/ BarrierSpin(t)

Next ==
  \/ \E t \in Threads : Allocate(t) \/ GcCheck(t) \/ Gc(t)
  \/ \E t \in Threads : Lock(t) \/ Sleep(t) \/ Wake(t)
  \/ \E t \in Threads : WorkerExit(t)
  \/ Shutdown
  \/ MasterJoined

(* Threads run, evaluation keeps reaching the checks between instructions,  *)
(* and a worker's tasks end, so that it sees the shutdown flag.             *)
Fairness ==
  /\ \A t \in Threads : WF_vars(GcCheck(t)) /\ WF_vars(Gc(t)) /\ WF_vars(Sleep(t)) /\ SF_vars(WorkerExit(t))
  /\ WF_vars(MasterJoined)

Spec == Init /\ [][Next]_vars /\ Fairness

-----------------------------------------------------------------------------
(* The thread is held between barrier k and the next one, or has just been  *)
(* let through k.                                                           *)
LetThrough(t, k) ==
  pc[t] \in {"b_wake", "b_spin"} /\ barrier[t] = k /\ gen[t] # barrierGen

(* While a thread marks from its own registers and frames, every other      *)
(* thread has entered the collection: no instruction is being evaluated.    *)
MarkAlone ==
  \A t \in Threads : pc[t] = "mark" =>
    \A u \in Threads \ {t} :
      \/ LetThrough(u, 1)
      \/ pc[u] = "mark"
      \/ pc[u] \in BarrierSteps /\ barrier[u] = 2

(* While one thread sweeps, every other thread has marked its roots and     *)
(* waits for the end of the sweep, so nobody evaluates, allocates or sweeps *)
(* beside it; and no thread has kept a private list of items that the sweep *)
(* is about to give out again.                                              *)
SweepAlone ==
  \A t \in Threads : pc[t] = "sweep" =>
    /\ \A u \in Threads \ {t} :
         \/ LetThrough(u, 2)
         \/ pc[u] = "exchange"
         \/ pc[u] \in BarrierSteps /\ barrier[u] = 3
    /\ \A u \in Threads : ~freeList[u]

(* The collector stops the world, as long as reduct_free has not been       *)
(* called: its shutdown flag opens the barriers (task.c:241).               *)
StopTheWorld == ~shutdown => MarkAlone /\ SweepAlone

(* Threads go through the barriers in step: when the last of them is about  *)
(* to open a barrier, everyone is at the same one of the three, and exactly *)
(* one sweep lies between the second and the third.                         *)
OneSweepPerRound ==
  ~shutdown => \A t \in Threads : pc[t] = "b_bump" =>
    /\ sweeps = IF barrier[t] = 3 THEN 1 ELSE 0
    /\ \A u \in Threads \ {t} : pc[u] = "b_spin" /\ barrier[u] = barrier[t]

(* A requested collection takes place, sleeping workers or not, and every   *)
(* thread returns from it.                                                  *)
CollectionHappens == requested ~> (~requested \/ shutdown)
CollectionEnds == \A t \in Threads : pc[t] \in GcSteps ~> pc[t] = "run"

(* reduct_free returns, whatever the workers were doing: collecting,        *)
(* sleeping or evaluating.                                                  *)
FreeReturns == shutdown ~> pc[Master] = "exited"
=============================================================================
