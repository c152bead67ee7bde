-------------------------- MODULE GcBarrierProofs --------------------------
(***************************************************************************)
(* Why reduct_gc stops the world, for any number of threads and any width  *)
(* of the barrier's generation: proofs about GcBarrier, as long as         *)
(* reduct_free has not been called.                                        *)
(*                                                                         *)
(* The argument: every thread is on its way to, or waits at, the same one  *)
(* of the three barriers (Together), for a barrier opens only when all     *)
(* have arrived at it, and nobody arrives at the next one before having    *)
(* left this one. What each stage then says of the request and the sweeps  *)
(* (Stage1, Stage2, Stage3) gives the single sweep.                        *)
(***************************************************************************)
EXTENDS GcBarrier, FiniteSetTheorems, TLAPS

TypeOK ==
  /\ requested \in BOOLEAN
  /\ barrierCount \in Nat
  /\ barrierGen \in 0 .. GenMod - 1
  /\ shutdown \in BOOLEAN
  /\ pc \in [Threads -> Steps]
  /\ barrier \in [Threads -> 1 .. 3]
  /\ gen \in [Threads -> 0 .. GenMod - 1]
  /\ freeList \in [Threads -> BOOLEAN]
  /\ sweeps \in Nat

(* Whether a thread is counted at the barrier that is filling, or has been  *)
(* let through the one before.                                              *)
Arrived(t) == \/ pc[t] \in {"b_reset", "b_bump"}
              \/ pc[t] = "b_spin" /\ gen[t] = barrierGen
Through(t) == \/ pc[t] = "b_wake"
              \/ pc[t] = "b_spin" /\ gen[t] # barrierGen
Coming(t) == pc[t] \in {"b_load", "b_add"} \/ Arrived(t)

(* The barrier k that thread t comes to next, or waits at.                  *)
InStage(t, k) ==
  \/ k = 1 /\ pc[t] \in {"run", "locked", "asleep", "woken", "store"}
  \/ k = 2 /\ pc[t] = "mark"
  \/ k = 3 /\ pc[t] \in {"exchange", "sweep"}
  \/ Coming(t) /\ barrier[t] = k
  \/ Through(t) /\ <<barrier[t], k>> \in {<<1, 2>>, <<2, 3>>, <<3, 1>>}

(* Before the first barrier: whoever comes to it has made the request.      *)
Stage1 == sweeps = 0 /\ \A t \in Threads : Coming(t) => requested
(* Between the first and the second: nobody withdraws it.                   *)
Stage2 == sweeps = 0 /\ requested
(* Between the second and the third: the request is there until the first   *)
(* exchange, whose thread sweeps, once.                                     *)
Stage3 ==
  /\ requested => sweeps = 0 /\ \A t \in Threads : pc[t] = "exchange" \/ Through(t)
  /\ ~requested => \/ sweeps = 0 /\ \E t \in Threads : pc[t] = "sweep"
                   \/ sweeps = 1 /\ \A t \in Threads : pc[t] # "sweep"
  /\ \A t, u \in Threads : pc[t] = "sweep" /\ pc[u] = "sweep" => t = u
  /\ (\E t \in Threads : pc[t] = "sweep") => \A u \in Threads : ~freeList[u]

StageInv(k) == (k = 1 => Stage1) /\ (k = 2 => Stage2) /\ (k = 3 => Stage3)

Together == \E k \in 1 .. 3 : StageInv(k) /\ \A t \in Threads : InStage(t, k)

(* What a thread remembers of the generation.                               *)
GenInv ==
  \A t \in Threads :
    /\ pc[t] \in {"b_add", "b_reset", "b_bump"} => gen[t] = barrierGen
    /\ pc[t] = "b_wake" => gen[t] # barrierGen

(* The counter, and who opens the barrier.                                  *)
Opening(t) == pc[t] \in {"b_reset", "b_bump"}
CountInv ==
  /\ \A t \in Threads : Opening(t) => \A u \in Threads \ {t} : Arrived(u) /\ ~Opening(u)
  /\ (\A t \in Threads : pc[t] # "b_bump") => barrierCount = Cardinality({t \in Threads : Arrived(t)})
  /\ (\E t \in Threads : pc[t] = "b_bump") => barrierCount = 0

World == Together /\ GenInv /\ CountInv
IndInv == TypeOK /\ (~shutdown => World)

-----------------------------------------------------------------------------
(* The generation after a barrier opens is another one, and in range        *)
(* (task.c:234).                                                            *)
LEMMA NextGen ==
  ASSUME NEW g \in 0 .. GenMod - 1
  PROVE  (g + 1) % GenMod \in 0 .. GenMod - 1 /\ (g + 1) % GenMod # g
<1>1. GenMod \in Nat /\ GenMod >= 2
  BY ThreadsAssumption
<1>2. CASE g + 1 < GenMod
  <2>1. (g + 1) % GenMod = g + 1
    BY <1>1, <1>2, SMT
  <2> QED
    BY <2>1, <1>1, <1>2, SMT
<1>3. CASE g + 1 = GenMod
  <2>1. (g + 1) % GenMod = 0
    BY <1>1, <1>3, SMT
  <2> QED
    BY <2>1, <1>1, <1>3, SMT
<1> QED
  BY <1>1, <1>2, <1>3, SMT

(* The world reduct_new starts with has the variables' types.               *)
LEMMA InitType == Init => TypeOK
<1> SUFFICES ASSUME Init PROVE TypeOK
  OBVIOUS
<1>1. GenMod \in Nat /\ GenMod >= 2
  BY ThreadsAssumption
<1>2. freeList \in [Threads -> BOOLEAN]
  BY Zenon DEF Init
<1>3. pc \in [Threads -> Steps] /\ barrier \in [Threads -> 1 .. 3] /\ gen \in [Threads -> 0 .. GenMod - 1]
  BY <1>1 DEF Init, Steps
<1>4. requested \in BOOLEAN /\ shutdown \in BOOLEAN
  BY DEF Init
<1>5. barrierCount \in Nat /\ barrierGen \in 0 .. GenMod - 1 /\ sweeps \in Nat
  BY <1>1 DEF Init
<1> QED
  BY <1>2, <1>3, <1>4, <1>5, Zenon DEF TypeOK

(* Every step keeps the types: no counter goes below zero.                  *)
LEMMA StepType == TypeOK /\ [Next]_vars => TypeOK'
<1> SUFFICES ASSUME TypeOK, [Next]_vars PROVE TypeOK'
  OBVIOUS
<1> USE DEF TypeOK, Steps, GcSteps, BarrierSteps
<1>0. Master \in Threads /\ Workers \subseteq Threads
  BY ThreadsAssumption DEF Workers
<1>1. ASSUME NEW t \in Threads, Allocate(t) PROVE TypeOK'
  BY <1>1 DEF Allocate, barrierVars, localVars
<1>2. ASSUME NEW t \in Threads, GcCheck(t) PROVE TypeOK'
  BY <1>2 DEF GcCheck, Goto, barrierVars
<1>3. ASSUME NEW t \in Threads, Gc(t) PROVE TypeOK'
  <2>1. CASE GcStore(t)
    BY <2>1 DEF GcStore, Goto, barrierVars
  <2>2. CASE GcMark(t)
    BY <2>2 DEF GcMark, Goto, barrierVars
  <2>3. CASE GcExchange(t)
    <3>1. freeList' \in [Threads -> BOOLEAN]
      <4>1. freeList' = freeList \/ freeList' = [u \in Threads |-> FALSE]
        BY <2>3 DEF GcExchange
      <4>2. [u \in Threads |-> FALSE] \in [Threads -> BOOLEAN]
        BY Zenon
      <4> QED
        BY <4>1, <4>2
    <3>2. pc' \in [Threads -> Steps] /\ barrier' \in [Threads -> 1 .. 3]
      BY <2>3 DEF GcExchange, Goto
    <3> QED
      BY <2>3, <3>1, <3>2 DEF GcExchange, barrierVars
  <2>4. CASE GcSweep(t)
    BY <2>4 DEF GcSweep, Goto, barrierVars
  <2>5. CASE BarrierLoad(t)
    BY <2>5 DEF BarrierLoad, Goto, barrierVars
  <2>6. CASE BarrierAdd(t)
    BY <2>6 DEF BarrierAdd, Goto
  <2>7. CASE BarrierReset(t)
    BY <2>7 DEF BarrierReset, Goto
  <2>8. CASE BarrierBump(t)
    <3>1. barrierGen' \in 0 .. GenMod - 1
      BY <2>8, NextGen DEF BarrierBump
    <3> QED
      BY <2>8, <3>1 DEF BarrierBump, Goto
  <2>9. CASE BarrierWake(t)
    BY <2>9 DEF BarrierWake, BroadcastAnd, AfterBarrier, barrierVars
  <2>10. CASE BarrierSpin(t)
    BY <2>10 DEF BarrierSpin, BroadcastAnd, AfterBarrier, Goto, barrierVars
  <2> QED
    BY <1>3, <2>1, <2>2, <2>3, <2>4, <2>5, <2>6, <2>7, <2>8, <2>9, <2>10 DEF Gc
<1>4. ASSUME NEW t \in Threads, Lock(t) \/ Sleep(t) \/ Wake(t) PROVE TypeOK'
  BY <1>4 DEF Lock, Sleep, Wake, Goto, barrierVars
<1>5. ASSUME NEW t \in Threads, WorkerExit(t) PROVE TypeOK'
  BY <1>5 DEF WorkerExit, Goto, barrierVars
<1>6. CASE Shutdown
  BY <1>0, <1>6 DEF Shutdown, BroadcastAnd, barrierVars
<1>7. CASE MasterJoined
  BY <1>0, <1>7 DEF MasterJoined, Goto, barrierVars
<1>8. CASE UNCHANGED vars
  BY <1>8 DEF vars, barrierVars, localVars
<1> QED
  BY <1>1, <1>2, <1>3, <1>4, <1>5, <1>6, <1>7, <1>8 DEF Next

(* The variables of the collection and of its barrier keep their types, for *)
(* every number of threads (gc.c:113, task.c:225).                          *)
THEOREM Typing == Spec => []TypeOK
<1> QED
  BY InitType, StepType, PTL DEF Spec

-----------------------------------------------------------------------------
(* A thread for which nothing but a wake-up happens is where it was.        *)
LEMMA SameThread ==
  ASSUME NEW u \in Threads,
         \/ pc'[u] = pc[u]
         \/ pc[u] = "asleep" /\ pc'[u] = "woken",
         barrier'[u] = barrier[u], gen'[u] = gen[u], barrierGen' = barrierGen
  PROVE  /\ Arrived(u)' <=> Arrived(u)
         /\ Through(u)' <=> Through(u)
         /\ Coming(u)' <=> Coming(u)
         /\ Opening(u)' <=> Opening(u)
         /\ \A k \in 1 .. 3 : InStage(u, k) => InStage(u, k)'
         /\ (pc[u] = "b_bump") <=> (pc'[u] = "b_bump")
         /\ (pc[u] = "sweep") <=> (pc'[u] = "sweep")
<1>1. /\ Arrived(u)' <=> Arrived(u)
      /\ Through(u)' <=> Through(u)
      /\ Opening(u)' <=> Opening(u)
  BY DEF Arrived, Through, Opening
<1>2. Coming(u)' <=> Coming(u)
  BY <1>1 DEF Coming
<1> QED
  BY <1>1, <1>2 DEF InStage

(* The counter when nobody arrives and nobody opens.                        *)
LEMMA SameCount ==
  ASSUME CountInv, barrierCount' = barrierCount,
         \A u \in Threads : /\ Arrived(u)' <=> Arrived(u)
                            /\ Opening(u)' <=> Opening(u)
                            /\ (pc[u] = "b_bump") <=> (pc'[u] = "b_bump")
  PROVE  CountInv'
<1>1. {u \in Threads : Arrived(u)}' = {u \in Threads : Arrived(u)}
  OBVIOUS
<1>2. Cardinality({u \in Threads : Arrived(u)})' = Cardinality({u \in Threads : Arrived(u)})
  BY <1>1
<1> QED
  BY <1>1, <1>2 DEF CountInv

(* An action of a thread that evaluates, sleeps or marks, up to the load of *)
(* the generation: it arrives nowhere and opens nothing.                    *)
LEMMA Outside ==
  ASSUME TypeOK, CountInv, GenInv, NEW t \in Threads,
         pc[t] \in {"run", "locked", "asleep", "woken", "joining", "store", "mark", "exchange", "sweep"},
         pc'[t] \in {"run", "locked", "asleep", "woken", "store", "sweep", "b_load"},
         gen' = gen, barrierVars' = barrierVars,
         \A u \in Threads \ {t} : pc'[u] = pc[u] /\ barrier'[u] = barrier[u]
  PROVE  CountInv' /\ GenInv'
<1>1. ~Arrived(t) /\ ~Arrived(t)' /\ ~Opening(t) /\ ~Opening(t)'
  BY DEF Arrived, Opening
<1>2. barrierGen' = barrierGen /\ barrierCount' = barrierCount
  BY DEF barrierVars
<1>3. \A u \in Threads \ {t} : /\ Arrived(u)' <=> Arrived(u)
                               /\ Opening(u)' <=> Opening(u)
                               /\ (pc[u] = "b_bump") <=> (pc'[u] = "b_bump")
  BY <1>2 DEF Arrived, Opening
<1>4. CountInv'
  BY <1>1, <1>2, <1>3, SameCount
<1>5. GenInv'
  BY <1>2 DEF GenInv
<1> QED
  BY <1>4, <1>5

(* Evaluation, checks and sleep: everyone is before the first barrier.      *)
LEMMA Evaluating ==
  ASSUME TypeOK, World, NEW t \in Threads,
         Allocate(t) \/ GcCheck(t) \/ Lock(t) \/ Sleep(t) \/ Wake(t)
  PROVE  World'
<1>1. PICK k \in 1 .. 3 : StageInv(k) /\ \A u \in Threads : InStage(u, k)
  BY DEF World, Together
<1>2. pc[t] \in {"run", "locked", "asleep", "woken"}
  BY DEF Allocate, GcCheck, Lock, Sleep, Wake
<1>3. k = 1
  BY <1>1, <1>2 DEF InStage, Coming, Through, Arrived
<1>4. /\ pc'[t] \in {"run", "locked", "asleep", "woken", "store"}
      /\ barrier' = barrier /\ gen' = gen /\ barrierVars' = barrierVars
      /\ sweeps' = sweeps /\ (requested => requested')
      /\ \A u \in Threads \ {t} : pc'[u] = pc[u]
  BY DEF Allocate, GcCheck, Lock, Sleep, Wake, Goto, TypeOK, localVars, barrierVars
<1>5. CountInv' /\ GenInv'
  BY <1>2, <1>4, Outside DEF World
<1>6. barrierGen' = barrierGen
  BY <1>4 DEF barrierVars
<1>7. \A u \in Threads : InStage(u, 1)' /\ (Coming(u)' => Coming(u))
  BY <1>1, <1>2, <1>3, <1>4, <1>6 DEF InStage, Coming, Through, Arrived
<1>8. StageInv(1)'
  BY <1>1, <1>3, <1>4, <1>7 DEF StageInv, Stage1
<1> QED
  BY <1>5, <1>7, <1>8 DEF World, Together

(* A thread that sets the request and goes to the first barrier leaves the  *)
(* threads together (gc.c:118).                                             *)
LEMMA Storing ==
  ASSUME TypeOK, World, NEW t \in Threads, GcStore(t)
  PROVE  World'
<1>1. PICK k \in 1 .. 3 : StageInv(k) /\ \A u \in Threads : InStage(u, k)
  BY DEF World, Together
<1>2. pc[t] = "store"
  BY DEF GcStore
<1>3. k = 1
  BY <1>1, <1>2 DEF InStage, Coming, Through, Arrived
<1>4. /\ pc'[t] = "b_load" /\ barrier'[t] = 1
      /\ gen' = gen /\ barrierVars' = barrierVars
      /\ sweeps' = sweeps /\ requested' = TRUE
      /\ \A u \in Threads \ {t} : pc'[u] = pc[u] /\ barrier'[u] = barrier[u]
  BY DEF GcStore, Goto, TypeOK, barrierVars
<1>5. CountInv' /\ GenInv'
  BY <1>2, <1>4, Outside DEF World
<1>6. barrierGen' = barrierGen
  BY <1>4 DEF barrierVars
<1>7. \A u \in Threads : InStage(u, 1)'
  BY <1>1, <1>3, <1>4, <1>6 DEF InStage, Coming, Through, Arrived
<1>8. StageInv(1)'
  BY <1>1, <1>3, <1>4 DEF StageInv, Stage1
<1> QED
  BY <1>5, <1>7, <1>8 DEF World, Together

(* A thread that has marked its roots goes to the second barrier            *)
(* (gc.c:121).                                                              *)
LEMMA Marking ==
  ASSUME TypeOK, World, NEW t \in Threads, GcMark(t)
  PROVE  World'
<1>1. PICK k \in 1 .. 3 : StageInv(k) /\ \A u \in Threads : InStage(u, k)
  BY DEF World, Together
<1>2. pc[t] = "mark"
  BY DEF GcMark
<1>3. k = 2
  BY <1>1, <1>2 DEF InStage, Coming, Through, Arrived
<1>4. /\ pc'[t] = "b_load" /\ barrier'[t] = 2
      /\ gen' = gen /\ barrierVars' = barrierVars
      /\ sweeps' = sweeps /\ requested' = requested
      /\ \A u \in Threads \ {t} : pc'[u] = pc[u] /\ barrier'[u] = barrier[u]
  BY DEF GcMark, Goto, TypeOK, barrierVars
<1>5. CountInv' /\ GenInv'
  BY <1>2, <1>4, Outside DEF World
<1>6. barrierGen' = barrierGen
  BY <1>4 DEF barrierVars
<1>7. \A u \in Threads : InStage(u, 2)'
  BY <1>1, <1>3, <1>4, <1>6 DEF InStage, Coming, Through, Arrived
<1>8. StageInv(2)'
  BY <1>1, <1>3, <1>4 DEF StageInv, Stage2
<1> QED
  BY <1>5, <1>7, <1>8 DEF World, Together

(* The first exchange finds the request, and makes its thread the sweeper.  *)
LEMMA Exchanging ==
  ASSUME TypeOK, World, NEW t \in Threads, GcExchange(t)
  PROVE  World'
<1>1. PICK k \in 1 .. 3 : StageInv(k) /\ \A u \in Threads : InStage(u, k)
  BY DEF World, Together
<1>2. pc[t] = "exchange"
  BY DEF GcExchange
<1>3. k = 3
  BY <1>1, <1>2 DEF InStage, Coming, Through, Arrived
<1>4. /\ gen' = gen /\ barrierVars' = barrierVars
      /\ sweeps' = sweeps /\ requested' = FALSE
      /\ \A u \in Threads \ {t} : pc'[u] = pc[u] /\ barrier'[u] = barrier[u]
      /\ requested => pc'[t] = "sweep" /\ \A u \in Threads : freeList'[u] = FALSE
      /\ ~requested => pc'[t] = "b_load" /\ barrier'[t] = 3 /\ freeList' = freeList
  BY DEF GcExchange, Goto, TypeOK, barrierVars
<1>5. CountInv' /\ GenInv'
  BY <1>2, <1>4, Outside DEF World
<1>6. barrierGen' = barrierGen
  BY <1>4 DEF barrierVars
<1>7. \A u \in Threads : InStage(u, 3)'
  BY <1>1, <1>3, <1>4, <1>6 DEF InStage, Coming, Through, Arrived
<1>8. Stage3
  BY <1>1, <1>3 DEF StageInv
<1>9. Stage3'
  <2>1. CASE requested
    <3>1. sweeps = 0 /\ \A u \in Threads : pc[u] # "sweep"
      BY <1>8, <2>1 DEF Stage3, Through
    <3>2. pc'[t] = "sweep" /\ \A u \in Threads \ {t} : pc'[u] # "sweep"
      BY <1>4, <2>1, <3>1
    <3> QED
      BY <1>4, <2>1, <3>1, <3>2 DEF Stage3
  <2>2. CASE ~requested
    <3>1. \A u \in Threads : (pc'[u] = "sweep") <=> (pc[u] = "sweep")
      BY <1>2, <1>4, <2>2
    <3>2. freeList' = freeList /\ sweeps' = sweeps /\ ~requested'
      BY <1>4, <2>2
    <3> QED
      BY <1>8, <2>2, <3>1, <3>2 DEF Stage3
  <2> QED
    BY <2>1, <2>2
<1> QED
  BY <1>5, <1>7, <1>9 DEF World, Together, StageInv

(* The sweeper, which found the request, sweeps once and goes to the third  *)
(* barrier (gc.c:139).                                                      *)
LEMMA Sweeping ==
  ASSUME TypeOK, World, NEW t \in Threads, GcSweep(t)
  PROVE  World'
<1>1. PICK k \in 1 .. 3 : StageInv(k) /\ \A u \in Threads : InStage(u, k)
  BY DEF World, Together
<1>2. pc[t] = "sweep"
  BY DEF GcSweep
<1>3. k = 3
  BY <1>1, <1>2 DEF InStage, Coming, Through, Arrived
<1>4. /\ pc'[t] = "b_load" /\ barrier'[t] = 3
      /\ gen' = gen /\ barrierVars' = barrierVars
      /\ sweeps' = sweeps + 1 /\ requested' = requested /\ freeList' = freeList
      /\ \A u \in Threads \ {t} : pc'[u] = pc[u] /\ barrier'[u] = barrier[u]
  BY DEF GcSweep, Goto, TypeOK, barrierVars
<1>5. CountInv' /\ GenInv'
  BY <1>2, <1>4, Outside DEF World
<1>6. barrierGen' = barrierGen
  BY <1>4 DEF barrierVars
<1>7. \A u \in Threads : InStage(u, 3)'
  BY <1>1, <1>3, <1>4, <1>6 DEF InStage, Coming, Through, Arrived
<1>8. Stage3
  BY <1>1, <1>3 DEF StageInv
<1>9. ~requested /\ sweeps = 0
  BY <1>2, <1>8 DEF Stage3, Through
<1>10. \A u \in Threads : pc'[u] # "sweep"
  BY <1>2, <1>4, <1>8 DEF Stage3
<1>11. Stage3'
  BY <1>4, <1>9, <1>10 DEF Stage3
<1> QED
  BY <1>5, <1>7, <1>11 DEF World, Together, StageInv

-----------------------------------------------------------------------------
(* A thread reads the generation of the barrier before it arrives at it     *)
(* (task.c:229).                                                            *)
LEMMA Loading ==
  ASSUME TypeOK, World, NEW t \in Threads, BarrierLoad(t)
  PROVE  World'
<1>1. PICK k \in 1 .. 3 : StageInv(k) /\ \A u \in Threads : InStage(u, k)
  BY DEF World, Together
<1>2. /\ pc[t] = "b_load" /\ pc'[t] = "b_add" /\ gen'[t] = barrierGen
      /\ barrier' = barrier /\ barrierGen' = barrierGen /\ barrierCount' = barrierCount
      /\ sweeps' = sweeps /\ requested' = requested /\ freeList' = freeList
      /\ \A u \in Threads \ {t} : pc'[u] = pc[u] /\ gen'[u] = gen[u]
  BY DEF BarrierLoad, Goto, TypeOK, barrierVars
<1>3. \A u \in Threads : /\ Arrived(u)' <=> Arrived(u)
                         /\ Through(u)' <=> Through(u)
                         /\ Opening(u)' <=> Opening(u)
                         /\ (pc[u] = "b_bump") <=> (pc'[u] = "b_bump")
                         /\ (pc[u] = "sweep") <=> (pc'[u] = "sweep")
                         /\ (pc[u] = "exchange") <=> (pc'[u] = "exchange")
  BY <1>2 DEF Arrived, Through, Opening
<1>4. \A u \in Threads : (Coming(u)' <=> Coming(u))
  BY <1>2, <1>3 DEF Coming
<1>5. \A u \in Threads : InStage(u, k)'
  BY <1>1, <1>2, <1>3, <1>4 DEF InStage
<1>6. CountInv'
  BY <1>2, <1>3, SameCount DEF World
<1>7. GenInv'
  BY <1>2 DEF GenInv, World
<1>8. StageInv(k)'
  BY <1>1, <1>2, <1>3, <1>4 DEF StageInv, Stage1, Stage2, Stage3
<1> QED
  BY <1>5, <1>6, <1>7, <1>8 DEF World, Together

(* A thread arrives. It is the last one just when all the others have       *)
(* arrived before it.                                                       *)
LEMMA Arriving ==
  ASSUME TypeOK, World, NEW t \in Threads, BarrierAdd(t)
  PROVE  World'
<1>1. PICK k \in 1 .. 3 : StageInv(k) /\ \A u \in Threads : InStage(u, k)
  BY DEF World, Together
<1>2. /\ pc[t] = "b_add" /\ gen[t] = barrierGen
      /\ pc'[t] = IF barrierCount + 1 >= threadCount THEN "b_reset" ELSE "b_spin"
      /\ gen' = gen /\ barrier' = barrier /\ barrierGen' = barrierGen
      /\ barrierCount' = barrierCount + 1
      /\ sweeps' = sweeps /\ requested' = requested /\ freeList' = freeList
      /\ \A u \in Threads \ {t} : pc'[u] = pc[u]
  BY DEF BarrierAdd, Goto, TypeOK, World, GenInv
<1>3. \A u \in Threads \ {t} : /\ Arrived(u)' <=> Arrived(u)
                               /\ Through(u)' <=> Through(u)
                               /\ Opening(u)' <=> Opening(u)
  BY <1>2 DEF Arrived, Through, Opening
<1>4. ~Arrived(t) /\ Arrived(t)' /\ ~Through(t) /\ ~Through(t)'
  BY <1>2 DEF Arrived, Through
<1>5. \A u \in Threads : Coming(u)' <=> Coming(u)
  BY <1>2, <1>3, <1>4 DEF Coming
<1>6. \A u \in Threads : InStage(u, k)'
  BY <1>1, <1>2, <1>3, <1>4, <1>5 DEF InStage
<1>7. \A u \in Threads : /\ (pc[u] = "sweep") <=> (pc'[u] = "sweep")
                         /\ (pc[u] = "exchange") <=> (pc'[u] = "exchange")
  BY <1>2
<1>8. StageInv(k)'
  <2>1. Stage1 => Stage1'
    BY <1>2, <1>5 DEF Stage1
  <2>2. Stage2 => Stage2'
    BY <1>2 DEF Stage2
  <2>3. Stage3 => Stage3'
    BY <1>2, <1>3, <1>4, <1>7 DEF Stage3
  <2> QED
    BY <1>1, <2>1, <2>2, <2>3 DEF StageInv
<1>9. GenInv'
  BY <1>2 DEF GenInv, World
<1>10. \A u \in Threads : ~Opening(u)
  <2>1. SUFFICES ASSUME NEW u \in Threads, Opening(u) PROVE FALSE
    OBVIOUS
  <2>2. u # t
    BY <1>2, <2>1 DEF Opening
  <2>3. Arrived(t)
    BY <2>1, <2>2 DEF World, CountInv
  <2> QED
    BY <1>4, <2>3
<1> DEFINE A == {u \in Threads : Arrived(u)}
<1> DEFINE B == {u \in Threads : Arrived(u)'}
<1>11. B = A \cup {t} /\ t \notin A /\ A \in SUBSET Threads /\ B \in SUBSET Threads
  BY <1>3, <1>4
<1>12. barrierCount = Cardinality(A)
  BY <1>10 DEF World, CountInv, Opening
<1>13. IsFiniteSet(Threads)
  BY ThreadsAssumption
<1>14. IsFiniteSet(A) /\ IsFiniteSet(B)
  BY <1>11, <1>13, FS_Subset
<1>15. Cardinality(B) = Cardinality(A) + 1
  <2>1. Cardinality(A \cup {t}) = Cardinality(A) + 1
    BY <1>11, <1>14, FS_AddElement
  <2> QED
    BY <2>1, <1>11
<1>16. barrierCount' = Cardinality(B)
  BY <1>2, <1>12, <1>15
<1>17. \A u \in Threads : pc'[u] # "b_bump"
  BY <1>2, <1>10 DEF Opening
<1>18. ASSUME NEW v \in Threads, Opening(v)'
       PROVE  \A u \in Threads \ {v} : Arrived(u)' /\ ~Opening(u)'
  <2>1. v = t /\ pc'[t] = "b_reset"
    BY <1>2, <1>3, <1>10, <1>18 DEF Opening
  <2>2. barrierCount + 1 >= Cardinality(Threads)
    BY <1>2, <2>1 DEF threadCount
  <2>3. Cardinality(B) <= Cardinality(Threads) /\ (Cardinality(B) = Cardinality(Threads) => B = Threads)
    BY <1>11, <1>13, FS_Subset
  <2>4. Cardinality(B) \in Nat /\ Cardinality(Threads) \in Nat
    BY <1>13, <1>14, FS_CardinalityType
  <2>5. B = Threads
    BY <1>2, <1>16, <2>2, <2>3, <2>4
  <2> QED
    BY <1>3, <1>10, <2>1, <2>5
<1>19. CountInv'
  <2>1. {u \in Threads : Arrived(u)}' = B
    OBVIOUS
  <2>2. Cardinality({u \in Threads : Arrived(u)})' = Cardinality(B)
    BY <2>1
  <2> HIDE DEF A, B
  <2> QED
    BY <1>16, <1>17, <1>18, <2>2 DEF CountInv
<1> HIDE DEF A, B
<1> QED
  BY <1>6, <1>8, <1>9, <1>19 DEF World, Together

(* The last thread to arrive resets the counter while all others wait       *)
(* (task.c:233).                                                            *)
LEMMA Resetting ==
  ASSUME TypeOK, World, NEW t \in Threads, BarrierReset(t)
  PROVE  World'
<1>1. PICK k \in 1 .. 3 : StageInv(k) /\ \A u \in Threads : InStage(u, k)
  BY DEF World, Together
<1>2. /\ pc[t] = "b_reset" /\ pc'[t] = "b_bump"
      /\ gen' = gen /\ barrier' = barrier /\ barrierGen' = barrierGen
      /\ barrierCount' = 0
      /\ sweeps' = sweeps /\ requested' = requested /\ freeList' = freeList
      /\ \A u \in Threads \ {t} : pc'[u] = pc[u]
  BY DEF BarrierReset, Goto, TypeOK
<1>3. \A u \in Threads : /\ Arrived(u)' <=> Arrived(u)
                         /\ Through(u)' <=> Through(u)
                         /\ Opening(u)' <=> Opening(u)
                         /\ (pc[u] = "sweep") <=> (pc'[u] = "sweep")
                         /\ (pc[u] = "exchange") <=> (pc'[u] = "exchange")
  BY <1>2 DEF Arrived, Through, Opening
<1>4. \A u \in Threads : Coming(u)' <=> Coming(u)
  BY <1>2, <1>3 DEF Coming
<1>5. \A u \in Threads : InStage(u, k)'
  BY <1>1, <1>2, <1>3, <1>4 DEF InStage
<1>6. StageInv(k)'
  BY <1>1, <1>2, <1>3, <1>4 DEF StageInv, Stage1, Stage2, Stage3
<1>7. GenInv'
  BY <1>2 DEF GenInv, World
<1>8. CountInv'
  BY <1>2, <1>3 DEF CountInv, World
<1> QED
  BY <1>5, <1>6, <1>7, <1>8 DEF World, Together

(* The barrier opens for all: they go over to the next stage together.      *)
LEMMA Bumping ==
  ASSUME TypeOK, World, NEW t \in Threads, BarrierBump(t)
  PROVE  World'
<1>1. PICK k \in 1 .. 3 : StageInv(k) /\ \A u \in Threads : InStage(u, k)
  BY DEF World, Together
<1>2. /\ pc[t] = "b_bump" /\ pc'[t] = "b_wake"
      /\ gen' = gen /\ barrier' = barrier /\ barrierGen' = (barrierGen + 1) % GenMod
      /\ barrierCount' = barrierCount
      /\ sweeps' = 0 /\ requested' = requested /\ freeList' = freeList
      /\ \A u \in Threads \ {t} : pc'[u] = pc[u]
  BY DEF BarrierBump, Goto, TypeOK
<1>3. barrierGen' # barrierGen
  BY <1>2, NextGen DEF TypeOK
<1>4. \A u \in Threads \ {t} : pc[u] = "b_spin" /\ gen[u] = barrierGen
  BY <1>2 DEF World, CountInv, Arrived, Opening
<1>5. gen[t] = barrierGen
  BY <1>2 DEF World, GenInv
<1>6. \A u \in Threads : barrier[u] = k
  BY <1>1, <1>2, <1>4 DEF InStage, Coming, Through, Arrived
<1>7. \A u \in Threads : Through(u)' /\ ~Arrived(u)' /\ ~Coming(u)' /\ ~Opening(u)'
  BY <1>2, <1>3, <1>4 DEF Through, Arrived, Coming, Opening
<1>8. barrierCount' = 0
  BY <1>2 DEF World, CountInv
<1>9. CountInv'
  <2>1. {u \in Threads : Arrived(u)}' = {}
    BY <1>7
  <2>2. Cardinality({u \in Threads : Arrived(u)})' = 0
    BY <2>1, FS_EmptySet
  <2> QED
    BY <1>7, <1>8, <2>2 DEF CountInv
<1>10. GenInv'
  BY <1>2, <1>3, <1>4, <1>5 DEF GenInv
<1>11. \A u \in Threads : pc'[u] # "sweep"
  BY <1>2, <1>4
<1>12. CASE k = 1
  <2>1. requested
    BY <1>1, <1>2, <1>12 DEF StageInv, Stage1, Coming, Arrived
  <2>2. StageInv(2)'
    BY <1>2, <2>1 DEF StageInv, Stage2
  <2>3. \A u \in Threads : InStage(u, 2)'
    BY <1>2, <1>6, <1>7, <1>12 DEF InStage
  <2> QED
    BY <1>9, <1>10, <2>2, <2>3 DEF World, Together
<1>13. CASE k = 2
  <2>1. requested
    BY <1>1, <1>13 DEF StageInv, Stage2
  <2>2. StageInv(3)'
    BY <1>2, <1>7, <1>11, <2>1 DEF StageInv, Stage3
  <2>3. \A u \in Threads : InStage(u, 3)'
    BY <1>2, <1>6, <1>7, <1>13 DEF InStage
  <2> QED
    BY <1>9, <1>10, <2>2, <2>3 DEF World, Together
<1>14. CASE k = 3
  <2>1. StageInv(1)'
    BY <1>2, <1>7 DEF StageInv, Stage1
  <2>2. \A u \in Threads : InStage(u, 1)'
    BY <1>2, <1>6, <1>7, <1>14 DEF InStage
  <2> QED
    BY <1>9, <1>10, <2>1, <2>2 DEF World, Together
<1> QED
  BY <1>12, <1>13, <1>14

(* A thread leaves a barrier that is open, waking whoever sleeps or not.    *)
LEMMA Leaving ==
  ASSUME TypeOK, World, NEW t \in Threads, Through(t), ~shutdown,
         BarrierWake(t) \/ BarrierSpin(t)
  PROVE  World'
<1>1. PICK k \in 1 .. 3 : StageInv(k) /\ \A u \in Threads : InStage(u, k)
  BY DEF World, Together
<1>2. /\ pc'[t] = AfterBarrier(t)
      /\ gen' = gen /\ barrier' = barrier /\ barrierGen' = barrierGen /\ barrierCount' = barrierCount
      /\ sweeps' = sweeps /\ requested' = requested /\ freeList' = freeList
      /\ \A u \in Threads \ {t} : pc'[u] \in {pc[u], IF pc[u] = "asleep" THEN "woken" ELSE pc[u]}
  <2>1. CASE BarrierWake(t)
    <3>1. pc' = [u \in Threads |-> IF u = t THEN AfterBarrier(t)
                                    ELSE IF pc[u] = "asleep" THEN "woken" ELSE pc[u]]
      BY <2>1 DEF BarrierWake, BroadcastAnd
    <3>2. pc'[t] = AfterBarrier(t)
      BY <3>1
    <3>3. \A u \in Threads \ {t} : pc'[u] \in {pc[u], IF pc[u] = "asleep" THEN "woken" ELSE pc[u]}
      BY <3>1
    <3>4. /\ gen' = gen /\ barrier' = barrier /\ barrierGen' = barrierGen /\ barrierCount' = barrierCount
          /\ sweeps' = sweeps /\ requested' = requested /\ freeList' = freeList
      BY <2>1 DEF BarrierWake, barrierVars
    <3> QED
      BY <3>2, <3>3, <3>4
  <2>2. CASE BarrierSpin(t)
    <3>1. pc' = [pc EXCEPT ![t] = AfterBarrier(t)]
      BY <2>2 DEF BarrierSpin, Goto, Through
    <3> QED
      BY <2>2, <3>1 DEF BarrierSpin, TypeOK, barrierVars
  <2> QED
    BY <2>1, <2>2
<1>3. /\ k = 1 => pc'[t] = "run"
      /\ k = 2 => pc'[t] = "mark"
      /\ k = 3 => pc'[t] = "exchange"
  BY <1>1, <1>2 DEF InStage, Through, Coming, Arrived, AfterBarrier
<1>4. ~Arrived(t) /\ ~Arrived(t)' /\ ~Coming(t) /\ ~Coming(t)' /\ ~Opening(t) /\ ~Opening(t)'
  BY <1>1, <1>3 DEF Through, Coming, Arrived, Opening
<1>5. \A u \in Threads \ {t} : /\ Arrived(u)' <=> Arrived(u)
                               /\ Through(u)' <=> Through(u)
                               /\ Coming(u)' <=> Coming(u)
                               /\ Opening(u)' <=> Opening(u)
                               /\ (pc[u] = "b_bump") <=> (pc'[u] = "b_bump")
                               /\ (pc[u] = "sweep") <=> (pc'[u] = "sweep")
                               /\ (pc[u] = "exchange") => (pc'[u] = "exchange")
                               /\ InStage(u, k)'
  BY <1>1, <1>2, SameThread
<1>6. pc[t] # "b_bump" /\ pc'[t] # "b_bump" /\ pc[t] # "sweep" /\ pc'[t] # "sweep"
  BY <1>3 DEF Through
<1>7. CountInv'
  BY <1>2, <1>4, <1>5, <1>6, SameCount DEF World
<1>8. GenInv'
  BY <1>2, <1>3 DEF GenInv, World
<1>9. \A u \in Threads : InStage(u, k)'
  BY <1>3, <1>5 DEF InStage
<1>10. StageInv(k)'
  <2>1. CASE k = 1
    BY <1>1, <1>2, <1>4, <1>5, <2>1 DEF StageInv, Stage1
  <2>2. CASE k = 2
    BY <1>1, <1>2, <2>2 DEF StageInv, Stage2
  <2>3. CASE k = 3
    <3>1. \A u \in Threads : (pc[u] = "sweep") <=> (pc'[u] = "sweep")
      BY <1>5, <1>6
    <3>2. \A u \in Threads : pc[u] = "exchange" \/ Through(u) => (pc'[u] = "exchange" \/ Through(u)')
      BY <1>3, <1>5, <2>3
    <3>3. Stage3
      BY <1>1, <2>3 DEF StageInv
    <3>4. Stage3'
      BY <1>2, <3>1, <3>2, <3>3 DEF Stage3
    <3> QED
      BY <2>3, <3>4 DEF StageInv
  <2> QED
    BY <2>1, <2>2, <2>3
<1> QED
  BY <1>7, <1>8, <1>9, <1>10 DEF World, Together

(* A thread stays in the barrier, and wakes the sleeping workers.           *)
LEMMA Staying ==
  ASSUME TypeOK, World, NEW t \in Threads, ~Through(t), ~shutdown, BarrierSpin(t)
  PROVE  World'
<1>1. PICK k \in 1 .. 3 : StageInv(k) /\ \A u \in Threads : InStage(u, k)
  BY DEF World, Together
<1>2. /\ gen' = gen /\ barrier' = barrier /\ barrierGen' = barrierGen /\ barrierCount' = barrierCount
      /\ sweeps' = sweeps /\ requested' = requested /\ freeList' = freeList
      /\ \A u \in Threads : pc'[u] \in {pc[u], IF pc[u] = "asleep" THEN "woken" ELSE pc[u]}
  <2>1. pc[t] = "b_spin" /\ pc' = [u \in Threads |-> IF u = t THEN "b_spin"
                                                  ELSE IF pc[u] = "asleep" THEN "woken" ELSE pc[u]]
    BY DEF BarrierSpin, BroadcastAnd, Through
  <2>2. \A u \in Threads : pc'[u] \in {pc[u], IF pc[u] = "asleep" THEN "woken" ELSE pc[u]}
    BY <2>1
  <2> QED
    BY <2>2 DEF BarrierSpin, barrierVars
<1>3. \A u \in Threads : /\ Arrived(u)' <=> Arrived(u)
                         /\ Through(u)' <=> Through(u)
                         /\ Coming(u)' <=> Coming(u)
                         /\ Opening(u)' <=> Opening(u)
                         /\ (pc[u] = "b_bump") <=> (pc'[u] = "b_bump")
                         /\ (pc[u] = "sweep") <=> (pc'[u] = "sweep")
                         /\ (pc[u] = "exchange") => (pc'[u] = "exchange")
                         /\ InStage(u, k)'
  BY <1>1, <1>2, SameThread
<1>4. CountInv'
  BY <1>2, <1>3, SameCount DEF World
<1>5. GenInv'
  BY <1>2 DEF GenInv, World
<1>6. StageInv(k)'
  BY <1>1, <1>2, <1>3 DEF StageInv, Stage1, Stage2, Stage3
<1> QED
  BY <1>3, <1>4, <1>5, <1>6 DEF World, Together

-----------------------------------------------------------------------------
(* At the start everyone is before the first barrier, and nobody is         *)
(* counted.                                                                 *)
LEMMA InitWorld == Init => World
<1> SUFFICES ASSUME Init PROVE World
  OBVIOUS
<1>1. \A u \in Threads : pc[u] = "run" /\ ~Arrived(u) /\ ~Coming(u) /\ ~Opening(u)
  BY DEF Init, Arrived, Coming, Opening
<1>2. CountInv
  <2>1. {u \in Threads : Arrived(u)} = {}
    BY <1>1
  <2>2. Cardinality({u \in Threads : Arrived(u)}) = 0
    BY <2>1, FS_EmptySet
  <2>3. barrierCount = 0
    BY DEF Init
  <2> QED
    BY <1>1, <2>2, <2>3 DEF CountInv
<1>3. GenInv
  BY <1>1 DEF GenInv
<1>4. StageInv(1) /\ \A u \in Threads : InStage(u, 1)
  BY <1>1 DEF Init, StageInv, Stage1, InStage
<1> QED
  BY <1>2, <1>3, <1>4 DEF World, Together

(* Every step keeps the threads together, until the shutdown flag is set.   *)
LEMMA StepWorld == TypeOK /\ World /\ ~shutdown' /\ [Next]_vars => World'
<1> SUFFICES ASSUME TypeOK, World, ~shutdown', [Next]_vars PROVE World'
  OBVIOUS
<1>1. ASSUME NEW t \in Threads, Allocate(t) \/ GcCheck(t) \/ Lock(t) \/ Sleep(t) \/ Wake(t)
      PROVE  World'
  BY <1>1, Evaluating
<1>2. ASSUME NEW t \in Threads, Gc(t) PROVE World'
  <2>1. ~shutdown
    BY <1>2 DEF Gc, GcStore, GcMark, GcExchange, GcSweep, BarrierLoad, BarrierAdd, BarrierReset,
                BarrierBump, BarrierWake, BarrierSpin
  <2>2. CASE GcStore(t)
    BY <2>2, Storing
  <2>3. CASE GcMark(t)
    BY <2>3, Marking
  <2>4. CASE GcExchange(t)
    BY <2>4, Exchanging
  <2>5. CASE GcSweep(t)
    BY <2>5, Sweeping
  <2>6. CASE BarrierLoad(t)
    BY <2>6, Loading
  <2>7. CASE BarrierAdd(t)
    BY <2>7, Arriving
  <2>8. CASE BarrierReset(t)
    BY <2>8, Resetting
  <2>9. CASE BarrierBump(t)
    BY <2>9, Bumping
  <2>10. CASE BarrierWake(t)
    <3>1. Through(t)
      BY <2>10 DEF BarrierWake, Through
    <3> QED
      BY <2>1, <2>10, <3>1, Leaving
  <2>11. CASE BarrierSpin(t)
    BY <2>1, <2>11, Leaving, Staying
  <2> QED
    BY <1>2, <2>2, <2>3, <2>4, <2>5, <2>6, <2>7, <2>8, <2>9, <2>10, <2>11 DEF Gc
<1>3. ASSUME NEW t \in Threads, WorkerExit(t) PROVE FALSE
  BY <1>3 DEF WorkerExit
<1>4. CASE Shutdown
  BY <1>4 DEF Shutdown
<1>5. CASE MasterJoined
  <2>1. Master \in Threads
    BY ThreadsAssumption
  <2>2. PICK k \in 1 .. 3 : InStage(Master, k)
    BY <2>1 DEF World, Together
  <2> QED
    BY <1>5, <2>2 DEF MasterJoined, InStage, Coming, Through, Arrived
<1>6. CASE UNCHANGED vars
  <2>1. /\ pc' = pc /\ barrier' = barrier /\ gen' = gen /\ barrierGen' = barrierGen
        /\ barrierCount' = barrierCount /\ requested' = requested
        /\ freeList' = freeList /\ sweeps' = sweeps
    BY <1>6 DEF vars, barrierVars, localVars
  <2>2. CountInv' /\ GenInv'
    <3>1. {u \in Threads : Arrived(u)}' = {u \in Threads : Arrived(u)}
      BY <2>1 DEF Arrived
    <3>2. Cardinality({u \in Threads : Arrived(u)})' = Cardinality({u \in Threads : Arrived(u)})
      BY <3>1
    <3> QED
      BY <2>1, <3>2 DEF World, CountInv, GenInv, Arrived, Opening
  <2>3. PICK k \in 1 .. 3 : StageInv(k) /\ \A u \in Threads : InStage(u, k)
    BY DEF World, Together
  <2>4. StageInv(k)' /\ \A u \in Threads : InStage(u, k)'
    BY <2>1, <2>3 DEF StageInv, Stage1, Stage2, Stage3, InStage, Coming, Through, Arrived
  <2> QED
    BY <2>2, <2>4 DEF World, Together
<1> QED
  BY <1>1, <1>2, <1>3, <1>4, <1>5, <1>6 DEF Next

(* The flag is never taken back (task.c:183).                               *)
LEMMA ShutdownStays == TypeOK /\ shutdown /\ [Next]_vars => shutdown'
<1> SUFFICES ASSUME TypeOK, shutdown, [Next]_vars PROVE shutdown'
  OBVIOUS
<1>1. ASSUME NEW t \in Threads, Gc(t) PROVE shutdown'
  BY <1>1 DEF Gc, GcStore, GcMark, GcExchange, GcSweep, BarrierLoad, BarrierAdd, BarrierReset,
              BarrierBump, BarrierWake, BarrierSpin
<1>2. ASSUME NEW t \in Threads,
             Allocate(t) \/ GcCheck(t) \/ Lock(t) \/ Sleep(t) \/ Wake(t) \/ WorkerExit(t)
      PROVE  shutdown'
  BY <1>2 DEF Allocate, GcCheck, Lock, Sleep, Wake, WorkerExit
<1>3. CASE Shutdown \/ MasterJoined \/ UNCHANGED vars
  BY <1>3 DEF Shutdown, MasterJoined, vars
<1> QED
  BY <1>1, <1>2, <1>3 DEF Next

(* The inductive invariant of the stopped world, for any number of threads. *)
THEOREM Invariance == Spec => []IndInv
<1>1. Init => IndInv
  BY InitType, InitWorld DEF IndInv
<1>2. IndInv /\ [Next]_vars => IndInv'
  BY StepType, StepWorld, ShutdownStays DEF IndInv
<1> QED
  BY <1>1, <1>2, PTL DEF Spec

(* No thread evaluates while another marks its own roots or sweeps, nobody  *)
(* sweeps beside it and no private free list outlives the sweep             *)
(* (gc.c:113), as long as reduct_free has not been called.                  *)
LEMMA IndStops == IndInv => StopTheWorld
<1> SUFFICES ASSUME TypeOK, World PROVE MarkAlone /\ SweepAlone
  BY DEF IndInv, StopTheWorld
<1>1. PICK k \in 1 .. 3 : StageInv(k) /\ \A u \in Threads : InStage(u, k)
  BY DEF World, Together
<1>2. \A u \in Threads : Through(u) => pc[u] \in {"b_wake", "b_spin"} /\ gen[u] # barrierGen
  BY DEF Through, World, GenInv
<1>3. \A u \in Threads : Coming(u) => pc[u] \in BarrierSteps
  BY DEF Coming, Arrived, BarrierSteps
<1>4. ASSUME NEW t \in Threads, pc[t] = "mark", NEW u \in Threads \ {t}
      PROVE  LetThrough(u, 1) \/ pc[u] = "mark" \/ (pc[u] \in BarrierSteps /\ barrier[u] = 2)
  <2>1. k = 2
    BY <1>1, <1>4 DEF InStage, Coming, Through, Arrived
  <2>2. pc[u] = "mark" \/ (Coming(u) /\ barrier[u] = 2) \/ (Through(u) /\ barrier[u] = 1)
    BY <1>1, <2>1 DEF InStage
  <2> QED
    BY <1>2, <1>3, <2>2 DEF LetThrough
<1>5. ASSUME NEW t \in Threads, pc[t] = "sweep"
      PROVE  /\ \A u \in Threads \ {t} : \/ LetThrough(u, 2)
                                         \/ pc[u] = "exchange"
                                         \/ pc[u] \in BarrierSteps /\ barrier[u] = 3
             /\ \A u \in Threads : ~freeList[u]
  <2>1. k = 3
    BY <1>1, <1>5 DEF InStage, Coming, Through, Arrived
  <2>2. Stage3
    BY <1>1, <2>1 DEF StageInv
  <2>3. \A u \in Threads : ~freeList[u]
    BY <1>5, <2>2 DEF Stage3
  <2>4. ASSUME NEW u \in Threads \ {t}
        PROVE  pc[u] = "exchange" \/ (Coming(u) /\ barrier[u] = 3) \/ (Through(u) /\ barrier[u] = 2)
    BY <1>1, <1>5, <2>1, <2>2 DEF InStage, Stage3
  <2> QED
    BY <1>2, <1>3, <2>3, <2>4 DEF LetThrough
<1> QED
  BY <1>4, <1>5 DEF MarkAlone, SweepAlone

(* Marking and sweeping find the world stopped, for every number of         *)
(* threads, as long as reduct_free has not been called (gc.c:113).          *)
THEOREM WorldStops == Spec => []StopTheWorld
<1> QED
  BY Invariance, IndStops, PTL

(* When a barrier is about to open, every thread is at that one, and one    *)
(* sweep lies between the second and the third (gc.c:139).                  *)
LEMMA IndOnce == IndInv => OneSweepPerRound
<1> SUFFICES ASSUME TypeOK, World, NEW t \in Threads, pc[t] = "b_bump"
             PROVE  /\ sweeps = IF barrier[t] = 3 THEN 1 ELSE 0
                    /\ \A u \in Threads \ {t} : pc[u] = "b_spin" /\ barrier[u] = barrier[t]
  BY DEF IndInv, OneSweepPerRound
<1>1. PICK k \in 1 .. 3 : StageInv(k) /\ \A u \in Threads : InStage(u, k)
  BY DEF World, Together
<1>2. \A u \in Threads \ {t} : pc[u] = "b_spin" /\ gen[u] = barrierGen
  BY DEF World, CountInv, Arrived, Opening
<1>3. \A u \in Threads : barrier[u] = k
  BY <1>1, <1>2 DEF InStage, Coming, Through, Arrived
<1>4. \A u \in Threads : pc[u] # "sweep" /\ pc[u] # "exchange" /\ ~Through(u)
  BY <1>2 DEF Through
<1>5. sweeps = IF k = 3 THEN 1 ELSE 0
  BY <1>1, <1>4 DEF StageInv, Stage1, Stage2, Stage3
<1> QED
  BY <1>2, <1>3, <1>5

(* Every collection sweeps exactly once between its second and its third    *)
(* barrier, for every number of threads (gc.c:139).                         *)
THEOREM SweepsOnce == Spec => []OneSweepPerRound
<1> QED
  BY Invariance, IndOnce, PTL
=============================================================================
