----------------------------- MODULE Scheduler -----------------------------
(***************************************************************************)
(* Fork and join on the task pool: the loop of a worker thread with its    *)
(* condition variable, reduct_task_create with the inline call its callers *)
(* fall back to (src/future.c, reduct_map), reduct_task_join, which        *)
(* executes other tasks while it waits, and the shutdown by reduct_free.   *)
(*                                                                         *)
(* The queue is a TaskPool. A task forks its children in order and then    *)
(* joins them in order, as reduct_map does and as the emitted FORK and     *)
(* JOIN instructions do. No task fails.                                    *)
(***************************************************************************)
EXTENDS Integers, Sequences, SequencesExt

CONSTANTS
  Workers,   (* threads that run reduct_task_worker                        *)
  Master,    (* the thread that evaluates Root and calls reduct_free       *)
  Tasks,     (* tasks                                                      *)
  Root,      (* the master's own evaluation                                *)
  Kids,      (* per task and for Root, the tasks it forks                  *)
  QueueMax,  (* REDUCT_TASK_QUEUE_MAX                                      *)
  NoTicket   (* the ticket of an evaluation that is not in the queue       *)

ASSUME SchedulerAssumption ==
  /\ Master \notin Workers
  /\ Root \notin Tasks
  /\ Kids \in [Tasks \cup {Root} -> Seq(Tasks)]
  /\ \A p, q \in Tasks \cup {Root} : \A j \in DOMAIN Kids[p], k \in DOMAIN Kids[q] :
       Kids[p][j] = Kids[q][k] => p = q /\ j = k    (* a call is forked once *)
  /\ QueueMax \in Nat \ {0}
  /\ NoTicket \notin Nat

VARIABLES
  accepted, log, status, executed,  (* the TaskPool                        *)
  pc,        (* per thread: "go", or a point inside create or the worker   *)
  stack,     (* per thread, the tasks it is inside of, innermost last      *)
  inlined,   (* the tasks that ran without the queue and have returned     *)
  shutdown   (* task->shutdown                                             *)

poolVars == <<accepted, log, status, executed>>
vars == <<poolVars, pc, stack, inlined, shutdown>>

Pool == INSTANCE TaskPool

Threads == Workers \cup {Master}

Activation(task, ticket) == [task |-> task, ticket |-> ticket, step |-> 1]

Init ==
  /\ Pool!Init
  /\ pc = [t \in Threads |-> "go"]
  /\ stack = [t \in Threads |-> IF t = Master THEN <<Activation(Root, NoTicket)>> ELSE <<>>]
  /\ inlined = {}
  /\ shutdown = FALSE

Goto(t, point) == pc' = [pc EXCEPT ![t] = point]

Top(t) == Last(stack[t])
Busy(t) == pc[t] = "go" /\ stack[t] # <<>>
NextKid(t) == Kids[Top(t).task][Top(t).step]

(* A task with n children forks them in its steps 1 to n, joins them in     *)
(* its steps n + 1 to 2n and then returns.                                  *)
Forking(t) == Busy(t) /\ Top(t).step <= Len(Kids[Top(t).task])
Joining(t) == /\ Busy(t)
              /\ Top(t).step > Len(Kids[Top(t).task])
              /\ Top(t).step <= 2 * Len(Kids[Top(t).task])
Returning(t) == Busy(t) /\ Top(t).step > 2 * Len(Kids[Top(t).task])

JoinedKid(t) == Kids[Top(t).task][Top(t).step - Len(Kids[Top(t).task])]

Advance(t) == [stack[t] EXCEPT ![Len(stack[t])].step = @ + 1]

(* The future is done, or reduct_task_done holds of the id.                 *)
TaskDone(task) ==
  \/ task \in inlined
  \/ \E p \in DOMAIN log : log[p] = task /\ status[p] = "finished"

(* The oldest ticket that has not been popped, if it has been published.    *)
Available(p) ==
  /\ p \in DOMAIN status
  /\ status[p] = "ready"
  /\ \A q \in 0 .. p - 1 : status[q] \notin {"claimed", "ready"}
QueueEmpty == \A p \in DOMAIN status : status[p] \notin {"claimed", "ready"}
SlotFree == accepted >= QueueMax => status[accepted - QueueMax] = "finished"

-----------------------------------------------------------------------------
(* reduct_task_create: the ticket is claimed, published, and one sleeping   *)
(* worker is signalled, without the mutex. If the ring refuses, the caller  *)
(* evaluates the call itself.                                               *)
Create(t) ==
  /\ Forking(t)
  /\ Pool!Claim(NextKid(t))
  /\ Goto(t, "publish")
  /\ UNCHANGED <<stack, inlined, shutdown>>

Publish(t) ==
  /\ pc[t] = "publish"
  /\ \E p \in DOMAIN log : log[p] = NextKid(t) /\ Pool!Publish(p)
  /\ Goto(t, "signal")
  /\ UNCHANGED <<stack, inlined, shutdown>>

Asleep == {w \in Workers : pc[w] = "asleep"}

(* Mutant: the inline call does not depend on reduct_task_create failing.   *)
SignalThenCall(t) ==
  /\ pc[t] = "signal"
  /\ \/ Asleep = {} /\ Goto(t, "go")
     \/ \E w \in Asleep : pc' = [pc EXCEPT ![t] = "go", ![w] = "woken"]
  /\ stack' = [stack EXCEPT ![t] = Append(Advance(t), Activation(NextKid(t), NoTicket))]
  /\ UNCHANGED <<poolVars, inlined, shutdown>>

Signal(t) ==
  /\ pc[t] = "signal"
  /\ \/ Asleep = {} /\ Goto(t, "go")
     \/ \E w \in Asleep : pc' = [pc EXCEPT ![t] = "go", ![w] = "woken"]
  /\ stack' = [stack EXCEPT ![t] = Advance(t)]
  /\ UNCHANGED <<poolVars, inlined, shutdown>>

CallInline(t) ==
  /\ Forking(t)
  /\ ~SlotFree
  /\ stack' = [stack EXCEPT ![t] = Append(Advance(t), Activation(NextKid(t), NoTicket))]
  /\ UNCHANGED <<poolVars, pc, inlined, shutdown>>

-----------------------------------------------------------------------------
(* The loop of reduct_task_join: the child is not done, so work is sought.  *)
JoinLook(t) ==
  /\ Joining(t)
  /\ ~TaskDone(JoinedKid(t))
  /\ Goto(t, "seek")
  /\ UNCHANGED <<poolVars, stack, inlined, shutdown>>

Idle(t) == t \in Workers /\ pc[t] = "go" /\ stack[t] = <<>>

(* Mutant: a join only waits.                                               *)
TryWorkInLoop(t) ==
  \/ /\ Idle(t)
     /\ \E p \in DOMAIN status :
          /\ Available(p)
          /\ Pool!Pop(p)
          /\ stack' = [stack EXCEPT ![t] = Append(@, Activation(log[p], p))]
     /\ Goto(t, "start")
     /\ UNCHANGED <<inlined, shutdown>>
  \/ /\ pc[t] = "seek"
     /\ Goto(t, "go")
     /\ UNCHANGED <<poolVars, stack, inlined, shutdown>>

(* reduct_task_try_work finds a task, from the worker's loop or from a      *)
(* join, also if the child is done by now; the task is executed on top of   *)
(* the stack.                                                               *)
TryWork(t) ==
  /\ Idle(t) \/ pc[t] = "seek"
  /\ \E p \in DOMAIN status :
       /\ Available(p)
       /\ Pool!Pop(p)
       /\ stack' = [stack EXCEPT ![t] = Append(@, Activation(log[p], p))]
  /\ Goto(t, "start")
  /\ UNCHANGED <<inlined, shutdown>>

(* The join found nothing and looks at its child again.                     *)
JoinYield(t) ==
  /\ pc[t] = "seek"
  /\ ~\E p \in DOMAIN status : Available(p)
  /\ Goto(t, "go")
  /\ UNCHANGED <<poolVars, stack, inlined, shutdown>>

Start(t) ==
  /\ pc[t] = "start"
  /\ Pool!Start(Top(t).ticket)
  /\ Goto(t, "go")
  /\ UNCHANGED <<stack, inlined, shutdown>>

(* Mutant: a join returns after one attempt to work.                        *)
JoinOnce(t) ==
  /\ Joining(t)
  /\ stack' = [stack EXCEPT ![t] = Advance(t)]
  /\ UNCHANGED <<poolVars, pc, inlined, shutdown>>

Join(t) ==
  /\ Joining(t)
  /\ TaskDone(JoinedKid(t))
  /\ stack' = [stack EXCEPT ![t] = Advance(t)]
  /\ UNCHANGED <<poolVars, pc, inlined, shutdown>>

Return(t) ==
  /\ Returning(t)
  /\ stack' = [stack EXCEPT ![t] = Front(@)]
  /\ IF Top(t).ticket = NoTicket
     THEN inlined' = inlined \cup {Top(t).task} /\ UNCHANGED poolVars
     ELSE Pool!Finish(Top(t).ticket) /\ UNCHANGED inlined
  /\ UNCHANGED <<pc, shutdown>>

-----------------------------------------------------------------------------
(* The rest of reduct_task_worker: nothing to do, it leaves on a shutdown,  *)
(* or takes the mutex, looks once more, and waits.                          *)
FindNothing(t) ==
  /\ Idle(t)
  /\ ~\E p \in DOMAIN status : Available(p)
  /\ Goto(t, IF shutdown THEN "exited" ELSE "lock")
  /\ UNCHANGED <<poolVars, stack, inlined, shutdown>>

MutexFree == \A w \in Workers : pc[w] # "wait"

(* Mutant: under the mutex only the queue is looked at.                     *)
LockAndLookForWork(t) ==
  /\ pc[t] = "lock"
  /\ MutexFree
  /\ Goto(t, IF QueueEmpty THEN "wait" ELSE "go")
  /\ UNCHANGED <<poolVars, stack, inlined, shutdown>>

LockAndLook(t) ==
  /\ pc[t] = "lock"
  /\ MutexFree
  /\ Goto(t, IF QueueEmpty /\ ~shutdown THEN "wait" ELSE "go")
  /\ UNCHANGED <<poolVars, stack, inlined, shutdown>>

Wait(t) ==
  /\ pc[t] = "wait"
  /\ Goto(t, "asleep")
  /\ UNCHANGED <<poolVars, stack, inlined, shutdown>>

(* cnd_wait may return without a signal.                                    *)
SpuriousWake(t) ==
  /\ pc[t] = "asleep"
  /\ Goto(t, "woken")
  /\ UNCHANGED <<poolVars, stack, inlined, shutdown>>

WakeUp(t) ==
  /\ pc[t] = "woken"
  /\ MutexFree
  /\ Goto(t, "go")
  /\ UNCHANGED <<poolVars, stack, inlined, shutdown>>

(* reduct_free. *)
Shutdown ==
  /\ pc[Master] = "go"
  /\ stack[Master] = <<>>
  /\ MutexFree
  /\ shutdown' = TRUE
  /\ pc' = [t \in Threads |-> IF t = Master THEN "joining"
                              ELSE IF pc[t] = "asleep" THEN "woken" ELSE pc[t]]
  /\ UNCHANGED <<poolVars, stack, inlined>>

FreeReturns ==
  /\ pc[Master] = "joining"
  /\ \A w \in Workers : pc[w] = "exited"
  /\ Goto(Master, "exited")
  /\ UNCHANGED <<poolVars, stack, inlined, shutdown>>

Step(t) ==
  \/ Create(t) \/ Publish(t) \/ Signal(t) \/ CallInline(t)
  \/ JoinLook(t) \/ TryWork(t) \/ JoinYield(t) \/ Start(t) \/ Join(t) \/ Return(t)
  \/ FindNothing(t) \/ LockAndLook(t) \/ Wait(t) \/ WakeUp(t)

Next ==
  \/ \E t \in Threads : Step(t) \/ SpuriousWake(t)
  \/ Shutdown
  \/ FreeReturns

(* Every thread runs, and a mutex that keeps becoming free is obtained.     *)
Fairness ==
  /\ \A t \in Threads : WF_vars(Step(t)) /\ SF_vars(LockAndLook(t)) /\ SF_vars(WakeUp(t))
  /\ SF_vars(Shutdown) /\ WF_vars(FreeReturns)

Spec == Init /\ [][Next]_vars /\ Fairness

-----------------------------------------------------------------------------
(* Evaluation is structured: a task returns, and releases what its children *)
(* use, only when all of them have returned, on whatever threads they ran;  *)
(* so the memory reduct_map lends its tasks outlives them.                  *)
Structured ==
  \A task \in Tasks \cup {Root} : TaskDone(task) =>
    \A i \in DOMAIN Kids[task] : TaskDone(Kids[task][i])

(* No task is evaluated twice or on two threads, inline or from the queue.  *)
RunsOnce ==
  \A t, u \in Threads : \A i \in DOMAIN stack[t], j \in DOMAIN stack[u] :
    /\ stack[t][i].task = stack[u][j].task => t = u /\ i = j
    /\ ~TaskDone(stack[t][i].task)

(* The evaluation ends and so does reduct_free: joins that execute each     *)
(* other's tasks never wait in a circle, a worker that missed the signal of *)
(* a task does not hold anyone up, and no worker sleeps through the         *)
(* shutdown.                                                                *)
EvaluationEnds == <>(stack[Master] = <<>>)
FreeEnds == <>(pc[Master] = "exited")
=============================================================================
