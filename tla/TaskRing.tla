------------------------------ MODULE TaskRing ------------------------------
(***************************************************************************)
(* The lock-free ring behind src/task.c: reduct_task_push,                 *)
(* reduct_task_pop, the slot release at the end of reduct_task_try_work    *)
(* and the test reduct_task_done that a join polls.                        *)
(*                                                                         *)
(* Every atomic load, compare-exchange and store of the C code is a step   *)
(* of its own, so the steps of several threads interleave between them.    *)
(* A ticket is the value of queueHead (or queueTail) a thread claimed; it  *)
(* occupies slot Slot(ticket) from the claim until its task has finished.  *)
(* The 16-bit generation counters keep their width: they are stored modulo *)
(* GenMod and compared through a signed difference.                        *)
(***************************************************************************)
EXTENDS Integers, FiniteSets

CONSTANTS
  Threads,   (* the threads of one reduct_global_t, master and workers     *)
  QueueMax,  (* REDUCT_TASK_QUEUE_MAX                                      *)
  GenMod,    (* 2^16, the number of values of a generation counter         *)
  MaxTasks,  (* bound: the number of calls of reduct_task_create           *)
  NoTask     (* the NULL func and arg of a slot never written              *)

(* One slot more than a single-slot ring, and generations that cannot wrap  *)
(* within one round: 256 and 65536 in the code.                             *)
ASSUME RingAssumption ==
  /\ QueueMax \in Nat /\ QueueMax >= 2
  /\ GenMod \in Nat /\ GenMod > QueueMax
  /\ MaxTasks \in Nat
  /\ NoTask \notin Nat

VARIABLES
  queueHead,   (* next ticket to push                                      *)
  queueTail,   (* next ticket to pop                                       *)
  generation,  (* per slot, the published sequence number                  *)
  task,        (* per slot, the func and arg fields                        *)
  pc,          (* per thread, the next atomic step of its push or pop      *)
  pos,         (* per thread, the local variable head or tail              *)
  arg,         (* per thread, the task its push is publishing              *)
  running,     (* per thread, the tickets whose func it is executing       *)
  created,     (* how many tasks have been handed to reduct_task_create    *)
  log,         (* history: the task each ticket was claimed for            *)
  executed     (* history: the tasks handed to their func, by ticket       *)

ringVars == <<queueHead, queueTail, generation, task>>
threadVars == <<pc, pos, arg, running, created>>
vars == <<ringVars, threadVars, log, executed>>

Slots == 0 .. QueueMax - 1
Slot(p) == p % QueueMax
Gen(p) == p % GenMod

(* (int16_t)(seq - (uint16_t)p)                                            *)
Diff(seq, p) ==
  LET d == (seq - Gen(p)) % GenMod
  IN  IF 2 * d < GenMod THEN d ELSE d - GenMod

PushSteps == {"push_load", "push_check", "push_cas", "push_fill", "push_publish"}
PopSteps == {"pop_load", "pop_check", "pop_cas", "pop_read"}

(***************************************************************************)
(* Where a ticket is in its life, read off the threads' program counters.  *)
(***************************************************************************)
Claims(t, p) == pc[t] \in {"push_fill", "push_publish"} /\ pos[t] = p
Takes(t, p) == (pc[t] = "pop_read" /\ pos[t] = p) \/ p \in running[t]
Claimed(p) == \E t \in Threads : Claims(t, p)
Taken(p) == \E t \in Threads : Takes(t, p)
Finished(p) == p < queueTail /\ ~Taken(p)

(* Mutant: the id holds the value the slot has before the push.             *)
DoneOffByOne(p) == generation[Slot(p)] # Gen(p)

(* reduct_task_done for the id that reduct_task_create returned for p.     *)
Done(p) == generation[Slot(p)] # Gen(p + 1)

Init ==
  /\ queueHead = 0
  /\ queueTail = 0
  /\ generation = [s \in Slots |-> Gen(s)]
  /\ task = [s \in Slots |-> NoTask]
  /\ pc = [t \in Threads |-> "idle"]
  /\ pos = [t \in Threads |-> 0]
  /\ arg = [t \in Threads |-> 0]
  /\ running = [t \in Threads |-> {}]
  /\ created = 0
  /\ log = [p \in {} |-> 0]
  /\ executed = [p \in {} |-> 0]

Goto(t, step) == pc' = [pc EXCEPT ![t] = step]

(***************************************************************************)
(* reduct_task_push                                                        *)
(***************************************************************************)
PushBegin(t) ==
  /\ pc[t] = "idle"
  /\ created < MaxTasks
  /\ arg' = [arg EXCEPT ![t] = created]
  /\ created' = created + 1
  /\ Goto(t, "push_load")
  /\ UNCHANGED <<ringVars, pos, running, log, executed>>

PushLoad(t) ==
  /\ pc[t] = "push_load"
  /\ pos' = [pos EXCEPT ![t] = queueHead]
  /\ Goto(t, "push_check")
  /\ UNCHANGED <<ringVars, arg, running, created, log, executed>>

PushCheck(t) ==
  LET diff == Diff(generation[Slot(pos[t])], pos[t])
  IN  /\ pc[t] = "push_check"
      /\ \/ diff = 0 /\ Goto(t, "push_cas")
         \/ diff < 0 /\ Goto(t, "idle")
         \/ diff > 0 /\ Goto(t, "push_load")
      /\ UNCHANGED <<ringVars, pos, arg, running, created, log, executed>>

(* Mutant: queueHead is stored without comparing it with the value loaded.  *)
PushCasBlind(t) ==
  /\ pc[t] = "push_cas"
  /\ queueHead' = pos[t] + 1
  /\ log' = [p \in DOMAIN log \cup {pos[t]} |-> IF p = pos[t] THEN arg[t] ELSE log[p]]
  /\ Goto(t, "push_fill")
  /\ UNCHANGED <<queueTail, generation, task, pos, arg, running, created, executed>>

(* The weak compare-exchange may also fail when queueHead is unchanged.     *)
PushCas(t) ==
  /\ pc[t] = "push_cas"
  /\ \/ /\ queueHead = pos[t]
        /\ queueHead' = queueHead + 1
        /\ log' = [p \in 0 .. queueHead |-> IF p = queueHead THEN arg[t] ELSE log[p]]
        /\ Goto(t, "push_fill")
     \/ /\ Goto(t, "push_load")
        /\ UNCHANGED <<queueHead, log>>
  /\ UNCHANGED <<queueTail, generation, task, pos, arg, running, created, executed>>

PushFill(t) ==
  /\ pc[t] = "push_fill"
  /\ task' = [task EXCEPT ![Slot(pos[t])] = arg[t]]
  /\ Goto(t, "push_publish")
  /\ UNCHANGED <<queueHead, queueTail, generation, pos, arg, running, created, log, executed>>

PushPublish(t) ==
  /\ pc[t] = "push_publish"
  /\ generation' = [generation EXCEPT ![Slot(pos[t])] = Gen(pos[t] + 1)]
  /\ Goto(t, "idle")
  /\ UNCHANGED <<queueHead, queueTail, task, pos, arg, running, created, log, executed>>

(***************************************************************************)
(* reduct_task_pop, and the part of reduct_task_try_work around it: the    *)
(* popped func is read from the slot and executed (the thread is idle and  *)
(* may push, and pop again inside a join), then the slot is released.      *)
(***************************************************************************)
PopBegin(t) ==
  /\ pc[t] = "idle"
  /\ Goto(t, "pop_load")
  /\ UNCHANGED <<ringVars, pos, arg, running, created, log, executed>>

PopLoad(t) ==
  /\ pc[t] = "pop_load"
  /\ pos' = [pos EXCEPT ![t] = queueTail]
  /\ Goto(t, "pop_check")
  /\ UNCHANGED <<ringVars, arg, running, created, log, executed>>

PopCheck(t) ==
  LET diff == Diff(generation[Slot(pos[t])], pos[t] + 1)
  IN  /\ pc[t] = "pop_check"
      /\ \/ diff = 0 /\ Goto(t, "pop_cas")
         \/ diff < 0 /\ Goto(t, "idle")
         \/ diff > 0 /\ Goto(t, "pop_load")
      /\ UNCHANGED <<ringVars, pos, arg, running, created, log, executed>>

(* Mutant: queueTail is stored without comparing it with the value loaded.  *)
PopCasBlind(t) ==
  /\ pc[t] = "pop_cas"
  /\ queueTail' = pos[t] + 1
  /\ Goto(t, "pop_read")
  /\ UNCHANGED <<queueHead, generation, task, pos, arg, running, created, log, executed>>

PopCas(t) ==
  /\ pc[t] = "pop_cas"
  /\ \/ /\ queueTail = pos[t]
        /\ queueTail' = queueTail + 1
        /\ Goto(t, "pop_read")
     \/ /\ Goto(t, "pop_load")
        /\ UNCHANGED queueTail
  /\ UNCHANGED <<queueHead, generation, task, pos, arg, running, created, log, executed>>

(* Mutant: the slot is released when func has been read, before it runs.    *)
PopReadRelease(t) ==
  /\ pc[t] = "pop_read"
  /\ generation' = [generation EXCEPT ![Slot(pos[t])] = Gen(pos[t] + QueueMax)]
  /\ running' = [running EXCEPT ![t] = @ \cup {pos[t]}]
  /\ executed' = [p \in DOMAIN executed \cup {pos[t]} |->
                    IF p = pos[t] THEN task[Slot(p)] ELSE executed[p]]
  /\ Goto(t, "idle")
  /\ UNCHANGED <<queueHead, queueTail, task, pos, arg, created, log>>

PopRead(t) ==
  /\ pc[t] = "pop_read"
  /\ running' = [running EXCEPT ![t] = @ \cup {pos[t]}]
  /\ executed' = [p \in DOMAIN executed \cup {pos[t]} |->
                    IF p = pos[t] THEN task[Slot(p)] ELSE executed[p]]
  /\ Goto(t, "idle")
  /\ UNCHANGED <<ringVars, pos, arg, created, log>>

(* Mutant: the slot is given back under the ticket that has just finished.  *)
ReleaseSameRound(t) ==
  /\ pc[t] = "idle"
  /\ \E p \in running[t] :
       /\ \A q \in running[t] : q <= p
       /\ running' = [running EXCEPT ![t] = @ \ {p}]
       /\ generation' = [generation EXCEPT ![Slot(p)] = Gen(p + 1)]
  /\ UNCHANGED <<queueHead, queueTail, task, pc, pos, arg, created, log, executed>>

(* A func called from a join inside another func returns first: the calls  *)
(* of one thread are nested, and it releases its youngest ticket.           *)
Release(t) ==
  /\ pc[t] = "idle"
  /\ \E p \in running[t] :
       /\ \A q \in running[t] : q <= p
       /\ running' = [running EXCEPT ![t] = @ \ {p}]
       /\ generation' = [generation EXCEPT ![Slot(p)] = Gen(p + QueueMax)]
  /\ UNCHANGED <<queueHead, queueTail, task, pc, pos, arg, created, log, executed>>

Push(t) ==
  \/ PushBegin(t) \/ PushLoad(t) \/ PushCheck(t)
  \/ PushCas(t) \/ PushFill(t) \/ PushPublish(t)

Pop(t) ==
  \/ PopBegin(t) \/ PopLoad(t) \/ PopCheck(t)
  \/ PopCas(t) \/ PopRead(t) \/ Release(t)

Next == \E t \in Threads : Push(t) \/ Pop(t)

Spec == Init /\ [][Next]_vars

-----------------------------------------------------------------------------
(* Type invariant of the ring and of the threads' local variables.          *)
TypeOK ==
  /\ queueHead \in Nat
  /\ queueTail \in Nat
  /\ generation \in [Slots -> 0 .. GenMod - 1]
  /\ task \in [Slots -> Nat \cup {NoTask}]
  /\ pc \in [Threads -> {"idle"} \cup PushSteps \cup PopSteps]
  /\ pos \in [Threads -> Nat]
  /\ arg \in [Threads -> Nat]
  /\ running \in [Threads -> SUBSET Nat]
  /\ created \in Nat

Uses(t, p) == Claims(t, p) \/ Takes(t, p)

(* No slot of the ring is ever in use for two tickets, and no ticket is in  *)
(* the hands of two threads: the non-atomic reads and writes of func and    *)
(* arg in reduct_task_push and reduct_task_try_work never race.             *)
SlotExclusive ==
  \A t, u \in Threads : \A p, q \in 0 .. queueHead :
    Uses(t, p) /\ Uses(u, q) /\ Slot(p) = Slot(q) => t = u /\ p = q

(* The func and arg a popper executes are those that were pushed under its  *)
(* ticket (task.c:94-96), whatever other pushes, pops and releases happened *)
(* since the push, and no ticket is executed twice. That every ticket is    *)
(* popped in its turn is what PoolSpec says, not this; the executions of    *)
(* two popped tickets may begin in either order.                            *)
RunsWhatWasPushed ==
  /\ \A p \in DOMAIN executed : executed[p] = log[p]
  /\ \A t \in Threads : pc[t] = "pop_read" => pos[t] \notin DOMAIN executed

(* While a task is published or running, reduct_task_done(id) is false, so  *)
(* a reduct_task_join never returns before the task it waits for finished.  *)
JoinWaits ==
  \A p \in 0 .. queueHead - 1 : ~Claimed(p) /\ ~Finished(p) => ~Done(p)

(* As soon as a finished ticket's slot has not yet been claimed again,      *)
(* reduct_task_done(id) is true: a join cannot miss the end of its task.    *)
JoinSeesEnd ==
  \A p \in 0 .. queueHead - 1 : Finished(p) /\ p + QueueMax >= queueHead => Done(p)

(* The ring is a TaskPool: the status of a ticket is read off the program   *)
(* counters and queueTail, and every other step is a stutter.               *)
StatusOf(p) ==
  IF Claimed(p) THEN "claimed"
  ELSE IF p >= queueTail THEN "ready"
  ELSE IF \E t \in Threads : p \in running[t] THEN "running"
  ELSE IF Taken(p) THEN "popped"
  ELSE "finished"

TicketStatus == [p \in 0 .. queueHead - 1 |-> StatusOf(p)]

Pool == INSTANCE TaskPool
          WITH Tasks <- 0 .. MaxTasks - 1, accepted <- queueHead, status <- TicketStatus

PoolSpec == Pool!Spec
=============================================================================
