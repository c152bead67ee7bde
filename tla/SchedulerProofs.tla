-------------------------- MODULE SchedulerProofs --------------------------
(***************************************************************************)
(* Why fork and join over the task queue run every task once and in a      *)
(* structured way, for every tree of calls, any number of workers and any  *)
(* size of the ring: proofs about Scheduler.                               *)
(*                                                                         *)
(* The argument: the activations on the C stacks stand for the tickets     *)
(* that are being executed (StackInv), a call that is known has been       *)
(* forked by its parent, which is done or has gone past it (ForkInv), so   *)
(* the child a parent is about to fork is new; and what an activation has  *)
(* joined is done for good (StackInv), so a parent that returns leaves no  *)
(* child behind (Structured).                                              *)
(***************************************************************************)
EXTENDS Scheduler, TLAPS

Parents == Tasks \cup {Root}
Points ==
  {"go", "publish", "signal", "seek", "start", "lock", "wait", "asleep", "woken", "joining", "exited"}
Tickets == 0 .. accepted - 1
Activations == [task : Parents, ticket : Nat \cup {NoTicket}, step : Nat \ {0}]

(* The types of the pool's log and of the threads.                         *)
TypeOK ==
  /\ accepted \in Nat
  /\ log \in [Tickets -> Tasks]
  /\ status \in [Tickets -> Pool!Statuses]
  /\ pc \in [Threads -> Points]
  /\ stack \in [Threads -> Seq(Activations)]
  /\ inlined \in SUBSET Parents
  /\ shutdown \in BOOLEAN

(* Tickets stand for different tasks, none of them called inline.           *)
LogInv ==
  /\ \A p, q \in Tickets : log[p] = log[q] => p = q
  /\ \A p \in Tickets : log[p] \notin inlined

(* What an activation says of the ticket it came from.                      *)
Ticketed(act) ==
  IF act.ticket = NoTicket
  THEN \A p \in Tickets : log[p] # act.task
  ELSE /\ act.ticket \in Tickets
       /\ log[act.ticket] = act.task
       /\ status[act.ticket] \in {"popped", "running"}

(* The children an activation has joined have finished.                     *)
JoinedDone(act) ==
  \A k \in DOMAIN Kids[act.task] :
    k + Len(Kids[act.task]) < act.step => TaskDone(Kids[act.task][k])

StackInv ==
  \A t \in Threads : \A i \in DOMAIN stack[t] : Ticketed(stack[t][i]) /\ JoinedDone(stack[t][i])

(* A thread inside reduct_task_create is forking a child.                   *)
Creating(t) == pc[t] \in {"publish", "signal"}
PointInv ==
  \A t \in Threads :
    /\ Creating(t) => stack[t] # <<>> /\ Top(t).step <= Len(Kids[Top(t).task])
    /\ pc[t] = "start" => stack[t] # <<>> /\ Top(t).ticket # NoTicket

(* A task that has been forked, and the places where its parent forked it.  *)
Known(task) ==
  \/ task \in inlined
  \/ \E p \in Tickets : log[p] = task
  \/ \E t \in Threads : \E i \in DOMAIN stack[t] : stack[t][i].task = task
ForkedBy(parent, k, t, i) ==
  /\ stack[t][i].task = parent
  /\ \/ k < stack[t][i].step
     \/ k = stack[t][i].step /\ i = Len(stack[t]) /\ Creating(t)
ForkInv ==
  \A parent \in Parents : \A k \in DOMAIN Kids[parent] :
    Known(Kids[parent][k]) =>
      \/ TaskDone(parent)
      \/ \E t \in Threads : \E i \in DOMAIN stack[t] : ForkedBy(parent, k, t, i)

(* The inductive invariant.                                                 *)
IndInv == TypeOK /\ LogInv /\ StackInv /\ PointInv /\ ForkInv /\ Structured /\ RunsOnce

-----------------------------------------------------------------------------
(* The calls a task forks.                                                  *)
LEMMA KidTypes ==
  ASSUME NEW p \in Parents
  PROVE  /\ Kids[p] \in Seq(Tasks)
         /\ Len(Kids[p]) \in Nat
         /\ DOMAIN Kids[p] = 1 .. Len(Kids[p])
         /\ \A k \in DOMAIN Kids[p] : Kids[p][k] \in Tasks
BY SchedulerAssumption DEF Parents

(* The types of a thread's activations.                                     *)
LEMMA StackTypes ==
  ASSUME TypeOK, NEW t \in Threads
  PROVE  /\ stack[t] \in Seq(Activations)
         /\ Len(stack[t]) \in Nat
         /\ DOMAIN stack[t] = 1 .. Len(stack[t])
         /\ \A i \in DOMAIN stack[t] :
              /\ stack[t][i] \in Activations
              /\ stack[t][i].task \in Parents
              /\ stack[t][i].step \in Nat \ {0}
              /\ stack[t][i].ticket \in Nat \cup {NoTicket}
         /\ stack[t] # <<>> => /\ Len(stack[t]) \in DOMAIN stack[t]
                               /\ Top(t) = stack[t][Len(stack[t])]
                               /\ Top(t) \in Activations
<1>1. stack[t] \in Seq(Activations)
  BY DEF TypeOK
<1>2. \A i \in DOMAIN stack[t] : stack[t][i] \in Activations
  BY <1>1
<1>3. \A a \in Activations : /\ a.task \in Parents
                             /\ a.step \in Nat \ {0}
                             /\ a.ticket \in Nat \cup {NoTicket}
  BY DEF Activations
<1>4. stack[t] # <<>> => Len(stack[t]) \in 1 .. Len(stack[t])
  BY <1>1
<1> QED
  BY <1>1, <1>2, <1>3, <1>4 DEF Top, Last

(* What advancing the innermost activation by a step leaves as it was.      *)
LEMMA Advanced ==
  ASSUME TypeOK, NEW t \in Threads, stack[t] # <<>>
  PROVE  /\ Advance(t) \in Seq(Activations)
         /\ Len(Advance(t)) = Len(stack[t])
         /\ DOMAIN Advance(t) = DOMAIN stack[t]
         /\ \A i \in DOMAIN stack[t] :
              /\ Advance(t)[i].task = stack[t][i].task
              /\ Advance(t)[i].ticket = stack[t][i].ticket
              /\ Advance(t)[i].step =
                   IF i = Len(stack[t]) THEN stack[t][i].step + 1 ELSE stack[t][i].step
<1> DEFINE n == Len(stack[t])
<1>1. stack[t] \in Seq(Activations) /\ n \in Nat /\ n \in DOMAIN stack[t] /\ DOMAIN stack[t] = 1 .. n
  BY StackTypes
<1>2. stack[t][n] \in Activations
  BY <1>1
<1>3. [stack[t][n] EXCEPT !.step = @ + 1] \in Activations
  BY <1>2 DEF Activations
<1>4. Advance(t) = [stack[t] EXCEPT ![n] = [stack[t][n] EXCEPT !.step = @ + 1]]
  BY DEF Advance
<1>5. Advance(t) \in Seq(Activations) /\ Len(Advance(t)) = n /\ DOMAIN Advance(t) = DOMAIN stack[t]
  BY <1>1, <1>3, <1>4
<1>6. \A i \in DOMAIN stack[t] : Advance(t)[i] =
         IF i = n THEN [stack[t][n] EXCEPT !.step = @ + 1] ELSE stack[t][i]
  BY <1>1, <1>4
<1>7. /\ [stack[t][n] EXCEPT !.step = @ + 1].task = stack[t][n].task
      /\ [stack[t][n] EXCEPT !.step = @ + 1].ticket = stack[t][n].ticket
      /\ [stack[t][n] EXCEPT !.step = @ + 1].step = stack[t][n].step + 1
  BY <1>2 DEF Activations
<1> QED
  BY <1>5, <1>6, <1>7

(* The ways in which a task can be done.                                    *)
LEMMA DoneTickets ==
  ASSUME TypeOK, NEW x
  PROVE  TaskDone(x) <=> x \in inlined \/ \E p \in Tickets : log[p] = x /\ status[p] = "finished"
BY DEF TypeOK, TaskDone

(* Steps that move a thread but no task.                                    *)
LEMMA Quiet ==
  ASSUME IndInv, UNCHANGED <<poolVars, stack, inlined>>,
         pc' \in [Threads -> Points], shutdown' \in BOOLEAN,
         \A t \in Threads : /\ Creating(t)' <=> Creating(t)
                            /\ pc'[t] = "start" => pc[t] = "start"
  PROVE  IndInv'
<1>0. /\ accepted' = accepted /\ log' = log /\ status' = status /\ Tickets' = Tickets
      /\ stack' = stack /\ inlined' = inlined
  BY DEF poolVars, Tickets
<1>1. \A x : TaskDone(x)' <=> TaskDone(x)
  BY <1>0 DEF TaskDone
<1>2. \A x : Known(x)' <=> Known(x)
  BY <1>0 DEF Known
<1>3. \A p \in Parents : \A k \in DOMAIN Kids[p] : \A t \in Threads : \A i \in DOMAIN stack[t] :
        ForkedBy(p, k, t, i)' <=> ForkedBy(p, k, t, i)
  BY <1>0 DEF ForkedBy
<1>4. TypeOK'
  BY <1>0 DEF IndInv, TypeOK
<1>5. LogInv'
  BY <1>0 DEF IndInv, LogInv
<1>6. StackInv'
  <2>1. \A a : Ticketed(a)' <=> Ticketed(a)
    BY <1>0 DEF Ticketed
  <2>2. \A a : JoinedDone(a)' <=> JoinedDone(a)
    BY <1>1 DEF JoinedDone
  <2> QED
    BY <1>0, <2>1, <2>2 DEF IndInv, StackInv
<1>7. PointInv'
  BY <1>0 DEF IndInv, PointInv, Top
<1>8. ForkInv'
  BY <1>0, <1>1, <1>2, <1>3 DEF IndInv, ForkInv
<1>9. Structured' /\ RunsOnce'
  BY <1>0, <1>1 DEF IndInv, Structured, RunsOnce
<1> QED
  BY <1>4, <1>5, <1>6, <1>7, <1>8, <1>9 DEF IndInv

(* A child that is about to be forked has not been forked.                  *)
LEMMA NewKid ==
  ASSUME IndInv, NEW t \in Threads, Forking(t)
  PROVE  /\ Top(t).task \in Parents
         /\ Top(t).step \in DOMAIN Kids[Top(t).task]
         /\ NextKid(t) \in Tasks
         /\ ~Known(NextKid(t))
<1>1. TypeOK /\ stack[t] # <<>> /\ pc[t] = "go"
  BY DEF IndInv, Forking, Busy
<1>2. /\ Top(t).task \in Parents /\ Top(t).step \in DOMAIN Kids[Top(t).task]
      /\ Len(stack[t]) \in DOMAIN stack[t] /\ Top(t) = stack[t][Len(stack[t])]
  BY <1>1, StackTypes, KidTypes DEF Forking
<1>3. NextKid(t) \in Tasks
  BY <1>2, KidTypes DEF NextKid
<1>4. ~TaskDone(Top(t).task)
  BY <1>2 DEF IndInv, RunsOnce
<1>5. SUFFICES ASSUME Known(NextKid(t)) PROVE FALSE
  BY <1>2, <1>3
<1>6. PICK u \in Threads : \E i \in DOMAIN stack[u] : ForkedBy(Top(t).task, Top(t).step, u, i)
  BY <1>2, <1>4, <1>5 DEF IndInv, ForkInv, NextKid
<1>7. PICK i \in DOMAIN stack[u] : ForkedBy(Top(t).task, Top(t).step, u, i)
  BY <1>6
<1>8. u = t /\ i = Len(stack[t])
  BY <1>2, <1>7 DEF IndInv, RunsOnce, ForkedBy
<1>9. Top(t).step < Top(t).step
  BY <1>1, <1>2, <1>7, <1>8 DEF ForkedBy, Creating
<1> QED
  BY <1>2, <1>9, KidTypes

(* A thread goes on in its innermost task, without forking.                 *)
LEMMA Advancing ==
  ASSUME IndInv, NEW t \in Threads, stack[t] # <<>>,
         stack' = [stack EXCEPT ![t] = Advance(t)],
         UNCHANGED <<poolVars, inlined>>,
         pc' \in [Threads -> Points], shutdown' \in BOOLEAN,
         \A u \in Threads : /\ Creating(u)' <=> Creating(u) /\ u # t
                            /\ pc'[u] = "start" => pc[u] = "start",
         \A k \in DOMAIN Kids[Top(t).task] :
           k + Len(Kids[Top(t).task]) < Top(t).step + 1 => TaskDone(Kids[Top(t).task][k])
  PROVE  IndInv'
<1> DEFINE n == Len(stack[t])
<1>0. /\ accepted' = accepted /\ log' = log /\ status' = status /\ Tickets' = Tickets
      /\ inlined' = inlined /\ TypeOK
  BY DEF poolVars, Tickets, IndInv
<1>1. \A x : TaskDone(x)' <=> TaskDone(x)
  BY <1>0 DEF TaskDone
<1>2. /\ Advance(t) \in Seq(Activations) /\ Len(Advance(t)) = n /\ DOMAIN Advance(t) = DOMAIN stack[t]
      /\ \A i \in DOMAIN stack[t] :
           /\ Advance(t)[i].task = stack[t][i].task
           /\ Advance(t)[i].ticket = stack[t][i].ticket
           /\ Advance(t)[i].step = IF i = n THEN stack[t][i].step + 1 ELSE stack[t][i].step
  BY <1>0, Advanced
<1>3. /\ stack'[t] = Advance(t)
      /\ \A u \in Threads : u # t => stack'[u] = stack[u]
      /\ stack' \in [Threads -> Seq(Activations)]
  BY <1>0, <1>2 DEF TypeOK
<1>4. \A u \in Threads :
        /\ DOMAIN stack'[u] = DOMAIN stack[u] /\ Len(stack'[u]) = Len(stack[u])
        /\ \A i \in DOMAIN stack[u] :
             /\ stack'[u][i].task = stack[u][i].task
             /\ stack'[u][i].ticket = stack[u][i].ticket
             /\ stack'[u][i].step = IF u = t /\ i = n THEN stack[u][i].step + 1 ELSE stack[u][i].step
  BY <1>2, <1>3
<1>5. \A u \in Threads : \A i \in DOMAIN stack[u] : stack[u][i].step \in Nat
  BY <1>0, StackTypes
<1>6. n \in DOMAIN stack[t] /\ Top(t) = stack[t][n]
  BY <1>0, StackTypes
<1>7. TypeOK'
  BY <1>0, <1>3 DEF TypeOK
<1>8. LogInv'
  BY <1>0 DEF IndInv, LogInv
<1>9. StackInv'
  <2> SUFFICES ASSUME NEW u \in Threads, NEW i \in DOMAIN stack[u], NEW act, act = stack'[u][i]
               PROVE  Ticketed(act)' /\ JoinedDone(act)'
    BY <1>4 DEF StackInv
  <2>1. Ticketed(stack[u][i]) /\ JoinedDone(stack[u][i])
    BY DEF IndInv, StackInv
  <2>2. Ticketed(act)'
    BY <1>0, <1>4, <2>1 DEF Ticketed
  <2>3. JoinedDone(act)' <=>
          \A k \in DOMAIN Kids[act.task] :
            k + Len(Kids[act.task]) < act.step => TaskDone(Kids[act.task][k])
    BY <1>1 DEF JoinedDone
  <2>4. act.task = stack[u][i].task
    BY <1>4
  <2>5. CASE u = t /\ i = n
    <3>1. act.step = Top(t).step + 1
      BY <1>4, <1>6, <2>5
    <3> QED
      BY <1>6, <2>2, <2>5, <2>3, <2>4, <3>1
  <2>6. CASE ~(u = t /\ i = n)
    <3>1. act.step = stack[u][i].step
      BY <1>4, <2>6
    <3> QED
      BY <2>1, <2>2, <2>3, <2>4, <3>1 DEF JoinedDone
  <2> QED
    BY <2>5, <2>6
<1>10. PointInv'
  <2> SUFFICES ASSUME NEW u \in Threads
               PROVE  /\ Creating(u)' => stack'[u] # <<>> /\ (Top(u).step <= Len(Kids[Top(u).task]))'
                      /\ pc'[u] = "start" => stack'[u] # <<>> /\ Top(u)'.ticket # NoTicket
    BY DEF PointInv
  <2>1. CASE u = t
    <3>1. stack'[t] # <<>>
      BY <1>2, <1>3, <1>6
    <3>2. Top(t)'.ticket = Top(t).ticket
      BY <1>2, <1>3, <1>6 DEF Top, Last
    <3> QED
      BY <2>1, <3>1, <3>2 DEF IndInv, PointInv
  <2>2. CASE u # t
    BY <1>3, <2>2 DEF IndInv, PointInv, Top
  <2> QED
    BY <2>1, <2>2
<1>11. ForkInv'
  <2>1. \A x : Known(x)' => Known(x)
    BY <1>0, <1>4 DEF Known
  <2>2. ASSUME NEW p \in Parents, NEW k \in DOMAIN Kids[p], NEW u \in Threads, NEW i \in DOMAIN stack[u],
               ForkedBy(p, k, u, i)
        PROVE  ForkedBy(p, k, u, i)'
    <3>1. k \in Nat
      BY KidTypes
    <3>2. CASE k < stack[u][i].step
      BY <1>4, <1>5, <2>2, <3>1, <3>2 DEF ForkedBy
    <3>3. CASE k = stack[u][i].step /\ i = Len(stack[u]) /\ Creating(u)
      BY <1>4, <1>5, <2>2, <3>1, <3>3 DEF ForkedBy
    <3> QED
      BY <2>2, <3>2, <3>3 DEF ForkedBy
  <2> QED
    BY <1>1, <1>4, <2>1, <2>2 DEF IndInv, ForkInv
<1>12. Structured'
  BY <1>1 DEF IndInv, Structured
<1>13. RunsOnce'
  BY <1>1, <1>4 DEF IndInv, RunsOnce
<1> QED
  BY <1>7, <1>8, <1>9, <1>10, <1>11, <1>12, <1>13 DEF IndInv

(* A ticket comes further, without finishing; no stack changes.             *)
LEMMA StatusStep ==
  ASSUME IndInv, NEW p, NEW v \in Pool!Statuses \ {"finished"},
         status[p] # "finished",
         status[p] \in {"popped", "running"} => v \in {"popped", "running"},
         status' = [status EXCEPT ![p] = v],
         UNCHANGED <<accepted, log, stack, inlined>>,
         pc' \in [Threads -> Points], shutdown' \in BOOLEAN,
         \A t \in Threads : /\ Creating(t)' <=> Creating(t)
                            /\ pc'[t] = "start" => pc[t] = "start"
  PROVE  IndInv'
<1>0. /\ accepted' = accepted /\ log' = log /\ Tickets' = Tickets
      /\ stack' = stack /\ inlined' = inlined /\ TypeOK
  BY DEF Tickets, IndInv
<1>1. status' \in [Tickets -> Pool!Statuses]
  BY <1>0 DEF TypeOK
<1>2. \A q \in Tickets : /\ status'[q] = "finished" <=> status[q] = "finished"
                         /\ status[q] \in {"popped", "running"} => status'[q] \in {"popped", "running"}
  BY <1>0 DEF TypeOK
<1>3. \A x : TaskDone(x)' <=> TaskDone(x)
  BY <1>0, <1>2 DEF TaskDone, TypeOK
<1>4. \A x : Known(x)' <=> Known(x)
  BY <1>0 DEF Known
<1>5. \A a \in Parents : \A k \in DOMAIN Kids[a] : \A t \in Threads : \A i \in DOMAIN stack[t] :
        ForkedBy(a, k, t, i)' <=> ForkedBy(a, k, t, i)
  BY <1>0 DEF ForkedBy
<1>6. TypeOK'
  BY <1>0, <1>1 DEF IndInv, TypeOK
<1>7. LogInv'
  BY <1>0 DEF IndInv, LogInv
<1>8. StackInv'
  <2>1. \A a : Ticketed(a) => Ticketed(a)'
    BY <1>0, <1>2 DEF Ticketed
  <2>2. \A a : JoinedDone(a)' <=> JoinedDone(a)
    BY <1>3 DEF JoinedDone
  <2> QED
    BY <1>0, <2>1, <2>2 DEF IndInv, StackInv
<1>9. PointInv'
  BY <1>0 DEF IndInv, PointInv, Top
<1>10. ForkInv'
  BY <1>0, <1>3, <1>4, <1>5 DEF IndInv, ForkInv
<1>11. Structured' /\ RunsOnce'
  BY <1>0, <1>3 DEF IndInv, Structured, RunsOnce
<1> QED
  BY <1>6, <1>7, <1>8, <1>9, <1>10, <1>11 DEF IndInv

(* reduct_task_create claims a ticket for a child nobody knows yet.         *)
LEMMA Creates ==
  ASSUME IndInv, NEW t \in Threads, Create(t)
  PROVE  IndInv'
<1> DEFINE kid == NextKid(t)
<1>0. /\ stack' = stack /\ inlined' = inlined /\ shutdown' = shutdown /\ TypeOK
      /\ pc' = [pc EXCEPT ![t] = "publish"] /\ pc[t] = "go" /\ stack[t] # <<>>
      /\ Top(t).step <= Len(Kids[Top(t).task])
  BY DEF Create, Goto, Forking, Busy, IndInv
<1>1. /\ Top(t).task \in Parents /\ Top(t).step \in DOMAIN Kids[Top(t).task]
      /\ kid \in Tasks /\ ~Known(kid) /\ kid = Kids[Top(t).task][Top(t).step]
  BY NewKid DEF Create, NextKid
<1>2. /\ accepted' = accepted + 1
      /\ log' = [q \in DOMAIN log \cup {accepted} |-> IF q = accepted THEN kid ELSE log[q]]
      /\ status' = [q \in DOMAIN status \cup {accepted} |-> IF q = accepted THEN "claimed" ELSE status[q]]
  BY DEF Create, Pool!Claim, Pool!Extend
<1>3. /\ Tickets' = Tickets \cup {accepted} /\ accepted \notin Tickets
      /\ DOMAIN log = Tickets /\ DOMAIN status = Tickets
  BY <1>0, <1>2 DEF Tickets, TypeOK
<1>4. /\ \A q \in Tickets : log'[q] = log[q] /\ status'[q] = status[q]
      /\ log'[accepted] = kid /\ status'[accepted] = "claimed"
      /\ DOMAIN log' = Tickets'
  BY <1>2, <1>3
<1> HIDE DEF kid
<1>5. \A x : TaskDone(x)' <=> TaskDone(x)
  BY <1>0, <1>3, <1>4 DEF TaskDone
<1>6. \A x : Known(x)' <=> Known(x) \/ x = kid
  BY <1>0, <1>3, <1>4 DEF Known
<1>7. TypeOK'
  <2>1. log' \in [Tickets' -> Tasks] /\ status' \in [Tickets' -> Pool!Statuses]
    BY <1>0, <1>1, <1>2, <1>3 DEF TypeOK, Pool!Statuses
  <2> QED
    BY <1>0, <1>2, <2>1 DEF TypeOK, Points
<1>8. LogInv'
  <2>1. kid \notin inlined /\ \A q \in Tickets : log[q] # kid
    BY <1>1 DEF Known
  <2> QED
    BY <1>0, <1>3, <1>4, <2>1 DEF IndInv, LogInv
<1>9. StackInv'
  <2>1. ASSUME NEW u \in Threads, NEW i \in DOMAIN stack[u]
        PROVE  stack[u][i].task # kid
    BY <1>1 DEF Known
  <2>2. ASSUME NEW act, Ticketed(act), act.task # kid PROVE Ticketed(act)'
    BY <1>3, <1>4, <2>2 DEF Ticketed
  <2>3. \A a : JoinedDone(a)' <=> JoinedDone(a)
    BY <1>5 DEF JoinedDone
  <2> QED
    BY <1>0, <2>1, <2>2, <2>3 DEF IndInv, StackInv
<1>10. PointInv'
  BY <1>0 DEF IndInv, PointInv, Top, Creating, TypeOK
<1>11. ForkInv'
  <2>1. \A a \in Parents : \A k \in DOMAIN Kids[a] : \A u \in Threads : \A i \in DOMAIN stack[u] :
          ForkedBy(a, k, u, i) => ForkedBy(a, k, u, i)'
    BY <1>0 DEF ForkedBy, Creating, TypeOK
  <2>2. \A a, k, n : a = Top(t).task /\ k = Top(t).step /\ n = Len(stack[t]) => ForkedBy(a, k, t, n)'
    BY <1>0, StackTypes DEF ForkedBy, Creating, TypeOK
  <2>3. Len(stack[t]) \in DOMAIN stack[t]
    BY <1>0, StackTypes
  <2> SUFFICES ASSUME NEW a \in Parents, NEW k \in DOMAIN Kids[a], Known(Kids[a][k])'
               PROVE  TaskDone(a)' \/ \E u \in Threads : \E i \in DOMAIN stack'[u] : ForkedBy(a, k, u, i)'
    BY DEF ForkInv
  <2>4. CASE Known(Kids[a][k])
    BY <1>0, <1>5, <2>1, <2>4 DEF IndInv, ForkInv
  <2>5. CASE Kids[a][k] = kid
    <3>1. a = Top(t).task /\ k = Top(t).step
      BY <1>1, <2>5, SchedulerAssumption DEF Parents
    <3> QED
      BY <1>0, <2>2, <2>3, <3>1
  <2> QED
    BY <1>6, <2>4, <2>5
<1>12. Structured' /\ RunsOnce'
  BY <1>0, <1>5 DEF IndInv, Structured, RunsOnce
<1> QED
  BY <1>7, <1>8, <1>9, <1>10, <1>11, <1>12 DEF IndInv

(* reduct_task_create refuses, and the caller evaluates the call itself.    *)
LEMMA CallsInline ==
  ASSUME IndInv, NEW t \in Threads, CallInline(t)
  PROVE  IndInv'
<1> DEFINE kid == NextKid(t)
           n == Len(stack[t])
           new == Activation(kid, NoTicket)
<1>0. /\ accepted' = accepted /\ log' = log /\ status' = status /\ Tickets' = Tickets
      /\ pc' = pc /\ inlined' = inlined /\ shutdown' = shutdown /\ TypeOK
      /\ pc[t] = "go" /\ stack[t] # <<>> /\ Top(t).step <= Len(Kids[Top(t).task])
  BY DEF CallInline, poolVars, Forking, Busy, Tickets, IndInv
<1>1. /\ Top(t).task \in Parents /\ Top(t).step \in DOMAIN Kids[Top(t).task]
      /\ kid \in Tasks /\ ~Known(kid) /\ kid = Kids[Top(t).task][Top(t).step]
  BY NewKid DEF CallInline, NextKid
<1>2. /\ new \in Activations /\ new.task = kid /\ new.ticket = NoTicket /\ new.step = 1
  BY <1>1 DEF Activation, Activations, Parents
<1>3. /\ n \in Nat /\ n \in DOMAIN stack[t] /\ DOMAIN stack[t] = 1 .. n /\ Top(t) = stack[t][n]
  BY <1>0, StackTypes
<1>4. stack' = [stack EXCEPT ![t] = Append(Advance(t), new)]
  BY DEF CallInline
<1>5. \A x : TaskDone(x)' <=> TaskDone(x)
  BY <1>0 DEF TaskDone
<1> HIDE DEF kid, new
<1>6. /\ stack'[t] = Append(Advance(t), new)
      /\ \A u \in Threads : u # t => stack'[u] = stack[u]
      /\ stack' \in [Threads -> Seq(Activations)]
      /\ Len(stack'[t]) = n + 1 /\ DOMAIN stack'[t] = 1 .. n + 1
      /\ stack'[t][n + 1] = new
      /\ \A i \in 1 .. n : stack'[t][i] = Advance(t)[i]
  BY <1>0, <1>2, <1>3, <1>4, Advanced DEF TypeOK
<1>7. \A u \in Threads : \A i \in DOMAIN stack[u] :
        /\ i \in DOMAIN stack'[u]
        /\ stack'[u][i].task = stack[u][i].task
        /\ stack'[u][i].ticket = stack[u][i].ticket
        /\ stack'[u][i].step = IF u = t /\ i = n THEN stack[u][i].step + 1 ELSE stack[u][i].step
  <2> SUFFICES ASSUME NEW u \in Threads, NEW i \in DOMAIN stack[u]
               PROVE  /\ i \in DOMAIN stack'[u]
                      /\ stack'[u][i].task = stack[u][i].task
                      /\ stack'[u][i].ticket = stack[u][i].ticket
                      /\ stack'[u][i].step = IF u = t /\ i = n THEN stack[u][i].step + 1
                                             ELSE stack[u][i].step
    OBVIOUS
  <2>1. CASE u # t
    BY <1>6, <2>1
  <2>2. CASE u = t
    <3>1. i \in 1 .. n /\ i \in DOMAIN stack'[t] /\ stack'[t][i] = Advance(t)[i]
      BY <1>3, <1>6, <2>2
    <3> QED
      BY <1>0, <2>2, <3>1, Advanced
  <2> QED
    BY <2>1, <2>2
<1>8. \A u \in Threads : \A i \in DOMAIN stack'[u] : i \in DOMAIN stack[u] \/ (u = t /\ i = n + 1)
  <2>1. \A i \in 1 .. n + 1 : i \in 1 .. n \/ i = n + 1
    BY <1>3
  <2>2. \A i \in DOMAIN stack'[t] : i \in DOMAIN stack[t] \/ i = n + 1
    BY <1>3, <1>6, <2>1
  <2>3. \A u \in Threads : u # t => DOMAIN stack'[u] = DOMAIN stack[u]
    BY <1>6
  <2> QED
    BY <2>2, <2>3
<1>9. \A x : Known(x)' <=> Known(x) \/ x = kid
  <2>1. \A x : Known(x)' => Known(x) \/ x = kid
    BY <1>0, <1>2, <1>6, <1>7, <1>8 DEF Known
  <2>2. \A x : Known(x) => Known(x)'
    BY <1>0, <1>7 DEF Known
  <2>3. stack'[t][n + 1].task = kid /\ n + 1 \in DOMAIN stack'[t]
    BY <1>2, <1>3, <1>6
  <2>4. \A x : x = kid => Known(x)'
    BY <2>3 DEF Known
  <2> QED
    BY <2>1, <2>2, <2>4
<1>10. kid \notin inlined /\ ~TaskDone(kid) /\ \A q \in Tickets : log[q] # kid
  BY <1>0, <1>1, DoneTickets DEF Known
<1>11. TypeOK'
  BY <1>0, <1>6 DEF TypeOK
<1>12. LogInv'
  BY <1>0 DEF IndInv, LogInv
<1>13. StackInv'
  <2> SUFFICES ASSUME NEW u \in Threads, NEW i \in DOMAIN stack'[u], NEW act, act = stack'[u][i]
               PROVE  Ticketed(act)' /\ JoinedDone(act)'
    BY DEF StackInv
  <2>1. JoinedDone(act)' <=> \A k \in DOMAIN Kids[act.task] :
                               k + Len(Kids[act.task]) < act.step => TaskDone(Kids[act.task][k])
    BY <1>5 DEF JoinedDone
  <2>2. CASE i \in DOMAIN stack[u]
    <3>1. Ticketed(stack[u][i]) /\ JoinedDone(stack[u][i])
      BY <2>2 DEF IndInv, StackInv
    <3>2. /\ act.task = stack[u][i].task /\ act.ticket = stack[u][i].ticket
          /\ act.step = IF u = t /\ i = n THEN stack[u][i].step + 1 ELSE stack[u][i].step
      BY <1>7, <2>2
    <3>3. Ticketed(act)'
      BY <1>0, <3>1, <3>2 DEF Ticketed
    <3>4. CASE u = t /\ i = n
      <4>1. act.task = Top(t).task /\ act.step <= Len(Kids[act.task]) + 1
        BY <1>0, <1>1, <1>3, <3>2, <3>4, KidTypes
      <4>2. \A k \in DOMAIN Kids[act.task] : ~(k + Len(Kids[act.task]) < act.step)
        BY <1>1, <1>3, <3>2, <3>4, <4>1, KidTypes
      <4> QED
        BY <2>1, <3>3, <4>2
    <3>5. CASE ~(u = t /\ i = n)
      BY <2>1, <3>1, <3>2, <3>3, <3>5 DEF JoinedDone
    <3> QED
      BY <3>4, <3>5
  <2>3. CASE u = t /\ i = n + 1
    <3>1. act = new
      BY <1>6, <2>3
    <3>2. Ticketed(act)'
      BY <1>0, <1>2, <1>10, <3>1 DEF Ticketed
    <3>3. \A k \in DOMAIN Kids[act.task] : ~(k + Len(Kids[act.task]) < act.step)
      BY <1>1, <1>2, <3>1, KidTypes DEF Parents
    <3> QED
      BY <2>1, <3>2, <3>3
  <2> QED
    BY <1>8, <2>2, <2>3
<1>14. PointInv'
  BY <1>0, <1>6 DEF IndInv, PointInv, Top, Creating
<1>15. ForkInv'
  <2>1. ASSUME NEW a \in Parents, NEW k \in DOMAIN Kids[a], NEW u \in Threads, NEW i \in DOMAIN stack[u],
               ForkedBy(a, k, u, i)
        PROVE  ForkedBy(a, k, u, i)'
    <3>1. k \in Nat /\ stack[u][i].step \in Nat
      BY <1>0, KidTypes, StackTypes
    <3>2. CASE k < stack[u][i].step
      BY <1>7, <2>1, <3>1, <3>2 DEF ForkedBy
    <3>3. CASE k = stack[u][i].step /\ i = Len(stack[u]) /\ Creating(u)
      <4>1. u # t
        BY <1>0, <3>3 DEF Creating
      <4> QED
        BY <1>0, <1>6, <2>1, <3>3, <4>1 DEF ForkedBy, Creating
    <3> QED
      BY <2>1, <3>2, <3>3 DEF ForkedBy
  <2> SUFFICES ASSUME NEW a \in Parents, NEW k \in DOMAIN Kids[a], Known(Kids[a][k])'
               PROVE  TaskDone(a)' \/ \E u \in Threads : \E i \in DOMAIN stack'[u] : ForkedBy(a, k, u, i)'
    BY DEF ForkInv
  <2>2. CASE Known(Kids[a][k])
    BY <1>5, <1>7, <2>1, <2>2 DEF IndInv, ForkInv
  <2>3. CASE Kids[a][k] = kid
    <3>1. a = Top(t).task /\ k = Top(t).step
      BY <1>1, <2>3, SchedulerAssumption DEF Parents
    <3>2. stack'[t][n].task = a /\ stack'[t][n].step = k + 1 /\ n \in DOMAIN stack'[t]
      BY <1>3, <1>7, <3>1
    <3>3. k < k + 1
      BY KidTypes
    <3>4. \A m : m = n => ForkedBy(a, k, t, m)'
      BY <3>2, <3>3 DEF ForkedBy
    <3> QED
      BY <3>2, <3>4
  <2> QED
    BY <1>9, <2>2, <2>3
<1>16. Structured'
  BY <1>5 DEF IndInv, Structured
<1>17. RunsOnce'
  <2>1. \A u \in Threads : \A i \in DOMAIN stack[u] : stack[u][i].task # kid
    BY <1>1 DEF Known
  <2>2. ASSUME NEW u \in Threads, NEW i \in DOMAIN stack'[u]
        PROVE  ~TaskDone(stack'[u][i].task)
    BY <1>2, <1>6, <1>7, <1>8, <1>10 DEF IndInv, RunsOnce
  <2>3. ASSUME NEW u \in Threads, NEW v \in Threads, NEW i \in DOMAIN stack'[u], NEW j \in DOMAIN stack'[v],
               stack'[u][i].task = stack'[v][j].task
        PROVE  u = v /\ i = j
    BY <1>2, <1>6, <1>7, <1>8, <2>1, <2>3 DEF IndInv, RunsOnce
  <2>4. \A x : ~TaskDone(x) => ~TaskDone(x)'
    BY <1>5
  <2> QED
    BY <2>2, <2>3, <2>4 DEF RunsOnce
<1> QED
  BY <1>11, <1>12, <1>13, <1>14, <1>15, <1>16, <1>17 DEF IndInv

(* A thread takes the oldest ready task and puts it on top of its stack.    *)
LEMMA TakesWork ==
  ASSUME IndInv, NEW t \in Threads, TryWork(t)
  PROVE  IndInv'
<1> DEFINE n == Len(stack[t])
<1>1. PICK p \in DOMAIN status :
        /\ status[p] = "ready"
        /\ Pool!Pop(p)
        /\ stack' = [stack EXCEPT ![t] = Append(@, Activation(log[p], p))]
  BY DEF TryWork, Available
<1> DEFINE new == Activation(log[p], p)
<1>2. /\ accepted' = accepted /\ log' = log /\ Tickets' = Tickets
      /\ inlined' = inlined /\ shutdown' = shutdown /\ TypeOK
      /\ pc' = [pc EXCEPT ![t] = "start"] /\ pc[t] \in {"go", "seek"}
      /\ status' = [status EXCEPT ![p] = "popped"]
      /\ p \in Tickets /\ p \in Nat /\ log[p] \in Tasks
  <2>1. TypeOK /\ DOMAIN status = Tickets /\ pc[t] \in {"go", "seek"}
    BY DEF TryWork, Idle, IndInv, TypeOK
  <2>2. /\ accepted' = accepted /\ log' = log /\ status' = [status EXCEPT ![p] = "popped"]
        /\ inlined' = inlined /\ shutdown' = shutdown /\ pc' = [pc EXCEPT ![t] = "start"]
    BY <1>1 DEF TryWork, Goto, Pool!Pop
  <2>3. p \in Tickets /\ p \in Nat /\ log[p] \in Tasks
    BY <2>1 DEF TypeOK, Tickets
  <2> QED
    BY <2>1, <2>2, <2>3 DEF Tickets
<1>3. /\ new \in Activations /\ new.task = log[p] /\ new.ticket = p /\ new.step = 1
  BY <1>2 DEF Activation, Activations, Parents
<1>4. /\ n \in Nat /\ DOMAIN stack[t] = 1 .. n /\ stack[t] \in Seq(Activations)
  BY <1>2, StackTypes
<1>5. p # NoTicket
  BY <1>2, SchedulerAssumption
<1>6. stack' = [stack EXCEPT ![t] = Append(stack[t], new)]
  BY <1>1
<1> HIDE DEF new
<1>7. /\ stack'[t] = Append(stack[t], new)
      /\ \A u \in Threads : u # t => stack'[u] = stack[u]
      /\ stack' \in [Threads -> Seq(Activations)]
  BY <1>2, <1>3, <1>4, <1>6 DEF TypeOK
<1>8. /\ Len(stack'[t]) = n + 1 /\ DOMAIN stack'[t] = 1 .. n + 1
      /\ stack'[t][n + 1] = new /\ n + 1 \in DOMAIN stack'[t] /\ stack'[t] # <<>>
      /\ \A i \in 1 .. n : stack'[t][i] = stack[t][i] /\ i \in 1 .. n + 1
      /\ \A i \in 1 .. n + 1 : i \in 1 .. n \/ i = n + 1
  BY <1>3, <1>4, <1>7
<1>9. \A u \in Threads : \A i \in DOMAIN stack[u] : i \in DOMAIN stack'[u] /\ stack'[u][i] = stack[u][i]
  BY <1>4, <1>7, <1>8
<1>10. \A u \in Threads : \A i \in DOMAIN stack'[u] : i \in DOMAIN stack[u] \/ (u = t /\ i = n + 1)
  <2>1. \A i \in DOMAIN stack'[t] : i \in DOMAIN stack[t] \/ i = n + 1
    BY <1>4, <1>8
  <2>2. \A u \in Threads : u # t => DOMAIN stack'[u] = DOMAIN stack[u]
    BY <1>7
  <2> QED
    BY <2>1, <2>2
<1>11. \A q \in Tickets : /\ status'[q] = "finished" <=> status[q] = "finished"
                          /\ q # p => status'[q] = status[q]
  BY <1>1, <1>2 DEF TypeOK
<1>12. status'[p] = "popped"
  BY <1>2 DEF TypeOK
<1>13. TypeOK'
  <2>1. status' \in [Tickets -> Pool!Statuses]
    BY <1>2 DEF TypeOK, Pool!Statuses
  <2>2. pc' \in [Threads -> Points]
    BY <1>2 DEF TypeOK, Points
  <2> QED
    BY <1>2, <1>7, <2>1, <2>2 DEF TypeOK
<1>14. \A x : TaskDone(x)' <=> TaskDone(x)
  BY <1>2, <1>11, <1>13, DoneTickets DEF TaskDone, TypeOK
<1>15. \A u \in Threads : \A i \in DOMAIN stack[u] : stack[u][i].task # log[p]
  <2> SUFFICES ASSUME NEW u \in Threads, NEW i \in DOMAIN stack[u], stack[u][i].task = log[p]
               PROVE  FALSE
    OBVIOUS
  <2>1. Ticketed(stack[u][i])
    BY DEF IndInv, StackInv
  <2>2. stack[u][i].ticket \in Tickets /\ stack[u][i].ticket = p /\ status[p] \in {"popped", "running"}
    BY <1>2, <2>1 DEF Ticketed, IndInv, LogInv
  <2> QED
    BY <1>1, <2>2
<1>16. ~TaskDone(log[p])
  BY <1>1, <1>2, DoneTickets DEF IndInv, LogInv
<1>17. \A x : Known(x)' => Known(x)
  <2> SUFFICES ASSUME NEW x, Known(x)' PROVE Known(x)
    OBVIOUS
  <2>1. CASE x \in inlined \/ \E q \in Tickets : log[q] = x
    BY <2>1 DEF Known
  <2>2. ASSUME NEW u \in Threads, NEW i \in DOMAIN stack'[u], stack'[u][i].task = x
        PROVE  Known(x)
    <3>1. CASE i \in DOMAIN stack[u]
      BY <1>9, <2>2, <3>1 DEF Known
    <3>2. CASE u = t /\ i = n + 1
      BY <1>2, <1>3, <1>8, <2>2, <3>2 DEF Known
    <3> QED
      BY <1>10, <3>1, <3>2
  <2> QED
    BY <1>2, <2>1, <2>2 DEF Known
<1>18. LogInv'
  BY <1>2 DEF IndInv, LogInv
<1>19. StackInv'
  <2> SUFFICES ASSUME NEW u \in Threads, NEW i \in DOMAIN stack'[u], NEW act, act = stack'[u][i]
               PROVE  Ticketed(act)' /\ JoinedDone(act)'
    BY DEF StackInv
  <2>1. JoinedDone(act)' <=> \A k \in DOMAIN Kids[act.task] :
                               k + Len(Kids[act.task]) < act.step => TaskDone(Kids[act.task][k])
    BY <1>14 DEF JoinedDone
  <2>2. CASE i \in DOMAIN stack[u]
    <3>1. Ticketed(stack[u][i]) /\ JoinedDone(stack[u][i]) /\ act = stack[u][i]
      BY <1>9, <2>2 DEF IndInv, StackInv
    <3>2. Ticketed(act)'
      BY <1>1, <1>2, <1>11, <3>1 DEF Ticketed
    <3> QED
      BY <2>1, <3>1, <3>2 DEF JoinedDone
  <2>3. CASE u = t /\ i = n + 1
    <3>1. act = new
      BY <1>8, <2>3
    <3>2. Ticketed(act)'
      BY <1>2, <1>3, <1>5, <1>12, <3>1 DEF Ticketed
    <3>3. \A k \in DOMAIN Kids[act.task] : ~(k + Len(Kids[act.task]) < act.step)
      BY <1>2, <1>3, <3>1, KidTypes DEF Parents
    <3> QED
      BY <2>1, <3>2, <3>3
  <2> QED
    BY <1>10, <2>2, <2>3
<1>20. PointInv'
  <2> SUFFICES ASSUME NEW u \in Threads
               PROVE  /\ Creating(u)' => stack'[u] # <<>> /\ (Top(u).step <= Len(Kids[Top(u).task]))'
                      /\ pc'[u] = "start" => stack'[u] # <<>> /\ Top(u)'.ticket # NoTicket
    BY DEF PointInv
  <2>1. CASE u = t
    <3>1. ~Creating(t)'
      BY <1>2 DEF Creating, TypeOK
    <3>2. Top(t)'.ticket # NoTicket
      BY <1>3, <1>5, <1>8 DEF Top, Last
    <3> QED
      BY <1>8, <2>1, <3>1, <3>2
  <2>2. CASE u # t
    BY <1>2, <1>7, <2>2 DEF IndInv, PointInv, Top, Creating, TypeOK
  <2> QED
    BY <2>1, <2>2
<1>21. ForkInv'
  <2>1. ASSUME NEW a \in Parents, NEW k \in DOMAIN Kids[a], NEW u \in Threads, NEW i \in DOMAIN stack[u],
               ForkedBy(a, k, u, i)
        PROVE  ForkedBy(a, k, u, i)'
    <3>1. CASE k < stack[u][i].step
      BY <1>9, <2>1, <3>1 DEF ForkedBy
    <3>2. CASE k = stack[u][i].step /\ i = Len(stack[u]) /\ Creating(u)
      <4>1. u # t
        BY <1>2, <3>2 DEF Creating
      <4> QED
        BY <1>2, <1>7, <2>1, <3>2, <4>1 DEF ForkedBy, Creating, TypeOK
    <3> QED
      BY <2>1, <3>1, <3>2 DEF ForkedBy
  <2> QED
    BY <1>9, <1>14, <1>17, <2>1 DEF IndInv, ForkInv
<1>22. Structured'
  BY <1>14 DEF IndInv, Structured
<1>23. RunsOnce'
  <2>1. ASSUME NEW u \in Threads, NEW i \in DOMAIN stack'[u]
        PROVE  ~TaskDone(stack'[u][i].task)
    BY <1>3, <1>8, <1>9, <1>10, <1>16 DEF IndInv, RunsOnce
  <2>2. ASSUME NEW u \in Threads, NEW v \in Threads, NEW i \in DOMAIN stack'[u], NEW j \in DOMAIN stack'[v],
               stack'[u][i].task = stack'[v][j].task
        PROVE  u = v /\ i = j
    BY <1>3, <1>8, <1>9, <1>10, <1>15, <2>2 DEF IndInv, RunsOnce
  <2>3. \A x : ~TaskDone(x) => ~TaskDone(x)'
    BY <1>14
  <2> QED
    BY <2>1, <2>2, <2>3 DEF RunsOnce
<1> QED
  BY <1>13, <1>18, <1>19, <1>20, <1>21, <1>22, <1>23 DEF IndInv

(* A task returns: its children are done, and so is it.                     *)
LEMMA Returns ==
  ASSUME IndInv, NEW t \in Threads, Return(t)
  PROVE  IndInv'
<1> DEFINE n == Len(stack[t])
           top == stack[t][n]
           done == top.task
<1>0. /\ TypeOK /\ stack[t] # <<>> /\ pc[t] = "go" /\ pc' = pc /\ shutdown' = shutdown
      /\ n \in Nat /\ n \in 1 .. n /\ DOMAIN stack[t] = 1 .. n /\ n \in DOMAIN stack[t]
      /\ Top(t) = top /\ done \in Parents /\ stack[t] \in Seq(Activations)
  BY StackTypes DEF Return, Returning, Busy, IndInv
<1>1. Ticketed(top) /\ JoinedDone(top) /\ ~TaskDone(done)
  BY <1>0 DEF IndInv, StackInv, RunsOnce
<1>2. \A k \in DOMAIN Kids[done] : TaskDone(Kids[done][k])
  <2> SUFFICES ASSUME NEW k \in DOMAIN Kids[done] PROVE TaskDone(Kids[done][k])
    OBVIOUS
  <2>1. top.step > 2 * Len(Kids[done]) /\ top.step \in Nat
    BY <1>0, StackTypes DEF Return, Returning
  <2>2. k \in Nat /\ Len(Kids[done]) \in Nat /\ k <= Len(Kids[done])
    BY <1>0, KidTypes
  <2>3. k + Len(Kids[done]) < top.step
    BY <2>1, <2>2
  <2> QED
    BY <1>1, <2>3 DEF JoinedDone
<1>3. /\ stack'[t] = Front(stack[t])
      /\ \A u \in Threads : u # t => stack'[u] = stack[u]
  BY <1>0 DEF Return, TypeOK
<1>4. /\ stack'[t] \in Seq(Activations) /\ Len(stack'[t]) = n - 1 /\ DOMAIN stack'[t] = 1 .. n - 1
      /\ \A i \in 1 .. n - 1 : stack'[t][i] = stack[t][i] /\ i \in 1 .. n /\ i # n
      /\ \A i \in 1 .. n : i = n \/ i \in 1 .. n - 1
  BY <1>0, <1>3 DEF Front
<1>5. \A u \in Threads : \A i \in DOMAIN stack'[u] :
        /\ i \in DOMAIN stack[u] /\ stack'[u][i] = stack[u][i]
        /\ ~(u = t /\ i = n)
  BY <1>0, <1>3, <1>4
<1>6. \A u \in Threads : \A i \in DOMAIN stack[u] : (u = t /\ i = n) \/ i \in DOMAIN stack'[u]
  BY <1>0, <1>3, <1>4
<1>7. /\ accepted' = accepted /\ log' = log /\ Tickets' = Tickets
      /\ status' \in [Tickets -> Pool!Statuses]
      /\ inlined' \in SUBSET Parents
  <2>1. CASE top.ticket = NoTicket
    BY <1>0, <2>1 DEF Return, poolVars, Tickets, TypeOK
  <2>2. CASE top.ticket # NoTicket
    BY <1>0, <2>2 DEF Return, Pool!Finish, Tickets, TypeOK, Pool!Statuses
  <2> QED
    BY <2>1, <2>2
<1>8. TypeOK'
  <2>1. stack' \in [Threads -> Seq(Activations)]
    BY <1>0, <1>4 DEF Return, TypeOK
  <2> QED
    BY <1>0, <1>7, <2>1 DEF TypeOK
(* Nothing else changes for the other tasks.                                *)
<1>9. /\ \A x : TaskDone(x)' <=> TaskDone(x) \/ x = done
      /\ \A q \in Tickets : log[q] # done => status'[q] = status[q]
      /\ \A x \in inlined' : x \in inlined \/ (x = done /\ \A q \in Tickets : log[q] # done)
      /\ \A x \in inlined : x \in inlined'
  <2>1. CASE top.ticket = NoTicket
    <3>1. inlined' = inlined \cup {done} /\ status' = status
      BY <1>0, <2>1 DEF Return, poolVars
    <3>2. \A q \in Tickets : log[q] # done
      BY <1>1, <2>1 DEF Ticketed
    <3> QED
      BY <1>7, <3>1, <3>2 DEF TaskDone
  <2>2. CASE top.ticket # NoTicket
    <3>1. inlined' = inlined /\ status' = [status EXCEPT ![top.ticket] = "finished"]
      BY <1>0, <2>2 DEF Return, Pool!Finish
    <3>2. top.ticket \in Tickets /\ log[top.ticket] = done
      BY <1>1, <2>2 DEF Ticketed
    <3>3. \A q \in Tickets : /\ log[q] = done => q = top.ticket
                             /\ status'[q] = IF q = top.ticket THEN "finished" ELSE status[q]
      BY <1>0, <3>1, <3>2 DEF IndInv, LogInv, TypeOK
    <3>4. DOMAIN log = Tickets
      BY <1>0 DEF TypeOK
    <3>5. \A x : TaskDone(x)' <=> TaskDone(x) \/ x = done
      BY <1>7, <3>1, <3>2, <3>3, <3>4 DEF TaskDone
    <3> QED
      BY <3>1, <3>2, <3>3, <3>5
  <2> QED
    BY <2>1, <2>2
<1>10. \A u \in Threads : \A i \in DOMAIN stack'[u] : stack'[u][i].task # done
  BY <1>0, <1>5 DEF IndInv, RunsOnce
<1> HIDE DEF top, done
<1>11. LogInv'
  BY <1>7, <1>9 DEF IndInv, LogInv
<1>12. StackInv'
  <2> SUFFICES ASSUME NEW u \in Threads, NEW i \in DOMAIN stack'[u], NEW act, act = stack'[u][i]
               PROVE  Ticketed(act)' /\ JoinedDone(act)'
    BY DEF StackInv
  <2>1. Ticketed(act) /\ JoinedDone(act) /\ act.task # done
    BY <1>5, <1>10 DEF IndInv, StackInv
  <2>2. Ticketed(act)'
    BY <1>7, <1>9, <2>1 DEF Ticketed
  <2>3. JoinedDone(act)'
    BY <1>9, <2>1 DEF JoinedDone
  <2> QED
    BY <2>2, <2>3
<1>13. PointInv'
  <2> SUFFICES ASSUME NEW u \in Threads
               PROVE  /\ Creating(u)' => stack'[u] # <<>> /\ (Top(u).step <= Len(Kids[Top(u).task]))'
                      /\ pc'[u] = "start" => stack'[u] # <<>> /\ Top(u)'.ticket # NoTicket
    BY DEF PointInv
  <2>1. CASE u = t
    BY <1>0, <2>1 DEF Creating
  <2>2. CASE u # t
    BY <1>0, <1>3, <2>2 DEF IndInv, PointInv, Top, Creating
  <2> QED
    BY <2>1, <2>2
<1>14. ForkInv'
  <2>1. \A x : Known(x)' => Known(x) \/ x = done
    BY <1>5, <1>7, <1>9 DEF Known
  <2>2. Known(done)
    BY <1>0 DEF Known, done, top
  <2>3. ASSUME NEW a \in Parents, NEW k \in DOMAIN Kids[a], NEW u \in Threads, NEW i \in DOMAIN stack[u],
               ForkedBy(a, k, u, i)
        PROVE  a = done \/ (i \in DOMAIN stack'[u] /\ ForkedBy(a, k, u, i)')
    <3>1. CASE u = t /\ i = n
      BY <2>3, <3>1 DEF ForkedBy, done, top
    <3>2. CASE ~(u = t /\ i = n)
      <4>1. i \in DOMAIN stack'[u] /\ stack'[u][i] = stack[u][i]
        BY <1>5, <1>6, <3>2
      <4>2. CASE k < stack[u][i].step
        BY <2>3, <4>1, <4>2 DEF ForkedBy
      <4>3. CASE k = stack[u][i].step /\ i = Len(stack[u]) /\ Creating(u)
        <5>1. u # t
          BY <1>0, <4>3 DEF Creating
        <5> QED
          BY <1>0, <1>3, <2>3, <4>3, <5>1 DEF ForkedBy, Creating
      <4> QED
        BY <2>3, <4>2, <4>3 DEF ForkedBy
    <3> QED
      BY <3>1, <3>2
  <2> SUFFICES ASSUME NEW a \in Parents, NEW k \in DOMAIN Kids[a], Known(Kids[a][k])'
               PROVE  TaskDone(a)' \/ \E u \in Threads : \E i \in DOMAIN stack'[u] : ForkedBy(a, k, u, i)'
    BY DEF ForkInv
  <2>4. TaskDone(a) \/ \E u \in Threads : \E i \in DOMAIN stack[u] : ForkedBy(a, k, u, i)
    BY <2>1, <2>2 DEF IndInv, ForkInv
  <2> QED
    BY <1>9, <2>3, <2>4
<1>15. Structured'
  BY <1>2, <1>9 DEF IndInv, Structured, Parents, done, top
<1>16. RunsOnce'
  <2>1. ASSUME NEW u \in Threads, NEW i \in DOMAIN stack'[u], NEW x, x = stack'[u][i].task
        PROVE  ~TaskDone(x)'
    BY <1>5, <1>9, <1>10, <2>1 DEF IndInv, RunsOnce
  <2>2. ASSUME NEW u \in Threads, NEW v \in Threads, NEW i \in DOMAIN stack'[u], NEW j \in DOMAIN stack'[v],
               stack'[u][i].task = stack'[v][j].task
        PROVE  u = v /\ i = j
    BY <1>5, <2>2 DEF IndInv, RunsOnce
  <2> QED
    BY <2>1, <2>2 DEF RunsOnce
<1> QED
  BY <1>8, <1>11, <1>12, <1>13, <1>14, <1>15, <1>16 DEF IndInv

(* Only the evaluation of Root is there at the beginning.                   *)
LEMMA InitInv == Init => IndInv
<1> SUFFICES ASSUME Init PROVE IndInv
  OBVIOUS
<1>1. /\ accepted = 0 /\ log = [p \in {} |-> 0] /\ status = [p \in {} |-> "ready"]
      /\ pc = [t \in Threads |-> "go"] /\ inlined = {} /\ shutdown = FALSE
      /\ stack = [t \in Threads |-> IF t = Master THEN <<Activation(Root, NoTicket)>> ELSE <<>>]
  BY DEF Init, Pool!Init
<1>2. Tickets = {}
  BY <1>1 DEF Tickets
<1>3. /\ Activation(Root, NoTicket) \in Activations
      /\ Activation(Root, NoTicket).task = Root
      /\ Activation(Root, NoTicket).ticket = NoTicket
      /\ Activation(Root, NoTicket).step = 1
  BY DEF Activation, Activations, Parents
<1>4. \A t \in Threads : \A i \in DOMAIN stack[t] :
        /\ t = Master /\ i = 1
        /\ stack[t][i] = Activation(Root, NoTicket)
  BY <1>1
<1>5. TypeOK
  <2>1. stack \in [Threads -> Seq(Activations)]
    BY <1>1, <1>3
  <2> QED
    BY <1>1, <1>2, <2>1 DEF TypeOK, Points
<1>6. \A x : ~TaskDone(x)
  BY <1>1 DEF TaskDone
<1>7. StackInv
  <2> SUFFICES ASSUME NEW t \in Threads, NEW i \in DOMAIN stack[t]
               PROVE  Ticketed(stack[t][i]) /\ JoinedDone(stack[t][i])
    BY DEF StackInv
  <2>1. stack[t][i].ticket = NoTicket /\ stack[t][i].step = 1 /\ stack[t][i].task = Root
    BY <1>3, <1>4
  <2>2. Ticketed(stack[t][i])
    BY <1>2, <2>1 DEF Ticketed
  <2>3. \A k \in DOMAIN Kids[Root] : ~(k + Len(Kids[Root]) < 1)
    BY KidTypes DEF Parents
  <2>4. JoinedDone(stack[t][i])
    BY <2>1, <2>3 DEF JoinedDone
  <2> QED
    BY <2>2, <2>4
<1>8. LogInv /\ PointInv
  BY <1>1, <1>2 DEF LogInv, PointInv, Creating
<1>9. ForkInv
  <2>1. \A x : Known(x) => x = Root
    BY <1>1, <1>2, <1>3, <1>4 DEF Known
  <2>2. \A p \in Parents : \A k \in DOMAIN Kids[p] : Kids[p][k] # Root
    BY KidTypes, SchedulerAssumption
  <2> QED
    BY <2>1, <2>2 DEF ForkInv
<1>10. Structured /\ RunsOnce
  BY <1>4, <1>6 DEF Structured, RunsOnce
<1> QED
  BY <1>5, <1>7, <1>8, <1>9, <1>10 DEF IndInv

(* A thread that goes to another point, and wakes one or all who sleep.     *)
LEMMA Moves ==
  ASSUME IndInv, NEW t \in Threads,
         \/ JoinLook(t) \/ JoinYield(t) \/ FindNothing(t) \/ LockAndLook(t) \/ Wait(t) \/ WakeUp(t) \/ SpuriousWake(t)
         \/ Shutdown \/ FreeReturns
  PROVE  IndInv'
<1>1. pc \in [Threads -> Points] /\ Master \in Threads /\ shutdown \in BOOLEAN
  BY DEF IndInv, TypeOK, Threads
<1>2. ASSUME NEW u \in Threads, NEW point \in Points \ {"publish", "signal", "start"},
             Goto(u, point), ~Creating(u),
             UNCHANGED <<poolVars, stack, inlined, shutdown>>
      PROVE  IndInv'
  <2>1. pc' \in [Threads -> Points] /\ pc'[u] = point /\ \A w \in Threads : w # u => pc'[w] = pc[w]
    BY <1>1, <1>2 DEF Goto
  <2>2. \A w \in Threads : /\ Creating(w)' <=> Creating(w)
                           /\ pc'[w] = "start" => pc[w] = "start"
    BY <1>2, <2>1 DEF Creating
  <2>3. shutdown' \in BOOLEAN
    BY <1>1, <1>2
  <2> QED
    BY <1>2, <2>1, <2>2, <2>3, Quiet
<1>3. CASE FindNothing(t)
  BY <1>2, <1>3 DEF FindNothing, Idle, Creating, Points
<1>4. CASE LockAndLook(t)
  BY <1>2, <1>4 DEF LockAndLook, Creating, Points
<1>5. CASE Wait(t)
  BY <1>2, <1>5 DEF Wait, Creating, Points
<1>6. CASE WakeUp(t)
  BY <1>2, <1>6 DEF WakeUp, Creating, Points
<1>7. CASE SpuriousWake(t)
  BY <1>2, <1>7 DEF SpuriousWake, Creating, Points
<1>8. CASE FreeReturns
  BY <1>1, <1>2, <1>8 DEF FreeReturns, Creating, Points
<1>9. CASE Shutdown
  <2>1. /\ pc' = [u \in Threads |-> IF u = Master THEN "joining"
                                    ELSE IF pc[u] = "asleep" THEN "woken" ELSE pc[u]]
        /\ pc[Master] = "go" /\ shutdown' = TRUE /\ UNCHANGED <<poolVars, stack, inlined>>
    BY <1>9 DEF Shutdown
  <2>2. pc' \in [Threads -> Points]
    BY <1>1, <2>1 DEF Points
  <2>3. \A u \in Threads : /\ Creating(u)' <=> Creating(u)
                           /\ pc'[u] = "start" => pc[u] = "start"
    BY <1>1, <2>1 DEF Creating
  <2> QED
    BY <2>1, <2>2, <2>3, Quiet
<1>10. CASE JoinLook(t)
  BY <1>2, <1>10 DEF JoinLook, Joining, Busy, Creating, Points
<1>11. CASE JoinYield(t)
  BY <1>2, <1>11 DEF JoinYield, Creating, Points
<1> QED
  BY <1>3, <1>4, <1>5, <1>6, <1>7, <1>8, <1>9, <1>10, <1>11

(* After the signal of a new task its creator goes on behind the fork.      *)
LEMMA Signals ==
  ASSUME IndInv, NEW t \in Threads, Signal(t)
  PROVE  IndInv'
<1>1. /\ TypeOK /\ stack[t] # <<>> /\ pc[t] = "signal"
      /\ Top(t).step <= Len(Kids[Top(t).task]) /\ Top(t).step \in Nat /\ Top(t).task \in Parents
  BY StackTypes DEF Signal, IndInv, PointInv, Creating
<1>2. /\ pc' \in [Threads -> Points]
      /\ \A u \in Threads : /\ Creating(u)' <=> (Creating(u) /\ u # t)
                            /\ pc'[u] = "start" => pc[u] = "start"
  <2>1. pc \in [Threads -> Points]
    BY <1>1 DEF TypeOK
  <2>2. CASE Goto(t, "go")
    BY <1>1, <2>1, <2>2 DEF Goto, Points, Creating
  <2>3. CASE \E w \in Asleep : pc' = [pc EXCEPT ![t] = "go", ![w] = "woken"]
    <3>1. PICK w \in Asleep : pc' = [pc EXCEPT ![t] = "go", ![w] = "woken"]
      BY <2>3
    <3>2. w \in Threads /\ pc[w] = "asleep" /\ w # t
      BY <1>1 DEF Asleep, Threads
    <3> QED
      BY <1>1, <2>1, <3>1, <3>2 DEF Points, Creating
  <2> QED
    BY <2>2, <2>3 DEF Signal
<1>3. \A k \in DOMAIN Kids[Top(t).task] : ~(k + Len(Kids[Top(t).task]) < Top(t).step + 1)
  BY <1>1, KidTypes
<1>4. /\ stack' = [stack EXCEPT ![t] = Advance(t)]
      /\ UNCHANGED <<poolVars, inlined>> /\ shutdown' \in BOOLEAN
  BY <1>1 DEF Signal, TypeOK
<1> QED
  BY <1>1, <1>2, <1>3, <1>4, Advancing

(* A join returns when its task is done.                                    *)
LEMMA Joins ==
  ASSUME IndInv, NEW t \in Threads, Join(t)
  PROVE  IndInv'
<1>1. /\ TypeOK /\ stack[t] # <<>> /\ pc[t] = "go" /\ pc' = pc
      /\ Top(t).step \in Nat /\ Top(t).task \in Parents /\ Top(t) = stack[t][Len(stack[t])]
      /\ Len(stack[t]) \in DOMAIN stack[t] /\ TaskDone(JoinedKid(t))
  BY StackTypes DEF Join, Joining, Busy, IndInv
<1>2. ASSUME NEW k \in DOMAIN Kids[Top(t).task], k + Len(Kids[Top(t).task]) < Top(t).step + 1
      PROVE  TaskDone(Kids[Top(t).task][k])
  <2>1. k \in Nat /\ Len(Kids[Top(t).task]) \in Nat
    BY <1>1, KidTypes
  <2>2. CASE k + Len(Kids[Top(t).task]) < Top(t).step
    BY <1>1, <2>2 DEF IndInv, StackInv, JoinedDone
  <2>3. CASE k = Top(t).step - Len(Kids[Top(t).task])
    BY <1>1, <2>3 DEF JoinedKid
  <2> QED
    BY <1>1, <1>2, <2>1, <2>2, <2>3
<1>3. /\ stack' = [stack EXCEPT ![t] = Advance(t)]
      /\ UNCHANGED <<poolVars, inlined>> /\ shutdown' \in BOOLEAN
      /\ pc' \in [Threads -> Points]
      /\ \A u \in Threads : /\ Creating(u)' <=> (Creating(u) /\ u # t)
                            /\ pc'[u] = "start" => pc[u] = "start"
  BY <1>1 DEF Join, TypeOK, Creating
<1> QED
  BY <1>1, <1>2, <1>3, Advancing

(* A claimed ticket is published, a popped one is started.                  *)
LEMMA Published ==
  ASSUME IndInv, NEW t \in Threads, Publish(t) \/ Start(t)
  PROVE  IndInv'
<1>1. pc \in [Threads -> Points] /\ shutdown \in BOOLEAN
  BY DEF IndInv, TypeOK
<1>2. CASE Publish(t)
  <2>1. PICK p \in DOMAIN log : Pool!Publish(p)
    BY <1>2 DEF Publish
  <2>2. /\ status[p] = "claimed" /\ status' = [status EXCEPT ![p] = "ready"]
        /\ UNCHANGED <<accepted, log, stack, inlined>> /\ shutdown' \in BOOLEAN
    BY <1>1, <1>2, <2>1 DEF Publish, Pool!Publish
  <2>3. /\ pc' \in [Threads -> Points]
        /\ \A u \in Threads : /\ Creating(u)' <=> Creating(u)
                              /\ pc'[u] = "start" => pc[u] = "start"
    BY <1>1, <1>2 DEF Publish, Goto, Points, Creating
  <2> QED
    BY <2>2, <2>3, StatusStep DEF Pool!Statuses
<1>3. CASE Start(t)
  <2> DEFINE p == Top(t).ticket
  <2>1. /\ status[p] = "popped" /\ status' = [status EXCEPT ![p] = "running"]
        /\ UNCHANGED <<accepted, log, stack, inlined>> /\ shutdown' \in BOOLEAN
    BY <1>1, <1>3 DEF Start, Pool!Start
  <2>2. /\ pc' \in [Threads -> Points]
        /\ \A u \in Threads : /\ Creating(u)' <=> Creating(u)
                              /\ pc'[u] = "start" => pc[u] = "start"
    BY <1>1, <1>3 DEF Start, Goto, Points, Creating
  <2> HIDE DEF p
  <2> QED
    BY <2>1, <2>2, StatusStep DEF Pool!Statuses
<1> QED
  BY <1>2, <1>3

-----------------------------------------------------------------------------
(* The inductive invariant of fork and join holds for every tree of calls,  *)
(* any number of workers and any size of the ring (task.c, future.c).       *)
THEOREM Invariance == Spec => []IndInv
<1>1. IndInv /\ [Next]_vars => IndInv'
  <2> SUFFICES ASSUME IndInv, [Next]_vars PROVE IndInv'
    OBVIOUS
  <2>1. ASSUME NEW t \in Threads, Step(t) PROVE IndInv'
    BY <2>1, Creates, Published, Signals, CallsInline, TakesWork, Joins, Returns, Moves DEF Step
  <2>2. ASSUME NEW t \in Threads, SpuriousWake(t) PROVE IndInv'
    BY <2>2, Moves
  <2>3. Master \in Threads
    BY DEF Threads
  <2>4. CASE Shutdown \/ FreeReturns
    BY <2>3, <2>4, Moves
  <2>5. CASE UNCHANGED vars
    <3>1. /\ UNCHANGED <<poolVars, stack, inlined>> /\ pc' = pc /\ shutdown' = shutdown
      BY <2>5 DEF vars
    <3> QED
      BY <3>1, Quiet DEF IndInv, TypeOK, Creating
  <2> QED
    BY <2>1, <2>2, <2>4, <2>5 DEF Next
<1> QED
  BY <1>1, InitInv, PTL DEF Spec

(* A task returns only when all of its children have, whichever threads ran *)
(* them and whatever those executed while they waited (task.c:204).         *)
THEOREM JoinsAreStructured == Spec => []Structured
<1>1. IndInv => Structured
  BY DEF IndInv
<1> QED
  BY <1>1, Invariance, PTL

(* No task is evaluated twice or on two threads (task.c:67, future.c).      *)
THEOREM TasksRunOnce == Spec => []RunsOnce
<1>1. IndInv => RunsOnce
  BY DEF IndInv
<1> QED
  BY <1>1, Invariance, PTL

(* What the scheduler does with the queue is what TaskPool allows: a ticket *)
(* is published, popped, started and finished once each and in this order,  *)
(* the popped ones in the order of their claims.                            *)
THEOREM UsesPool == Spec => Pool!Spec
<1>1. Init => Pool!Init
  BY DEF Init
<1>2. IndInv /\ [Next]_vars => [Pool!Next]_poolVars
  <2> SUFFICES ASSUME IndInv, [Next]_vars PROVE Pool!Next \/ UNCHANGED poolVars
    BY DEF poolVars
  <2>1. TypeOK /\ DOMAIN status = Tickets /\ DOMAIN log = Tickets
    BY DEF IndInv, TypeOK
  <2>2. ASSUME NEW t \in Threads, Step(t) PROVE Pool!Next \/ UNCHANGED poolVars
    <3>1. CASE Create(t)
      BY <3>1, NewKid DEF Create, Pool!Next
    <3>2. CASE Publish(t)
      BY <2>1, <3>2 DEF Publish, Pool!Next
    <3>3. CASE TryWork(t)
      BY <3>3 DEF TryWork, Pool!Next
    <3>4. CASE Start(t)
      <4>1. stack[t] # <<>> /\ Top(t).ticket # NoTicket
        BY <3>4 DEF Start, IndInv, PointInv
      <4>2. Ticketed(Top(t))
        BY <2>1, <4>1, StackTypes DEF IndInv, StackInv
      <4>3. Top(t).ticket \in DOMAIN status /\ Pool!Start(Top(t).ticket)
        BY <2>1, <3>4, <4>1, <4>2 DEF Start, Ticketed
      <4> QED
        BY <4>3 DEF Pool!Next
    <3>5. CASE Return(t)
      <4>1. stack[t] # <<>>
        BY <3>5 DEF Return, Returning, Busy
      <4>2. Ticketed(Top(t))
        BY <2>1, <4>1, StackTypes DEF IndInv, StackInv
      <4>3. CASE Top(t).ticket = NoTicket
        BY <3>5, <4>3 DEF Return
      <4>4. CASE Top(t).ticket # NoTicket
        <5>1. Top(t).ticket \in DOMAIN status /\ Pool!Finish(Top(t).ticket)
          BY <2>1, <3>5, <4>2, <4>4 DEF Return, Ticketed
        <5> QED
          BY <5>1 DEF Pool!Next
      <4> QED
        BY <4>3, <4>4
    <3>6. CASE \/ Signal(t) \/ CallInline(t) \/ JoinLook(t) \/ JoinYield(t) \/ Join(t)
               \/ FindNothing(t) \/ LockAndLook(t) \/ Wait(t) \/ WakeUp(t)
      BY <3>6 DEF Signal, CallInline, JoinLook, JoinYield, Join, FindNothing, LockAndLook, Wait, WakeUp
    <3> QED
      BY <2>2, <3>1, <3>2, <3>3, <3>4, <3>5, <3>6 DEF Step
  <2>3. CASE \/ \E t \in Threads : SpuriousWake(t)
             \/ Shutdown \/ FreeReturns \/ UNCHANGED vars
    BY <2>3 DEF SpuriousWake, Shutdown, FreeReturns, vars
  <2> QED
    BY <2>2, <2>3 DEF Next
<1>3. [Pool!Next]_poolVars => [Pool!Next]_(Pool!poolVars)
  BY DEF poolVars, Pool!poolVars
<1> QED
  BY <1>1, <1>2, <1>3, Invariance, PTL DEF Spec, Pool!Spec
=============================================================================
