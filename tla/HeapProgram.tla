---------------------------- MODULE HeapProgram ----------------------------
(***************************************************************************)
(* Who holds items while the collector may run: the registers and frames   *)
(* of the evaluator (src/eval.c), the C variables of the natives map and   *)
(* reduce (src/standard.c) and of a join, and futures on their way through *)
(* the queue (src/future.c). Each thread evaluates compiled code, one      *)
(* instruction a step, and stops for a collection where the code has a     *)
(* REDUCT_GC_CHECK. Registers keep what was last written to them, whoever  *)
(* reserves them next.                                                     *)
(*                                                                         *)
(* Code is given by constants; a function's captures are its closure's     *)
(* constants, and function items, which their closures keep, are left out. *)
(***************************************************************************)
EXTENDS ItemHeap

CONSTANTS
  Main,       (* the thread that calls reduct_eval                         *)
  Mains,      (* the programs it may evaluate                              *)
  Code,       (* per function, its instructions                            *)
  Registers,  (* per function, its registerCount                           *)
  NativeMap,  (* the native function map, as a value                       *)
  RegMax,     (* bound: registers of a thread                              *)
  QueueMax    (* REDUCT_TASK_QUEUE_MAX                                     *)

ASSUME ProgramAssumption ==
  /\ Main \in Threads
  /\ Mains \subseteq DOMAIN Code /\ DOMAIN Registers = DOMAIN Code
  /\ RegMax \in Nat /\ QueueMax \in Nat

VARIABLES
  stack,     (* per thread, its frames and the natives, joins and tasks    *)
             (* between them, innermost last                               *)
  regs,      (* per thread, eval.regs up to regCapacity                    *)
  regCount,  (* per thread, eval.regCount                                  *)
  queue,     (* the futures in the task queue                              *)
  stopped    (* the threads that have entered reduct_gc                    *)

vars == <<heapVars, stack, regs, regCount, queue, stopped>>

Top(t) == Last(stack[t])
Is(t, kind) == stack[t] # <<>> /\ t \notin stopped /\ Top(t).kind = kind

(***************************************************************************)
(* A frame: "wrote" has the registers that hold values of this call,       *)
(* "dest" is where an instruction that is not finished puts its result.    *)
(***************************************************************************)
Frame(closure, base, prev, argc) ==
  [kind |-> "code", closure |-> closure, ip |-> 1, base |-> base, prev |-> prev,
   wrote |-> 0 .. argc - 1, dest |-> 0]

FunctionOf(closure) == type[closure]
Inst(t) == Code[FunctionOf(Top(t).closure)][Top(t).ip]
At(t, op) == Is(t, "code") /\ Inst(t).op = op
Reg(t, r) == regs[t][Top(t).base + r]
Args(t) == [n \in 1 .. Inst(t).n |-> Reg(t, Inst(t).a + n - 1)]

(* The frame on top has written its register r, or waits for it to be       *)
(* written by a callee that may use the registers above.                    *)
Written(t, r) == [stack[t] EXCEPT ![Len(stack[t])].ip = @ + 1, ![Len(stack[t])].wrote = @ \cup {r}]
Waiting(t, r) == [stack[t] EXCEPT ![Len(stack[t])].ip = @ + 1, ![Len(stack[t])].dest = r]
Below(t, r) == [Waiting(t, r) EXCEPT ![Len(stack[t])].wrote = {s \in @ : s < r}]

SetReg(t, r, value) == regs' = [regs EXCEPT ![t][Top(t).base + r] = value]
WithArgs(file, base, args) ==
  [r \in DOMAIN file |-> IF r - base + 1 \in DOMAIN args THEN args[r - base + 1] ELSE file[r]]
SetStack(t, entries) == stack' = [stack EXCEPT ![t] = entries]

(* REDUCT_GC_CHECK *)
GcCheck(t) == stopped' = IF requested THEN stopped \cup {t} ELSE stopped

Init ==
  /\ HeapInit
  /\ stack = [t \in Threads |-> <<>>]
  /\ regs = [t \in Threads |-> [r \in 0 .. RegMax - 1 |-> Nil]]
  /\ regCount = [t \in Threads |-> 0]
  /\ queue = <<>>
  /\ stopped = {}

(* reduct_eval makes a closure of the compiled program and pushes a frame.  *)
Eval(main) ==
  /\ block = <<>>
  /\ \E i \in Items :
       /\ NewItem(Main, i, main, <<>>, FALSE)
       /\ SetStack(Main, <<Frame(i, 0, 0, 0)>>)
  /\ regCount' = [regCount EXCEPT ![Main] = Registers[main]]
  /\ UNCHANGED <<regs, queue, stopped>>

-----------------------------------------------------------------------------
(* Instructions. *)
ListInst(t) ==
  /\ At(t, "list")
  /\ \E i \in Items : /\ NewItem(t, i, "list", Args(t), FALSE)
                      /\ SetReg(t, Inst(t).a, i)
  /\ SetStack(t, Written(t, Inst(t).a))
  /\ UNCHANGED <<regCount, queue, stopped>>

(* CLOSURE, with the CAPTUREs that follow it. *)
Closure(t) ==
  /\ At(t, "closure")
  /\ \E i \in Items :
       /\ NewItem(t, i, Inst(t).fn, [c \in DOMAIN Inst(t).captures |-> Reg(t, Inst(t).captures[c])], FALSE)
       /\ SetReg(t, Inst(t).a, i)
  /\ SetStack(t, Written(t, Inst(t).a))
  /\ UNCHANGED <<regCount, queue, stopped>>

(* MOV, of a register or a constant, and a call of the native first.        *)
Move(t) ==
  /\ At(t, "mov")
  /\ SetReg(t, Inst(t).a, Reg(t, Inst(t).c))
  /\ SetStack(t, Written(t, Inst(t).a))
  /\ UNCHANGED <<heapVars, regCount, queue, stopped>>

Const(t) ==
  /\ At(t, "const")
  /\ SetReg(t, Inst(t).a, body[Top(t).closure][Inst(t).k])
  /\ SetStack(t, Written(t, Inst(t).a))
  /\ UNCHANGED <<heapVars, regCount, queue, stopped>>

First(t) ==
  /\ At(t, "first")
  /\ SetReg(t, Inst(t).a, IF body[Reg(t, Inst(t).a)] = <<>> THEN Nil ELSE body[Reg(t, Inst(t).a)][1])
  /\ SetStack(t, Written(t, Inst(t).a))
  /\ GcCheck(t)
  /\ UNCHANGED <<heapVars, regCount, queue>>

(* CALL of a closure: the callee's registers begin at the arguments.        *)
Call(t) ==
  /\ At(t, "call")
  /\ LET closure == Reg(t, Inst(t).c)
         base == Top(t).base + Inst(t).a
     IN  /\ SetStack(t, Append(Below(t, Inst(t).a), Frame(closure, base, regCount[t], Inst(t).n)))
         /\ regCount' = [regCount EXCEPT ![t] = base + Registers[FunctionOf(closure)]]
  /\ UNCHANGED <<heapVars, regs, queue, stopped>>

(* TAILCALL of a closure: the arguments move down, the frame changes hands. *)
TailCall(t) ==
  /\ At(t, "tailcall")
  /\ LET closure == Reg(t, Inst(t).c)
         base == Top(t).base
     IN  /\ SetStack(t, Append(Front(stack[t]), Frame(closure, base, Top(t).prev, Inst(t).n)))
         /\ regs' = [regs EXCEPT ![t] = WithArgs(@, base, Args(t))]
         /\ regCount' = [regCount EXCEPT ![t] = base + Registers[FunctionOf(closure)]]
  /\ UNCHANGED <<heapVars, queue, stopped>>

(* reduct_eval_push_frame for a call from native code: the caller's count   *)
(* has been raised first, so that popping the frame leaves it raised.       *)
(* Mutant: the count goes back to what it was.                              *)
RestoredCount(t, needed) == regCount[t]
RaisedCount(t, needed) == regCount[t] + needed

(* reduct_eval_call of a closure, on top of the given entries.              *)
EvalCall(t, entries, closure, args) ==
  LET target == regCount[t]
      needed == Max({Len(args), Registers[FunctionOf(closure)]})
  IN  /\ target + needed <= RegMax
      /\ SetStack(t, Append(entries, Frame(closure, target, RaisedCount(t, needed), Len(args))))
      /\ regs' = [regs EXCEPT ![t] = WithArgs(@, target, args)]
      /\ regCount' = [regCount EXCEPT ![t] = target + Registers[FunctionOf(closure)]]

-----------------------------------------------------------------------------
(* A value goes to the entry that waits for it, on top of the given         *)
(* entries: an instruction, a native or a task. file is the register file.  *)
ToCode(t, entries, file, value) ==
  LET below == Last(entries)
      r == below.dest
  IN  /\ below.kind = "code"
      /\ regs' = [regs EXCEPT ![t] = [file EXCEPT ![below.base + r] = value]]
      /\ SetStack(t, [entries EXCEPT ![Len(entries)].wrote = @ \cup {r}])
      /\ GcCheck(t)
      /\ UNCHANGED <<type, body, retained>>

(* mapped->handles[i] = ... *)
ToMap(t, entries, file, value) ==
  LET below == Last(entries)
  IN  /\ below.kind = "map"
      /\ body' = [body EXCEPT ![below.mapped][below.i] = value]
      /\ SetStack(t, [entries EXCEPT ![Len(entries)].i = @ + 1])
      /\ regs' = [regs EXCEPT ![t] = file]
      /\ UNCHANGED <<type, retained, stopped>>

(* The result is retained, the accumulator it replaces released.            *)
ToReduce(t, entries, file, value) ==
  LET below == Last(entries)
  IN  /\ below.kind = "reduce"
      /\ RetainAndRelease({value}, {below.acc})
      /\ SetStack(t, [entries EXCEPT ![Len(entries)].i = @ + 1, ![Len(entries)].acc = value])
      /\ regs' = [regs EXCEPT ![t] = file]
      /\ UNCHANGED <<type, body, stopped>>

(* The result of a future, after which it is released: its task ends, or,   *)
(* when the queue refused it, the instruction that forked it.               *)
ToFuture(t, entries, file, value) ==
  LET below == Last(entries)
      under == Front(entries)
  IN  /\ below.kind \in {"task", "fork"}
      /\ body' = [body EXCEPT ![below.future] = Append(@, value)]
      /\ type' = [type EXCEPT ![below.future] = "done"]
      /\ RetainAndRelease({}, {below.future})
      /\ IF below.kind = "task"
         THEN /\ SetStack(t, under)
              /\ regs' = [regs EXCEPT ![t] = file]
         ELSE LET r == Last(under).dest
              IN  /\ SetStack(t, [under EXCEPT ![Len(under)].wrote = @ \cup {r}])
                  /\ regs' = [regs EXCEPT ![t] = [file EXCEPT ![Last(under).base + r] = below.future]]
      /\ UNCHANGED stopped

ToHost(t, entries, file, value) ==
  /\ entries = <<>>
  /\ SetStack(t, <<>>)
  /\ regs' = [regs EXCEPT ![t] = file]
  /\ UNCHANGED <<type, body, retained, stopped>>

Deliver(t, entries, file, value) ==
  /\ IF entries = <<>>
     THEN ToHost(t, entries, file, value)
     ELSE \/ ToCode(t, entries, file, value) \/ ToMap(t, entries, file, value)
          \/ ToReduce(t, entries, file, value) \/ ToFuture(t, entries, file, value)
  /\ UNCHANGED <<block, globalFree, localFree, requested, queue>>

(* RET leaves the value in the first register of the frame it pops.         *)
Ret(t) ==
  /\ At(t, "ret")
  /\ LET value == Reg(t, Inst(t).c)
     IN  Deliver(t, Front(stack[t]), [regs[t] EXCEPT ![Top(t).base] = value], value)
  /\ regCount' = [regCount EXCEPT ![t] = Top(t).prev]

-----------------------------------------------------------------------------
(* Mutant: the list of the results is not retained.                         *)
StartMapLoose(t, entries, list, callable) ==
  /\ \E i \in Items :
       /\ NewItem(t, i, "list", Uninitialized(i, Len(body[list])), FALSE)
       /\ SetStack(t, Append(entries, [kind |-> "map", list |-> list, callable |-> callable,
                                       mapped |-> i, i |-> 1]))
  /\ UNCHANGED <<regs, regCount, queue, stopped>>

(* reduct_map of a short list allocates the list of the results first.      *)
StartMap(t, entries, list, callable) ==
  /\ \E i \in Items :
       /\ NewItem(t, i, "list", Uninitialized(i, Len(body[list])), TRUE)
       /\ SetStack(t, Append(entries, [kind |-> "map", list |-> list, callable |-> callable,
                                       mapped |-> i, i |-> 1]))
  /\ UNCHANGED <<regs, regCount, queue, stopped>>

CallMap(t) ==
  /\ At(t, "map")
  /\ StartMap(t, Waiting(t, Inst(t).a), Reg(t, Inst(t).a), Reg(t, Inst(t).a + 1))

MapNext(t) ==
  /\ Is(t, "map")
  /\ Top(t).i <= Len(body[Top(t).list])
  /\ EvalCall(t, stack[t], Top(t).callable, <<body[Top(t).list][Top(t).i]>>)
  /\ UNCHANGED <<heapVars, queue, stopped>>

(* A native that is done goes back with its value: nothing it still holds   *)
(* is retained from here on, but no collection lies on the way either.      *)
Leave(t, value) == SetStack(t, Append(Front(stack[t]), [kind |-> "return", value |-> value]))

Return(t) ==
  /\ Is(t, "return")
  /\ Deliver(t, Front(stack[t]), regs[t], Top(t).value)
  /\ UNCHANGED regCount

(* Mutant: the list of the results stays retained.                          *)
MapEndKeep(t) ==
  /\ Is(t, "map")
  /\ Top(t).i > Len(body[Top(t).list])
  /\ Leave(t, Top(t).mapped)
  /\ UNCHANGED <<heapVars, regs, regCount, queue, stopped>>

MapEnd(t) ==
  /\ Is(t, "map")
  /\ Top(t).i > Len(body[Top(t).list])
  /\ RetainAndRelease({}, {Top(t).mapped})
  /\ Leave(t, Top(t).mapped)
  /\ UNCHANGED <<block, type, body, globalFree, localFree, requested, regs, regCount, queue, stopped>>

(* reduct_reduce retains its accumulator, and takes the first element for   *)
(* it when there is none.                                                   *)
CallReduce(t) ==
  /\ At(t, "reduce")
  /\ LET a == Inst(t).a
     IN  /\ SetStack(t, Append(Waiting(t, a), [kind |-> "reduce", list |-> Reg(t, a), acc |-> Reg(t, a + 1),
                                               callable |-> IF Inst(t).native THEN NativeMap ELSE Reg(t, a + 2),
                                               i |-> 1]))
         /\ RetainAndRelease({Reg(t, a + 1)}, {})
  /\ UNCHANGED <<block, type, body, globalFree, localFree, requested, regs, regCount, queue, stopped>>

Element(t) == body[Top(t).list][Top(t).i]

ReduceFirst(t) ==
  /\ Is(t, "reduce")
  /\ Top(t).i <= Len(body[Top(t).list]) /\ Top(t).acc = Nil
  /\ RetainAndRelease({Element(t)}, {})
  /\ SetStack(t, [stack[t] EXCEPT ![Len(stack[t])].i = @ + 1, ![Len(stack[t])].acc = Element(t)])
  /\ UNCHANGED <<block, type, body, globalFree, localFree, requested, regs, regCount, queue, stopped>>

ReduceNext(t) ==
  /\ Is(t, "reduce")
  /\ Top(t).i <= Len(body[Top(t).list]) /\ Top(t).acc # Nil
  /\ IF Top(t).callable = NativeMap
     THEN StartMap(t, stack[t], Top(t).acc, Element(t))
     ELSE EvalCall(t, stack[t], Top(t).callable, <<Top(t).acc, Element(t)>>)
          /\ UNCHANGED <<heapVars, queue, stopped>>

ReduceEnd(t) ==
  /\ Is(t, "reduce")
  /\ Top(t).i > Len(body[Top(t).list])
  /\ RetainAndRelease({}, {Top(t).acc})
  /\ Leave(t, Top(t).acc)
  /\ UNCHANGED <<block, type, body, globalFree, localFree, requested, regs, regCount, queue, stopped>>

-----------------------------------------------------------------------------
(* FORK: reduct_future_new makes a retained future and puts it in the       *)
(* queue, or calls at once when the queue is full.                          *)
Fork(t) ==
  /\ At(t, "fork")
  /\ LET a == Inst(t).a
         closure == Reg(t, Inst(t).c)
     IN  \E i \in Items :
           /\ NewItem(t, i, "future", <<closure>> \o Args(t), TRUE)
           /\ IF Len(queue) < QueueMax
              THEN /\ queue' = Append(queue, i)
                   /\ SetReg(t, a, i)
                   /\ SetStack(t, Written(t, a))
                   /\ UNCHANGED regCount
              ELSE /\ EvalCall(t, Append(Waiting(t, a), [kind |-> "fork", future |-> i]), closure, Args(t))
                   /\ UNCHANGED queue
  /\ UNCHANGED stopped

(* JOIN waits for the future, executing what it finds in the queue, as an   *)
(* idle worker does; both look for a requested collection in between.       *)
Join(t) ==
  /\ At(t, "join")
  /\ SetStack(t, Append(Waiting(t, Inst(t).a), [kind |-> "join", future |-> Reg(t, Inst(t).c)]))
  /\ UNCHANGED <<heapVars, regs, regCount, queue, stopped>>

Done(t) == type[Top(t).future] = "done"

JoinEnd(t) ==
  /\ Is(t, "join") /\ Done(t)
  /\ Leave(t, Last(body[Top(t).future]))
  /\ UNCHANGED <<heapVars, regs, regCount, queue, stopped>>

Idle(t) == \/ stack[t] = <<>> /\ t # Main /\ t \notin stopped
           \/ Is(t, "join") /\ ~Done(t)

Work(t) ==
  /\ Idle(t)
  /\ queue # <<>>
  /\ LET future == Head(queue)
     IN  EvalCall(t, Append(stack[t], [kind |-> "task", future |-> future]),
                  body[future][1], Tail(body[future]))
  /\ queue' = Tail(queue)
  /\ UNCHANGED <<heapVars, stopped>>

Notice(t) ==
  /\ Idle(t)
  /\ requested
  /\ stopped' = stopped \cup {t}
  /\ UNCHANGED <<heapVars, stack, regs, regCount, queue>>

-----------------------------------------------------------------------------
(* The registers up to regCount and the closures of the frames are roots.   *)
RegisterRoots(t) == {regs[t][r] : r \in 0 .. regCount[t] - 1} \cap Items
FrameRoots(t) == {stack[t][n].closure : n \in {m \in DOMAIN stack[t] : stack[t][m].kind = "code"}}

(* reduct_gc, when the last thread has come to its first barrier.           *)
Gc ==
  /\ stopped = Threads
  /\ Collect(UNION {RegisterRoots(t) \cup FrameRoots(t) : t \in Threads})
  /\ stopped' = {}
  /\ UNCHANGED <<stack, regs, regCount, queue>>

(* The program has its answer, or nobody will look at its heap again.       *)
Evaluated == block # <<>> /\ stack[Main] = <<>>
Finished == Evaluated /\ UNCHANGED vars

Instruction(t) == ListInst(t) \/ Closure(t) \/ Move(t) \/ Const(t) \/ First(t)
                  \/ Call(t) \/ TailCall(t) \/ Ret(t)
Native(t) == \/ CallMap(t) \/ MapNext(t) \/ MapEnd(t) \/ Return(t)
             \/ CallReduce(t) \/ ReduceFirst(t) \/ ReduceNext(t) \/ ReduceEnd(t)
Tasks(t) == Fork(t) \/ Join(t) \/ JoinEnd(t) \/ Work(t) \/ Notice(t)

Next ==
  \/ \E main \in Mains : Eval(main)
  \/ \E t \in Threads : Instruction(t) \/ Native(t) \/ Tasks(t)
  \/ Gc
  \/ Finished

Spec == Init /\ [][Next]_vars

-----------------------------------------------------------------------------
(* The items an entry of the stack will still use.                          *)
Holds(t, e) ==
  CASE e.kind = "code" -> {e.closure} \cup {regs[t][e.base + r] : r \in e.wrote}
    [] e.kind = "map" -> {e.list, e.callable, e.mapped}
    [] e.kind = "reduce" -> {e.list, e.callable, e.acc}
    [] e.kind = "return" -> {e.value}
    [] OTHER -> {e.future}

Entries(t) == ToSet(stack[t])

(* The handles of a list of results that is still being filled are not all  *)
(* there yet.                                                               *)
Filling(i) == {e \in UNION {Entries(t) : t \in Threads} : e.kind = "map" /\ e.mapped = i}
Contents(i) ==
  IF type[i] = "none" THEN {}
  ELSE ItemsIn(IF Filling(i) = {} THEN body[i]
               ELSE SubSeq(body[i], 1, (CHOOSE e \in Filling(i) : TRUE).i - 1))

Held == ToSet(queue) \cup UNION {UNION {Holds(t, e) : e \in Entries(t)} : t \in Threads}
InUse == Reach(Held \cap Items, Contents)

(* Whatever the program can still get at is intact: from the registers its  *)
(* code has written, the closures it is inside of, the C variables of map,  *)
(* reduce and join, and the futures in the queue, through lists, captures   *)
(* and results, no matter where between the instructions of which thread    *)
(* the collector ran.                                                       *)
NothingInUseIsFree == \A i \in InUse : Intact(i)

(* Every retained item has somebody who will release it, so that no item    *)
(* stays a root for ever.                                                   *)
Retainers == ToSet(queue) \cup
  UNION {{IF e.kind = "map" THEN e.mapped ELSE IF e.kind = "reduce" THEN e.acc ELSE e.future :
            e \in {f \in Entries(t) : f.kind \in {"map", "reduce", "task", "fork"}}} : t \in Threads}
RetainedAreHeld == retained \subseteq Retainers

(* Not so of the collector itself: a frame's registers are roots before the *)
(* frame has written them, and what they still hold may be in a block that  *)
(* an earlier collection gave back.                                         *)
CollectorStaysInside == \A t \in Threads : \A i \in RegisterRoots(t) : Exists(i)
=============================================================================
