----------------------------- MODULE EvalStack -----------------------------
(***************************************************************************)
(* The evaluator of src/eval.c as one thread sees it: the frames and       *)
(* registers of reduct->eval, and the C stack above them, on which         *)
(* reduct_eval_run, native functions, reduct_try and the tasks executed    *)
(* inside a join nest in any order until an error unwinds them with        *)
(* longjmp.                                                                *)
(*                                                                         *)
(* A register is only a position. At a call the arguments and the result   *)
(* lie at register a of the caller and everything the caller still needs   *)
(* lies below it (reduct_emitter_reg_alloc_range takes the registers above *)
(* every register in use).                                                 *)
(***************************************************************************)
EXTENDS Integers, Sequences, SequencesExt

CONSTANTS
  Fns,           (* the compiled functions                                 *)
  Registers,     (* registerCount of each function                         *)
  Arity,         (* arity of each function, the rest list included         *)
  Variadic,      (* the functions with REDUCT_FUNCTION_FLAG_VARIADIC       *)
  MaxArgs,       (* bound: arguments passed by a native                    *)
  MaxRegs,       (* bound: regCount                                        *)
  MaxFrames,     (* bound: frameCount                                      *)
  MaxDepth       (* bound: nesting of the C stack                          *)

ASSUME EvalAssumption ==
  /\ Registers \in [Fns -> Nat]
  /\ Arity \in [Fns -> Nat]
  /\ Variadic \in SUBSET {fn \in Fns : Arity[fn] > 0}
  /\ MaxArgs \in Nat /\ MaxRegs \in Nat /\ MaxFrames \in Nat /\ MaxDepth \in Nat

VARIABLES
  frames,    (* eval.frames up to frameCount; "run" is history: the depth   *)
             (* on the C stack of the reduct_eval_run that pushed the frame *)
  regCount,  (* eval.regCount                                              *)
  stack,     (* the C stack, the innermost function last                   *)
  spilled    (* history: an error has left a task and, with it, frames on   *)
             (* top of those of a run that waits for the task's end         *)

vars == <<frames, regCount, stack, spilled>>

(***************************************************************************)
(* The functions on the C stack.                                           *)
(***************************************************************************)
Run(init) == [kind |-> "run", init |-> init]
Native(op) == [kind |-> "native", op |-> op]
Try(op, phase) == [kind |-> "try", op |-> op, phase |-> phase,
                   frameCount |-> Len(frames), regCount |-> regCount]
Worker(phase) == [kind |-> "worker", phase |-> phase]

Top == Last(stack)
Frame == Last(frames)
TopIs(kind) == stack # <<>> /\ Top.kind = kind

Init ==
  /\ frames = <<>>
  /\ regCount = 0
  /\ stack = <<>>
  /\ spilled = FALSE

-----------------------------------------------------------------------------
(* Mutant: the frame remembers where its registers begin.                   *)
PushFrameBase(fn, target, count, depth) ==
  /\ Len(frames) < MaxFrames
  /\ target + Registers[fn] <= MaxRegs
  /\ frames' = Append(frames, [fn |-> fn, base |-> target, prevRegCount |-> target, run |-> depth])
  /\ regCount' = target + Registers[fn]

(* reduct_eval_push_frame by the run that will be at the given depth, when  *)
(* regCount has already been raised to count.                               *)
PushFrame(fn, target, count, depth) ==
  /\ Len(frames) < MaxFrames
  /\ target + Registers[fn] <= MaxRegs
  /\ frames' = Append(frames, [fn |-> fn, base |-> target, prevRegCount |-> count, run |-> depth])
  /\ regCount' = target + Registers[fn]

(* reduct_eval_pop_frame, and the end of the run whose last frame it was.   *)
PopFrame(below) ==
  /\ frames' = Front(frames)
  /\ regCount' = Frame.prevRegCount
  /\ stack' = IF Len(frames) - 1 = Last(below).init THEN Front(below) ELSE below

(* reduct_eval_bundle_args accepts the arguments.                           *)
Accepts(fn, argc) ==
  IF fn \in Variadic THEN argc >= Arity[fn] - 1 ELSE argc = Arity[fn]

-----------------------------------------------------------------------------
(* The instructions. *)
Call(fn, a) ==
  /\ TopIs("run")
  /\ a < Registers[Frame.fn]
  /\ PushFrame(fn, Frame.base + a, regCount, Len(stack))
  /\ UNCHANGED <<stack, spilled>>

TailCall(fn) ==
  /\ TopIs("run")
  /\ Frame.base + Registers[fn] <= MaxRegs
  /\ regCount' = Frame.base + Registers[fn]
  /\ frames' = Front(frames) \o <<[Frame EXCEPT !.fn = fn]>>
  /\ UNCHANGED <<stack, spilled>>

Ret ==
  /\ TopIs("run")
  /\ PopFrame(stack)
  /\ UNCHANGED spilled

CallNative(op) ==
  /\ TopIs("run")
  /\ Registers[Frame.fn] > 0
  /\ Len(stack) < MaxDepth
  /\ stack' = Append(stack, Native(op))
  /\ UNCHANGED <<frames, regCount, spilled>>

CallTry(op) ==
  /\ TopIs("run")
  /\ Registers[Frame.fn] > 0
  /\ Len(stack) < MaxDepth
  /\ stack' = Append(stack, Try(op, "start"))
  /\ UNCHANGED <<frames, regCount, spilled>>

(* A native function or a join is done. The run below takes the topmost     *)
(* frame for its own (UPDATE_STATE), and pops it after a tail call.         *)
NativeReturn ==
  /\ TopIs("native") \/ (TopIs("try") /\ Top.phase \in {"body", "handler"})
  /\ IF Top.op = "tailcall"
     THEN PopFrame(Front(stack))
     ELSE stack' = Front(stack) /\ UNCHANGED <<frames, regCount>>
  /\ UNCHANGED spilled

-----------------------------------------------------------------------------
(* longjmp to the innermost handler: reduct_try puts the counts back, a     *)
(* worker does not, and without a handler the host catches the error.       *)
Handles(i) ==
  \/ stack[i].kind = "try" /\ stack[i].phase = "body"
  \/ stack[i].kind = "worker"

(* Caught by the worker at i, an error leaves the frames of the runs above  *)
(* it, although a run below it goes on when the join is over.               *)
Spills(i) ==
  /\ stack[i].kind = "worker"
  /\ \E d \in 1 .. i - 1 : stack[d].kind = "run"
  /\ \E d \in i + 1 .. Len(stack) : stack[d].kind = "run"

(* Mutant: reduct_try does not put frameCount back.                         *)
CatchAtKeepFrames(i) ==
  \/ /\ stack[i].kind = "try"
     /\ stack' = Append(SubSeq(stack, 1, i - 1), [stack[i] EXCEPT !.phase = "caught"])
     /\ regCount' = stack[i].regCount
     /\ UNCHANGED frames
  \/ /\ stack[i].kind = "worker"
     /\ stack' = Append(SubSeq(stack, 1, i - 1), Worker("body"))
     /\ UNCHANGED frames

CatchAt(i) ==
  \/ /\ stack[i].kind = "try"
     /\ stack' = Append(SubSeq(stack, 1, i - 1), [stack[i] EXCEPT !.phase = "caught"])
     /\ frames' = SubSeq(frames, 1, stack[i].frameCount)
     /\ regCount' = stack[i].regCount
  \/ /\ stack[i].kind = "worker"
     /\ stack' = Append(SubSeq(stack, 1, i - 1), Worker("body"))
     /\ UNCHANGED frames

(* reduct_eval_call is called by a native function, for the body or the     *)
(* handler of a try, or by a worker.                                        *)
CanCall ==
  \/ TopIs("native") /\ Top.op # "join"
  \/ TopIs("try") /\ Top.phase \in {"start", "caught"}
  \/ TopIs("worker") /\ Top.phase = "start"

(* An error, thrown when regCount has been raised to count.                 *)
ThrowAt(count) ==
  \/ \E i \in DOMAIN stack :
       /\ Handles(i)
       /\ \A j \in i + 1 .. Len(stack) : ~Handles(j)
       /\ CatchAt(i)
       /\ stack[i].kind = "worker" => regCount' = count
       /\ spilled' = (spilled \/ Spills(i))
  \/ /\ \A i \in DOMAIN stack : ~Handles(i)
     /\ stack' = <<>>
     /\ regCount' = count
     /\ UNCHANGED <<frames, spilled>>

Throw ==
  /\ TopIs("run") \/ TopIs("native") \/ CanCall
  /\ ThrowAt(regCount)

-----------------------------------------------------------------------------
Called == CASE Top.kind = "native" -> Top
            [] Top.kind = "worker" -> Worker("body")
            [] Top.kind = "try" ->
                 [Top EXCEPT !.phase = IF @ = "start" THEN "body" ELSE "handler"]

Needed(fn, argc) ==
  LET wanted == IF argc > Registers[fn] THEN argc ELSE Registers[fn]
  IN  IF fn \in Variadic /\ Arity[fn] > wanted THEN Arity[fn] ELSE wanted

(* reduct_eval_call with a closure, and with a native function.             *)
EvalCall(fn, argc) ==
  /\ CanCall
  /\ Len(stack) < MaxDepth
  /\ Accepts(fn, argc)
  /\ regCount + Needed(fn, argc) <= MaxRegs
  /\ PushFrame(fn, regCount, regCount + Needed(fn, argc), Len(stack) + 1)
  /\ stack' = Front(stack) \o <<Called, Run(Len(frames))>>
  /\ UNCHANGED spilled

EvalCallNative ==
  /\ CanCall
  /\ Len(stack) < MaxDepth
  /\ \E callee \in {Native("nested"), Try("nested", "start")} :
       stack' = Front(stack) \o <<Called, callee>>
  /\ UNCHANGED <<frames, regCount, spilled>>

(* The arguments are refused after the registers have been reserved. A try  *)
(* that is about to call its body is already a handler.                     *)
EvalCallRefused(fn, argc) ==
  /\ CanCall
  /\ ~Accepts(fn, argc)
  /\ regCount + Needed(fn, argc) <= MaxRegs
  /\ IF TopIs("try") /\ Top.phase = "start"
     THEN /\ stack' = Front(stack) \o <<[Top EXCEPT !.phase = "caught"]>>
          /\ UNCHANGED <<frames, regCount, spilled>>
     ELSE ThrowAt(regCount + Needed(fn, argc))

(* reduct_eval, from the host program.                                      *)
HostEval(fn) ==
  /\ stack = <<>>
  /\ Arity[fn] = 0
  /\ PushFrame(fn, regCount, regCount, 1)
  /\ stack' = <<Run(Len(frames))>>
  /\ UNCHANGED spilled

(* reduct_task_try_work finds a task: in the loop of a worker thread, or    *)
(* while a native function or an instruction waits in reduct_task_join.     *)
RunTask ==
  /\ stack = <<>> \/ TopIs("native")
  /\ Len(stack) < MaxDepth
  /\ stack' = Append(stack, Worker("start"))
  /\ UNCHANGED <<frames, regCount, spilled>>

WorkerReturn ==
  /\ TopIs("worker")
  /\ Top.phase = "body"
  /\ stack' = Front(stack)
  /\ UNCHANGED <<frames, regCount, spilled>>

Next ==
  \/ \E fn \in Fns : HostEval(fn) \/ TailCall(fn)
  \/ \E fn \in Fns : \E a \in 0 .. MaxRegs : Call(fn, a)
  \/ \E op \in {"call", "tailcall"} : CallNative(op) \/ CallTry(op)
  \/ CallNative("join")
  \/ Ret \/ NativeReturn \/ RunTask \/ WorkerReturn \/ Throw \/ EvalCallNative
  \/ \E fn \in Fns, argc \in 0 .. MaxArgs : EvalCall(fn, argc) \/ EvalCallRefused(fn, argc)

Spec == Init /\ [][Next]_vars

-----------------------------------------------------------------------------
(* Whenever reduct_eval_run goes on, after a call returned to it, after an  *)
(* error was caught above it or after it executed other tasks in a join,    *)
(* the topmost frame is one of its own; and the runs it is nested in still  *)
(* find theirs where they left them.                                        *)
OwnFrames ==
  /\ TopIs("run") => Len(frames) > Top.init /\ Frame.run = Len(stack)
  /\ \A d \in DOMAIN stack : stack[d].kind = "run" =>
       /\ stack[d].init < Len(frames)
       /\ frames[stack[d].init + 1].run = d

(* Where the registers of frame i that are still needed end: all of them,   *)
(* or those below the call when the next frame is called by this one.       *)
LiveEnd(i) ==
  IF i < Len(frames) /\ frames[i + 1].run = frames[i].run
  THEN frames[i + 1].base
  ELSE frames[i].base + Registers[frames[i].fn]

(* A run resumes its own frames whatever has been called, caught and        *)
(* executed above it, until an error spills a task's frames onto those of a *)
(* run that joins it (future.c:18). From then on it is not so: OwnFrames    *)
(* by itself is refuted by EvalStackTasks.cfg.                              *)
ResumesCaller == ~spilled => OwnFrames

(* No function overwrites a register another one still needs, and all of    *)
(* them lie below regCount, where the collector looks for roots: again      *)
(* until an error spills a task's frames.                                   *)
RegistersSafe ==
  ~spilled =>
    \A i \in DOMAIN frames :
      /\ LiveEnd(i) <= regCount
      /\ \A j \in i + 1 .. Len(frames) : LiveEnd(i) <= frames[j].base
=============================================================================
