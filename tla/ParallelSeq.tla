---------------------------- MODULE ParallelSeq ----------------------------
(***************************************************************************)
(* reduct_map, reduct_filter and reduct_find (src/standard.c): a loop for  *)
(* a short list, and a task per item for a long one. The caller forks the  *)
(* tasks in order, calls the callable itself when the queue refuses one,   *)
(* joins them in order and puts the answer together; tasks run at any time *)
(* and in any order (TaskPool, Scheduler), and write their results, their  *)
(* retain flags and one shared error slot while the caller goes on.        *)
(*                                                                         *)
(* Item i of the list is <<"item", i>>; what the callable returns for it   *)
(* is <<"result", i>>, or <<"garbage", i>> if it never was written.        *)
(***************************************************************************)
EXTENDS Integers, Sequences

CONSTANTS
  Threshold,   (* the length from which tasks are used: 128                *)
  MaxLength    (* bound: the longest list                                  *)

ASSUME ParallelSeqAssumption == Threshold \in Nat \ {0} /\ MaxLength \in Nat

None == 0

VARIABLES
  op,        (* the function called                                        *)
  callee,    (* per item, what the callable does with it                   *)
  phase,     (* where the caller is, or "crashed"                          *)
  i,         (* the caller's loop counter                                  *)
  task,      (* per item, the state of its task                            *)
  written,   (* the tasks whose result has been written                    *)
  retained,  (* the results whose retained flag is set                     *)
  error,     (* the caller's error: the tasks its two halves came from     *)
  uncopied,  (* per task, the halves of its error it has yet to copy       *)
  answer     (* the handles collected or returned                          *)

vars == <<op, callee, phase, i, task, written, retained, error, uncopied, answer>>
taskVars == <<task, written, uncopied>>

Items == DOMAIN callee
Verdicts == {"truthy", "falsy", "error"}
Halves == {"type", "rest"}

Init ==
  /\ op \in {"map", "filter", "find"}
  /\ \E n \in 0 .. MaxLength : callee \in [1 .. n -> Verdicts]
  /\ phase = IF Len(callee) < Threshold THEN "loop" ELSE "fork"
  /\ i = 1
  /\ task = [k \in Items |-> "new"]
  /\ written = {}
  /\ retained = {}
  /\ error = [h \in Halves |-> None]
  /\ uncopied = [k \in Items |-> {}]
  /\ answer = <<>>

Item(k) == <<"item", k>>
Result(k) == <<IF k \in written THEN "result" ELSE "garbage", k>>

(* What one round of the sequential loop adds to the answer.                *)
LoopAdds(k) ==
  CASE op = "map" -> <<<<"result", k>>>>
    [] op # "map" /\ callee[k] = "truthy" -> <<Item(k)>>
    [] OTHER -> <<>>

(* A short list: one call after the other; an error leaves the function,    *)
(* and reduct_find its loop with the first truthy result.                   *)
Loop ==
  /\ phase = "loop"
  /\ \/ /\ i <= Len(callee) /\ callee[i] = "error"
        /\ phase' = "thrown"
        /\ UNCHANGED <<i, answer>>
     \/ /\ i <= Len(callee) /\ callee[i] # "error"
        /\ answer' = answer \o LoopAdds(i)
        /\ i' = i + 1
        /\ phase' = IF op = "find" /\ callee[i] = "truthy" THEN "returned" ELSE "loop"
     \/ /\ i > Len(callee)
        /\ phase' = "returned"
        /\ UNCHANGED <<i, answer>>
  /\ UNCHANGED <<op, callee, retained, error, taskVars>>

(* reduct_task_create accepts the next task, or refuses it, and the caller  *)
(* makes the call itself; an error in that call unwinds the function.       *)
Fork ==
  /\ phase = "fork" /\ i <= Len(callee)
  /\ \/ /\ task' = [task EXCEPT ![i] = "queued"]
        /\ i' = i + 1
        /\ UNCHANGED <<phase, written, retained>>
     \/ /\ callee[i] # "error"
        /\ task' = [task EXCEPT ![i] = "inline"]
        /\ written' = written \cup {i}
        /\ retained' = retained \cup {i}
        /\ i' = i + 1
        /\ UNCHANGED phase
     \/ /\ callee[i] = "error"
        /\ phase' = "thrown"
        /\ UNCHANGED <<i, task, written, retained>>
  /\ UNCHANGED <<op, callee, error, uncopied, answer>>

ForkEnds ==
  /\ phase = "fork" /\ i > Len(callee)
  /\ phase' = "join"
  /\ i' = 1
  /\ UNCHANGED <<op, callee, retained, error, answer, taskVars>>

(* reduct_standard_worker makes the call.                                   *)
Work(k) ==
  /\ task[k] = "queued"
  /\ IF callee[k] = "error"
     THEN /\ task' = [task EXCEPT ![k] = "failed"]
          /\ UNCHANGED <<written, retained>>
     ELSE /\ task' = [task EXCEPT ![k] = "called"]
          /\ written' = written \cup {k}
          /\ retained' = retained \cup {k}
  /\ UNCHANGED <<op, callee, phase, i, error, uncopied, answer>>

(* A failed one looks whether the shared error is still unset...            *)
TestError(k) ==
  /\ task[k] = "failed"
  /\ task' = [task EXCEPT ![k] = "called"]
  /\ uncopied' = [uncopied EXCEPT ![k] = IF error["type"] = None THEN Halves ELSE {}]
  /\ UNCHANGED <<op, callee, phase, i, written, retained, error, answer>>

(* ... and copies its own into it, which other failed tasks may do at the   *)
(* same time. The copy is not atomic and its order is the compiler's.       *)
CopyError(k) ==
  \E h \in uncopied[k] :
    /\ task[k] = "called"
    /\ error' = [error EXCEPT ![h] = k]
    /\ uncopied' = [uncopied EXCEPT ![k] = @ \ {h}]
    /\ UNCHANGED <<op, callee, phase, i, task, written, retained, answer>>

(* Mutant: the task is done before it has copied its error.                 *)
FinishEarly(k) ==
  /\ task[k] \in {"called", "failed"}
  /\ task' = [task EXCEPT ![k] = "finished"]
  /\ UNCHANGED <<op, callee, phase, i, written, retained, error, uncopied, answer>>

(* reduct_task_try_work gives the slot back.                                *)
Finish(k) ==
  /\ task[k] = "called" /\ uncopied[k] = {}
  /\ task' = [task EXCEPT ![k] = "finished"]
  /\ UNCHANGED <<op, callee, phase, i, written, retained, error, uncopied, answer>>

(* reduct_task_join returns; a call made inline has no task.                *)
Joined(k) == task[k] \in {"finished", "inline"}

(* What is retained once result k has been released. A result that was      *)
(* never written, because its call failed, is whatever the task array held: *)
(* the release may do nothing, or clear the flag of another result.         *)
Released(k) ==
  IF k \in written THEN {retained \ {k}} ELSE {retained} \cup {retained \ {j} : j \in retained}

(* Mutant: results are taken in the order in which tasks finish.            *)
JoinAsFinished ==
  /\ phase = "join" /\ i <= Len(callee)
  /\ \E k \in Items :
       /\ Joined(k)
       /\ \A n \in DOMAIN answer : answer[n][2] # k
       /\ answer' = Append(answer, Result(k))
       /\ retained' \in Released(k)
  /\ i' = i + 1
  /\ UNCHANGED <<op, callee, phase, error, taskVars>>

(* Mutant: the loop of joins ends at the first error.                       *)
JoinUntilError ==
  /\ phase = "join" /\ i <= Len(callee)
  /\ Joined(i)
  /\ i' = IF error["type"] # None THEN Len(callee) + 1 ELSE i + 1
  /\ IF op = "map"
     THEN /\ answer' = Append(answer, Result(i))
          /\ retained' \in Released(i)
     ELSE UNCHANGED <<answer, retained>>
  /\ UNCHANGED <<op, callee, phase, error, taskVars>>

(* reduct_map takes each result as it joins its task.                       *)
Join ==
  /\ phase = "join" /\ i <= Len(callee)
  /\ Joined(i)
  /\ i' = i + 1
  /\ IF op = "map"
     THEN /\ answer' = Append(answer, Result(i))
          /\ retained' \in Released(i)
     ELSE UNCHANGED <<answer, retained>>
  /\ UNCHANGED <<op, callee, phase, error, taskVars>>

Failed == error["type"] # None

(* The truthiness of a result that was never written is anybody's guess.    *)
Truthiness(k) == {truthy \in BOOLEAN : k \in written => truthy = (callee[k] = "truthy")}

JoinEnds == phase = "join" /\ i > Len(callee)

(* The function is left with the error, if there is one.                    *)
Leave == phase' = IF Failed THEN "rethrown" ELSE "returned"

MapEnds ==
  /\ JoinEnds /\ op = "map"
  /\ Leave
  /\ UNCHANGED <<op, callee, i, retained, error, answer, taskVars>>

(* A loop over the results begins; reduct_find looks at the error before.   *)
CollectBegins ==
  /\ JoinEnds /\ op # "map"
  /\ phase' = IF op = "find" /\ Failed THEN "rethrown" ELSE "collect"
  /\ i' = 1
  /\ UNCHANGED <<op, callee, retained, error, answer, taskVars>>

(* reduct_filter keeps the item and releases the result, reduct_find        *)
(* returns the result itself.                                               *)
Collect ==
  /\ phase = "collect" /\ i <= Len(callee)
  /\ \E truthy \in Truthiness(i) :
       IF op = "find" /\ truthy
       THEN /\ answer' = <<Result(i)>>
            /\ phase' = "returned"
            /\ UNCHANGED i
       ELSE /\ answer' = IF truthy THEN Append(answer, Item(i)) ELSE answer
            /\ i' = i + 1
            /\ UNCHANGED phase
  /\ retained' \in IF op = "filter" THEN Released(i) ELSE {retained}
  /\ UNCHANGED <<op, callee, error, taskVars>>

CollectEnds ==
  /\ phase = "collect" /\ i > Len(callee)
  /\ Leave
  /\ UNCHANGED <<op, callee, i, retained, error, answer, taskVars>>

(* A result that was never written is released, asked for its truthiness or *)
(* marked by a collection as a part of the mapped list: a read of memory    *)
(* that may not be there ends the program.                                  *)
Fault ==
  /\ \/ phase = "join" /\ op = "map" /\ \E k \in Items \ written : k <= i /\ Joined(k)
     \/ phase = "collect" /\ i \in Items \ written
  /\ phase' = "crashed"
  /\ UNCHANGED <<op, callee, i, retained, error, answer, taskVars>>

Caller ==
  \/ Loop \/ Fork \/ ForkEnds \/ Join \/ MapEnds
  \/ CollectBegins \/ Collect \/ CollectEnds \/ Fault

Task(k) ==
  /\ phase # "crashed"
  /\ Work(k) \/ TestError(k) \/ CopyError(k) \/ Finish(k)

Next == Caller \/ \E k \in Items : Task(k)

Spec == Init /\ [][Next]_vars
-----------------------------------------------------------------------------
(* No error gets lost and none is made up: the function returns only if no  *)
(* call failed (but find stops at its answer), and what it rethrows was     *)
(* stored in full by failed tasks, however their stores interleave.         *)
ErrorsSurface ==
  /\ phase = "returned" /\ (op # "find" \/ Len(callee) >= Threshold)
       => \A k \in Items : callee[k] # "error"
  /\ phase = "rethrown" => \A h \in Halves : error[h] # None /\ callee[error[h]] = "error"

(* What the caller gets back is about the items the loop would choose       *)
(* (standard.c:115-253, 1308), whichever tasks were refused and in whatever *)
(* order the others ran: for map every result in its place, for filter the  *)
(* items with truthy results in their order, for find the first of those;   *)
(* or it is the error. What find gives for that item is stated for a short  *)
(* list only, the item: for a long one it is the result of the callable     *)
(* (standard.c:1368), which is not what src/README.md:1224 says.            *)
Truthy == {k \in Items : callee[k] = "truthy"}
Place(n) == answer[n][2]
Places == {Place(n) : n \in DOMAIN answer}
InOrder == \A m, n \in DOMAIN answer : m < n => Place(m) < Place(n)

SameItemsAsTheLoop ==
  /\ phase = "returned" =>
       /\ op = "map" => answer = [k \in Items |-> <<"result", k>>]
       /\ op = "filter" => /\ Places = Truthy /\ InOrder
                           /\ \A n \in DOMAIN answer : answer[n] = Item(Place(n))
       /\ op = "find" => /\ Len(answer) <= 1
                         /\ Places = {k \in Truthy : \A l \in Truthy : k <= l}
                         /\ \A n \in DOMAIN answer : answer[n][1] # "garbage"
                         /\ Len(callee) < Threshold =>
                              \A n \in DOMAIN answer : answer[n] = Item(Place(n))
  /\ ErrorsSurface

(* When the function returns or rethrows (not when a call of its own unwinds *)
(* it, standard.c:155), all its tasks have finished with                    *)
(* the error and the task array that live in its C frame, and map and       *)
(* filter have given up every retained flag that was set for them.          *)
LeavesNothingBehind ==
  phase \in {"returned", "rethrown"} =>
    /\ \A k \in Items : task[k] \in {"new", "inline", "finished"}
    /\ op # "find" => retained = {}

=============================================================================
