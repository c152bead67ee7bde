------------------------- MODULE ParallelSeqProofs -------------------------
(***************************************************************************)
(* Why map, filter and find with a task per item choose the items the loop *)
(* chooses, for lists of every length and every length from which tasks    *)
(* are used: proofs about ParallelSeq.                                     *)
(*                                                                         *)
(* The argument: what a task wrote, kept and reported follows from how far *)
(* it is (TasksInv); once a failed task has looked at the error, each half *)
(* of it has been stored or is about to be by a task that is not finished  *)
(* (ErrorInv), so joining all tasks leaves a whole error or no failed call *)
(* (PhaseInv); and the caller's loops have dealt with the items before     *)
(* their counter (AnswerInv, RetainedInv).                                 *)
(***************************************************************************)
EXTENDS ParallelSeq, TLAPS

Kinds == {"item", "result", "garbage"}
States == {"new", "queued", "inline", "failed", "called", "finished"}
Phases == {"loop", "fork", "join", "collect", "thrown", "returned", "rethrown", "crashed"}

(* The types of the caller's and the tasks' variables.                      *)
TypeOK ==
  /\ op \in {"map", "filter", "find"}
  /\ callee \in Seq(Verdicts)
  /\ phase \in Phases
  /\ i \in 1 .. Len(callee) + 1
  /\ task \in [Items -> States]
  /\ written \in SUBSET Items
  /\ retained \in SUBSET Items
  /\ error \in [Halves -> Items \cup {None}]
  /\ uncopied \in [Items -> SUBSET Halves]
  /\ answer \in Seq(Kinds \X Items)

(* What the state of a task says of its call.                               *)
TasksInv ==
  /\ \A k \in Items :
       /\ k \in written <=> callee[k] # "error" /\ task[k] \in {"called", "inline", "finished"}
       /\ task[k] = "inline" => callee[k] # "error"
       /\ task[k] = "failed" => callee[k] = "error"
       /\ uncopied[k] # {} => task[k] = "called" /\ callee[k] = "error"
  /\ retained \subseteq written

(* A failed task that has looked at the error.                              *)
Reported(k) == callee[k] = "error" /\ task[k] \in {"called", "finished"}

(* The halves of the error came from such tasks, and once there is one no   *)
(* half is missing that nobody is about to store.                           *)
ErrorInv ==
  /\ \A h \in Halves : error[h] # None => Reported(error[h])
  /\ \A k \in Items : Reported(k) =>
       \A h \in Halves : error[h] # None \/ \E j \in Items : h \in uncopied[j]

(* How far the tasks are, by what the caller does.                          *)
PhaseInv ==
  /\ phase \in {"fork", "join", "collect"} => Len(callee) >= Threshold
  /\ phase = "loop" => Len(callee) < Threshold /\ \A k \in Items : task[k] = "new"
  /\ phase = "fork" => \A k \in Items : task[k] = "new" <=> i <= k
  /\ phase = "join" => \A k \in Items : task[k] # "new" /\ (k < i => Joined(k))
  /\ phase \in {"collect", "rethrown"} => \A k \in Items : Joined(k)
  /\ phase = "rethrown" => Failed
  /\ phase = "returned" =>
       \/ Len(callee) < Threshold /\ \A k \in Items : task[k] = "new"
       \/ ~Failed /\ \A k \in Items : Joined(k)

(* The items before the counter whose calls returned something truthy.      *)
Kept ==
  /\ Places = {k \in Truthy : k < i}
  /\ InOrder
  /\ \A n \in DOMAIN answer : answer[n] = Item(Place(n))

(* No item before the counter has a truthy result.                          *)
NoneYet == answer = <<>> /\ \A k \in Truthy : i <= k

AnswerInv ==
  /\ phase = "loop" =>
       /\ \A k \in Items : k < i => callee[k] # "error"
       /\ op = "map" => Len(answer) = i - 1 /\ \A n \in DOMAIN answer : answer[n] = <<"result", n>>
       /\ op = "filter" => Kept
       /\ op = "find" => NoneYet
  /\ phase = "fork" => answer = <<>>
  /\ phase = "join" =>
       IF op = "map"
       THEN /\ Len(answer) = i - 1
            /\ \A n \in DOMAIN answer : callee[n] # "error" => answer[n] = <<"result", n>>
       ELSE answer = <<>>
  /\ phase = "collect" =>
       /\ op # "map"
       /\ op = "filter" => (~Failed => Kept)
       /\ op = "find" => ~Failed /\ NoneYet
  /\ SameItemsAsTheLoop

(* The results before the counter have been released.                       *)
RetainedInv ==
  /\ phase = "join" /\ op = "map" => \A k \in retained : i <= k
  /\ phase = "collect" /\ op = "filter" => \A k \in retained : i <= k
  /\ phase \in {"returned", "rethrown"} /\ op # "find" => retained = {}

(* The inductive invariant.                                                 *)
IndInv == TypeOK /\ TasksInv /\ ErrorInv /\ PhaseInv /\ AnswerInv /\ RetainedInv

-----------------------------------------------------------------------------
(* The types of the items, the tasks, the error and the answer.             *)
LEMMA Types ==
  ASSUME TypeOK
  PROVE  /\ Items = 1 .. Len(callee) /\ Len(callee) \in Nat
         /\ i \in Nat /\ 1 <= i /\ i <= Len(callee) + 1
         /\ \A k \in Items : /\ k \in Nat /\ callee[k] \in Verdicts /\ task[k] \in States
                             /\ uncopied[k] \in SUBSET Halves
         /\ \A h \in Halves : error[h] \in Items \cup {None}
         /\ DOMAIN answer = 1 .. Len(answer) /\ Len(answer) \in Nat
         /\ \A n \in DOMAIN answer : answer[n] \in Kinds \X Items /\ Place(n) \in Items
         /\ None \notin Items
<1>1. Items = 1 .. Len(callee) /\ Len(callee) \in Nat /\ \A k \in Items : callee[k] \in Verdicts
  BY DEF TypeOK, Items
<1>2. /\ DOMAIN answer = 1 .. Len(answer) /\ Len(answer) \in Nat
      /\ \A n \in DOMAIN answer : answer[n] \in Kinds \X Items
  BY DEF TypeOK
<1>3. \A x \in Kinds \X Items : x[2] \in Items
  OBVIOUS
<1>4. i \in Nat /\ 1 <= i /\ i <= Len(callee) + 1
  BY <1>1 DEF TypeOK
<1>5. /\ \A k \in Items : task[k] \in States /\ uncopied[k] \in SUBSET Halves
      /\ \A h \in Halves : error[h] \in Items \cup {None}
  BY DEF TypeOK
<1>6. None \notin Items /\ \A k \in Items : k \in Nat
  BY <1>1 DEF None
<1> QED
  BY <1>1, <1>2, <1>3, <1>4, <1>5, <1>6 DEF Place

(* When every task has been joined and no error was stored, no call failed. *)
LEMMA AllJoined ==
  ASSUME TypeOK, TasksInv, ErrorInv, \A k \in Items : Joined(k)
  PROVE  /\ ~Failed => \A k \in Items : callee[k] # "error" /\ k \in written
         /\ Failed => \A h \in Halves : error[h] # None /\ callee[error[h]] = "error"
<1>1. \A j \in Items : uncopied[j] = {}
  BY DEF TasksInv, Joined
<1>2. \A k \in Items : Reported(k) => \A h \in Halves : error[h] # None
  BY <1>1 DEF ErrorInv
<1>3. \A k \in Items : callee[k] = "error" => Reported(k)
  BY DEF TasksInv, Joined, Reported
<1>4. "type" \in Halves
  BY DEF Halves
<1>5. ASSUME ~Failed
      PROVE  \A k \in Items : callee[k] # "error" /\ k \in written
  BY <1>2, <1>3, <1>4, <1>5 DEF Failed, TasksInv, Joined
<1>6. ASSUME Failed
      PROVE  \A h \in Halves : error[h] # None /\ callee[error[h]] = "error"
  <2>1. Reported(error["type"]) /\ error["type"] \in Items
    BY <1>4, <1>6, Types DEF Failed, ErrorInv
  <2> QED
    BY <1>2, <2>1 DEF ErrorInv, Reported
<1> QED
  BY <1>5, <1>6

(* A step of a task leaves what the caller has done as it was.              *)
LEMMA TaskSteps ==
  ASSUME IndInv, NEW k \in Items, task[k] \in {"queued", "failed", "called"},
         UNCHANGED <<op, callee, phase, i, answer>>,
         \A j \in Items : j # k => task'[j] = task[j],
         task'[k] \in {"failed", "called", "finished"},
         retained' \subseteq retained \cup {k}
  PROVE  PhaseInv' /\ AnswerInv' /\ RetainedInv'
<1>0. /\ TypeOK /\ PhaseInv /\ AnswerInv /\ RetainedInv
      /\ op' = op /\ callee' = callee /\ phase' = phase /\ i' = i /\ answer' = answer
      /\ Items' = Items
  BY DEF IndInv, Items
<1>1. ~Joined(k) /\ task[k] # "new" /\ phase \in Phases
  BY <1>0 DEF Joined, TypeOK
<1>2. phase \in {"fork", "join", "thrown", "crashed"}
  BY <1>0, <1>1 DEF PhaseInv, Phases
<1>3. \A j \in Items : /\ Joined(j) => Joined(j)'
                       /\ task'[j] = "new" <=> task[j] = "new"
  BY <1>1 DEF Joined
<1>4. PhaseInv'
  BY <1>0, <1>2, <1>3 DEF PhaseInv
<1>5. AnswerInv'
  BY <1>0, <1>2 DEF AnswerInv, SameItemsAsTheLoop, ErrorsSurface
<1>6. RetainedInv'
  <2>1. phase = "join" => i <= k
    BY <1>0, <1>1, Types DEF PhaseInv
  <2> QED
    BY <1>0, <1>2, <2>1 DEF RetainedInv
<1> QED
  BY <1>4, <1>5, <1>6

(* A worker thread makes the call of a task (standard.c:98-107).            *)
LEMMA WorkStep ==
  ASSUME IndInv, NEW k \in Items, Work(k)
  PROVE  IndInv'
<1>0. /\ TypeOK /\ TasksInv /\ ErrorInv
      /\ op' = op /\ callee' = callee /\ phase' = phase /\ i' = i /\ answer' = answer
      /\ error' = error /\ uncopied' = uncopied /\ Items' = Items
      /\ task[k] = "queued"
  BY DEF IndInv, Items, Work
<1>1. /\ task' \in [Items -> States]
      /\ \A j \in Items : j # k => task'[j] = task[j]
      /\ task'[k] = IF callee[k] = "error" THEN "failed" ELSE "called"
      /\ written' = (IF callee[k] = "error" THEN written ELSE written \cup {k})
      /\ retained' = (IF callee[k] = "error" THEN retained ELSE retained \cup {k})
  <2>1. task \in [Items -> States] /\ {"failed", "called"} \subseteq States
    BY <1>0 DEF TypeOK, States
  <2> QED
    BY <2>1 DEF Work
<1>2. TypeOK'
  BY <1>0, <1>1 DEF TypeOK
<1>3. TasksInv'
  BY <1>0, <1>1 DEF TasksInv
<1>4. \A j \in Items : Reported(j)' <=> Reported(j)
  BY <1>0, <1>1 DEF Reported
<1>5. ErrorInv'
  <2>1. \A h \in Halves : error[h] # None => error[h] \in Items
    BY <1>0, Types
  <2> QED
    BY <1>0, <1>4, <2>1 DEF ErrorInv
<1>6. PhaseInv' /\ AnswerInv' /\ RetainedInv'
  BY <1>0, <1>1, TaskSteps
<1> QED
  BY <1>2, <1>3, <1>5, <1>6 DEF IndInv

(* A failed task looks whether the error is unset (standard.c:109).         *)
LEMMA TestErrorStep ==
  ASSUME IndInv, NEW k \in Items, TestError(k)
  PROVE  IndInv'
<1>0. /\ TypeOK /\ TasksInv /\ ErrorInv
      /\ op' = op /\ callee' = callee /\ phase' = phase /\ i' = i /\ answer' = answer
      /\ error' = error /\ written' = written /\ retained' = retained /\ Items' = Items
      /\ task[k] = "failed" /\ callee[k] = "error"
  BY DEF IndInv, Items, TestError, TasksInv
<1>1. /\ task' \in [Items -> States]
      /\ \A j \in Items : j # k => task'[j] = task[j]
      /\ task'[k] = "called"
  <2>1. task \in [Items -> States] /\ "called" \in States
    BY <1>0 DEF TypeOK, States
  <2> QED
    BY <2>1 DEF TestError
<1>2. /\ uncopied' \in [Items -> SUBSET Halves]
      /\ \A j \in Items : j # k => uncopied'[j] = uncopied[j]
      /\ uncopied'[k] = IF error["type"] = None THEN Halves ELSE {}
  <2>1. uncopied \in [Items -> SUBSET Halves]
    BY <1>0 DEF TypeOK
  <2> QED
    BY <2>1 DEF TestError
<1>3. TypeOK'
  BY <1>0, <1>1, <1>2 DEF TypeOK
<1>4. TasksInv'
  BY <1>0, <1>1, <1>2 DEF TasksInv
<1>5. ErrorInv'
  <2>1. \A h \in Halves : error[h] # None => error[h] \in Items
    BY <1>0, Types
  <2>2. \A h \in Halves : error'[h] # None => Reported(error[h])'
    BY <1>0, <1>1, <2>1 DEF ErrorInv, Reported
  <2>3. uncopied[k] = {}
    BY <1>0 DEF TasksInv
  <2>4. \A h \in Halves : error[h] # None \/ \E j \in Items : h \in uncopied'[j]
    <3>1. CASE error["type"] = None
      BY <1>2, <3>1
    <3>2. CASE error["type"] # None
      <4>1. "type" \in Halves
        BY DEF Halves
      <4>2. \A h \in Halves : error[h] # None \/ \E j \in Items : h \in uncopied[j]
        BY <1>0, <2>1, <3>2, <4>1 DEF ErrorInv
      <4> QED
        BY <1>2, <2>3, <4>2
    <3> QED
      BY <3>1, <3>2
  <2> QED
    BY <1>0, <2>2, <2>4 DEF ErrorInv
<1>6. PhaseInv' /\ AnswerInv' /\ RetainedInv'
  BY <1>0, <1>1, TaskSteps
<1> QED
  BY <1>3, <1>4, <1>5, <1>6 DEF IndInv

(* A failed task stores one half of its error (standard.c:111).             *)
LEMMA CopyErrorStep ==
  ASSUME IndInv, NEW k \in Items, CopyError(k)
  PROVE  IndInv'
<1>0. /\ TypeOK /\ TasksInv /\ ErrorInv
      /\ op' = op /\ callee' = callee /\ phase' = phase /\ i' = i /\ answer' = answer
      /\ task' = task /\ written' = written /\ retained' = retained /\ Items' = Items
      /\ task[k] = "called"
  BY DEF IndInv, Items, CopyError
<1>1. PICK h \in uncopied[k] : /\ error' = [error EXCEPT ![h] = k]
                               /\ uncopied' = [uncopied EXCEPT ![k] = @ \ {h}]
  BY DEF CopyError
<1>2. /\ callee[k] = "error" /\ Reported(k)
      /\ h \in Halves /\ k # None
  BY <1>0, Types DEF TasksInv, Reported
<1>3. /\ error' \in [Halves -> Items \cup {None}]
      /\ error'[h] = k
      /\ \A g \in Halves : g # h => error'[g] = error[g]
  <2>1. error \in [Halves -> Items \cup {None}]
    BY <1>0 DEF TypeOK
  <2> QED
    BY <1>1, <1>2, <2>1
<1>4. /\ uncopied' \in [Items -> SUBSET Halves]
      /\ \A j \in Items : j # k => uncopied'[j] = uncopied[j]
      /\ uncopied'[k] = uncopied[k] \ {h}
  <2>1. uncopied \in [Items -> SUBSET Halves]
    BY <1>0 DEF TypeOK
  <2> QED
    BY <1>1, <2>1
<1>5. TypeOK'
  BY <1>0, <1>3, <1>4 DEF TypeOK
<1>6. TasksInv'
  BY <1>0, <1>2, <1>4 DEF TasksInv
<1>7. \A j : Reported(j)' <=> Reported(j)
  BY <1>0 DEF Reported
<1>8. ErrorInv'
  <2>1. \A g \in Halves : error'[g] # None => Reported(error'[g])
    BY <1>0, <1>2, <1>3 DEF ErrorInv
  <2>2. \A g \in Halves : error'[g] # None \/ \E j \in Items : g \in uncopied'[j]
    <3> SUFFICES ASSUME NEW g \in Halves PROVE error'[g] # None \/ \E j \in Items : g \in uncopied'[j]
      OBVIOUS
    <3>1. CASE g = h
      BY <1>2, <1>3, <3>1
    <3>2. CASE g # h
      <4>1. error[g] # None \/ \E j \in Items : g \in uncopied[j]
        BY <1>0, <1>2 DEF ErrorInv
      <4> QED
        BY <1>3, <1>4, <3>2, <4>1
    <3> QED
      BY <3>1, <3>2
  <2>3. \A g \in Halves : Reported(error[g])' <=> Reported(error'[g])
    BY <1>0 DEF Reported
  <2> QED
    BY <1>0, <1>7, <2>1, <2>2, <2>3 DEF ErrorInv
<1>9. PhaseInv' /\ AnswerInv' /\ RetainedInv'
  BY <1>0, TaskSteps
<1> QED
  BY <1>5, <1>6, <1>8, <1>9 DEF IndInv

(* A task gives its slot back (task.c:98-101).                              *)
LEMMA FinishStep ==
  ASSUME IndInv, NEW k \in Items, Finish(k)
  PROVE  IndInv'
<1>0. /\ TypeOK /\ TasksInv /\ ErrorInv
      /\ op' = op /\ callee' = callee /\ phase' = phase /\ i' = i /\ answer' = answer
      /\ error' = error /\ written' = written /\ retained' = retained /\ uncopied' = uncopied
      /\ Items' = Items /\ task[k] = "called" /\ uncopied[k] = {}
  BY DEF IndInv, Items, Finish
<1>1. /\ task' \in [Items -> States]
      /\ \A j \in Items : j # k => task'[j] = task[j]
      /\ task'[k] = "finished"
  <2>1. task \in [Items -> States] /\ "finished" \in States
    BY <1>0 DEF TypeOK, States
  <2> QED
    BY <2>1 DEF Finish
<1>2. TypeOK'
  BY <1>0, <1>1 DEF TypeOK
<1>3. TasksInv'
  BY <1>0, <1>1 DEF TasksInv
<1>4. \A j \in Items : Reported(j)' <=> Reported(j)
  BY <1>0, <1>1 DEF Reported
<1>5. ErrorInv'
  <2>1. \A h \in Halves : error[h] # None => error[h] \in Items
    BY <1>0, Types
  <2> QED
    BY <1>0, <1>4, <2>1 DEF ErrorInv
<1>6. PhaseInv' /\ AnswerInv' /\ RetainedInv'
  BY <1>0, <1>1, TaskSteps
<1> QED
  BY <1>2, <1>3, <1>5, <1>6 DEF IndInv

(* The call begins with no task and nothing collected.                      *)
LEMMA InitInv == Init => IndInv
<1> SUFFICES ASSUME Init PROVE IndInv
  OBVIOUS
<1>1. PICK n \in 0 .. MaxLength : callee \in [1 .. n -> Verdicts]
  BY DEF Init
<1>2. n \in Nat /\ callee \in Seq(Verdicts) /\ Len(callee) = n /\ Items = 1 .. n
  BY <1>1, ParallelSeqAssumption DEF Items
<1>3. /\ i = 1 /\ written = {} /\ retained = {} /\ answer = <<>>
      /\ task = [k \in Items |-> "new"] /\ uncopied = [k \in Items |-> {}]
      /\ error = [h \in Halves |-> None] /\ op \in {"map", "filter", "find"}
      /\ phase = IF Len(callee) < Threshold THEN "loop" ELSE "fork"
  BY DEF Init
<1>4. TypeOK
  BY <1>2, <1>3 DEF TypeOK, Phases, States
<1>5. TasksInv /\ ErrorInv
  BY <1>3 DEF TasksInv, ErrorInv, Reported
<1>6. PhaseInv
  BY <1>2, <1>3, ParallelSeqAssumption DEF PhaseInv
<1>7. AnswerInv
  <2>1. Kept
    BY <1>2, <1>3 DEF Kept, Places, Truthy, InOrder
  <2>2. NoneYet
    BY <1>2, <1>3 DEF NoneYet, Truthy
  <2>3. Len(answer) = i - 1 /\ DOMAIN answer = {} /\ \A k \in Items : ~(k < i)
    BY <1>2, <1>3
  <2> QED
    BY <1>3, <2>1, <2>2, <2>3 DEF AnswerInv, SameItemsAsTheLoop, ErrorsSurface
<1>8. RetainedInv
  BY <1>3 DEF RetainedInv
<1> QED
  BY <1>4, <1>5, <1>6, <1>7, <1>8 DEF IndInv

(* A loop that keeps the items with truthy results keeps the next one too.  *)
LEMMA Keeps ==
  ASSUME TypeOK, Kept, i <= Len(callee), callee' = callee, i' = i + 1,
         answer' = IF callee[i] = "truthy" THEN Append(answer, Item(i)) ELSE answer
  PROVE  Kept' /\ answer' \in Seq(Kinds \X Items)
<1>1. /\ Items = 1 .. Len(callee) /\ i \in Items /\ Items' = Items /\ Truthy' = Truthy
      /\ DOMAIN answer = 1 .. Len(answer) /\ Len(answer) \in Nat /\ Items \subseteq Nat
      /\ answer \in Seq(Kinds \X Items)
      /\ i \in Nat
  BY Types DEF Truthy, Items, TypeOK
<1>2. /\ Item(i) \in Kinds \X Items /\ Item(i)[2] = i
  BY <1>1 DEF Item, Kinds
<1>3. \A k \in Items : k < i + 1 <=> k < i \/ k = i
  BY <1>1
<1>4. CASE callee[i] # "truthy"
  <2>1. answer' = answer /\ i \notin Truthy
    BY <1>4 DEF Truthy
  <2>2. {k \in Truthy : k < i + 1} = {k \in Truthy : k < i}
    BY <1>3, <2>1 DEF Truthy
  <2>3. Places' = Places /\ InOrder' /\ \A n \in DOMAIN answer' : answer'[n] = Item(Place(n))'
    BY <2>1 DEF Kept, Places, Place, InOrder, Item
  <2> QED
    BY <1>1, <2>1, <2>2, <2>3 DEF Kept
<1>5. CASE callee[i] = "truthy"
  <2>0. PICK L \in Nat : L = Len(answer)
    BY <1>1
  <2>1. /\ answer' \in Seq(Kinds \X Items) /\ DOMAIN answer' = 1 .. L + 1
        /\ \A n \in DOMAIN answer : answer'[n] = answer[n]
        /\ answer'[L + 1] = Item(i)
    BY <1>1, <1>2, <1>5, <2>0
  <2>2. /\ \A n \in DOMAIN answer : n \in DOMAIN answer' /\ Place(n)' = Place(n)
        /\ L + 1 \in DOMAIN answer' /\ Place(L + 1)' = i
        /\ \A n \in DOMAIN answer' : n \in DOMAIN answer \/ n = L + 1
        /\ \A n \in DOMAIN answer : n < L + 1
    <3>1. DOMAIN answer = 1 .. L
      BY <1>1, <2>0
    <3> QED
      BY <1>2, <2>1, <3>1 DEF Place
  <2>3. i \in Truthy
    BY <1>1, <1>5 DEF Truthy
  <2>4. Places = {k \in Truthy : k < i}
    BY DEF Kept
  <2>5. Places' = Places \cup {i}
    <3>1. Places' = {Place(n)' : n \in DOMAIN answer'}
      BY DEF Places
    <3> QED
      BY <2>2, <3>1 DEF Places
  <2>6. {k \in Truthy : k < i + 1} = {k \in Truthy : k < i} \cup {i}
    BY <1>3, <2>3 DEF Truthy
  <2>7. InOrder'
    <3> SUFFICES ASSUME NEW m \in DOMAIN answer', NEW n \in DOMAIN answer', m < n
                 PROVE  Place(m)' < Place(n)'
      BY DEF InOrder
    <3>1. m \in DOMAIN answer
      BY <2>0, <2>1, <2>2
    <3>2. CASE n \in DOMAIN answer
      BY <2>2, <3>1, <3>2 DEF Kept, InOrder
    <3>3. CASE n = L + 1
      <4>1. Place(m) < i
        BY <2>4, <3>1 DEF Places
      <4> QED
        BY <2>2, <3>1, <3>3, <4>1
    <3> QED
      BY <2>2, <3>2, <3>3
  <2>8. \A n \in DOMAIN answer' : answer'[n] = Item(Place(n)')
    <3>1. \A n \in DOMAIN answer : answer[n] = Item(Place(n))
      BY DEF Kept
    <3> QED
      BY <2>1, <2>2, <3>1
  <2> QED
    BY <1>1, <2>1, <2>4, <2>5, <2>6, <2>7, <2>8 DEF Kept, Item
<1> QED
  BY <1>4, <1>5

(* Nothing found so far.                                                    *)
LEMMA FindsNone ==
  ASSUME TypeOK, NoneYet, callee' = callee, answer' = answer, i' = i + 1, callee[i] # "truthy"
  PROVE  NoneYet'
<1>1. \A k \in Truthy : k \in Nat /\ i <= k /\ k # i
  BY Types DEF NoneYet, Truthy
<1>2. \A k \in Truthy : i + 1 <= k
  BY <1>1, Types
<1>3. Truthy' = Truthy
  BY DEF Truthy, Items
<1> QED
  BY <1>2, <1>3 DEF NoneYet

(* The first truthy item is found.                                          *)
LEMMA Finds ==
  ASSUME TypeOK, NoneYet, callee' = callee, i \in Items, callee[i] = "truthy",
         NEW kind \in {"item", "result"}, answer' = <<<<kind, i>>>>
  PROVE  /\ Len(answer') <= 1
         /\ Places' = {k \in Truthy' : \A l \in Truthy' : k <= l}
         /\ \A n \in DOMAIN answer' : answer'[n][1] # "garbage"
         /\ kind = "item" => \A n \in DOMAIN answer' : answer'[n] = Item(Place(n)')
         /\ answer' \in Seq(Kinds \X Items)
<1>1. Truthy' = Truthy /\ i \in Truthy /\ i \in Nat /\ Truthy \subseteq Nat /\ \A k \in Truthy : i <= k
  BY Types DEF Truthy, Items, NoneYet
<1>2. <<kind, i>> \in Kinds \X Items /\ <<kind, i>>[1] = kind /\ <<kind, i>>[2] = i
  BY DEF Kinds
<1>3. answer' \in Seq(Kinds \X Items) /\ Len(answer') = 1 /\ DOMAIN answer' = {1} /\ answer'[1] = <<kind, i>>
  BY <1>2
<1>4. Places' = {i}
  BY <1>2, <1>3 DEF Places, Place
<1>5. {k \in Truthy : \A l \in Truthy : k <= l} = {i}
  <2>1. i \in {k \in Truthy : \A l \in Truthy : k <= l}
    BY <1>1
  <2>2. \A k \in Truthy : k <= i => k = i
    BY <1>1
  <2>3. \A k \in Truthy : (\A l \in Truthy : k <= l) => k <= i
    BY <1>1
  <2> QED
    BY <2>1, <2>2, <2>3
<1>6. Places' = {k \in Truthy' : \A l \in Truthy' : k <= l}
  BY <1>1, <1>4, <1>5
<1>7. \A n \in DOMAIN answer' : answer'[n][1] # "garbage"
  BY <1>2, <1>3
<1>8. kind = "item" => \A n \in DOMAIN answer' : answer'[n] = Item(Place(n)')
  BY <1>2, <1>3 DEF Item, Place
<1> QED
  BY <1>3, <1>6, <1>7, <1>8

(* The loop over the items found nothing.                                   *)
LEMMA NothingFound ==
  ASSUME TypeOK, NoneYet, i > Len(callee)
  PROVE  Truthy = {} /\ Places = {} /\ Len(answer) = 0 /\ DOMAIN answer = {}
<1>1. Truthy = {}
  BY Types DEF NoneYet, Truthy
<1> QED
  BY <1>1 DEF NoneYet, Places

(* Steps of the caller's that leave the tasks and the error alone.          *)
LEMMA CallerSteps ==
  ASSUME TypeOK, TasksInv, ErrorInv, UNCHANGED <<op, callee, error, taskVars>>, retained' \subseteq retained,
         phase' \in Phases, i' \in 1 .. Len(callee) + 1, answer' \in Seq(Kinds \X Items)
  PROVE  TypeOK' /\ TasksInv' /\ ErrorInv'
<1>0. /\ op' = op /\ callee' = callee /\ error' = error /\ task' = task /\ written' = written
      /\ uncopied' = uncopied /\ Items' = Items
  BY DEF taskVars, Items
<1>1. TypeOK'
  BY <1>0 DEF TypeOK
<1>2. TasksInv'
  BY <1>0 DEF TasksInv
<1>3. ErrorInv'
  BY <1>0 DEF ErrorInv, Reported
<1> QED
  BY <1>1, <1>2, <1>3

(* The sequential loop for a short list.                                    *)
LEMMA LoopStep ==
  ASSUME IndInv, Loop
  PROVE  IndInv'
<1>0. /\ TypeOK /\ TasksInv /\ ErrorInv /\ PhaseInv /\ AnswerInv
      /\ op' = op /\ callee' = callee /\ error' = error /\ task' = task /\ written' = written
      /\ uncopied' = uncopied /\ retained' = retained /\ Items' = Items /\ Joined(0) \in BOOLEAN
      /\ UNCHANGED <<op, callee, error, taskVars>> /\ retained' \subseteq retained
  BY DEF IndInv, Loop, taskVars, Items, Joined
<1>1. /\ phase = "loop" /\ Len(callee) < Threshold
      /\ \A k \in Items : task[k] = "new"
      /\ Items = 1 .. Len(callee) /\ Len(callee) \in Nat /\ i \in Nat /\ 1 <= i /\ i <= Len(callee) + 1
      /\ op \in {"map", "filter", "find"} /\ answer \in Seq(Kinds \X Items)
      /\ \A k \in Items : callee[k] \in Verdicts
  BY <1>0, Types DEF Loop, PhaseInv, TypeOK
<1>2. retained = {}
  BY <1>0, <1>1 DEF TasksInv, TypeOK
<1>3. /\ \A k \in Items : k < i => callee[k] # "error"
      /\ op = "map" => Len(answer) = i - 1 /\ \A n \in DOMAIN answer : answer[n] = <<"result", n>>
      /\ op = "filter" => Kept
      /\ op = "find" => NoneYet
  BY <1>0, <1>1 DEF AnswerInv
<1>4. ASSUME phase' \in {"loop", "thrown", "returned"}
      PROVE  PhaseInv' /\ RetainedInv'
  BY <1>0, <1>1, <1>2, <1>4 DEF PhaseInv, RetainedInv
<1>5. CASE i <= Len(callee) /\ callee[i] = "error" /\ phase' = "thrown" /\ UNCHANGED <<i, answer>>
  <2>1. TypeOK' /\ TasksInv' /\ ErrorInv'
    BY <1>0, <1>1, <1>5, CallerSteps DEF Phases
  <2>2. AnswerInv'
    BY <1>5 DEF AnswerInv, SameItemsAsTheLoop, ErrorsSurface
  <2> QED
    BY <1>4, <1>5, <2>1, <2>2 DEF IndInv
<1>6. CASE i > Len(callee) /\ phase' = "returned" /\ UNCHANGED <<i, answer>>
  <2>1. TypeOK' /\ TasksInv' /\ ErrorInv'
    BY <1>0, <1>1, <1>6, CallerSteps DEF Phases
  <2>2. i = Len(callee) + 1 /\ \A k \in Items : callee[k] # "error" /\ k < i
    BY <1>1, <1>3, <1>6
  <2>3. op = "map" => answer = [k \in Items |-> <<"result", k>>]
    <3> HAVE op = "map"
    <3>1. DOMAIN answer = Items /\ \A n \in DOMAIN answer : answer[n] = <<"result", n>>
      BY <1>0, <1>1, <1>3, <2>2, Types
    <3> QED
      BY <1>1, <3>1
  <2>4. op = "filter" => Places = Truthy /\ InOrder /\ \A n \in DOMAIN answer : answer[n] = Item(Place(n))
    BY <1>3, <2>2 DEF Kept, Truthy
  <2>5. op = "find" => /\ Len(answer) <= 1
                       /\ Places = {k \in Truthy : \A l \in Truthy : k <= l}
                       /\ \A n \in DOMAIN answer :
                            answer[n][1] # "garbage" /\ answer[n] = Item(Place(n))
    BY <1>0, <1>3, <1>6, NothingFound
  <2>6. AnswerInv'
    BY <1>0, <1>6, <2>2, <2>3, <2>4, <2>5
       DEF AnswerInv, SameItemsAsTheLoop, ErrorsSurface, Places, Place, InOrder, Truthy, Items, Item
  <2> QED
    BY <1>4, <1>6, <2>1, <2>6 DEF IndInv
<1>7. CASE /\ i <= Len(callee) /\ callee[i] # "error"
           /\ answer' = answer \o LoopAdds(i)
           /\ i' = i + 1
           /\ phase' = IF op = "find" /\ callee[i] = "truthy" THEN "returned" ELSE "loop"
  <2>0. i \in Items /\ i' \in 1 .. Len(callee) + 1
    BY <1>1, <1>7
  <2>1. \A k \in Items : k < i + 1 => callee[k] # "error"
    BY <1>1, <1>3, <1>7
  <2>2. answer \o <<>> = answer /\ \A x \in Kinds \X Items : answer \o <<x>> = Append(answer, x)
    BY <1>1
  <2>3. CASE op = "map"
    <3>1. <<"result", i>> \in Kinds \X Items
      BY <2>0 DEF Kinds
    <3>2. answer' = Append(answer, <<"result", i>>) /\ phase' = "loop"
      BY <1>7, <2>2, <2>3, <3>1 DEF LoopAdds
    <3>3. answer' \in Seq(Kinds \X Items) /\ Len(answer') = i /\ \A n \in DOMAIN answer' : answer'[n] = <<"result", n>>
      BY <1>1, <1>3, <2>3, <3>1, <3>2
    <3>4. TypeOK' /\ TasksInv' /\ ErrorInv'
      BY <1>0, <2>0, <3>2, <3>3, CallerSteps DEF Phases
    <3>5. AnswerInv'
      BY <1>0, <1>1, <1>7, <2>1, <2>3, <3>2, <3>3 DEF AnswerInv, SameItemsAsTheLoop, ErrorsSurface
    <3> QED
      BY <1>4, <3>2, <3>4, <3>5 DEF IndInv
  <2>4. CASE op = "filter"
    <3>1. Item(i) \in Kinds \X Items
      BY <2>0 DEF Kinds, Item
    <3>2. answer' = (IF callee[i] = "truthy" THEN Append(answer, Item(i)) ELSE answer) /\ phase' = "loop"
      BY <1>7, <2>2, <2>4, <3>1 DEF LoopAdds
    <3>3. Kept' /\ answer' \in Seq(Kinds \X Items)
      BY <1>0, <1>3, <1>7, <2>4, <3>2, Keeps
    <3>4. TypeOK' /\ TasksInv' /\ ErrorInv'
      BY <1>0, <2>0, <3>2, <3>3, CallerSteps DEF Phases
    <3>5. AnswerInv'
      BY <1>0, <1>1, <1>7, <2>1, <2>4, <3>2, <3>3 DEF AnswerInv, SameItemsAsTheLoop, ErrorsSurface
    <3> QED
      BY <1>4, <3>2, <3>4, <3>5 DEF IndInv
  <2>5. CASE op = "find" /\ callee[i] # "truthy"
    <3>1. answer' = answer /\ phase' = "loop"
      BY <1>7, <2>2, <2>5 DEF LoopAdds
    <3>2. NoneYet'
      BY <1>0, <1>3, <1>7, <2>5, <3>1, FindsNone
    <3>3. TypeOK' /\ TasksInv' /\ ErrorInv'
      BY <1>0, <1>1, <2>0, <3>1, CallerSteps DEF Phases
    <3>4. AnswerInv'
      BY <1>0, <1>1, <1>7, <2>1, <2>5, <3>1, <3>2 DEF AnswerInv, SameItemsAsTheLoop, ErrorsSurface
    <3> QED
      BY <1>4, <3>1, <3>3, <3>4 DEF IndInv
  <2>6. CASE op = "find" /\ callee[i] = "truthy"
    <3>1. answer' = <<<<"item", i>>>> /\ phase' = "returned"
      <4>1. answer = <<>>
        BY <1>3, <2>6 DEF NoneYet
      <4>2. LoopAdds(i) = <<<<"item", i>>>>
        BY <2>6 DEF LoopAdds, Item
      <4> QED
        BY <1>7, <2>6, <4>1, <4>2
    <3>2. /\ Len(answer') <= 1
          /\ Places' = {k \in Truthy' : \A l \in Truthy' : k <= l}
          /\ \A n \in DOMAIN answer' : answer'[n][1] # "garbage"
          /\ \A n \in DOMAIN answer' : answer'[n] = Item(Place(n)')
          /\ answer' \in Seq(Kinds \X Items)
      BY <1>0, <1>3, <2>0, <2>6, <3>1, Finds
    <3>3. TypeOK' /\ TasksInv' /\ ErrorInv'
      BY <1>0, <2>0, <3>1, <3>2, CallerSteps DEF Phases
    <3>4. AnswerInv'
      <4>1. ~(Len(callee) >= Threshold)
        BY <1>1, ParallelSeqAssumption
      <4> QED
        BY <1>0, <2>6, <3>1, <3>2, <4>1 DEF Item, AnswerInv, SameItemsAsTheLoop, ErrorsSurface
    <3> QED
      BY <1>4, <3>1, <3>3, <3>4 DEF IndInv
  <2> QED
    BY <1>1, <2>3, <2>4, <2>5, <2>6
<1> QED
  BY <1>5, <1>6, <1>7 DEF Loop

(* The caller forks a task, or makes the call itself.                       *)
LEMMA ForkStep ==
  ASSUME IndInv, Fork
  PROVE  IndInv'
<1>0. /\ TypeOK /\ TasksInv /\ ErrorInv /\ PhaseInv /\ AnswerInv /\ RetainedInv
      /\ op' = op /\ callee' = callee /\ error' = error /\ answer' = answer
      /\ uncopied' = uncopied /\ Items' = Items
  BY DEF IndInv, Fork, Items
<1>1. /\ phase = "fork" /\ i \in Items /\ i \in Nat /\ Items = 1 .. Len(callee)
      /\ i + 1 \in 1 .. Len(callee) + 1
      /\ answer = <<>> /\ task \in [Items -> States]
  BY <1>0, Types DEF Fork, TypeOK, AnswerInv
<1>2. \A k \in Items : task[k] = "new" <=> i <= k
  BY <1>0, <1>1 DEF PhaseInv
<1>3. \A k \in Items : i + 1 <= k <=> i <= k /\ k # i
  BY <1>1
<1>4. task[i] = "new" /\ ~Reported(i) /\ uncopied[i] = {} /\ i \notin written
  <2>1. task[i] = "new"
    BY <1>1, <1>2
  <2> QED
    BY <1>0, <1>1, <2>1 DEF Reported, TasksInv
<1>5. \A h \in Halves : error[h] # None => error[h] \in Items
  BY <1>0, Types
<1>6. ASSUME NEW state \in {"queued", "inline"}, task' = [task EXCEPT ![i] = state]
      PROVE  /\ task' \in [Items -> States]
             /\ task'[i] = state
             /\ \A k \in Items : k # i => task'[k] = task[k]
             /\ \A k \in Items : Reported(k)' <=> Reported(k)
             /\ ErrorInv'
             /\ phase' = phase /\ i' = i + 1 => PhaseInv'
  <2>1. /\ task' \in [Items -> States] /\ task'[i] = state
        /\ \A k \in Items : k # i => task'[k] = task[k]
    BY <1>1, <1>6 DEF States
  <2>2. ASSUME NEW k \in Items PROVE Reported(k)' <=> Reported(k)
    <3>1. CASE k = i
      BY <1>0, <1>4, <2>1, <3>1 DEF Reported
    <3>2. CASE k # i
      BY <1>0, <2>1, <3>2 DEF Reported
    <3> QED
      BY <3>1, <3>2
  <2>3. ErrorInv'
    BY <1>0, <1>5, <2>2 DEF ErrorInv
  <2>4. ASSUME phase' = phase, i' = i + 1 PROVE PhaseInv'
    <3>1. \A k \in Items : task'[k] = "new" <=> i + 1 <= k
      BY <1>2, <1>3, <2>1
    <3> QED
      BY <1>0, <1>1, <2>4, <3>1 DEF PhaseInv
  <2> QED
    BY <2>1, <2>2, <2>3, <2>4
<1>7. ASSUME phase' \in {"fork", "thrown"} PROVE AnswerInv' /\ RetainedInv'
  BY <1>0, <1>1, <1>7 DEF AnswerInv, SameItemsAsTheLoop, ErrorsSurface, RetainedInv
<1>8. CASE /\ task' = [task EXCEPT ![i] = "queued"]
           /\ i' = i + 1
           /\ UNCHANGED <<phase, written, retained>>
  <2>1. TypeOK'
    BY <1>0, <1>1, <1>6, <1>8 DEF TypeOK
  <2>2. TasksInv'
    BY <1>0, <1>4, <1>6, <1>8 DEF TasksInv
  <2> QED
    BY <1>1, <1>6, <1>7, <1>8, <2>1, <2>2 DEF IndInv
<1>9. CASE /\ callee[i] # "error"
           /\ task' = [task EXCEPT ![i] = "inline"]
           /\ written' = written \cup {i}
           /\ retained' = retained \cup {i}
           /\ i' = i + 1
           /\ UNCHANGED phase
  <2>1. TypeOK'
    BY <1>0, <1>1, <1>6, <1>9 DEF TypeOK
  <2>2. TasksInv'
    BY <1>0, <1>4, <1>6, <1>9 DEF TasksInv
  <2> QED
    BY <1>1, <1>6, <1>7, <1>9, <2>1, <2>2 DEF IndInv
<1>10. CASE /\ callee[i] = "error"
            /\ phase' = "thrown"
            /\ UNCHANGED <<i, task, written, retained>>
  <2>1. TypeOK'
    BY <1>0, <1>10 DEF TypeOK, Phases
  <2>2. TasksInv' /\ ErrorInv'
    BY <1>0, <1>10 DEF TasksInv, ErrorInv, Reported
  <2>3. PhaseInv'
    BY <1>10 DEF PhaseInv
  <2> QED
    BY <1>7, <1>10, <2>1, <2>2, <2>3 DEF IndInv
<1> QED
  BY <1>8, <1>9, <1>10 DEF Fork

(* The caller begins to join.                                               *)
LEMMA ForkEndsStep ==
  ASSUME IndInv, ForkEnds
  PROVE  IndInv'
<1>0. /\ TypeOK /\ TasksInv /\ ErrorInv /\ PhaseInv /\ AnswerInv /\ RetainedInv
      /\ op' = op /\ callee' = callee /\ error' = error /\ task' = task /\ written' = written
      /\ uncopied' = uncopied /\ retained' = retained /\ answer' = answer /\ Items' = Items
      /\ phase = "fork" /\ phase' = "join" /\ i' = 1 /\ i > Len(callee)
      /\ UNCHANGED <<op, callee, error, taskVars>>
  BY DEF IndInv, ForkEnds, taskVars, Items
<1>1. /\ Items = 1 .. Len(callee) /\ Len(callee) \in Nat /\ answer = <<>> /\ i \in Nat
      /\ \A k \in Items : task[k] # "new" /\ ~(k < 1) /\ 1 <= k
      /\ retained \subseteq Items
  BY <1>0, Types DEF PhaseInv, AnswerInv, TypeOK
<1>2. TypeOK' /\ TasksInv' /\ ErrorInv'
  BY <1>0, <1>1, CallerSteps DEF Phases
<1>3. PhaseInv' /\ RetainedInv'
  BY <1>0, <1>1 DEF PhaseInv, RetainedInv
<1>4. AnswerInv'
  BY <1>0, <1>1 DEF AnswerInv, SameItemsAsTheLoop, ErrorsSurface
<1> QED
  BY <1>2, <1>3, <1>4 DEF IndInv

(* A release gives up no flag that it should not, or one too many.          *)
LEMMA Releases ==
  ASSUME TasksInv, NEW k, NEW kept \in Released(k)
  PROVE  kept \subseteq retained /\ k \notin kept
<1>1. CASE k \in written
  BY <1>1 DEF Released
<1>2. CASE k \notin written
  <2>1. k \notin retained
    BY <1>2 DEF TasksInv
  <2>2. kept \subseteq retained
    BY <1>2 DEF Released
  <2> QED
    BY <2>1, <2>2
<1> QED
  BY <1>1, <1>2

(* The caller joins the next task; map takes its result.                    *)
LEMMA JoinStep ==
  ASSUME IndInv, Join
  PROVE  IndInv'
<1>0. /\ TypeOK /\ TasksInv /\ ErrorInv /\ PhaseInv /\ AnswerInv /\ RetainedInv
      /\ op' = op /\ callee' = callee /\ error' = error /\ task' = task /\ written' = written
      /\ uncopied' = uncopied /\ phase' = phase /\ Items' = Items
      /\ phase = "join" /\ i' = i + 1 /\ i <= Len(callee) /\ Joined(i)
      /\ UNCHANGED <<op, callee, error, taskVars>>
  BY DEF IndInv, Join, taskVars, Items
<1>1. /\ Items = 1 .. Len(callee) /\ Len(callee) \in Nat /\ i \in Items /\ i \in Nat
      /\ i + 1 \in 1 .. Len(callee) + 1
      /\ \A k \in Items : k < i + 1 <=> k < i \/ k = i
      /\ \A k \in Items : i + 1 <= k <=> i <= k /\ k # i
      /\ retained \subseteq Items /\ answer \in Seq(Kinds \X Items)
  BY <1>0, Types DEF TypeOK
<1>2. PhaseInv'
  BY <1>0, <1>1 DEF PhaseInv, Joined
<1>3. CASE op = "map"
  <2>1. answer' = Append(answer, Result(i)) /\ retained' \subseteq retained /\ i \notin retained'
    BY <1>0, <1>3, Releases DEF Join
  <2>2. /\ Len(answer) = i - 1
        /\ \A n \in DOMAIN answer : callee[n] # "error" => answer[n] = <<"result", n>>
    BY <1>0, <1>3 DEF AnswerInv
  <2>3. Result(i) \in Kinds \X Items
    BY <1>1 DEF Result, Kinds
  <2>4. callee[i] # "error" => Result(i) = <<"result", i>>
    BY <1>0, <1>1 DEF TasksInv, Joined, Result
  <2>5. /\ answer' \in Seq(Kinds \X Items) /\ Len(answer') = i
        /\ \A n \in DOMAIN answer' : callee[n] # "error" => answer'[n] = <<"result", n>>
    BY <1>1, <2>1, <2>2, <2>3, <2>4
  <2>6. TypeOK' /\ TasksInv' /\ ErrorInv'
    <3>1. phase \in Phases /\ retained' \subseteq retained
      BY <1>0, <2>1 DEF TypeOK
    <3> QED
      BY <1>0, <1>1, <2>5, <3>1, CallerSteps
  <2>7. AnswerInv'
    BY <1>0, <1>1, <1>3, <2>5 DEF AnswerInv, SameItemsAsTheLoop, ErrorsSurface
  <2>8. RetainedInv'
    BY <1>0, <1>1, <1>3, <2>1 DEF RetainedInv
  <2> QED
    BY <1>2, <2>6, <2>7, <2>8 DEF IndInv
<1>4. CASE op # "map"
  <2>1. answer' = answer /\ retained' = retained
    BY <1>4 DEF Join
  <2>2. TypeOK' /\ TasksInv' /\ ErrorInv'
    <3>1. phase \in Phases
      BY <1>0 DEF TypeOK
    <3> QED
      BY <1>0, <1>1, <2>1, <3>1, CallerSteps
  <2>3. AnswerInv' /\ RetainedInv'
    BY <1>0, <1>4, <2>1 DEF AnswerInv, SameItemsAsTheLoop, ErrorsSurface, RetainedInv
  <2> QED
    BY <1>2, <2>2, <2>3 DEF IndInv
<1> QED
  BY <1>3, <1>4

(* When the loop of joins ends every task has been joined.                  *)
LEMMA JoinedAll ==
  ASSUME IndInv, JoinEnds
  PROVE  /\ \A k \in Items : Joined(k) /\ k < i
         /\ i = Len(callee) + 1
         /\ Len(callee) \in Nat /\ Items = 1 .. Len(callee)
<1>1. /\ Items = 1 .. Len(callee) /\ Len(callee) \in Nat /\ i \in Nat /\ i <= Len(callee) + 1
      /\ i > Len(callee)
  BY Types DEF IndInv, JoinEnds
<1> QED
  BY <1>1 DEF JoinEnds, IndInv, PhaseInv

(* map returns its list or rethrows.                                        *)
LEMMA MapEndsStep ==
  ASSUME IndInv, MapEnds
  PROVE  IndInv'
<1>0. /\ TypeOK /\ TasksInv /\ ErrorInv /\ PhaseInv /\ AnswerInv /\ RetainedInv
      /\ op' = op /\ callee' = callee /\ error' = error /\ task' = task /\ written' = written
      /\ uncopied' = uncopied /\ retained' = retained /\ answer' = answer /\ Items' = Items
      /\ phase = "join" /\ i' = i /\ op = "map" /\ JoinEnds
      /\ phase' = (IF Failed THEN "rethrown" ELSE "returned")
      /\ UNCHANGED <<op, callee, error, taskVars>>
  BY DEF IndInv, MapEnds, JoinEnds, Leave, taskVars, Items
<1>1. /\ \A k \in Items : Joined(k) /\ k < i
      /\ i = Len(callee) + 1 /\ Len(callee) \in Nat /\ Items = 1 .. Len(callee)
  BY <1>0, JoinedAll
<1>2. /\ ~Failed => \A k \in Items : callee[k] # "error" /\ k \in written
      /\ Failed => \A h \in Halves : error[h] # None /\ callee[error[h]] = "error"
  BY <1>0, <1>1, AllJoined
<1>3. TypeOK' /\ TasksInv' /\ ErrorInv'
  <2>1. phase' \in Phases /\ i' \in 1 .. Len(callee) + 1 /\ answer' \in Seq(Kinds \X Items)
    BY <1>0, <1>1 DEF Phases, TypeOK
  <2> QED
    BY <1>0, <2>1, CallerSteps
<1>4. PhaseInv'
  BY <1>0, <1>1 DEF PhaseInv, Joined, Failed
<1>5. RetainedInv'
  <2>1. retained = {}
    <3>1. retained \subseteq Items /\ \A k \in retained : i <= k
      BY <1>0 DEF RetainedInv, TypeOK
    <3> QED
      BY <1>1, <3>1
  <2> QED
    BY <1>0, <2>1 DEF RetainedInv
<1>6. ~Failed => answer = [k \in Items |-> <<"result", k>>]
  <2> HAVE ~Failed
  <2>1. Len(answer) = i - 1 /\ \A n \in DOMAIN answer : callee[n] # "error" => answer[n] = <<"result", n>>
    BY <1>0 DEF AnswerInv
  <2>2. DOMAIN answer = Items
    BY <1>0, <1>1, <2>1, Types
  <2>3. answer = [n \in DOMAIN answer |-> answer[n]]
    BY <1>0 DEF TypeOK
  <2> QED
    BY <1>2, <2>1, <2>2, <2>3
<1>7. AnswerInv'
  BY <1>0, <1>2, <1>6 DEF AnswerInv, SameItemsAsTheLoop, ErrorsSurface
<1> QED
  BY <1>3, <1>4, <1>5, <1>7 DEF IndInv

(* filter and find begin to look at the results.                            *)
LEMMA CollectBeginsStep ==
  ASSUME IndInv, CollectBegins
  PROVE  IndInv'
<1>0. /\ TypeOK /\ TasksInv /\ ErrorInv /\ PhaseInv /\ AnswerInv /\ RetainedInv
      /\ op' = op /\ callee' = callee /\ error' = error /\ task' = task /\ written' = written
      /\ uncopied' = uncopied /\ retained' = retained /\ answer' = answer /\ Items' = Items
      /\ phase = "join" /\ i' = 1 /\ op # "map" /\ JoinEnds
      /\ phase' = (IF op = "find" /\ Failed THEN "rethrown" ELSE "collect")
      /\ UNCHANGED <<op, callee, error, taskVars>>
      /\ op \in {"map", "filter", "find"}
  BY DEF IndInv, CollectBegins, JoinEnds, taskVars, Items, TypeOK
<1>1. /\ \A k \in Items : Joined(k) /\ k \in Nat /\ 1 <= k /\ ~(k < 1)
      /\ Len(callee) \in Nat
  BY <1>0, JoinedAll
<1>2. Failed => \A h \in Halves : error[h] # None /\ callee[error[h]] = "error"
  BY <1>0, <1>1, AllJoined
<1>3. answer = <<>> /\ DOMAIN answer = {}
  BY <1>0 DEF AnswerInv
<1>4. TypeOK' /\ TasksInv' /\ ErrorInv'
  <2>1. phase' \in Phases /\ i' \in 1 .. Len(callee) + 1 /\ answer' \in Seq(Kinds \X Items)
    BY <1>0, <1>1 DEF Phases, TypeOK
  <2> QED
    BY <1>0, <2>1, CallerSteps
<1>5. PhaseInv'
  BY <1>0, <1>1 DEF PhaseInv, Joined, Failed
<1>6. RetainedInv'
  <2>1. \A k \in retained : 1 <= k
    BY <1>0, <1>1 DEF TypeOK
  <2> QED
    BY <1>0, <2>1 DEF RetainedInv
<1>7. Kept' /\ NoneYet'
  <2>1. Truthy' = Truthy /\ Truthy \subseteq Items
    BY <1>0 DEF Truthy
  <2>2. {k \in Truthy : k < 1} = {} /\ \A k \in Truthy : 1 <= k
    BY <1>1, <2>1
  <2>3. Places' = {}
    BY <1>0, <1>3 DEF Places
  <2> QED
    BY <1>0, <1>3, <2>1, <2>2, <2>3 DEF Kept, NoneYet, InOrder
<1>8. AnswerInv'
  BY <1>0, <1>2, <1>7 DEF AnswerInv, SameItemsAsTheLoop, ErrorsSurface, Failed
<1> QED
  BY <1>4, <1>5, <1>6, <1>8 DEF IndInv

(* filter and find look at the next result.                                 *)
LEMMA CollectStep ==
  ASSUME IndInv, Collect
  PROVE  IndInv'
<1>0. /\ TypeOK /\ TasksInv /\ ErrorInv /\ PhaseInv /\ AnswerInv /\ RetainedInv
      /\ op' = op /\ callee' = callee /\ error' = error /\ task' = task /\ written' = written
      /\ uncopied' = uncopied /\ Items' = Items
      /\ phase = "collect" /\ i <= Len(callee)
      /\ UNCHANGED <<op, callee, error, taskVars>>
      /\ retained' \in (IF op = "filter" THEN Released(i) ELSE {retained})
  BY DEF IndInv, Collect, taskVars, Items
<1>1. /\ Items = 1 .. Len(callee) /\ Len(callee) \in Nat /\ i \in Items /\ i \in Nat
      /\ i \in 1 .. Len(callee) + 1 /\ i + 1 \in 1 .. Len(callee) + 1
      /\ \A k \in Items : i + 1 <= k <=> i <= k /\ k # i
      /\ retained \subseteq Items /\ answer \in Seq(Kinds \X Items)
      /\ retained' \subseteq retained /\ (op = "filter" => i \notin retained')
  BY <1>0, Types, Releases DEF TypeOK
<1>2. \A k \in Items : Joined(k)
  BY <1>0 DEF PhaseInv
<1>3. ~Failed => \A k \in Items : callee[k] # "error" /\ k \in written
  BY <1>0, <1>2, AllJoined
<1>4. PICK truthy \in Truthiness(i) :
        IF op = "find" /\ truthy
        THEN /\ answer' = <<Result(i)>>
             /\ phase' = "returned"
             /\ UNCHANGED i
        ELSE /\ answer' = IF truthy THEN Append(answer, Item(i)) ELSE answer
             /\ i' = i + 1
             /\ UNCHANGED phase
  BY DEF Collect
<1>5. ~Failed => truthy = (callee[i] = "truthy")
  BY <1>1, <1>3, <1>4 DEF Truthiness
<1>6. op \in {"filter", "find"}
  BY <1>0 DEF AnswerInv, TypeOK
<1>7. CASE op = "filter"
  <2>1. /\ answer' = IF truthy THEN Append(answer, Item(i)) ELSE answer
        /\ i' = i + 1 /\ phase' = phase
    BY <1>4, <1>7
  <2>2. answer' \in Seq(Kinds \X Items)
    <3>1. Item(i) \in Kinds \X Items
      BY <1>1 DEF Item, Kinds
    <3> QED
      BY <1>1, <2>1, <3>1
  <2>3. TypeOK' /\ TasksInv' /\ ErrorInv'
    <3>1. phase' \in Phases
      BY <1>0, <2>1 DEF Phases
    <3> QED
      BY <1>0, <1>1, <2>1, <2>2, <3>1, CallerSteps
  <2>4. ~Failed => Kept'
    <3> HAVE ~Failed
    <3>1. Kept
      BY <1>0, <1>7 DEF AnswerInv
    <3>2. answer' = IF callee[i] = "truthy" THEN Append(answer, Item(i)) ELSE answer
      BY <1>5, <2>1
    <3> QED
      BY <1>0, <2>1, <3>1, <3>2, Keeps
  <2>5. AnswerInv'
    BY <1>0, <1>7, <2>1, <2>4 DEF AnswerInv, SameItemsAsTheLoop, ErrorsSurface, Failed
  <2>6. PhaseInv'
    BY <1>0, <2>1 DEF PhaseInv, Joined
  <2>7. RetainedInv'
    BY <1>0, <1>1, <1>7, <2>1 DEF RetainedInv
  <2> QED
    BY <2>3, <2>5, <2>6, <2>7 DEF IndInv
<1>8. CASE op = "find"
  <2>1. ~Failed /\ NoneYet
    BY <1>0, <1>8 DEF AnswerInv
  <2>2. CASE truthy
    <3>1. answer' = <<Result(i)>> /\ phase' = "returned" /\ i' = i
      BY <1>4, <1>8, <2>2
    <3>2. callee[i] = "truthy"
      BY <1>5, <2>1, <2>2
    <3>3. Result(i) = <<"result", i>>
      BY <1>1, <1>3, <2>1 DEF Result
    <3>4. /\ Len(answer') <= 1
          /\ Places' = {k \in Truthy' : \A l \in Truthy' : k <= l}
          /\ \A n \in DOMAIN answer' : answer'[n][1] # "garbage"
          /\ answer' \in Seq(Kinds \X Items)
      BY <1>0, <1>1, <2>1, <3>1, <3>2, <3>3, Finds
    <3>5. TypeOK' /\ TasksInv' /\ ErrorInv'
      BY <1>0, <1>1, <3>1, <3>4, CallerSteps DEF Phases
    <3>6. AnswerInv'
      <4>1. ~(Len(callee) < Threshold)
        BY <1>0, <1>1, ParallelSeqAssumption DEF PhaseInv
      <4> QED
        BY <1>0, <1>3, <1>8, <2>1, <3>1, <3>4, <4>1 DEF AnswerInv, SameItemsAsTheLoop, ErrorsSurface
    <3>7. PhaseInv' /\ RetainedInv'
      BY <1>0, <1>2, <1>8, <2>1, <3>1 DEF PhaseInv, RetainedInv, Joined, Failed
    <3> QED
      BY <3>5, <3>6, <3>7 DEF IndInv
  <2>3. CASE ~truthy
    <3>1. answer' = answer /\ i' = i + 1 /\ phase' = phase
      BY <1>4, <1>8, <2>3
    <3>2. callee[i] # "truthy"
      BY <1>5, <2>1, <2>3
    <3>3. NoneYet'
      BY <1>0, <2>1, <3>1, <3>2, FindsNone
    <3>4. TypeOK' /\ TasksInv' /\ ErrorInv'
      BY <1>0, <1>1, <3>1, CallerSteps DEF Phases
    <3>5. AnswerInv'
      BY <1>0, <1>8, <2>1, <3>1, <3>3 DEF AnswerInv, SameItemsAsTheLoop, ErrorsSurface, Failed
    <3>6. PhaseInv' /\ RetainedInv'
      BY <1>0, <1>2, <1>8, <3>1 DEF PhaseInv, RetainedInv, Joined
    <3> QED
      BY <3>4, <3>5, <3>6 DEF IndInv
  <2> QED
    BY <2>2, <2>3
<1> QED
  BY <1>6, <1>7, <1>8

(* filter and find have looked at all results.                              *)
LEMMA CollectEndsStep ==
  ASSUME IndInv, CollectEnds
  PROVE  IndInv'
<1>0. /\ TypeOK /\ TasksInv /\ ErrorInv /\ PhaseInv /\ AnswerInv /\ RetainedInv
      /\ op' = op /\ callee' = callee /\ error' = error /\ task' = task /\ written' = written
      /\ uncopied' = uncopied /\ retained' = retained /\ answer' = answer /\ Items' = Items
      /\ phase = "collect" /\ i' = i /\ i > Len(callee)
      /\ phase' = (IF Failed THEN "rethrown" ELSE "returned")
      /\ UNCHANGED <<op, callee, error, taskVars>>
  BY DEF IndInv, CollectEnds, Leave, taskVars, Items
<1>1. /\ \A k \in Items : Joined(k) /\ k < i /\ ~(i <= k)
      /\ op \in {"filter", "find"} /\ retained \subseteq Items
  BY <1>0, Types DEF PhaseInv, AnswerInv, TypeOK
<1>2. /\ ~Failed => \A k \in Items : callee[k] # "error" /\ k \in written
      /\ Failed => \A h \in Halves : error[h] # None /\ callee[error[h]] = "error"
  BY <1>0, <1>1, AllJoined
<1>3. TypeOK' /\ TasksInv' /\ ErrorInv'
  <2>1. phase' \in Phases /\ i' \in 1 .. Len(callee) + 1 /\ answer' \in Seq(Kinds \X Items)
    BY <1>0 DEF Phases, TypeOK
  <2> QED
    BY <1>0, <2>1, CallerSteps
<1>4. PhaseInv'
  BY <1>0, <1>1 DEF PhaseInv, Joined, Failed
<1>5. RetainedInv'
  <2>1. op = "filter" => retained = {}
    BY <1>0, <1>1 DEF RetainedInv
  <2> QED
    BY <1>0, <1>1, <2>1 DEF RetainedInv
<1>6. op = "filter" /\ ~Failed =>
        Places = Truthy /\ InOrder /\ \A n \in DOMAIN answer : answer[n] = Item(Place(n))
  BY <1>0, <1>1 DEF AnswerInv, Kept, Truthy
<1>7. op = "find" => /\ ~Failed /\ Len(answer) <= 1
                     /\ Places = {k \in Truthy : \A l \in Truthy : k <= l}
                     /\ \A n \in DOMAIN answer :
                          answer[n][1] # "garbage" /\ answer[n] = Item(Place(n))
  <2> HAVE op = "find"
  <2>1. ~Failed /\ NoneYet
    BY <1>0 DEF AnswerInv
  <2> QED
    BY <1>0, <2>1, NothingFound
<1>8. AnswerInv'
  <2>1. Places' = Places /\ Truthy' = Truthy /\ (InOrder' <=> InOrder)
    BY <1>0 DEF Places, Place, Truthy, InOrder
  <2>2. \A n : Place(n)' = Place(n)
    BY <1>0 DEF Place
  <2> QED
    BY <1>0, <1>1, <1>2, <1>6, <1>7, <2>1, <2>2 DEF AnswerInv, SameItemsAsTheLoop, ErrorsSurface, Item
<1> QED
  BY <1>3, <1>4, <1>5, <1>8 DEF IndInv

(* A result that was never written is used.                                 *)
LEMMA FaultStep ==
  ASSUME IndInv, Fault
  PROVE  IndInv'
<1>0. /\ TypeOK /\ TasksInv /\ ErrorInv
      /\ UNCHANGED <<op, callee, error, taskVars>> /\ retained' = retained
      /\ i' = i /\ answer' = answer /\ phase' = "crashed"
  BY DEF IndInv, Fault
<1>1. i' \in 1 .. Len(callee) + 1 /\ answer' \in Seq(Kinds \X Items)
  BY <1>0 DEF TypeOK
<1>2. TypeOK' /\ TasksInv' /\ ErrorInv'
  BY <1>0, <1>1, CallerSteps DEF Phases
<1>3. PhaseInv' /\ AnswerInv' /\ RetainedInv'
  BY <1>0 DEF PhaseInv, AnswerInv, SameItemsAsTheLoop, ErrorsSurface, RetainedInv
<1> QED
  BY <1>2, <1>3 DEF IndInv

-----------------------------------------------------------------------------
(* The inductive invariant of map, filter and find (standard.c:115-253,     *)
(* 1308) holds for lists of every length and every threshold.               *)
THEOREM Invariance == Spec => []IndInv
<1>1. Init => IndInv
  BY InitInv
<1>2. IndInv /\ [Next]_vars => IndInv'
  <2> SUFFICES ASSUME IndInv, [Next]_vars PROVE IndInv'
    OBVIOUS
  <2>1. CASE Caller
    BY <2>1, LoopStep, ForkStep, ForkEndsStep, JoinStep, MapEndsStep, CollectBeginsStep, CollectStep,
       CollectEndsStep, FaultStep DEF Caller
  <2>2. ASSUME NEW k \in Items, Task(k) PROVE IndInv'
    BY <2>2, WorkStep, TestErrorStep, CopyErrorStep, FinishStep DEF Task
  <2>3. CASE UNCHANGED vars
    <3>0. /\ op' = op /\ callee' = callee /\ phase' = phase /\ i' = i /\ task' = task
          /\ written' = written /\ retained' = retained /\ error' = error
          /\ uncopied' = uncopied /\ answer' = answer /\ Items' = Items
      BY <2>3 DEF vars, Items
    <3>1. TypeOK' /\ TasksInv' /\ ErrorInv'
      BY <3>0 DEF IndInv, TypeOK, TasksInv, ErrorInv, Reported
    <3>2. PhaseInv' /\ RetainedInv'
      BY <3>0 DEF IndInv, PhaseInv, RetainedInv, Joined, Failed
    <3>3. /\ Places' = Places /\ Truthy' = Truthy /\ (InOrder' <=> InOrder)
          /\ \A n : Place(n)' = Place(n)
      BY <3>0 DEF Places, Place, Truthy, InOrder
    <3>4. (Kept' <=> Kept) /\ (NoneYet' <=> NoneYet)
      BY <3>0, <3>3 DEF Kept, NoneYet, Item
    <3>5. SameItemsAsTheLoop'
      BY <3>0, <3>3 DEF IndInv, AnswerInv, SameItemsAsTheLoop, ErrorsSurface, Item
    <3>6. AnswerInv'
      BY <3>0, <3>4, <3>5 DEF IndInv, AnswerInv, Failed
    <3> QED
      BY <3>1, <3>2, <3>6 DEF IndInv
  <2> QED
    BY <2>1, <2>2, <2>3 DEF Next
<1> QED
  BY <1>1, <1>2, PTL DEF Spec

(* map, filter and find with a task per item choose the items of the        *)
(* sequential loop, whichever tasks the queue refuses and in whatever order *)
(* the others run, and rethrow a whole error if a call failed               *)
(* (standard.c:98-253); of find on a long list only which item, not what it *)
(* gives for it.                                                            *)
THEOREM TasksChooseTheSameItems == Spec => []SameItemsAsTheLoop
<1>1. IndInv => SameItemsAsTheLoop
  BY DEF IndInv, AnswerInv
<1> QED
  BY <1>1, Invariance, PTL

(* They return or rethrow only when no task uses their C frame any more,    *)
(* and map and filter release every result (standard.c:160-165, 233-240).   *)
THEOREM NothingIsLeftBehind == Spec => []LeavesNothingBehind
<1>1. IndInv => LeavesNothingBehind
  BY DEF IndInv, PhaseInv, RetainedInv, LeavesNothingBehind, Joined
<1> QED
  BY <1>1, Invariance, PTL
=============================================================================
