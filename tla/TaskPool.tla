------------------------------ MODULE TaskPool ------------------------------
(***************************************************************************)
(* What src/task.c promises its callers: a pool that numbers tasks in the  *)
(* order they are accepted, lets threads pop them in that order, each one  *)
(* once, and never holds more than QueueMax of them. Two popped tasks may  *)
(* be started in either order.                                             *)
(* TaskRing implements it with a ring of slots; Scheduler is built on it.  *)
(***************************************************************************)
EXTENDS Integers

CONSTANTS
  QueueMax,  (* REDUCT_TASK_QUEUE_MAX                                      *)
  Tasks      (* what can be passed to reduct_task_create                   *)

VARIABLES
  accepted,  (* how many tickets have been handed out                      *)
  log,       (* the task each ticket stands for                            *)
  status,    (* how far each ticket has come                               *)
  executed   (* the tasks handed to their func                             *)

poolVars == <<accepted, log, status, executed>>

Statuses == {"claimed", "ready", "popped", "running", "finished"}

Extend(f, p, v) == [q \in DOMAIN f \cup {p} |-> IF q = p THEN v ELSE f[q]]

Init ==
  /\ accepted = 0
  /\ log = [p \in {} |-> 0]
  /\ status = [p \in {} |-> "ready"]
  /\ executed = [p \in {} |-> 0]

(* A slot is claimed for a task: tickets are handed out one after the       *)
(* other, and the one that used the slot a round ago has finished.          *)
Claim(task) ==
  /\ accepted >= QueueMax => status[accepted - QueueMax] = "finished"
  /\ accepted' = accepted + 1
  /\ log' = Extend(log, accepted, task)
  /\ status' = Extend(status, accepted, "claimed")
  /\ UNCHANGED executed

Publish(p) ==
  /\ status[p] = "claimed"
  /\ status' = [status EXCEPT ![p] = "ready"]
  /\ UNCHANGED <<accepted, log, executed>>

(* First in, first out: everything older has been popped.                   *)
Pop(p) ==
  /\ status[p] = "ready"
  /\ \A q \in 0 .. p - 1 : status[q] \notin {"claimed", "ready"}
  /\ status' = [status EXCEPT ![p] = "popped"]
  /\ UNCHANGED <<accepted, log, executed>>

Start(p) ==
  /\ status[p] = "popped"
  /\ status' = [status EXCEPT ![p] = "running"]
  /\ executed' = Extend(executed, p, log[p])
  /\ UNCHANGED <<accepted, log>>

Finish(p) ==
  /\ status[p] = "running"
  /\ status' = [status EXCEPT ![p] = "finished"]
  /\ UNCHANGED <<accepted, log, executed>>

Next ==
  \/ \E task \in Tasks : Claim(task)
  \/ \E p \in DOMAIN status : Publish(p) \/ Pop(p) \/ Start(p) \/ Finish(p)

Spec == Init /\ [][Next]_poolVars
=============================================================================
