------------------------------ MODULE RwMutex ------------------------------
(***************************************************************************)
(* reduct_rwmutex_t of src/include/reduct/sync.h, which guards the atom    *)
(* map, the native map, the schemas, the modules and the import paths: a   *)
(* mutex, a condition variable, a count of readers, a count of waiting     *)
(* writers and a flag.                                                     *)
(*                                                                         *)
(* Everything between mtx_lock and the next cnd_wait or mtx_unlock runs    *)
(* under the inner mutex and is one step. A thread in "r_wait" or "w_wait" *)
(* is inside cnd_wait; a broadcast moves it to "r_try" or "w_try", where   *)
(* it evaluates its loop condition again once it has the inner mutex.      *)
(***************************************************************************)
EXTENDS Integers, FiniteSets

CONSTANT Threads

ASSUME RwAssumption == IsFiniteSet(Threads)

VARIABLES
  readers,         (* rw->readers                                          *)
  writersWaiting,  (* rw->writersWaiting                                   *)
  writing,         (* rw->writing                                          *)
  pc               (* per thread, where it is in the lock functions        *)

vars == <<readers, writersWaiting, writing, pc>>

Points == {"idle", "r_wait", "r_try", "reading", "w_wait", "w_try", "writing"}

In(point) == {t \in Threads : pc[t] = point}

(* reduct_rwmutex_init *)
Init ==
  /\ readers = 0
  /\ writersWaiting = 0
  /\ writing = FALSE
  /\ pc = [t \in Threads |-> "idle"]

Goto(t, point) == pc' = [pc EXCEPT ![t] = point]

Woken(point) == CASE point = "r_wait" -> "r_try"
                  [] point = "w_wait" -> "w_try"
                  [] OTHER -> point

(* cnd_broadcast by thread t, which is then idle.                           *)
BroadcastAndLeave(t) ==
  pc' = [u \in Threads |-> IF u = t THEN "idle" ELSE Woken(pc[u])]

-----------------------------------------------------------------------------
(* Mutant: readers only look at the writer that has the lock.               *)
ReadLockEager(t) ==
  /\ pc[t] \in {"idle", "r_try"}
  /\ \/ writing /\ Goto(t, "r_wait") /\ UNCHANGED readers
     \/ ~writing /\ Goto(t, "reading") /\ readers' = readers + 1
  /\ UNCHANGED <<writersWaiting, writing>>

(* reduct_rwmutex_read_lock: readers stand back for a waiting writer.       *)
ReadLock(t) ==
  /\ pc[t] \in {"idle", "r_try"}
  /\ \/ /\ writing \/ writersWaiting > 0
        /\ Goto(t, "r_wait")
        /\ UNCHANGED readers
     \/ /\ ~writing /\ writersWaiting = 0
        /\ Goto(t, "reading")
        /\ readers' = readers + 1
  /\ UNCHANGED <<writersWaiting, writing>>

(* Mutant: the last reader wakes nobody.                                    *)
ReadUnlockQuiet(t) ==
  /\ pc[t] = "reading"
  /\ readers' = readers - 1
  /\ Goto(t, "idle")
  /\ UNCHANGED <<writersWaiting, writing>>

(* reduct_rwmutex_read_unlock *)
ReadUnlock(t) ==
  /\ pc[t] = "reading"
  /\ readers' = readers - 1
  /\ IF readers = 1 THEN BroadcastAndLeave(t) ELSE Goto(t, "idle")
  /\ UNCHANGED <<writersWaiting, writing>>

(* Mutant: a writer does not wait for the readers.                          *)
WriteLockEager(t) ==
  /\ pc[t] = "idle"
  /\ IF writing
     THEN /\ Goto(t, "w_wait")
          /\ writersWaiting' = writersWaiting + 1
          /\ UNCHANGED writing
     ELSE /\ Goto(t, "writing")
          /\ writing' = TRUE
          /\ UNCHANGED writersWaiting
  /\ UNCHANGED readers

(* reduct_rwmutex_write_lock, up to its first wait, and after a wait.       *)
WriteLock(t) ==
  /\ pc[t] = "idle"
  /\ \/ /\ writing \/ readers > 0
        /\ Goto(t, "w_wait")
        /\ writersWaiting' = writersWaiting + 1
        /\ UNCHANGED writing
     \/ /\ ~writing /\ readers = 0
        /\ Goto(t, "writing")
        /\ writing' = TRUE
        /\ UNCHANGED writersWaiting
  /\ UNCHANGED readers

(* Mutant: a writer that got the lock stays counted.                        *)
WriteRetryCounted(t) ==
  /\ pc[t] = "w_try"
  /\ \/ (writing \/ readers > 0) /\ Goto(t, "w_wait") /\ UNCHANGED writing
     \/ ~writing /\ readers = 0 /\ Goto(t, "writing") /\ writing' = TRUE
  /\ UNCHANGED <<readers, writersWaiting>>

WriteRetry(t) ==
  /\ pc[t] = "w_try"
  /\ \/ /\ writing \/ readers > 0
        /\ Goto(t, "w_wait")
        /\ UNCHANGED <<writersWaiting, writing>>
     \/ /\ ~writing /\ readers = 0
        /\ Goto(t, "writing")
        /\ writersWaiting' = writersWaiting - 1
        /\ writing' = TRUE
  /\ UNCHANGED readers

(* Mutant: the writer wakes nobody.                                         *)
WriteUnlockQuiet(t) ==
  /\ pc[t] = "writing"
  /\ writing' = FALSE
  /\ Goto(t, "idle")
  /\ UNCHANGED <<readers, writersWaiting>>

(* reduct_rwmutex_write_unlock *)
WriteUnlock(t) ==
  /\ pc[t] = "writing"
  /\ writing' = FALSE
  /\ BroadcastAndLeave(t)
  /\ UNCHANGED <<readers, writersWaiting>>

(* cnd_wait may return without a broadcast.                                 *)
SpuriousWake(t) ==
  /\ pc[t] \in {"r_wait", "w_wait"}
  /\ Goto(t, Woken(pc[t]))
  /\ UNCHANGED <<readers, writersWaiting, writing>>

Next == \E t \in Threads :
  \/ ReadLock(t) \/ ReadUnlock(t)
  \/ WriteLock(t) \/ WriteRetry(t) \/ WriteUnlock(t)
  \/ SpuriousWake(t)

(* A woken thread gets the inner mutex, and critical sections end.          *)
Fairness == \A t \in Threads :
  /\ WF_vars(pc[t] = "r_try" /\ ReadLock(t))
  /\ WF_vars(WriteRetry(t))
  /\ WF_vars(ReadUnlock(t))
  /\ WF_vars(WriteUnlock(t))

Spec == Init /\ [][Next]_vars /\ Fairness

-----------------------------------------------------------------------------
(* Type invariant of the lock.                                              *)
TypeOK ==
  /\ readers \in Nat
  /\ writersWaiting \in Nat
  /\ writing \in BOOLEAN
  /\ pc \in [Threads -> Points]

(* A writer is alone: nobody reads or writes beside it.                     *)
Exclusion ==
  \A t, u \in Threads :
    pc[t] = "writing" /\ u # t => pc[u] \notin {"reading", "writing"}

(* The counters say what the threads do, so that none is left behind by a   *)
(* thread that has gone.                                                    *)
Accounting ==
  /\ readers = Cardinality(In("reading"))
  /\ writersWaiting = Cardinality(In("w_wait") \cup In("w_try"))
  /\ writing <=> In("writing") # {}

(* The lock lets in whom it may (src/include/reduct/sync.h:61-128): a       *)
(* writer is alone, and the counters by which the lock decides are right.   *)
LockSound == Exclusion /\ Accounting

(* Wherever a writer waits, somebody holds the lock or is about to look at  *)
(* it again: no broadcast is missed.                                        *)
NobodyForgotten ==
  /\ In("w_wait") # {} => In("reading") \cup In("writing") \cup In("w_try") # {}
  /\ In("r_wait") # {} => writing \/ writersWaiting > 0

(* A waiting writer is followed by one that writes, however many readers    *)
(* keep coming.                                                             *)
WritersProgress == writersWaiting > 0 ~> writing

(* A reader gets in when no more writers come.                              *)
ReadersProgress ==
  \A t \in Threads :
    <>[](In("writing") = {} /\ writersWaiting = 0) => (pc[t] = "r_wait" ~> pc[t] = "reading")
=============================================================================
