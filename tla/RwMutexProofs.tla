--------------------------- MODULE RwMutexProofs ---------------------------
(***************************************************************************)
(* The lock of sync.h is safe for any number of threads: proofs of the     *)
(* invariants that RwMutex.cfg checks for five. The counters are the       *)
(* cardinalities of sets of threads, so every step is shown to add at most *)
(* one thread to such a set or to remove one from it.                      *)
(***************************************************************************)
EXTENDS RwMutex, FiniteSetTheorems, TLAPS

WaitingWriters == In("w_wait") \cup In("w_try")

(* The inductive invariant: counters that agree with the threads, and at    *)
(* most one writer, beside whom nobody reads.                               *)
IndInv ==
  /\ TypeOK
  /\ Accounting
  /\ writing => readers = 0
  /\ \A t, u \in In("writing") : t = u

(* The sets of threads at a point are finite.                               *)
LEMMA InFinite == \A p : IsFiniteSet(In(p)) /\ IsFiniteSet(In(p)')
<1> TAKE p
<1>1. In(p) \subseteq Threads /\ In(p)' \subseteq Threads
  BY DEF In
<1> QED
  BY <1>1, RwAssumption, FS_Subset

(* The waiting writers are a finite set.                                    *)
LEMMA WaitingFinite == IsFiniteSet(WaitingWriters) /\ IsFiniteSet(WaitingWriters')
<1>1. WaitingWriters \subseteq Threads /\ WaitingWriters' \subseteq Threads
  BY DEF WaitingWriters, In
<1> QED
  BY <1>1, RwAssumption, FS_Subset

(* A set that gains or loses one element changes its cardinality by one.    *)
LEMMA Counting ==
  ASSUME NEW S, NEW x, IsFiniteSet(S)
  PROVE  /\ Cardinality(S) \in Nat
         /\ x \notin S => Cardinality(S \cup {x}) = Cardinality(S) + 1
         /\ x \in S => Cardinality(S \ {x}) = Cardinality(S) - 1
         /\ x \in S => Cardinality(S) > 0
<1>1. Cardinality(S) \in Nat
  BY FS_CardinalityType
<1>2. x \notin S => Cardinality(S \cup {x}) = Cardinality(S) + 1
  BY FS_AddElement
<1>3. x \in S => Cardinality(S \ {x}) = Cardinality(S) - 1
  BY FS_RemoveElement
<1>4. x \in S => Cardinality(S) # 0
  BY FS_EmptySet
<1> QED
  BY <1>1, <1>2, <1>3, <1>4

(* The invariant holds of a lock just initialised.                          *)
LEMMA InitIndInv == Init => IndInv
<1> SUFFICES ASSUME Init PROVE IndInv
  OBVIOUS
<1>1. TypeOK
  BY DEF Init, TypeOK, Points
<1>2. In("reading") = {} /\ In("w_wait") \cup In("w_try") = {} /\ In("writing") = {}
  BY DEF Init, In
<1>3. Accounting
  BY <1>2, FS_EmptySet DEF Init, Accounting
<1> QED
  BY <1>1, <1>2, <1>3 DEF IndInv, Init

(* Every step keeps the invariant.                                          *)
LEMMA NextIndInv == IndInv /\ [Next]_vars => IndInv'
<1> SUFFICES ASSUME IndInv, [Next]_vars PROVE IndInv'
  OBVIOUS
<1> USE DEF IndInv, TypeOK, Accounting, Points
<1>1. ASSUME NEW t \in Threads, ReadLock(t) PROVE IndInv'
  <2>1. CASE writing \/ writersWaiting > 0
    <3>1. /\ pc' = [pc EXCEPT ![t] = "r_wait"]
          /\ UNCHANGED <<readers, writersWaiting, writing>>
      BY <1>1, <2>1 DEF ReadLock, Goto
    <3>2. /\ In("reading")' = In("reading") /\ In("writing")' = In("writing")
          /\ WaitingWriters' = WaitingWriters
      BY <1>1, <3>1 DEF ReadLock, In, WaitingWriters
    <3> QED
      BY <3>1, <3>2 DEF WaitingWriters
  <2>2. CASE ~(writing \/ writersWaiting > 0)
    <3>1. /\ pc' = [pc EXCEPT ![t] = "reading"]
          /\ readers' = readers + 1
          /\ UNCHANGED <<writersWaiting, writing>>
      BY <1>1, <2>2 DEF ReadLock, Goto
    <3>2. /\ In("reading")' = In("reading") \cup {t}
          /\ t \notin In("reading")
          /\ In("writing")' = In("writing")
          /\ WaitingWriters' = WaitingWriters
      BY <1>1, <3>1 DEF ReadLock, In, WaitingWriters
    <3>3. Cardinality(In("reading") \cup {t}) = Cardinality(In("reading")) + 1
      BY <3>2, InFinite, Counting
    <3>4. readers' = Cardinality(In("reading")')
      BY <3>1, <3>2, <3>3
    <3>5. ~writing' /\ TypeOK'
      BY <2>2, <3>1
    <3>6. Accounting'
      BY <3>1, <3>2, <3>4 DEF WaitingWriters
    <3> QED
      BY <3>2, <3>5, <3>6
  <2> QED
    BY <2>1, <2>2
<1>2. ASSUME NEW t \in Threads, ReadUnlock(t) PROVE IndInv'
  <2>1. /\ pc[t] = "reading" /\ readers' = readers - 1
        /\ UNCHANGED <<writersWaiting, writing>>
    BY <1>2 DEF ReadUnlock
  <2>2. pc' \in [Threads -> Points] /\ pc'[t] = "idle"
    BY <1>2 DEF ReadUnlock, BroadcastAndLeave, Goto, Woken
  <2>3. \A u \in Threads : u # t => /\ (pc'[u] = "reading") = (pc[u] = "reading")
                                    /\ (pc'[u] = "writing") = (pc[u] = "writing")
                                    /\ (pc'[u] \in {"w_wait", "w_try"}) = (pc[u] \in {"w_wait", "w_try"})
    BY <1>2 DEF ReadUnlock, BroadcastAndLeave, Goto, Woken
  <2>4. /\ In("reading")' = In("reading") \ {t} /\ t \in In("reading")
        /\ In("writing")' = In("writing")
        /\ WaitingWriters' = WaitingWriters
    BY <2>1, <2>2, <2>3 DEF In, WaitingWriters
  <2>5. /\ Cardinality(In("reading") \ {t}) = Cardinality(In("reading")) - 1
        /\ Cardinality(In("reading")) > 0
    BY <2>4, InFinite, Counting
  <2>6. readers' = Cardinality(In("reading")') /\ readers' \in Nat
    BY <2>1, <2>4, <2>5
  <2>7. ~writing'
    BY <2>1, <2>5
  <2>8. Accounting'
    BY <2>1, <2>4, <2>6 DEF WaitingWriters
  <2>9. TypeOK'
    BY <2>1, <2>2, <2>6
  <2> QED
    BY <2>4, <2>7, <2>8, <2>9
<1>3. ASSUME NEW t \in Threads, WriteLock(t) PROVE IndInv'
  <2>1. CASE writing \/ readers > 0
    <3>1. /\ pc' = [pc EXCEPT ![t] = "w_wait"]
          /\ writersWaiting' = writersWaiting + 1
          /\ UNCHANGED <<readers, writing>>
      BY <1>3, <2>1 DEF WriteLock, Goto
    <3>2. /\ In("reading")' = In("reading") /\ In("writing")' = In("writing")
          /\ WaitingWriters' = WaitingWriters \cup {t}
          /\ t \notin WaitingWriters
      BY <1>3, <3>1 DEF WriteLock, In, WaitingWriters
    <3>3. writersWaiting' = Cardinality(WaitingWriters')
      BY <3>1, <3>2, WaitingFinite, Counting DEF WaitingWriters
    <3> QED
      BY <3>1, <3>2, <3>3 DEF WaitingWriters
  <2>2. CASE ~writing /\ readers = 0
    <3>1. /\ pc' = [pc EXCEPT ![t] = "writing"]
          /\ writing' = TRUE
          /\ UNCHANGED <<readers, writersWaiting>>
      BY <1>3, <2>2 DEF WriteLock, Goto
    <3>2. /\ In("reading")' = In("reading")
          /\ In("writing")' = {t}
          /\ WaitingWriters' = WaitingWriters
      BY <1>3, <2>2, <3>1 DEF WriteLock, In, WaitingWriters
    <3> QED
      BY <2>2, <3>1, <3>2 DEF WaitingWriters
  <2> QED
    BY <1>3, <2>1, <2>2 DEF WriteLock
<1>4. ASSUME NEW t \in Threads, WriteRetry(t) PROVE IndInv'
  <2>1. CASE writing \/ readers > 0
    <3>1. /\ pc' = [pc EXCEPT ![t] = "w_wait"]
          /\ UNCHANGED <<readers, writersWaiting, writing>>
      BY <1>4, <2>1 DEF WriteRetry, Goto
    <3>2. /\ In("reading")' = In("reading") /\ In("writing")' = In("writing")
          /\ WaitingWriters' = WaitingWriters
      BY <1>4, <3>1 DEF WriteRetry, In, WaitingWriters
    <3> QED
      BY <3>1, <3>2 DEF WaitingWriters
  <2>2. CASE ~writing /\ readers = 0
    <3>1. /\ pc' = [pc EXCEPT ![t] = "writing"]
          /\ writing' = TRUE
          /\ writersWaiting' = writersWaiting - 1
          /\ UNCHANGED readers
      BY <1>4, <2>2 DEF WriteRetry, Goto
    <3>2. /\ In("reading")' = In("reading")
          /\ In("writing")' = {t}
          /\ WaitingWriters' = WaitingWriters \ {t}
          /\ t \in WaitingWriters
      BY <1>4, <2>2, <3>1 DEF WriteRetry, In, WaitingWriters
    <3>3. writersWaiting' = Cardinality(WaitingWriters') /\ writersWaiting' \in Nat
      BY <3>1, <3>2, WaitingFinite, Counting DEF WaitingWriters
    <3> QED
      BY <2>2, <3>1, <3>2, <3>3 DEF WaitingWriters
  <2> QED
    BY <1>4, <2>1, <2>2 DEF WriteRetry
<1>5. ASSUME NEW t \in Threads, WriteUnlock(t) PROVE IndInv'
  <2>1. /\ pc[t] = "writing" /\ writing' = FALSE
        /\ UNCHANGED <<readers, writersWaiting>>
    BY <1>5 DEF WriteUnlock
  <2>2. pc' \in [Threads -> Points] /\ pc'[t] = "idle"
    BY <1>5 DEF WriteUnlock, BroadcastAndLeave, Woken
  <2>3. \A u \in Threads : u # t => /\ (pc'[u] = "reading") = (pc[u] = "reading")
                                    /\ (pc'[u] = "writing") = (pc[u] = "writing")
                                    /\ (pc'[u] \in {"w_wait", "w_try"}) = (pc[u] \in {"w_wait", "w_try"})
    BY <1>5 DEF WriteUnlock, BroadcastAndLeave, Woken
  <2>4. /\ In("reading")' = In("reading")
        /\ In("writing")' = {}
        /\ WaitingWriters' = WaitingWriters
    BY <2>1, <2>2, <2>3 DEF In, WaitingWriters
  <2> QED
    BY <2>1, <2>2, <2>4 DEF WaitingWriters
<1>6. ASSUME NEW t \in Threads, SpuriousWake(t) PROVE IndInv'
  <2>1. /\ pc' = [pc EXCEPT ![t] = Woken(pc[t])]
        /\ UNCHANGED <<readers, writersWaiting, writing>>
    BY <1>6 DEF SpuriousWake, Goto
  <2>2. /\ In("reading")' = In("reading") /\ In("writing")' = In("writing")
        /\ WaitingWriters' = WaitingWriters
        /\ pc' \in [Threads -> Points]
    BY <1>6, <2>1 DEF SpuriousWake, In, WaitingWriters, Woken
  <2> QED
    BY <2>1, <2>2 DEF WaitingWriters
<1>7. CASE UNCHANGED vars
  BY <1>7 DEF vars, In
<1> QED
  BY <1>1, <1>2, <1>3, <1>4, <1>5, <1>6, <1>7 DEF Next

(* The inductive invariant holds throughout.                                *)
THEOREM Invariance == Spec => []IndInv
<1> QED
  BY InitIndInv, NextIndInv, PTL DEF Spec

(* The counters and the flag always agree with what the threads do.         *)
THEOREM Accounts == Spec => []Accounting
<1>1. IndInv => Accounting
  BY DEF IndInv
<1> QED
  BY <1>1, Invariance, PTL

(* The lock keeps a writer alone, for any number of threads.                *)
THEOREM Excludes == Spec => []Exclusion
<1>1. IndInv => Exclusion
  <2> SUFFICES ASSUME IndInv, NEW t \in Threads, NEW u \in Threads,
                      pc[t] = "writing", u # t
               PROVE  pc[u] \notin {"reading", "writing"}
    BY DEF Exclusion
  <2>1. t \in In("writing") /\ writing
    BY DEF In, IndInv, Accounting
  <2>2. pc[u] # "writing"
    BY <2>1 DEF In, IndInv
  <2>3. In("reading") = {}
    BY <2>1, InFinite, FS_EmptySet DEF IndInv, Accounting
  <2> QED
    BY <2>2, <2>3 DEF In
<1> QED
  BY <1>1, Invariance, PTL

(* So the lock lets in only whom it may, and goes by the right counts       *)
(* (LockSound).                                                             *)
THEOREM StaysSound == Spec => []LockSound
<1>1. Exclusion /\ Accounting => LockSound
  BY DEF LockSound
<1> QED
  BY <1>1, Accounts, Excludes, PTL

(* Nothing that any thread does makes the others miss a broadcast.          *)
LEMMA NextNobodyForgotten == IndInv /\ IndInv' /\ NobodyForgotten /\ [Next]_vars => NobodyForgotten'
<1> SUFFICES ASSUME IndInv, IndInv', NobodyForgotten, [Next]_vars PROVE NobodyForgotten'
  OBVIOUS
<1>1. ASSUME NEW t \in Threads, ReadLock(t) PROVE NobodyForgotten'
  BY <1>1 DEF ReadLock, Goto, In, NobodyForgotten, IndInv, TypeOK, Points
<1>2. ASSUME NEW t \in Threads, ReadUnlock(t) PROVE NobodyForgotten'
  <2>1. CASE readers = 1
    BY <1>2, <2>1 DEF ReadUnlock, BroadcastAndLeave, Woken, In, NobodyForgotten, IndInv, TypeOK, Points
  <2>2. CASE readers # 1
    <3>1. pc' = [pc EXCEPT ![t] = "idle"] /\ readers' = readers - 1
          /\ UNCHANGED <<writersWaiting, writing>>
      BY <1>2, <2>2 DEF ReadUnlock, Goto
    <3>2. t \in In("reading") /\ readers = Cardinality(In("reading"))
      BY <1>2 DEF ReadUnlock, In, IndInv, Accounting
    <3>3. Cardinality(In("reading")) \in Nat /\ Cardinality(In("reading")) > 0
      BY <3>2, InFinite, Counting
    <3>4. readers' > 0
      BY <2>2, <3>1, <3>2, <3>3
    <3>5. In("reading")' # {}
      BY <3>4, FS_EmptySet DEF IndInv, Accounting
    <3>6. In("r_wait")' = In("r_wait")
      BY <1>2, <3>1 DEF ReadUnlock, In, IndInv, TypeOK
    <3> QED
      BY <3>1, <3>5, <3>6 DEF NobodyForgotten
  <2> QED
    BY <2>1, <2>2
<1>3. ASSUME NEW t \in Threads, WriteLock(t) PROVE NobodyForgotten'
  <2>1. CASE writing \/ readers > 0
    <3>1. /\ pc' = [pc EXCEPT ![t] = "w_wait"] /\ pc[t] = "idle"
          /\ writersWaiting' = writersWaiting + 1
          /\ UNCHANGED <<readers, writing>>
      BY <1>3, <2>1 DEF WriteLock, Goto
    <3>2. In("reading") \cup In("writing") # {}
      BY <2>1, FS_EmptySet DEF IndInv, Accounting
    <3>3. In("reading")' = In("reading") /\ In("writing")' = In("writing")
      BY <3>1 DEF In, IndInv, TypeOK
    <3>4. writersWaiting' > 0
      BY <3>1 DEF IndInv, TypeOK
    <3> QED
      BY <3>2, <3>3, <3>4 DEF NobodyForgotten
  <2>2. CASE ~writing /\ readers = 0
    BY <1>3, <2>2 DEF WriteLock, Goto, In, NobodyForgotten, IndInv, TypeOK, Points
  <2> QED
    BY <1>3, <2>1, <2>2 DEF WriteLock
<1>4. ASSUME NEW t \in Threads, WriteRetry(t) PROVE NobodyForgotten'
  <2>1. CASE writing \/ readers > 0
    <3>1. /\ pc' = [pc EXCEPT ![t] = "w_wait"] /\ pc[t] = "w_try"
          /\ UNCHANGED <<readers, writersWaiting, writing>>
      BY <1>4, <2>1 DEF WriteRetry, Goto
    <3>2. In("reading") \cup In("writing") # {}
      BY <2>1, FS_EmptySet DEF IndInv, Accounting
    <3>3. /\ In("reading")' = In("reading") /\ In("writing")' = In("writing")
          /\ In("r_wait")' = In("r_wait")
      BY <3>1 DEF In, IndInv, TypeOK
    <3> QED
      BY <3>1, <3>2, <3>3 DEF NobodyForgotten
  <2>2. CASE ~writing /\ readers = 0
    BY <1>4, <2>2 DEF WriteRetry, Goto, In, NobodyForgotten, IndInv, TypeOK, Points
  <2> QED
    BY <1>4, <2>1, <2>2 DEF WriteRetry
<1>5. ASSUME NEW t \in Threads, WriteUnlock(t) PROVE NobodyForgotten'
  BY <1>5 DEF WriteUnlock, BroadcastAndLeave, Woken, In, NobodyForgotten, IndInv, TypeOK, Points
<1>6. ASSUME NEW t \in Threads, SpuriousWake(t) PROVE NobodyForgotten'
  BY <1>6 DEF SpuriousWake, Goto, Woken, In, NobodyForgotten, IndInv, TypeOK, Points
<1>7. CASE UNCHANGED vars
  BY <1>7 DEF vars, In, NobodyForgotten
<1> QED
  BY <1>1, <1>2, <1>3, <1>4, <1>5, <1>6, <1>7 DEF Next

(* No thread that waits is forgotten: whenever a writer waits, somebody     *)
(* holds the lock or is about to look at it, and readers wait only for a    *)
(* writer.                                                                  *)
THEOREM Remembers == Spec => []NobodyForgotten
<1>1. Init => NobodyForgotten
  BY DEF Init, NobodyForgotten, In
<1> QED
  BY <1>1, Invariance, NextNobodyForgotten, PTL DEF Spec
=============================================================================
