--------------------------- MODULE TaskRingProofs ---------------------------
(***************************************************************************)
(* Proofs about TaskRing for every number of threads, every ring size of   *)
(* at least two slots and every width of the generation counter with more  *)
(* values than the ring has slots.                                         *)
(***************************************************************************)
EXTENDS TaskRing, TLAPS

-----------------------------------------------------------------------------
(* Arithmetic of slots and generations.                                     *)

(* Division with remainder. *)
LEMMA DivMod ==
  ASSUME NEW n \in Nat \ {0}, NEW a \in Nat
  PROVE  /\ a \div n \in Nat
         /\ a % n \in 0 .. n - 1
         /\ a = n * (a \div n) + (a % n)
  BY Z3

(* A multiple of n by a positive factor is at least n. *)
LEMMA Grow ==
  ASSUME NEW n \in Nat, NEW k \in Nat, k >= 1
  PROVE  n * k >= n
  BY Z3

(* Quotient and remainder are unique. *)
LEMMA Unique ==
  ASSUME NEW n \in Nat \ {0}, NEW q \in Nat, NEW p \in Nat,
         NEW r \in 0 .. n - 1, NEW s \in 0 .. n - 1,
         n * q + r = n * p + s
  PROVE  q = p /\ r = s
  <1>1. CASE q = p
    BY <1>1, Z3
  <1>2. CASE q > p
    <2>1. n * (q - p) >= n
      BY <1>2, Grow
    <2>2. n * (q - p) = n * q - n * p
      BY Z3
    <2> QED
      BY <2>1, <2>2, Z3
  <1>3. CASE p > q
    <2>1. n * (p - q) >= n
      BY <1>3, Grow
    <2>2. n * (p - q) = n * p - n * q
      BY Z3
    <2> QED
      BY <2>1, <2>2, Z3
  <1> QED
    BY <1>1, <1>2, <1>3, Z3

(* Adding the modulus does not change the remainder. *)
LEMMA ModAdd ==
  ASSUME NEW n \in Nat \ {0}, NEW a \in Nat
  PROVE  (a + n) % n = a % n
  <1> DEFINE q == a \div n
             r == a % n
             p == (a + n) \div n
             s == (a + n) % n
  <1>1. q \in Nat /\ r \in 0 .. n - 1 /\ a = n * q + r
    BY DivMod
  <1>2. p \in Nat /\ s \in 0 .. n - 1 /\ a + n = n * p + s
    <2>1. a + n \in Nat
      OBVIOUS
    <2> QED
      BY <2>1, DivMod
  <1> HIDE DEF q, r, p, s
  <1>3. n * (q + 1) + r = n * p + s
    <2>1. n * (q + 1) = n * q + n
      BY <1>1, Z3
    <2> QED
      BY <1>1, <1>2, <2>1, Z3
  <1>4. q + 1 \in Nat
    BY <1>1
  <1>5. r = s
    BY <1>1, <1>2, <1>3, <1>4, Unique
  <1> QED
    BY <1>5 DEF r, s

(* Two numbers less than the modulus apart with the same remainder are one. *)
LEMMA ModInj ==
  ASSUME NEW n \in Nat \ {0}, NEW a \in Nat, NEW b \in Nat,
         a <= b, b < a + n, a % n = b % n
  PROVE  a = b
  <1> DEFINE q == a \div n
             r == a % n
             p == b \div n
  <1>1. q \in Nat /\ r \in 0 .. n - 1 /\ a = n * q + r
    BY DivMod
  <1>2. p \in Nat /\ b = n * p + r
    BY DivMod
  <1> HIDE DEF q, r, p
  <1>3. CASE q = p
    BY <1>1, <1>2, <1>3, Z3
  <1>4. CASE p > q
    <2>1. n * (p - q) >= n
      BY <1>1, <1>2, <1>4, Grow
    <2>2. n * (p - q) = n * p - n * q
      BY <1>1, <1>2, Z3
    <2> QED
      BY <1>1, <1>2, <2>1, <2>2, Z3
  <1>5. CASE p < q
    <2>1. n * (q - p) >= n
      BY <1>1, <1>2, <1>5, Grow
    <2>2. n * (q - p) = n * q - n * p
      BY <1>1, <1>2, Z3
    <2> QED
      BY <1>1, <1>2, <2>1, <2>2, Z3
  <1> QED
    BY <1>1, <1>2, <1>3, <1>4, <1>5

(* The two moduli of the ring.                                              *)
LEMMA Moduli ==
  QueueMax \in Nat \ {0} /\ GenMod \in Nat \ {0} /\ QueueMax < GenMod /\ 2 <= QueueMax
  BY RingAssumption

(* Slots of the ring and values of the generation counters.                 *)
LEMMA SlotType ==
  ASSUME NEW p \in Nat
  PROVE  Slot(p) \in Slots /\ Gen(p) \in 0 .. GenMod - 1
  BY RingAssumption, DivMod DEF Slot, Slots, Gen

(* A ticket one round later has the same slot.                              *)
LEMMA SlotNext ==
  ASSUME NEW p \in Nat
  PROVE  Slot(p + QueueMax) = Slot(p)
  BY Moduli, ModAdd DEF Slot

(* Two tickets less than a round apart that share a slot are one ticket.    *)
LEMMA SlotInj ==
  ASSUME NEW p \in Nat, NEW q \in Nat, Slot(p) = Slot(q),
         p < q + QueueMax, q < p + QueueMax
  PROVE  p = q
  <1>1. CASE p <= q
    BY <1>1, Moduli, ModInj DEF Slot
  <1>2. CASE q <= p
    BY <1>2, Moduli, ModInj DEF Slot
  <1> QED
    BY <1>1, <1>2

(* Generations tell tickets apart that are at most one round apart.         *)
LEMMA GenInj ==
  ASSUME NEW p \in Nat, NEW q \in Nat, Gen(p) = Gen(q),
         p <= q + QueueMax, q <= p + QueueMax
  PROVE  p = q
  <1>1. p < q + GenMod /\ q < p + GenMod
    BY Moduli
  <1>2. p % GenMod = q % GenMod
    BY DEF Gen
  <1>3. CASE p <= q
    BY <1>1, <1>2, <1>3, Moduli, ModInj
  <1>4. CASE q <= p
    BY <1>1, <1>2, <1>4, Moduli, ModInj
  <1> QED
    BY <1>3, <1>4

(* The signed difference is zero exactly for the expected generation.       *)
LEMMA DiffZero ==
  ASSUME NEW p \in Nat, NEW seq \in 0 .. GenMod - 1, Diff(seq, p) = 0
  PROVE  seq = Gen(p)
  <1> DEFINE d == (seq - Gen(p)) % GenMod
  <1>1. Gen(p) \in 0 .. GenMod - 1 /\ GenMod \in Nat \ {0}
    BY SlotType, RingAssumption
  <1>2. d \in 0 .. GenMod - 1
    BY <1>1, Z3
  <1>3. d = 0
    BY <1>1, <1>2, RingAssumption DEF Diff
  <1>4. CASE seq >= Gen(p)
    <2>1. seq - Gen(p) \in Nat /\ seq - Gen(p) < GenMod
      BY <1>1, <1>4
    <2>2. (seq - Gen(p)) % GenMod = 0 % GenMod
      BY <1>1, <1>3, Z3
    <2> QED
      BY <1>1, <2>1, <2>2, ModInj
  <1>5. CASE seq < Gen(p)
    <2>1. seq - Gen(p) + GenMod \in 1 .. GenMod - 1
      BY <1>1, <1>5
    <2>2. (seq - Gen(p) + GenMod) % GenMod = (seq - Gen(p)) % GenMod
      BY <1>1, Z3
    <2>3. (seq - Gen(p) + GenMod) % GenMod = 0 % GenMod
      BY <1>1, <1>3, <2>2, Z3
    <2> QED
      BY <1>1, <2>1, <2>3, ModInj
  <1> QED
    BY <1>1, <1>4, <1>5
-----------------------------------------------------------------------------
(* The inductive invariant. *)

(* Tickets are claimed in order, popped in order, and no ticket is claimed  *)
(* before the ticket that used its slot a round earlier has finished.       *)
OrderInv ==
  /\ queueTail <= queueHead
  /\ \A p \in Nat : p + QueueMax < queueHead => Finished(p)
  /\ \A t \in Threads : \A p \in Nat : Claims(t, p) => queueTail <= p /\ p < queueHead
  /\ \A t \in Threads : \A p \in Nat : Takes(t, p) => p < queueTail

(* A ticket is in the hands of one thread.                                  *)
OwnerInv ==
  \A t, u \in Threads : \A p \in Nat : Uses(t, p) /\ Uses(u, p) => t = u

(* What a slot's generation says about the ticket that last claimed it: for *)
(* the next ticket p of the slot, that ticket is p - QueueMax.              *)
SlotOK(p, q) ==
  \/ (q < 0 \/ Finished(q)) /\ generation[Slot(p)] = Gen(p)
  \/ q >= 0 /\ Claimed(q) /\ generation[Slot(p)] = Gen(q)
  \/ q >= 0 /\ ~Claimed(q) /\ ~Finished(q) /\ generation[Slot(p)] = Gen(q + 1)

SlotInv ==
  \A p \in queueHead .. queueHead + QueueMax - 1 : SlotOK(p, p - QueueMax)

(* What a thread knows between its test of a generation and its exchange,   *)
(* as long as the counter has not moved.                                    *)
CasOK(t) ==
  /\ pc[t] \in {"push_check", "push_cas"} => pos[t] <= queueHead
  /\ pc[t] \in {"pop_check", "pop_cas"} => pos[t] <= queueTail
  /\ pc[t] = "push_cas" /\ pos[t] = queueHead =>
       pos[t] < QueueMax \/ Finished(pos[t] - QueueMax)
  /\ pc[t] = "pop_cas" /\ pos[t] = queueTail =>
       pos[t] < queueHead /\ ~Claimed(pos[t])

CasInv == \A t \in Threads : CasOK(t)

(* A slot holds the task its ticket was claimed for from the moment the     *)
(* pusher has filled it until the popper has read it.                       *)
HeldOK(t) ==
  /\ pc[t] \in {"push_fill", "push_publish"} => arg[t] = log[pos[t]]
  /\ pc[t] \in {"push_publish", "pop_read"} => task[Slot(pos[t])] = log[pos[t]]

DataInv ==
  /\ DOMAIN log = 0 .. queueHead - 1
  /\ \A t \in Threads : HeldOK(t)
  /\ \A p \in queueTail .. queueHead - 1 : ~Claimed(p) => task[Slot(p)] = log[p]
  /\ DOMAIN executed \subseteq 0 .. queueTail - 1
  /\ RunsWhatWasPushed

IndInv == TypeOK /\ OrderInv /\ OwnerInv /\ SlotInv /\ CasInv /\ DataInv

-----------------------------------------------------------------------------
(* Type correctness.                                                        *)

(* The ring just initialised is well typed.                                 *)
LEMMA InitTypeOK == Init => TypeOK
  <1> SUFFICES ASSUME Init PROVE TypeOK
    OBVIOUS
  <1>1. generation \in [Slots -> 0 .. GenMod - 1]
    <2>1. \A s \in Slots : s \in Nat
      BY Moduli DEF Slots
    <2> QED
      BY <2>1, SlotType DEF Init
  <1> QED
    BY <1>1 DEF Init, TypeOK

(* Every step of every thread keeps the types.                              *)
LEMMA NextTypeOK == TypeOK /\ [Next]_vars => TypeOK'
  <1> SUFFICES ASSUME TypeOK, [Next]_vars PROVE TypeOK'
    OBVIOUS
  <1> USE DEF TypeOK, PushSteps, PopSteps, ringVars, Goto
  <1>1. CASE UNCHANGED vars
    BY <1>1 DEF vars, threadVars
  <1>2. ASSUME NEW t \in Threads, Push(t) PROVE TypeOK'
    <2>1. CASE PushBegin(t)
      BY <2>1 DEF PushBegin
    <2>2. CASE PushLoad(t)
      BY <2>2 DEF PushLoad
    <2>3. CASE PushCheck(t)
      BY <2>3 DEF PushCheck
    <2>4. CASE PushCas(t)
      <3>1. queueHead' \in Nat
        BY <2>4 DEF PushCas
      <3>2. pc' \in [Threads -> {"idle"} \cup PushSteps \cup PopSteps]
        BY <2>4 DEF PushCas
      <3> QED
        BY <2>4, <3>1, <3>2 DEF PushCas
    <2>5. CASE PushFill(t)
      BY <2>5 DEF PushFill
    <2>6. CASE PushPublish(t)
      <3>1. pos[t] + 1 \in Nat
        OBVIOUS
      <3> QED
        BY <2>6, <3>1, SlotType DEF PushPublish
    <2> QED
      BY <1>2, <2>1, <2>2, <2>3, <2>4, <2>5, <2>6 DEF Push
  <1>3. ASSUME NEW t \in Threads, Pop(t) PROVE TypeOK'
    <2>1. CASE PopBegin(t)
      BY <2>1 DEF PopBegin
    <2>2. CASE PopLoad(t)
      BY <2>2 DEF PopLoad
    <2>3. CASE PopCheck(t)
      BY <2>3 DEF PopCheck
    <2>4. CASE PopCas(t)
      BY <2>4 DEF PopCas
    <2>5. CASE PopRead(t)
      BY <2>5 DEF PopRead
    <2>6. CASE Release(t)
      <3>1. PICK p \in running[t] :
              /\ running' = [running EXCEPT ![t] = @ \ {p}]
              /\ generation' = [generation EXCEPT ![Slot(p)] = Gen(p + QueueMax)]
        BY <2>6 DEF Release
      <3>2. p \in Nat /\ p + QueueMax \in Nat
        BY Moduli
      <3>3. Gen(p + QueueMax) \in 0 .. GenMod - 1
        BY <3>2, SlotType
      <3> QED
        BY <2>6, <3>1, <3>3 DEF Release
    <2> QED
      BY <1>3, <2>1, <2>2, <2>3, <2>4, <2>5, <2>6 DEF Pop
  <1> QED
    BY <1>1, <1>2, <1>3 DEF Next

(* Every variable of the ring keeps its type: slots and tickets are natural *)
(* numbers, and generations stay within their width.                        *)
THEOREM Typing == Spec => []TypeOK
  BY InitTypeOK, NextTypeOK, PTL DEF Spec

-----------------------------------------------------------------------------
(* What a step does to the tickets: most steps do nothing, the others move  *)
(* one ticket of one thread along.                                          *)

Quiet ==
  /\ UNCHANGED <<queueHead, queueTail, generation>>
  /\ \A u \in Threads : \A p \in Nat :
       (Claims(u, p)' <=> Claims(u, p)) /\ (Takes(u, p)' <=> Takes(u, p))

ClaimStep(t) ==
  /\ pc[t] = "push_cas" /\ pos[t] = queueHead
  /\ queueHead' = queueHead + 1
  /\ UNCHANGED <<queueTail, generation>>
  /\ \A u \in Threads : \A p \in Nat :
       /\ Claims(u, p)' <=> Claims(u, p) \/ (u = t /\ p = queueHead)
       /\ Takes(u, p)' <=> Takes(u, p)

PublishStep(t, q) ==
  /\ Claims(t, q)
  /\ UNCHANGED <<queueHead, queueTail>>
  /\ generation' = [generation EXCEPT ![Slot(q)] = Gen(q + 1)]
  /\ \A u \in Threads : \A p \in Nat :
       /\ Claims(u, p)' <=> Claims(u, p) /\ u # t
       /\ Takes(u, p)' <=> Takes(u, p)

TakeStep(t) ==
  /\ pc[t] = "pop_cas" /\ pos[t] = queueTail
  /\ queueTail' = queueTail + 1
  /\ UNCHANGED <<queueHead, generation>>
  /\ \A u \in Threads : \A p \in Nat :
       /\ Claims(u, p)' <=> Claims(u, p)
       /\ Takes(u, p)' <=> Takes(u, p) \/ (u = t /\ p = queueTail)

ReleaseStep(t, q) ==
  /\ Takes(t, q)
  /\ UNCHANGED <<queueHead, queueTail>>
  /\ generation' = [generation EXCEPT ![Slot(q)] = Gen(q + QueueMax)]
  /\ \A u \in Threads : \A p \in Nat :
       /\ Claims(u, p)' <=> Claims(u, p)
       /\ Takes(u, p)' <=> Takes(u, p) /\ ~(u = t /\ p = q)

TicketStep ==
  \/ Quiet
  \/ \E t \in Threads : ClaimStep(t)
  \/ \E t \in Threads : \E q \in Nat : PublishStep(t, q)
  \/ \E t \in Threads : TakeStep(t)
  \/ \E t \in Threads : \E q \in Nat : ReleaseStep(t, q)

(* Every step moves at most one ticket of one thread along.                 *)
LEMMA StepKinds == TypeOK /\ [Next]_vars => TicketStep
  <1> SUFFICES ASSUME TypeOK, [Next]_vars PROVE TicketStep
    OBVIOUS
  <1> USE DEF TypeOK, ringVars, Goto, Claims, Takes
  <1>1. CASE UNCHANGED vars
    BY <1>1 DEF vars, threadVars, TicketStep, Quiet
  <1>2. ASSUME NEW t \in Threads, Push(t) PROVE TicketStep
    <2>1. CASE PushBegin(t)
      BY <2>1 DEF PushBegin, TicketStep, Quiet
    <2>2. CASE PushLoad(t)
      BY <2>2 DEF PushLoad, TicketStep, Quiet
    <2>3. CASE PushCheck(t)
      BY <2>3 DEF PushCheck, TicketStep, Quiet
    <2>4. CASE PushCas(t) /\ queueHead' = queueHead + 1
      <3>1. ClaimStep(t)
        BY <2>4 DEF PushCas, ClaimStep
      <3> QED
        BY <3>1 DEF TicketStep
    <2>5. CASE PushCas(t) /\ queueHead' = queueHead
      BY <2>5 DEF PushCas, TicketStep, Quiet
    <2>6. CASE PushFill(t)
      BY <2>6 DEF PushFill, TicketStep, Quiet
    <2>7. CASE PushPublish(t)
      <3>1. PICK q \in Nat : q = pos[t]
        OBVIOUS
      <3>2. PublishStep(t, q)
        BY <2>7, <3>1 DEF PushPublish, PublishStep
      <3> QED
        BY <3>2 DEF TicketStep
    <2> QED
      BY <1>2, <2>1, <2>2, <2>3, <2>4, <2>5, <2>6, <2>7 DEF Push, PushCas
  <1>3. ASSUME NEW t \in Threads, Pop(t) PROVE TicketStep
    <2>1. CASE PopBegin(t)
      BY <2>1 DEF PopBegin, TicketStep, Quiet
    <2>2. CASE PopLoad(t)
      BY <2>2 DEF PopLoad, TicketStep, Quiet
    <2>3. CASE PopCheck(t)
      BY <2>3 DEF PopCheck, TicketStep, Quiet
    <2>4. CASE PopCas(t) /\ queueTail' = queueTail + 1
      <3>1. TakeStep(t)
        BY <2>4 DEF PopCas, TakeStep
      <3> QED
        BY <3>1 DEF TicketStep
    <2>5. CASE PopCas(t) /\ queueTail' = queueTail
      BY <2>5 DEF PopCas, TicketStep, Quiet
    <2>6. CASE PopRead(t)
      BY <2>6 DEF PopRead, TicketStep, Quiet
    <2>7. CASE Release(t)
      <3>1. PICK q \in running[t] :
              /\ running' = [running EXCEPT ![t] = @ \ {q}]
              /\ generation' = [generation EXCEPT ![Slot(q)] = Gen(q + QueueMax)]
        BY <2>7 DEF Release
      <3>2. q \in Nat
        OBVIOUS
      <3>3. ReleaseStep(t, q)
        BY <2>7, <3>1, <3>2 DEF Release, ReleaseStep
      <3> QED
        BY <3>2, <3>3 DEF TicketStep
    <2> QED
      BY <1>3, <2>1, <2>2, <2>3, <2>4, <2>5, <2>6, <2>7 DEF Pop, PopCas
  <1> QED
    BY <1>1, <1>2, <1>3 DEF Next

-----------------------------------------------------------------------------
(* The ticket invariant is inductive. *)

(* The ticket invariant holds of the ring just initialised.                 *)
LEMMA InitIndInv == Init => IndInv
  <1> SUFFICES ASSUME Init PROVE IndInv
    OBVIOUS
  <1>1. TypeOK
    BY InitTypeOK
  <1>2. \A t \in Threads : \A p \in Nat : ~Claims(t, p) /\ ~Takes(t, p)
    BY DEF Init, Claims, Takes
  <1>3. OrderInv
    BY <1>2, Moduli DEF Init, OrderInv
  <1>4. OwnerInv
    BY <1>2 DEF OwnerInv, Uses
  <1>5. SlotInv
    <2>1. queueHead = 0 /\ generation = [s \in Slots |-> Gen(s)]
      BY DEF Init
    <2> SUFFICES ASSUME NEW p \in 0 .. QueueMax - 1 PROVE SlotOK(p, p - QueueMax)
      BY <2>1, Moduli DEF SlotInv
    <2>2. p \in Nat /\ p < QueueMax /\ p - QueueMax < 0 /\ p \in Slots
      BY Moduli DEF Slots
    <2>3. p % QueueMax = p
      BY <2>2, Moduli, Z3
    <2> QED
      BY <2>1, <2>2, <2>3 DEF Slot, SlotOK
  <1>6. CasInv
    BY DEF Init, CasInv, CasOK
  <1>7. DataInv
    BY DEF Init, DataInv, HeldOK, RunsWhatWasPushed
  <1> QED
    BY <1>1, <1>3, <1>4, <1>5, <1>6, <1>7 DEF IndInv

(* A ticket that has finished stays finished, and a published ticket stays  *)
(* published.                                                               *)
LEMMA Stable ==
  ASSUME TypeOK, OrderInv, TicketStep
  PROVE  /\ queueHead <= queueHead' /\ queueTail <= queueTail'
         /\ \A p \in Nat : Finished(p) => Finished(p)'
         /\ \A p \in Nat : p < queueHead /\ ~Claimed(p) => ~Claimed(p)'
  <1> USE DEF TypeOK, Finished, Taken, Claimed
  <1>1. CASE Quiet
    BY <1>1 DEF Quiet
  <1>2. CASE \E t \in Threads : ClaimStep(t)
    BY <1>2 DEF ClaimStep
  <1>3. CASE \E t \in Threads : \E q \in Nat : PublishStep(t, q)
    BY <1>3 DEF PublishStep
  <1>4. CASE \E t \in Threads : TakeStep(t)
    BY <1>4 DEF TakeStep
  <1>5. CASE \E t \in Threads : \E q \in Nat : ReleaseStep(t, q)
    BY <1>5 DEF ReleaseStep
  <1> QED
    BY <1>1, <1>2, <1>3, <1>4, <1>5 DEF TicketStep

(* The ticket that used the slot of ticket queueHead before has finished    *)
(* when a compare-exchange claims the slot again.                           *)
LEMMA ClaimFinds ==
  ASSUME TypeOK, CasInv, NEW t \in Threads, ClaimStep(t),
         NEW q \in Nat, q + QueueMax = queueHead
  PROVE  Finished(q)
  <1>1. q = pos[t] - QueueMax /\ ~(pos[t] < QueueMax)
    BY Moduli DEF ClaimStep, TypeOK
  <1> QED
    BY <1>1 DEF ClaimStep, CasInv, CasOK

(* A compare-exchange on queueTail pops a published ticket.                 *)
LEMMA TakeFinds ==
  ASSUME CasInv, NEW t \in Threads, TakeStep(t)
  PROVE  queueTail < queueHead /\ ~Claimed(queueTail)
  BY DEF TakeStep, CasInv, CasOK

(* Tickets stay in the window between queueTail and queueHead.              *)
LEMMA OrderStep == TypeOK /\ OrderInv /\ OwnerInv /\ CasInv /\ TicketStep => OrderInv'
  <1> SUFFICES ASSUME TypeOK, OrderInv, OwnerInv, CasInv, TicketStep PROVE OrderInv'
    OBVIOUS
  <1> USE DEF TypeOK, OrderInv
  <1>1. CASE Quiet
    BY <1>1, Stable DEF Quiet
  <1>2. ASSUME NEW t \in Threads, ClaimStep(t) PROVE OrderInv'
    <2>1. \A p \in Nat : p + QueueMax < queueHead' => Finished(p)'
      <3> SUFFICES ASSUME NEW p \in Nat, p + QueueMax < queueHead + 1 PROVE Finished(p)'
        BY <1>2 DEF ClaimStep
      <3>1. p + QueueMax < queueHead \/ p + QueueMax = queueHead
        BY Moduli
      <3>2. Finished(p)
        BY <1>2, <3>1, ClaimFinds
      <3> QED
        BY <3>2, Stable
    <2> QED
      BY <1>2, <2>1 DEF ClaimStep
  <1>3. ASSUME NEW t \in Threads, NEW q \in Nat, PublishStep(t, q) PROVE OrderInv'
    BY <1>3, Stable DEF PublishStep
  <1>4. ASSUME NEW t \in Threads, TakeStep(t) PROVE OrderInv'
    <2>1. queueTail < queueHead /\ ~Claimed(queueTail)
      BY <1>4, TakeFinds
    <2>2. \A u \in Threads : \A p \in Nat : Claims(u, p) => queueTail + 1 <= p
      BY <2>1 DEF Claimed
    <2>3. \A p \in Nat : p + QueueMax < queueHead => Finished(p)'
      BY Stable
    <2> QED
      BY <1>4, <2>1, <2>2, <2>3 DEF TakeStep
  <1>5. ASSUME NEW t \in Threads, NEW q \in Nat, ReleaseStep(t, q) PROVE OrderInv'
    BY <1>5, Stable DEF ReleaseStep
  <1> QED
    BY <1>1, <1>2, <1>3, <1>4, <1>5 DEF TicketStep

(* A ticket stays in the hands of one thread.                               *)
LEMMA OwnerStep == TypeOK /\ OrderInv /\ OwnerInv /\ CasInv /\ TicketStep => OwnerInv'
  <1> SUFFICES ASSUME TypeOK, OrderInv, OwnerInv, CasInv, TicketStep PROVE OwnerInv'
    OBVIOUS
  <1> USE DEF TypeOK, OwnerInv, Uses
  <1>1. CASE Quiet
    BY <1>1 DEF Quiet
  <1>2. ASSUME NEW t \in Threads, ClaimStep(t) PROVE OwnerInv'
    <2>1. \A u \in Threads : ~Claims(u, queueHead) /\ ~Takes(u, queueHead)
      BY DEF OrderInv
    <2> QED
      BY <1>2, <2>1 DEF ClaimStep
  <1>3. ASSUME NEW t \in Threads, NEW q \in Nat, PublishStep(t, q) PROVE OwnerInv'
    BY <1>3 DEF PublishStep
  <1>4. ASSUME NEW t \in Threads, TakeStep(t) PROVE OwnerInv'
    <2>1. \A u \in Threads : ~Claims(u, queueTail) /\ ~Takes(u, queueTail)
      BY <1>4, TakeFinds DEF OrderInv, Claimed
    <2> QED
      BY <1>4, <2>1 DEF TakeStep
  <1>5. ASSUME NEW t \in Threads, NEW q \in Nat, ReleaseStep(t, q) PROVE OwnerInv'
    BY <1>5 DEF ReleaseStep
  <1> QED
    BY <1>1, <1>2, <1>3, <1>4, <1>5 DEF TicketStep

(* The slots of the window are distinct. *)
LEMMA SlotsApart ==
  ASSUME TypeOK, NEW p \in queueHead .. queueHead + QueueMax - 1, NEW r \in Nat,
         r + QueueMax \in queueHead .. queueHead + QueueMax - 1, p # r + QueueMax
  PROVE  Slot(p) # Slot(r)
  <1>1. p \in Nat /\ r + QueueMax \in Nat
    BY Moduli DEF TypeOK
  <1>2. p < r + QueueMax + QueueMax /\ r + QueueMax < p + QueueMax
    BY <1>1, Moduli DEF TypeOK
  <1>3. Slot(p) # Slot(r + QueueMax)
    BY <1>1, <1>2, SlotInj
  <1> QED
    BY <1>3, SlotNext

(* A ticket in the hands of a thread is in the window. *)
LEMMA InWindow ==
  ASSUME TypeOK, OrderInv, NEW t \in Threads, NEW r \in Nat, Claims(t, r) \/ Takes(t, r)
  PROVE  r < queueHead /\ r + QueueMax \in queueHead .. queueHead + QueueMax - 1
  <1>1. r < queueHead
    BY DEF OrderInv, TypeOK
  <1>2. ~Finished(r)
    BY DEF OrderInv, TypeOK, Finished, Taken
  <1> QED
    BY <1>1, <1>2, Moduli DEF OrderInv, TypeOK

(* A step that leaves the status of the ticket before p and the generation  *)
(* of its slot alone leaves what the slot says about it alone.              *)
LEMMA SlotKeep ==
  ASSUME NEW p \in Nat, NEW q \in Int, SlotOK(p, q),
         generation[Slot(p)]' = generation[Slot(p)],
         q >= 0 => (Claimed(q)' <=> Claimed(q)) /\ (Finished(q)' <=> Finished(q))
  PROVE  SlotOK(p, q)'
  BY DEF SlotOK

(* The generation of every slot of the window keeps saying what became of its last ticket. *)
LEMMA SlotStep ==
  TypeOK /\ TypeOK' /\ OrderInv /\ OwnerInv /\ SlotInv /\ CasInv /\ TicketStep => SlotInv'
  <1> SUFFICES ASSUME TypeOK, TypeOK', OrderInv, OwnerInv, SlotInv, CasInv, TicketStep,
                      NEW p \in queueHead' .. queueHead' + QueueMax - 1
               PROVE  SlotOK(p, p - QueueMax)'
    BY DEF SlotInv
  <1> DEFINE q == p - QueueMax
  <1>q. p \in Nat /\ q \in Int /\ p = q + QueueMax
    BY Moduli DEF TypeOK
  <1>w. CASE p \in queueHead .. queueHead + QueueMax - 1
    <2>0. SlotOK(p, q)
      BY <1>w DEF SlotInv
    <2> HIDE DEF q
    <2>1. CASE Quiet
      <3>1. q >= 0 => (Claimed(q)' <=> Claimed(q)) /\ (Finished(q)' <=> Finished(q))
        BY <1>q, <2>1 DEF Quiet, Claimed, Finished, Taken
      <3> QED
        BY <1>q, <2>0, <2>1, <3>1, SlotKeep DEF Quiet, q
    <2>2. ASSUME NEW t \in Threads, ClaimStep(t) PROVE SlotOK(p, q)'
      <3>1. q < queueHead
        BY <1>q, <1>w, Moduli DEF TypeOK
      <3>2. q >= 0 => (Claimed(q)' <=> Claimed(q)) /\ (Finished(q)' <=> Finished(q))
        BY <1>q, <2>2, <3>1 DEF TypeOK, ClaimStep, Claimed, Finished, Taken
      <3> QED
        BY <1>q, <2>0, <2>2, <3>2, SlotKeep DEF ClaimStep
    <2>3. ASSUME NEW t \in Threads, NEW r \in Nat, PublishStep(t, r) PROVE SlotOK(p, q)'
      <3>1. Claims(t, r)
        BY <2>3 DEF PublishStep
      <3>2. r < queueHead /\ r + QueueMax \in queueHead .. queueHead + QueueMax - 1
        BY <3>1, InWindow
      <3>3. CASE q = r
        <4>1. ~Claimed(r)'
          BY <2>3, <3>1 DEF PublishStep, Claimed, OwnerInv, Uses
        <4>2. ~Finished(r)'
          BY <2>3, <3>1 DEF PublishStep, Finished, OrderInv, TypeOK
        <4>3. Slot(p) = Slot(r)
          BY <1>q, <3>3, SlotNext
        <4>4. generation'[Slot(p)] = Gen(r + 1)
          BY <2>3, <4>3, SlotType DEF PublishStep, TypeOK
        <4> QED
          BY <1>q, <3>3, <4>1, <4>2, <4>4 DEF SlotOK
      <3>4. CASE q # r
        <4>1. Slot(p) # Slot(r)
          <5>1. p # r + QueueMax
            BY <1>q, <3>4, Moduli
          <5> QED
            BY <1>w, <3>2, <5>1, SlotsApart
        <4>2. generation'[Slot(p)] = generation[Slot(p)]
          BY <1>q, <2>3, <4>1, SlotType DEF PublishStep, TypeOK
        <4>3. q >= 0 => (Claimed(q)' <=> Claimed(q)) /\ (Finished(q)' <=> Finished(q))
          <5> SUFFICES ASSUME q \in Nat
                       PROVE  (Claimed(q)' <=> Claimed(q)) /\ (Finished(q)' <=> Finished(q))
            BY <1>q
          <5>1. ~Claims(t, q)
            BY <3>1, <3>4 DEF Claims
          <5> QED
            BY <2>3, <5>1 DEF PublishStep, Claimed, Finished, Taken
        <4> QED
          BY <1>q, <2>0, <4>2, <4>3, SlotKeep
      <3> QED
        BY <3>3, <3>4
    <2>4. ASSUME NEW t \in Threads, TakeStep(t) PROVE SlotOK(p, q)'
      <3>1. q >= 0 => (Claimed(q)' <=> Claimed(q)) /\ (Finished(q)' <=> Finished(q))
        <4> SUFFICES ASSUME q \in Nat
                     PROVE  (Claimed(q)' <=> Claimed(q)) /\ (Finished(q)' <=> Finished(q))
          BY <1>q
        <4>1. Claimed(q)' <=> Claimed(q)
          BY <2>4 DEF TakeStep, Claimed
        <4>2. Finished(q)' <=> Finished(q)
          <5>1. CASE q = queueTail
            BY <2>4, <5>1 DEF TakeStep, Finished, Taken, TypeOK
          <5>2. CASE q # queueTail
            BY <2>4, <5>2 DEF TakeStep, Finished, Taken, TypeOK
          <5> QED
            BY <5>1, <5>2
        <4> QED
          BY <4>1, <4>2
      <3> QED
        BY <1>q, <2>0, <2>4, <3>1, SlotKeep DEF TakeStep
    <2>5. ASSUME NEW t \in Threads, NEW r \in Nat, ReleaseStep(t, r) PROVE SlotOK(p, q)'
      <3>1. Takes(t, r)
        BY <2>5 DEF ReleaseStep
      <3>2. r < queueHead /\ r + QueueMax \in queueHead .. queueHead + QueueMax - 1
        BY <3>1, InWindow
      <3>3. CASE q = r
        <4>1. Finished(r)'
          BY <2>5, <3>1 DEF ReleaseStep, Finished, Taken, OrderInv, OwnerInv, Uses, TypeOK
        <4>2. Slot(p) = Slot(r)
          BY <1>q, <3>3, SlotNext
        <4>3. generation'[Slot(p)] = Gen(p)
          BY <1>q, <2>5, <3>3, <4>2, SlotType DEF ReleaseStep, TypeOK
        <4> QED
          BY <3>3, <4>1, <4>3 DEF SlotOK
      <3>4. CASE q # r
        <4>1. Slot(p) # Slot(r)
          <5>1. p # r + QueueMax
            BY <1>q, <3>4, Moduli
          <5> QED
            BY <1>w, <3>2, <5>1, SlotsApart
        <4>2. generation'[Slot(p)] = generation[Slot(p)]
          BY <1>q, <2>5, <4>1, SlotType DEF ReleaseStep, TypeOK
        <4>3. q >= 0 => (Claimed(q)' <=> Claimed(q)) /\ (Finished(q)' <=> Finished(q))
          <5> SUFFICES ASSUME q \in Nat
                       PROVE  (Claimed(q)' <=> Claimed(q)) /\ (Finished(q)' <=> Finished(q))
            BY <1>q
          <5> QED
            BY <2>5, <3>4 DEF ReleaseStep, Claimed, Finished, Taken
        <4> QED
          BY <1>q, <2>0, <4>2, <4>3, SlotKeep
      <3> QED
        BY <3>3, <3>4
    <2> QED
      BY <2>1, <2>2, <2>3, <2>4, <2>5 DEF TicketStep, q
  <1>n. CASE p \notin queueHead .. queueHead + QueueMax - 1
    <2>1. PICK t \in Threads : ClaimStep(t)
      BY <1>n, Moduli DEF TicketStep, Quiet, PublishStep, TakeStep, ReleaseStep, TypeOK
    <2>2. q = queueHead
      BY <1>q, <1>n, <2>1, Moduli DEF ClaimStep, TypeOK
    <2>3. Claimed(q)'
      BY <2>1, <2>2 DEF ClaimStep, Claimed, TypeOK
    <2>4. generation[Slot(q)] = Gen(q)
      <3>1. PICK r \in Int : r = queueHead - QueueMax
        BY Moduli DEF TypeOK
      <3>2. r < 0 \/ Finished(r)
        BY <2>1, <3>1, ClaimFinds, Moduli DEF TypeOK
      <3>3. r < 0 \/ ~Claimed(r)
        BY <3>1, <3>2 DEF OrderInv, Finished, Claimed, TypeOK
      <3>4. SlotOK(queueHead, r)
        BY <3>1, Moduli DEF SlotInv, TypeOK
      <3>5. generation[Slot(queueHead)] = Gen(queueHead)
        BY <3>2, <3>3, <3>4 DEF SlotOK
      <3> QED
        BY <2>2, <3>5
    <2>5. generation'[Slot(p)] = Gen(q)
      BY <1>q, <2>1, <2>2, <2>4, SlotNext DEF ClaimStep, TypeOK
    <2> QED
      BY <2>2, <2>3, <2>5 DEF SlotOK, TypeOK
  <1> QED
    BY <1>w, <1>n

(* A push whose generation test succeeds finds the slot's last ticket       *)
(* finished.                                                                *)
LEMMA PushTest ==
  ASSUME TypeOK, OrderInv, SlotInv, generation[Slot(queueHead)] = Gen(queueHead)
  PROVE  queueHead < QueueMax \/ Finished(queueHead - QueueMax)
  <1> SUFFICES ASSUME queueHead >= QueueMax PROVE Finished(queueHead - QueueMax)
    BY Moduli DEF TypeOK
  <1>1. PICK r \in Nat : r = queueHead - QueueMax
    BY Moduli DEF TypeOK
  <1>2. SlotOK(queueHead, r)
    BY <1>1, Moduli DEF SlotInv, TypeOK
  <1>3. Gen(r) # Gen(queueHead)
    BY <1>1, Moduli, GenInj DEF TypeOK
  <1>4. Gen(r + 1) # Gen(queueHead)
    <2>1. r + 1 \in Nat /\ r + 1 # queueHead /\ r + 1 <= queueHead + QueueMax
          /\ queueHead <= r + 1 + QueueMax
      BY <1>1, Moduli DEF TypeOK
    <2> QED
      BY <2>1, GenInj DEF TypeOK
  <1> QED
    BY <1>1, <1>2, <1>3, <1>4 DEF SlotOK

(* A pop whose generation test succeeds finds a published ticket. *)
LEMMA PopTest ==
  ASSUME TypeOK, OrderInv, SlotInv, generation[Slot(queueTail)] = Gen(queueTail + 1)
  PROVE  queueTail < queueHead /\ ~Claimed(queueTail)
  <1>1. ~Finished(queueTail)
    BY DEF Finished, TypeOK
  <1>2. Gen(queueTail) # Gen(queueTail + 1)
    <2>1. queueTail + 1 \in Nat /\ queueTail <= queueTail + 1 + QueueMax
          /\ queueTail + 1 <= queueTail + QueueMax
      BY Moduli DEF TypeOK
    <2> QED
      BY <2>1, GenInj DEF TypeOK
  <1>3. CASE queueTail < queueHead
    <2>1. PICK p \in Nat : p = queueTail + QueueMax
      BY Moduli DEF TypeOK
    <2>2. p \in queueHead .. queueHead + QueueMax - 1 /\ p - QueueMax = queueTail
      BY <1>1, <1>3, <2>1, Moduli DEF OrderInv, TypeOK
    <2>3. SlotOK(p, queueTail)
      BY <2>2 DEF SlotInv
    <2>4. Slot(p) = Slot(queueTail)
      BY <2>1, SlotNext DEF TypeOK
    <2> QED
      BY <1>1, <1>2, <1>3, <2>3, <2>4 DEF SlotOK, TypeOK
  <1>4. CASE queueTail = queueHead
    <2>1. PICK r \in Int : r = queueHead - QueueMax
      BY Moduli DEF TypeOK
    <2>2. SlotOK(queueHead, r)
      BY <2>1, Moduli DEF SlotInv, TypeOK
    <2>3. r >= 0 => ~Claimed(r)
      BY <1>4, <2>1, Moduli DEF OrderInv, Claimed, TypeOK
    <2>4. r >= 0 => Gen(r + 1) # Gen(queueHead + 1)
      <3> SUFFICES ASSUME r >= 0 PROVE Gen(r + 1) # Gen(queueHead + 1)
        OBVIOUS
      <3>1. r + 1 \in Nat /\ queueHead + 1 \in Nat /\ r + 1 # queueHead + 1
            /\ r + 1 <= queueHead + 1 + QueueMax /\ queueHead + 1 <= r + 1 + QueueMax
        BY <2>1, Moduli DEF TypeOK
      <3> QED
        BY <3>1, GenInj
    <2> QED
      BY <1>2, <1>4, <2>2, <2>3, <2>4 DEF SlotOK
  <1> QED
    BY <1>3, <1>4 DEF OrderInv, TypeOK

(* What a thread has read before its compare-exchange is not undone by the others. *)
LEMMA CasKeep ==
  ASSUME TypeOK, TypeOK', OrderInv, TicketStep, NEW u \in Threads, CasOK(u),
         pc'[u] = pc[u], pos'[u] = pos[u]
  PROVE  CasOK(u)'
  <1>1. /\ queueHead <= queueHead' /\ queueTail <= queueTail'
        /\ \A p \in Nat : Finished(p) => Finished(p)'
        /\ \A p \in Nat : p < queueHead /\ ~Claimed(p) => ~Claimed(p)'
    BY Stable
  <1>2. pos[u] \in Nat
    BY DEF TypeOK
  <1>3. ~(pos[u] < QueueMax) => pos[u] - QueueMax \in Nat
    BY <1>2, Moduli
  <1>4. pc'[u] \in {"push_check", "push_cas"} => pos'[u] <= queueHead'
    BY <1>1, <1>2 DEF CasOK, TypeOK
  <1>5. pc'[u] \in {"pop_check", "pop_cas"} => pos'[u] <= queueTail'
    BY <1>1, <1>2 DEF CasOK, TypeOK
  <1>6. pc'[u] = "push_cas" /\ pos'[u] = queueHead' =>
          pos'[u] < QueueMax \/ Finished(pos[u] - QueueMax)'
    <2> SUFFICES ASSUME pc[u] = "push_cas", pos[u] = queueHead', ~(pos[u] < QueueMax)
                 PROVE  Finished(pos[u] - QueueMax)'
      OBVIOUS
    <2>1. pos[u] = queueHead
      BY <1>1, <1>2 DEF CasOK, TypeOK
    <2>2. Finished(pos[u] - QueueMax)
      BY <2>1 DEF CasOK
    <2> QED
      BY <1>1, <1>3, <2>2
  <1>7. pc'[u] = "pop_cas" /\ pos'[u] = queueTail' =>
          pos'[u] < queueHead' /\ ~Claimed(pos[u])'
    <2> SUFFICES ASSUME pc[u] = "pop_cas", pos[u] = queueTail'
                 PROVE  pos[u] < queueHead' /\ ~Claimed(pos[u])'
      OBVIOUS
    <2>1. pos[u] = queueTail
      BY <1>1, <1>2 DEF CasOK, TypeOK
    <2>2. pos[u] < queueHead /\ ~Claimed(pos[u])
      BY <2>1 DEF CasOK
    <2> QED
      BY <1>1, <1>2, <2>2 DEF TypeOK
  <1> QED
    BY <1>4, <1>5, <1>6, <1>7 DEF CasOK

(* What a thread has read before its compare-exchange stays true until it runs. *)
LEMMA CasStep ==
  TypeOK /\ TypeOK' /\ OrderInv /\ SlotInv /\ CasInv /\ [Next]_vars => CasInv'
  <1> SUFFICES ASSUME TypeOK, TypeOK', OrderInv, SlotInv, CasInv, [Next]_vars,
                      NEW u \in Threads
               PROVE  CasOK(u)'
    BY DEF CasInv
  <1>0. TicketStep
    BY StepKinds
  <1>k. ASSUME pc'[u] = pc[u], pos'[u] = pos[u] PROVE CasOK(u)'
    BY <1>0, <1>k, CasKeep DEF CasInv
  <1>o. ASSUME pc'[u] \notin {"push_check", "push_cas", "pop_check", "pop_cas"} PROVE CasOK(u)'
    BY <1>o DEF CasOK
  <1>1. CASE UNCHANGED vars
    BY <1>1, <1>k DEF vars, threadVars
  <1>2. ASSUME NEW t \in Threads, Push(t) PROVE CasOK(u)'
    <2>1. CASE PushBegin(t)
      BY <2>1, <1>k, <1>o DEF PushBegin, Goto, TypeOK
    <2>2. CASE PushLoad(t)
      <3>1. CASE u = t
        BY <2>2, <3>1 DEF PushLoad, Goto, TypeOK, CasOK, ringVars
      <3>2. CASE u # t
        BY <2>2, <3>2, <1>k DEF PushLoad, Goto, TypeOK
      <3> QED
        BY <3>1, <3>2
    <2>3. CASE PushCheck(t)
      <3>1. CASE u = t /\ pc'[t] = "push_cas"
        <4>1. pos'[t] = pos[t] /\ pos[t] \in Nat /\ pos[t] <= queueHead /\ UNCHANGED ringVars
          BY <2>3 DEF PushCheck, TypeOK, CasInv, CasOK
        <4>2. Diff(generation[Slot(pos[t])], pos[t]) = 0
          BY <2>3, <3>1 DEF PushCheck, Goto, TypeOK
        <4>3. generation[Slot(pos[t])] = Gen(pos[t])
          BY <4>1, <4>2, DiffZero, SlotType DEF TypeOK
        <4>4. pos[t] = queueHead => pos[t] < QueueMax \/ Finished(pos[t] - QueueMax)
          BY <4>3, PushTest
        <4>5. Finished(pos[t] - QueueMax)' <=> Finished(pos[t] - QueueMax)
          BY <2>3 DEF PushCheck, Finished, Taken, Takes, Goto, TypeOK, ringVars
        <4> QED
          BY <3>1, <4>1, <4>4, <4>5 DEF CasOK, ringVars
      <3>2. CASE u = t /\ pc'[t] # "push_cas"
        BY <2>3, <3>2, <1>o DEF PushCheck, Goto, TypeOK
      <3>3. CASE u # t
        BY <2>3, <3>3, <1>k DEF PushCheck, Goto, TypeOK
      <3> QED
        BY <3>1, <3>2, <3>3
    <2>4. CASE PushCas(t)
      BY <2>4, <1>k, <1>o DEF PushCas, Goto, TypeOK
    <2>5. CASE PushFill(t)
      BY <2>5, <1>k, <1>o DEF PushFill, Goto, TypeOK
    <2>6. CASE PushPublish(t)
      BY <2>6, <1>k, <1>o DEF PushPublish, Goto, TypeOK
    <2> QED
      BY <1>2, <2>1, <2>2, <2>3, <2>4, <2>5, <2>6 DEF Push
  <1>3. ASSUME NEW t \in Threads, Pop(t) PROVE CasOK(u)'
    <2>1. CASE PopBegin(t)
      BY <2>1, <1>k, <1>o DEF PopBegin, Goto, TypeOK
    <2>2. CASE PopLoad(t)
      <3>1. CASE u = t
        BY <2>2, <3>1 DEF PopLoad, Goto, TypeOK, CasOK, ringVars
      <3>2. CASE u # t
        BY <2>2, <3>2, <1>k DEF PopLoad, Goto, TypeOK
      <3> QED
        BY <3>1, <3>2
    <2>3. CASE PopCheck(t)
      <3>1. CASE u = t /\ pc'[t] = "pop_cas"
        <4>1. pos'[t] = pos[t] /\ pos[t] \in Nat /\ pos[t] <= queueTail /\ UNCHANGED ringVars
          BY <2>3 DEF PopCheck, TypeOK, CasInv, CasOK
        <4>2. Diff(generation[Slot(pos[t])], pos[t] + 1) = 0
          BY <2>3, <3>1 DEF PopCheck, Goto, TypeOK
        <4>3. generation[Slot(pos[t])] = Gen(pos[t] + 1)
          BY <4>1, <4>2, DiffZero, SlotType DEF TypeOK
        <4>4. pos[t] = queueTail => pos[t] < queueHead /\ ~Claimed(pos[t])
          BY <4>3, PopTest
        <4>5. Claimed(pos[t])' <=> Claimed(pos[t])
          BY <2>3 DEF PopCheck, Claimed, Claims, Goto, TypeOK, ringVars
        <4> QED
          BY <3>1, <4>1, <4>4, <4>5 DEF CasOK, ringVars
      <3>2. CASE u = t /\ pc'[t] # "pop_cas"
        BY <2>3, <3>2, <1>o DEF PopCheck, Goto, TypeOK
      <3>3. CASE u # t
        BY <2>3, <3>3, <1>k DEF PopCheck, Goto, TypeOK
      <3> QED
        BY <3>1, <3>2, <3>3
    <2>4. CASE PopCas(t)
      BY <2>4, <1>k, <1>o DEF PopCas, Goto, TypeOK
    <2>5. CASE PopRead(t)
      BY <2>5, <1>k, <1>o DEF PopRead, Goto, TypeOK
    <2>6. CASE Release(t)
      BY <2>6, <1>k DEF Release
    <2> QED
      BY <1>3, <2>1, <2>2, <2>3, <2>4, <2>5, <2>6 DEF Pop
  <1> QED
    BY <1>1, <1>2, <1>3 DEF Next

(* Tickets that are claimed and not finished do not share a slot. *)
LEMMA LiveSlots ==
  ASSUME TypeOK, OrderInv, NEW p \in Nat, NEW q \in Nat, p # q,
         p < queueHead, ~Finished(p), q < queueHead, ~Finished(q)
  PROVE  Slot(p) # Slot(q)
  <1>1. queueHead <= p + QueueMax /\ queueHead <= q + QueueMax
    BY Moduli DEF OrderInv, TypeOK
  <1>2. p < q + QueueMax /\ q < p + QueueMax
    BY <1>1, Moduli DEF TypeOK
  <1> QED
    BY <1>2, SlotInj

(* A ticket a thread is about to fill, publish or read is unfinished.       *)
LEMMA HeldLive ==
  ASSUME TypeOK, OrderInv, NEW t \in Threads,
         pc[t] \in {"push_fill", "push_publish", "pop_read"}
  PROVE  /\ pos[t] \in Nat /\ pos[t] < queueHead /\ ~Finished(pos[t])
         /\ Uses(t, pos[t])
  <1>1. pos[t] \in Nat /\ Uses(t, pos[t])
    BY DEF TypeOK, Uses, Claims, Takes
  <1>2. pos[t] < queueHead
    BY <1>1 DEF OrderInv, Uses, TypeOK
  <1>3. ~Finished(pos[t])
    BY <1>1 DEF OrderInv, Uses, Finished, Taken, TypeOK
  <1> QED
    BY <1>1, <1>2, <1>3

(* A step that neither claims, fills, pops nor reads a ticket. *)
LEMMA DataKeep ==
  ASSUME TypeOK, OrderInv, DataInv,
         UNCHANGED <<queueHead, queueTail, task, log, executed>>,
         \A u \in Threads :
           pc'[u] \in {"push_fill", "push_publish", "pop_read"} =>
             pc'[u] = pc[u] /\ pos'[u] = pos[u] /\ arg'[u] = arg[u],
         \A p \in queueTail .. queueHead - 1 :
           ~Claimed(p)' => ~Claimed(p) \/ task[Slot(p)] = log[p]
  PROVE  DataInv'
  <1>1. \A u \in Threads : HeldOK(u)'
    BY DEF DataInv, HeldOK
  <1>2. RunsWhatWasPushed'
    BY DEF DataInv, RunsWhatWasPushed
  <1> QED
    BY <1>1, <1>2 DEF DataInv

(* The slots keep the tasks their tickets were claimed for.                 *)
LEMMA DataStep ==
  TypeOK /\ TypeOK' /\ OrderInv /\ OwnerInv /\ CasInv /\ DataInv /\ [Next]_vars => DataInv'
  <1> SUFFICES ASSUME TypeOK, TypeOK', OrderInv, OwnerInv, CasInv, DataInv, [Next]_vars
               PROVE  DataInv'
    OBVIOUS
  <1> USE DEF TypeOK, Goto, ringVars
  <1>q. ASSUME Quiet PROVE \A p \in queueTail .. queueHead - 1 : ~Claimed(p)' => ~Claimed(p)
    BY <1>q DEF Quiet, Claimed
  <1>1. CASE UNCHANGED vars
    <2>1. Quiet
      BY <1>1 DEF vars, threadVars, Quiet, Claims, Takes
    <2> QED
      BY <1>1, <1>q, <2>1, DataKeep DEF vars, threadVars
  <1>2. ASSUME NEW t \in Threads, Push(t) PROVE DataInv'
    <2>1. CASE PushBegin(t) \/ PushLoad(t) \/ PushCheck(t)
      <3>1. Quiet
        BY <2>1 DEF PushBegin, PushLoad, PushCheck, Quiet, Claims, Takes
      <3>2. UNCHANGED <<queueHead, queueTail, task, log, executed>>
        BY <2>1 DEF PushBegin, PushLoad, PushCheck
      <3>3. \A u \in Threads :
              pc'[u] \in {"push_fill", "push_publish", "pop_read"} =>
                pc'[u] = pc[u] /\ pos'[u] = pos[u] /\ arg'[u] = arg[u]
        BY <2>1 DEF PushBegin, PushLoad, PushCheck
      <3> QED
        BY <1>q, <3>1, <3>2, <3>3, DataKeep
    <2>2. CASE PushCas(t) /\ queueHead' = queueHead
      <3>1. pc' = [pc EXCEPT ![t] = "push_load"]
            /\ UNCHANGED <<queueHead, queueTail, task, pos, arg, log, executed>>
        BY <2>2 DEF PushCas
      <3>2. \A p \in Nat : Claimed(p)' <=> Claimed(p)
        BY <2>2, <3>1 DEF PushCas, Claimed, Claims
      <3> QED
        BY <3>1, <3>2, DataKeep
    <2>3. CASE PushCas(t) /\ queueHead' = queueHead + 1
      <3>1. /\ pos[t] = queueHead
            /\ pc' = [pc EXCEPT ![t] = "push_fill"]
            /\ log' = [p \in 0 .. queueHead |-> IF p = queueHead THEN arg[t] ELSE log[p]]
            /\ UNCHANGED <<queueTail, task, pos, arg, executed>>
        BY <2>3 DEF PushCas
      <3>2. DOMAIN log' = 0 .. queueHead' - 1
        BY <2>3, <3>1
      <3>3. \A p \in 0 .. queueHead - 1 : log'[p] = log[p]
        BY <3>1
      <3>4. \A u \in Threads : HeldOK(u)'
        <4> SUFFICES ASSUME NEW u \in Threads PROVE HeldOK(u)'
          OBVIOUS
        <4>1. CASE u = t
          BY <3>1, <4>1 DEF HeldOK
        <4>2. CASE u # t
          <5>1. pc'[u] = pc[u]
            BY <3>1, <4>2
          <5>2. pc[u] \in {"push_fill", "push_publish", "pop_read"} =>
                  log'[pos[u]] = log[pos[u]]
            BY <3>3, HeldLive
          <5> QED
            BY <3>1, <5>1, <5>2 DEF HeldOK, DataInv
        <4> QED
          BY <4>1, <4>2
      <3>5. \A p \in queueTail' .. queueHead' - 1 : ~Claimed(p)' => task'[Slot(p)] = log'[p]
        <4>0. queueTail' .. queueHead' - 1 = queueTail .. queueHead
          BY <2>3, <3>1
        <4> SUFFICES ASSUME NEW p \in queueTail .. queueHead, ~Claimed(p)'
                     PROVE  task'[Slot(p)] = log'[p]
          BY <4>0
        <4>1. p # queueHead
          BY <3>1 DEF Claimed, Claims
        <4>2. ~Claimed(p)
          BY <2>3, <3>1 DEF PushCas, Claimed, Claims
        <4> QED
          BY <3>1, <3>3, <4>1, <4>2 DEF DataInv
      <3>6. RunsWhatWasPushed'
        BY <3>1, <3>3 DEF RunsWhatWasPushed, DataInv, OrderInv
      <3> QED
        BY <3>1, <3>2, <3>4, <3>5, <3>6 DEF DataInv
    <2>4. CASE PushFill(t)
      <3>1. /\ pc[t] = "push_fill"
            /\ pc' = [pc EXCEPT ![t] = "push_publish"]
            /\ task' = [task EXCEPT ![Slot(pos[t])] = arg[t]]
            /\ UNCHANGED <<queueHead, queueTail, pos, arg, log, executed>>
        BY <2>4 DEF PushFill
      <3>2. pos[t] \in Nat /\ pos[t] < queueHead /\ ~Finished(pos[t]) /\ Uses(t, pos[t])
        BY <3>1, HeldLive
      <3>3. arg[t] = log[pos[t]] /\ task'[Slot(pos[t])] = arg[t]
        BY <3>1, <3>2, SlotType DEF DataInv, HeldOK
      <3>4. \A p \in Nat : p # pos[t] /\ p < queueHead /\ ~Finished(p) =>
              task'[Slot(p)] = task[Slot(p)]
        BY <3>1, <3>2, LiveSlots, SlotType
      <3>5. \A u \in Threads : HeldOK(u)'
        <4> SUFFICES ASSUME NEW u \in Threads PROVE HeldOK(u)'
          OBVIOUS
        <4>1. CASE u = t
          BY <3>1, <3>3, <4>1 DEF HeldOK
        <4>2. CASE u # t
          <5>1. pc[u] \in {"push_fill", "push_publish", "pop_read"} => pos[u] # pos[t]
            BY <3>2, <4>2, HeldLive DEF OwnerInv
          <5>2. pc[u] \in {"push_fill", "push_publish", "pop_read"} =>
                  task'[Slot(pos[u])] = task[Slot(pos[u])]
            BY <3>4, <5>1, HeldLive
          <5>3. pc'[u] = pc[u]
            BY <3>1, <4>2
          <5> QED
            BY <3>1, <5>2, <5>3 DEF HeldOK, DataInv
        <4> QED
          BY <4>1, <4>2
      <3>6. \A p \in queueTail .. queueHead - 1 : ~Claimed(p)' => task'[Slot(p)] = log[p]
        <4> SUFFICES ASSUME NEW p \in queueTail .. queueHead - 1, ~Claimed(p)'
                     PROVE  task'[Slot(p)] = log[p]
          OBVIOUS
        <4>1. ~Claimed(p) /\ p # pos[t]
          BY <3>1 DEF Claimed, Claims
        <4>2. p \in Nat /\ p < queueHead /\ ~Finished(p)
          BY DEF Finished
        <4> QED
          BY <3>4, <4>1, <4>2 DEF DataInv
      <3>7. RunsWhatWasPushed'
        BY <3>1 DEF RunsWhatWasPushed, DataInv
      <3> QED
        BY <3>1, <3>5, <3>6, <3>7 DEF DataInv
    <2>5. CASE PushPublish(t)
      <3>1. /\ pc[t] = "push_publish"
            /\ pc' = [pc EXCEPT ![t] = "idle"]
            /\ UNCHANGED <<queueHead, queueTail, task, pos, arg, log, executed>>
        BY <2>5 DEF PushPublish
      <3>2. \A p \in queueTail .. queueHead - 1 :
              ~Claimed(p)' => ~Claimed(p) \/ task[Slot(p)] = log[p]
        <4> SUFFICES ASSUME NEW p \in queueTail .. queueHead - 1, ~Claimed(p)', Claimed(p)
                     PROVE  task[Slot(p)] = log[p]
          OBVIOUS
        <4>1. p = pos[t]
          BY <3>1 DEF Claimed, Claims
        <4> QED
          BY <3>1, <4>1 DEF DataInv, HeldOK
      <3> QED
        BY <3>1, <3>2, DataKeep
    <2> QED
      BY <1>2, <2>1, <2>2, <2>3, <2>4, <2>5 DEF Push, PushCas
  <1>3. ASSUME NEW t \in Threads, Pop(t) PROVE DataInv'
    <2>1. CASE PopBegin(t) \/ PopLoad(t) \/ PopCheck(t)
      <3>1. Quiet
        BY <2>1 DEF PopBegin, PopLoad, PopCheck, Quiet, Claims, Takes
      <3>2. UNCHANGED <<queueHead, queueTail, task, log, executed>>
        BY <2>1 DEF PopBegin, PopLoad, PopCheck
      <3>3. \A u \in Threads :
              pc'[u] \in {"push_fill", "push_publish", "pop_read"} =>
                pc'[u] = pc[u] /\ pos'[u] = pos[u] /\ arg'[u] = arg[u]
        BY <2>1 DEF PopBegin, PopLoad, PopCheck
      <3> QED
        BY <1>q, <3>1, <3>2, <3>3, DataKeep
    <2>2. CASE PopCas(t) /\ queueTail' = queueTail
      <3>1. pc' = [pc EXCEPT ![t] = "pop_load"]
            /\ UNCHANGED <<queueHead, queueTail, task, pos, arg, log, executed>>
        BY <2>2 DEF PopCas
      <3>2. \A p \in Nat : Claimed(p)' <=> Claimed(p)
        BY <2>2, <3>1 DEF PopCas, Claimed, Claims
      <3> QED
        BY <3>1, <3>2, DataKeep
    <2>3. CASE PopCas(t) /\ queueTail' = queueTail + 1
      <3>1. /\ pos[t] = queueTail /\ pc[t] = "pop_cas"
            /\ pc' = [pc EXCEPT ![t] = "pop_read"]
            /\ UNCHANGED <<queueHead, task, pos, arg, log, executed>>
        BY <2>3 DEF PopCas
      <3>2. queueTail < queueHead /\ ~Claimed(queueTail)
        BY <3>1 DEF CasInv, CasOK
      <3>3. task[Slot(queueTail)] = log[queueTail]
        BY <3>2 DEF DataInv
      <3>4. \A u \in Threads : HeldOK(u)'
        BY <3>1, <3>3 DEF HeldOK, DataInv
      <3>5. \A p \in Nat : Claimed(p)' <=> Claimed(p)
        BY <3>1 DEF Claimed, Claims
      <3>6. \A p \in queueTail' .. queueHead' - 1 : ~Claimed(p)' => task'[Slot(p)] = log'[p]
        BY <2>3, <3>1, <3>5 DEF DataInv
      <3>7. DOMAIN executed' \subseteq 0 .. queueTail' - 1
        BY <2>3, <3>1 DEF DataInv
      <3>8. RunsWhatWasPushed'
        BY <3>1 DEF RunsWhatWasPushed, DataInv
      <3> QED
        BY <3>1, <3>4, <3>6, <3>7, <3>8 DEF DataInv
    <2>4. CASE PopRead(t)
      <3>1. /\ pc[t] = "pop_read"
            /\ pc' = [pc EXCEPT ![t] = "idle"]
            /\ executed' = [p \in DOMAIN executed \cup {pos[t]} |->
                              IF p = pos[t] THEN task[Slot(p)] ELSE executed[p]]
            /\ UNCHANGED <<queueHead, queueTail, task, pos, arg, log>>
        BY <2>4 DEF PopRead
      <3>2. task[Slot(pos[t])] = log[pos[t]]
        BY <3>1 DEF DataInv, HeldOK
      <3>3. \A p \in DOMAIN executed' : executed'[p] = log'[p]
        BY <3>1, <3>2 DEF DataInv, RunsWhatWasPushed
      <3>4. \A u \in Threads : pc'[u] = "pop_read" => pos'[u] \notin DOMAIN executed'
        <4> SUFFICES ASSUME NEW u \in Threads, pc'[u] = "pop_read"
                     PROVE  pos[u] \notin DOMAIN executed'
          BY <3>1
        <4>1. u # t /\ pc[u] = "pop_read"
          BY <3>1
        <4>2. pos[u] # pos[t]
          BY <3>1, <4>1, HeldLive DEF OwnerInv
        <4> QED
          BY <3>1, <4>1, <4>2 DEF DataInv, RunsWhatWasPushed
      <3>5. DOMAIN executed' \subseteq 0 .. queueTail' - 1
        <4>1. pos[t] \in 0 .. queueTail - 1
          BY <3>1 DEF OrderInv, Takes
        <4> QED
          BY <3>1, <4>1 DEF DataInv
      <3>6. \A u \in Threads : HeldOK(u)'
        BY <3>1 DEF HeldOK, DataInv
      <3>7. \A p \in Nat : Claimed(p)' <=> Claimed(p)
        BY <3>1 DEF Claimed, Claims
      <3>8. \A p \in queueTail' .. queueHead' - 1 : ~Claimed(p)' => task'[Slot(p)] = log'[p]
        BY <3>1, <3>7 DEF DataInv
      <3>9. DOMAIN log' = 0 .. queueHead' - 1
        BY <3>1 DEF DataInv
      <3>10. RunsWhatWasPushed'
        BY <3>3, <3>4 DEF RunsWhatWasPushed
      <3> QED
        BY <3>5, <3>6, <3>8, <3>9, <3>10 DEF DataInv
    <2>5. CASE Release(t)
      <3>1. UNCHANGED <<queueHead, queueTail, task, pc, pos, arg, log, executed>>
        BY <2>5 DEF Release
      <3>2. \A p \in Nat : Claimed(p)' <=> Claimed(p)
        BY <3>1 DEF Claimed, Claims
      <3> QED
        BY <3>1, <3>2, DataKeep
    <2> QED
      BY <1>3, <2>1, <2>2, <2>3, <2>4, <2>5 DEF Pop, PopCas
  <1> QED
    BY <1>1, <1>2, <1>3 DEF Next

-----------------------------------------------------------------------------
(* Every step keeps the ticket invariant.                                   *)
LEMMA NextIndInv == IndInv /\ [Next]_vars => IndInv'
  <1> SUFFICES ASSUME IndInv, [Next]_vars PROVE IndInv'
    OBVIOUS
  <1> USE DEF IndInv
  <1>1. TypeOK' /\ TicketStep
    BY NextTypeOK, StepKinds
  <1>2. OrderInv' /\ OwnerInv'
    BY <1>1, OrderStep, OwnerStep
  <1>3. SlotInv'
    BY <1>1, SlotStep
  <1>4. CasInv'
    BY <1>1, CasStep
  <1>5. DataInv'
    BY <1>1, DataStep
  <1> QED
    BY <1>1, <1>2, <1>3, <1>4, <1>5

(* The tickets, the generations and the slots stay in step in every         *)
(* reachable state.                                                         *)
THEOREM Invariance == Spec => []IndInv
  BY InitIndInv, NextIndInv, PTL DEF Spec

(* Live tickets have slots of their own, and one thread each.               *)
LEMMA InvExclusive == IndInv => SlotExclusive
  <1> SUFFICES ASSUME IndInv, NEW t \in Threads, NEW u \in Threads,
                      NEW p \in 0 .. queueHead, NEW q \in 0 .. queueHead,
                      Uses(t, p), Uses(u, q), Slot(p) = Slot(q)
               PROVE  t = u /\ p = q
    BY DEF SlotExclusive
  <1> USE DEF IndInv
  <1>1. p \in Nat /\ q \in Nat
    BY DEF TypeOK
  <1>2. p < queueHead /\ ~Finished(p)
    BY <1>1 DEF Uses, OrderInv, Finished, Taken, TypeOK
  <1>3. q < queueHead /\ ~Finished(q)
    BY <1>1 DEF Uses, OrderInv, Finished, Taken, TypeOK
  <1>4. p = q
    BY <1>1, <1>2, <1>3, LiveSlots
  <1> QED
    BY <1>1, <1>4 DEF OwnerInv

(* No slot is ever in use for two tickets or by two threads.                *)
THEOREM Exclusive == Spec => []SlotExclusive
  BY Invariance, InvExclusive, PTL

(* Every task that is executed is the one its ticket was claimed for, and   *)
(* no ticket is executed twice.                                             *)
THEOREM RunsPushed == Spec => []RunsWhatWasPushed
  <1>1. IndInv => RunsWhatWasPushed
    BY DEF IndInv, DataInv
  <1> QED
    BY <1>1, Invariance, PTL

(* The generation a join polls tells a finished ticket from an unfinished one. *)
LEMMA InvJoin == IndInv => JoinWaits /\ JoinSeesEnd
  <1> SUFFICES ASSUME IndInv, NEW p \in 0 .. queueHead - 1
               PROVE  /\ ~Claimed(p) /\ ~Finished(p) => ~Done(p)
                      /\ Finished(p) /\ p + QueueMax >= queueHead => Done(p)
    BY DEF JoinWaits, JoinSeesEnd
  <1> USE DEF IndInv
  <1>1. PICK n \in Nat : n = p + QueueMax
    BY Moduli DEF TypeOK
  <1>2. p \in Nat /\ n - QueueMax = p
    BY <1>1, Moduli DEF TypeOK
  <1>3. ~Finished(p) => n >= queueHead
    BY <1>1, <1>2, Moduli DEF OrderInv, TypeOK
  <1>4. n >= queueHead => SlotOK(n, p)
    BY <1>1, <1>2, Moduli DEF SlotInv, TypeOK
  <1>5. Slot(n) = Slot(p)
    BY <1>1, <1>2, SlotNext
  <1>6. Gen(n) # Gen(p + 1)
    <2>1. p + 1 \in Nat /\ n # p + 1 /\ n <= p + 1 + QueueMax /\ p + 1 <= n + QueueMax
      BY <1>1, <1>2, Moduli
    <2> QED
      BY <2>1, GenInj
  <1>7. Finished(p) => ~Claimed(p)
    BY <1>2 DEF OrderInv, Finished, Claimed, TypeOK
  <1> QED
    BY <1>1, <1>2, <1>3, <1>4, <1>5, <1>6, <1>7 DEF SlotOK, Done

(* A join never returns before its task has finished.                       *)
THEOREM JoinIsSafe == Spec => []JoinWaits
  BY Invariance, InvJoin, PTL

(* A join polling a finished task sees it, until the slot is claimed again. *)
THEOREM JoinIsPrompt == Spec => []JoinSeesEnd
  BY Invariance, InvJoin, PTL

-----------------------------------------------------------------------------
(* The ring implements the pool. *)

ArgInv == \A t \in Threads : pc[t] \in PushSteps => arg[t] \in 0 .. MaxTasks - 1

(* Initially no thread is pushing.                                          *)
LEMMA InitArgInv == Init => ArgInv
  BY DEF Init, ArgInv, PushSteps

(* A push publishes one of the tasks that were created.                     *)
LEMMA NextArgInv == TypeOK /\ ArgInv /\ [Next]_vars => ArgInv'
  <1> SUFFICES ASSUME TypeOK, ArgInv, [Next]_vars PROVE ArgInv'
    OBVIOUS
  <1> USE DEF TypeOK, ArgInv, Goto, PushSteps, PopSteps
  <1>1. CASE UNCHANGED vars
    BY <1>1 DEF vars, threadVars
  <1>2. ASSUME NEW t \in Threads, Push(t) PROVE ArgInv'
    <2>1. CASE PushBegin(t)
      BY <2>1, RingAssumption DEF PushBegin
    <2>2. CASE PushLoad(t) \/ PushCheck(t)
      BY <2>2 DEF PushLoad, PushCheck
    <2>3. CASE PushCas(t)
      BY <2>3 DEF PushCas
    <2>4. CASE PushFill(t) \/ PushPublish(t)
      BY <2>4 DEF PushFill, PushPublish
    <2> QED
      BY <1>2, <2>1, <2>2, <2>3, <2>4 DEF Push
  <1>3. ASSUME NEW t \in Threads, Pop(t) PROVE ArgInv'
    BY <1>3 DEF Pop, PopBegin, PopLoad, PopCheck, PopCas, PopRead, Release
  <1> QED
    BY <1>1, <1>2, <1>3 DEF Next

(* A running ticket has been read. *)
StartInv == \A t \in Threads : running[t] \subseteq DOMAIN executed

(* Whatever a thread runs has been read from its slot and started.          *)
LEMMA NextStartInv == TypeOK /\ StartInv /\ [Next]_vars => StartInv'
  <1> SUFFICES ASSUME TypeOK, StartInv, [Next]_vars PROVE StartInv'
    OBVIOUS
  <1> USE DEF TypeOK, StartInv
  <1>1. CASE UNCHANGED vars
    BY <1>1 DEF vars, threadVars
  <1>2. ASSUME NEW t \in Threads, Push(t) PROVE StartInv'
    BY <1>2 DEF Push, PushBegin, PushLoad, PushCheck, PushCas, PushFill, PushPublish
  <1>3. ASSUME NEW t \in Threads, Pop(t) PROVE StartInv'
    <2>1. CASE PopRead(t)
      BY <2>1 DEF PopRead
    <2>2. CASE Release(t)
      BY <2>2 DEF Release
    <2> QED
      BY <1>3, <2>1, <2>2 DEF Pop, PopBegin, PopLoad, PopCheck, PopCas
  <1> QED
    BY <1>1, <1>2, <1>3 DEF Next

(* The ring just initialised is an empty pool.                              *)
LEMMA InitRefines == Init => Pool!Init
  <1> SUFFICES ASSUME Init PROVE Pool!Init
    OBVIOUS
  <1>1. 0 .. queueHead - 1 = {}
    BY DEF Init
  <1>2. TicketStatus = [p \in {} |-> "ready"]
    BY <1>1 DEF TicketStatus
  <1> QED
    BY <1>2 DEF Init, Pool!Init

(* A step that moves no ticket along is a stutter of the pool.              *)
LEMMA StatusKeep ==
  ASSUME queueHead' = queueHead,
         \A p \in 0 .. queueHead - 1 : StatusOf(p)' = StatusOf(p)
  PROVE  TicketStatus' = TicketStatus
  BY DEF TicketStatus

(* A step that moves ticket r along. *)
LEMMA StatusMove ==
  ASSUME queueHead' = queueHead, NEW r \in 0 .. queueHead - 1, NEW old, NEW new,
         StatusOf(r) = old, StatusOf(r)' = new,
         \A p \in 0 .. queueHead - 1 : p # r => StatusOf(p)' = StatusOf(p)
  PROVE  TicketStatus[r] = old /\ TicketStatus' = [TicketStatus EXCEPT ![r] = new]
  BY DEF TicketStatus

(* Every step of the ring is a step of the pool or leaves the pool alone.   *)
LEMMA StepRefines == IndInv /\ ArgInv /\ StartInv /\ [Next]_vars => [Pool!Next]_Pool!poolVars
  <1> SUFFICES ASSUME IndInv, ArgInv, StartInv, [Next]_vars PROVE [Pool!Next]_Pool!poolVars
    OBVIOUS
  <1> USE DEF TypeOK, Goto, ringVars
  <1>0. TypeOK /\ OrderInv /\ OwnerInv /\ CasInv /\ DataInv
    BY DEF IndInv
  <1>s. ASSUME UNCHANGED <<queueHead, log, executed>>,
               \A p \in 0 .. queueHead - 1 : StatusOf(p)' = StatusOf(p)
        PROVE  UNCHANGED Pool!poolVars
    BY <1>s, StatusKeep DEF Pool!poolVars
  <1>1. CASE UNCHANGED vars
    <2>1. \A p \in 0 .. queueHead - 1 : StatusOf(p)' = StatusOf(p)
      BY <1>1 DEF vars, threadVars, StatusOf, Claimed, Claims, Taken, Takes
    <2> QED
      BY <1>1, <1>s, <2>1 DEF vars
  <1>2. ASSUME NEW t \in Threads, Push(t) PROVE [Pool!Next]_Pool!poolVars
    <2>1. CASE PushBegin(t) \/ PushLoad(t) \/ PushCheck(t) \/ PushFill(t)
      <3>1. UNCHANGED <<queueHead, queueTail, log, executed, running>>
        <4>1. CASE PushBegin(t)
          BY <4>1 DEF PushBegin
        <4>2. CASE PushLoad(t)
          BY <4>2 DEF PushLoad
        <4>3. CASE PushCheck(t)
          BY <4>3 DEF PushCheck
        <4>4. CASE PushFill(t)
          BY <4>4 DEF PushFill
        <4> QED
          BY <2>1, <4>1, <4>2, <4>3, <4>4
      <3>2. \A p \in Nat : (Claimed(p)' <=> Claimed(p)) /\ (Taken(p)' <=> Taken(p))
        BY <1>0, <2>1 DEF PushBegin, PushLoad, PushCheck, PushFill,
                          Claimed, Claims, Taken, Takes
      <3> QED
        BY <1>s, <3>1, <3>2 DEF StatusOf
    <2>2. CASE PushCas(t) /\ queueHead' = queueHead
      <3>1. UNCHANGED <<queueHead, queueTail, log, executed, running>>
        BY <1>0, <2>2 DEF PushCas
      <3>2. \A p \in Nat : (Claimed(p)' <=> Claimed(p)) /\ (Taken(p)' <=> Taken(p))
        BY <1>0, <2>2 DEF PushCas, Claimed, Claims, Taken, Takes
      <3> QED
        BY <1>s, <3>1, <3>2 DEF StatusOf
    <2>3. CASE PushCas(t) /\ queueHead' = queueHead + 1
      <3>1. /\ pc[t] = "push_cas" /\ pos[t] = queueHead
            /\ pc' = [pc EXCEPT ![t] = "push_fill"]
            /\ log' = [p \in 0 .. queueHead |-> IF p = queueHead THEN arg[t] ELSE log[p]]
            /\ UNCHANGED <<queueTail, pos, running, executed>>
        BY <2>3 DEF PushCas
      <3>h. PICK h \in Nat : h = queueHead
        BY <1>0
      <3>2. arg[t] \in 0 .. MaxTasks - 1
        BY <3>1 DEF ArgInv, PushSteps
      <3>3. queueHead >= QueueMax => TicketStatus[queueHead - QueueMax] = "finished"
        <4> SUFFICES ASSUME queueHead >= QueueMax
                     PROVE  TicketStatus[queueHead - QueueMax] = "finished"
          OBVIOUS
        <4>1. PICK q \in Nat : q = queueHead - QueueMax
          BY <1>0, Moduli
        <4>2. q \in 0 .. queueHead - 1
          BY <1>0, <4>1, Moduli
        <4>3. Finished(q)
          BY <1>0, <3>1, <4>1, Moduli DEF CasInv, CasOK
        <4>4. ~Claimed(q)
          BY <1>0, <4>3 DEF Finished, Claimed, OrderInv
        <4>5. StatusOf(q) = "finished"
          BY <1>0, <4>3, <4>4 DEF StatusOf, Finished, Taken, Takes
        <4> QED
          BY <4>1, <4>2, <4>5 DEF TicketStatus
      <3>4. /\ DOMAIN log = 0 .. h - 1 /\ h \notin 0 .. h - 1
            /\ (0 .. h - 1) \cup {h} = 0 .. h /\ queueHead' - 1 = h
        BY <1>0, <2>3, <3>h DEF DataInv
      <3>5. log' = Pool!Extend(log, h, arg[t])
        BY <3>1, <3>h, <3>4 DEF Pool!Extend
      <3>6. \A p \in Nat : p # h => (Claimed(p)' <=> Claimed(p))
        BY <1>0, <3>1, <3>h DEF Claimed, Claims
      <3>7. \A p \in Nat : Taken(p)' <=> Taken(p)
        BY <1>0, <3>1 DEF Taken, Takes
      <3>8. \A p \in 0 .. h - 1 : StatusOf(p)' = StatusOf(p)
        BY <1>0, <3>1, <3>4, <3>6, <3>7 DEF StatusOf
      <3>9. StatusOf(h)' = "claimed"
        <4>1. Claims(t, h)'
          BY <1>0, <3>1, <3>h DEF Claims
        <4> QED
          BY <4>1 DEF StatusOf, Claimed
      <3>10. TicketStatus' = Pool!Extend(TicketStatus, h, "claimed")
        <4>1. TicketStatus' = [p \in 0 .. h |-> StatusOf(p)']
          BY <3>4 DEF TicketStatus
        <4>2. TicketStatus = [p \in 0 .. h - 1 |-> StatusOf(p)]
          BY <3>h DEF TicketStatus
        <4>3. Pool!Extend(TicketStatus, h, "claimed") =
                [p \in 0 .. h |-> IF p = h THEN "claimed" ELSE StatusOf(p)]
          BY <3>4, <4>2 DEF Pool!Extend
        <4> QED
          BY <3>4, <3>8, <3>9, <4>1, <4>3
      <3>11. Pool!Claim(arg[t])
        BY <2>3, <3>1, <3>3, <3>5, <3>10, <3>h DEF Pool!Claim
      <3> QED
        BY <3>2, <3>11 DEF Pool!Next
    <2>4. CASE PushPublish(t)
      <3>1. /\ pc[t] = "push_publish"
            /\ pc' = [pc EXCEPT ![t] = "idle"]
            /\ UNCHANGED <<queueHead, queueTail, pos, running, log, executed>>
        BY <2>4 DEF PushPublish
      <3>2. PICK r \in Nat : r = pos[t]
        BY <1>0
      <3>3. Claimed(r) /\ r >= queueTail /\ r \in 0 .. queueHead - 1
        BY <1>0, <3>1, <3>2 DEF Claimed, Claims, OrderInv
      <3>4. ~Claimed(r)'
        BY <1>0, <3>1, <3>2, <3>3 DEF Claimed, Claims, OwnerInv, Uses
      <3>5. \A p \in Nat : (p # r => (Claimed(p)' <=> Claimed(p))) /\ (Taken(p)' <=> Taken(p))
        BY <1>0, <3>1, <3>2 DEF Claimed, Claims, Taken, Takes
      <3>6. StatusOf(r) = "claimed" /\ StatusOf(r)' = "ready"
        BY <3>1, <3>3, <3>4 DEF StatusOf
      <3>7. \A p \in 0 .. queueHead - 1 : p # r => StatusOf(p)' = StatusOf(p)
        BY <1>0, <3>1, <3>5 DEF StatusOf
      <3>8. TicketStatus[r] = "claimed" /\ TicketStatus' = [TicketStatus EXCEPT ![r] = "ready"]
        BY <3>1, <3>3, <3>6, <3>7, StatusMove
      <3>9. r \in DOMAIN TicketStatus
        BY <3>3 DEF TicketStatus
      <3>10. Pool!Publish(r)
        BY <3>1, <3>8 DEF Pool!Publish
      <3> QED
        BY <3>9, <3>10 DEF Pool!Next
    <2> QED
      BY <1>2, <2>1, <2>2, <2>3, <2>4 DEF Push, PushCas
  <1>3. ASSUME NEW t \in Threads, Pop(t) PROVE [Pool!Next]_Pool!poolVars
    <2>1. CASE PopBegin(t) \/ PopLoad(t) \/ PopCheck(t)
      <3>1. UNCHANGED <<queueHead, queueTail, log, executed, running>>
        <4>1. CASE PopBegin(t)
          BY <4>1 DEF PopBegin
        <4>2. CASE PopLoad(t)
          BY <4>2 DEF PopLoad
        <4>3. CASE PopCheck(t)
          BY <4>3 DEF PopCheck
        <4> QED
          BY <2>1, <4>1, <4>2, <4>3
      <3>2. \A p \in Nat : (Claimed(p)' <=> Claimed(p)) /\ (Taken(p)' <=> Taken(p))
        BY <1>0, <2>1 DEF PopBegin, PopLoad, PopCheck, Claimed, Claims, Taken, Takes
      <3> QED
        BY <1>s, <3>1, <3>2 DEF StatusOf
    <2>2. CASE PopCas(t) /\ queueTail' = queueTail
      <3>1. UNCHANGED <<queueHead, queueTail, log, executed, running>>
        BY <1>0, <2>2 DEF PopCas
      <3>2. \A p \in Nat : (Claimed(p)' <=> Claimed(p)) /\ (Taken(p)' <=> Taken(p))
        BY <1>0, <2>2 DEF PopCas, Claimed, Claims, Taken, Takes
      <3> QED
        BY <1>s, <3>1, <3>2 DEF StatusOf
    <2>3. CASE PopCas(t) /\ queueTail' = queueTail + 1
      <3>1. /\ pc[t] = "pop_cas" /\ pos[t] = queueTail
            /\ pc' = [pc EXCEPT ![t] = "pop_read"]
            /\ UNCHANGED <<queueHead, pos, running, log, executed>>
        BY <1>0, <2>3 DEF PopCas
      <3>2. PICK r \in Nat : r = queueTail
        BY <1>0
      <3>3. ~Claimed(r) /\ r \in 0 .. queueHead - 1
        BY <1>0, <3>1, <3>2 DEF CasInv, CasOK
      <3>4. \A p \in Nat : Claimed(p)' <=> Claimed(p)
        BY <1>0, <3>1 DEF Claimed, Claims
      <3>5. \A p \in Nat : p # r => (Taken(p)' <=> Taken(p))
        BY <1>0, <3>1, <3>2 DEF Taken, Takes
      <3>6. Taken(r)' /\ ~(\E u \in Threads : r \in running[u])
        BY <1>0, <3>1, <3>2 DEF Taken, Takes, OrderInv
      <3>7. StatusOf(r) = "ready" /\ StatusOf(r)' = "popped"
        BY <1>0, <2>3, <3>1, <3>2, <3>3, <3>4, <3>6 DEF StatusOf
      <3>8. \A p \in 0 .. queueHead - 1 : p # r => StatusOf(p)' = StatusOf(p)
        BY <1>0, <2>3, <3>1, <3>2, <3>4, <3>5 DEF StatusOf
      <3>9. TicketStatus[r] = "ready" /\ TicketStatus' = [TicketStatus EXCEPT ![r] = "popped"]
        BY <3>1, <3>3, <3>7, <3>8, StatusMove
      <3>10. r \in DOMAIN TicketStatus
        BY <3>3 DEF TicketStatus
      <3>11. \A q \in 0 .. r - 1 : TicketStatus[q] \notin {"claimed", "ready"}
        <4> SUFFICES ASSUME NEW q \in 0 .. r - 1
                     PROVE  TicketStatus[q] \notin {"claimed", "ready"}
          OBVIOUS
        <4>1. q \in 0 .. queueHead - 1 /\ q \in Nat /\ q < queueTail
          BY <1>0, <3>2, <3>3
        <4>2. ~Claimed(q)
          BY <1>0, <4>1 DEF Claimed, OrderInv
        <4>3. StatusOf(q) \notin {"claimed", "ready"}
          BY <1>0, <4>1, <4>2 DEF StatusOf
        <4> QED
          BY <4>1, <4>3 DEF TicketStatus
      <3>12. Pool!Pop(r)
        BY <3>1, <3>9, <3>11 DEF Pool!Pop
      <3> QED
        BY <3>10, <3>12 DEF Pool!Next
    <2>4. CASE PopRead(t)
      <3>1. /\ pc[t] = "pop_read"
            /\ pc' = [pc EXCEPT ![t] = "idle"]
            /\ running' = [running EXCEPT ![t] = @ \cup {pos[t]}]
            /\ executed' = [p \in DOMAIN executed \cup {pos[t]} |->
                              IF p = pos[t] THEN task[Slot(p)] ELSE executed[p]]
            /\ UNCHANGED <<queueHead, queueTail, task, pos, log>>
        BY <2>4 DEF PopRead
      <3>2. PICK r \in Nat : r = pos[t]
        BY <1>0
      <3>3. Takes(t, r) /\ r < queueTail /\ r \in 0 .. queueHead - 1 /\ ~Claimed(r)
        BY <1>0, <3>1, <3>2 DEF Takes, OrderInv, Claimed
      <3>4. \A p \in Nat : (Claimed(p)' <=> Claimed(p)) /\ (Taken(p)' <=> Taken(p))
        BY <1>0, <3>1 DEF Claimed, Claims, Taken, Takes
      <3>5. ~(\E u \in Threads : r \in running[u])
        BY <1>0, <3>1, <3>2 DEF StartInv, DataInv, RunsWhatWasPushed
      <3>6. \A p \in Nat : p # r =>
              ((\E u \in Threads : p \in running[u])' <=> (\E u \in Threads : p \in running[u]))
        BY <1>0, <3>1, <3>2
      <3>7. StatusOf(r) = "popped" /\ StatusOf(r)' = "running"
        <4>1. StatusOf(r) = "popped"
          BY <1>0, <3>3, <3>5 DEF StatusOf, Taken
        <4>2. r \in running'[t] /\ ~Claimed(r)' /\ r < queueTail'
          BY <1>0, <3>1, <3>2, <3>3, <3>4
        <4> QED
          BY <1>0, <3>1, <4>1, <4>2 DEF StatusOf
      <3>8. \A p \in 0 .. queueHead - 1 : p # r => StatusOf(p)' = StatusOf(p)
        BY <1>0, <3>1, <3>4, <3>6 DEF StatusOf
      <3>9. TicketStatus[r] = "popped" /\ TicketStatus' = [TicketStatus EXCEPT ![r] = "running"]
        BY <3>1, <3>3, <3>7, <3>8, StatusMove
      <3>10. r \in DOMAIN TicketStatus
        BY <3>3 DEF TicketStatus
      <3>11. task[Slot(r)] = log[r]
        BY <1>0, <3>1, <3>2 DEF DataInv, HeldOK
      <3>12. executed' = Pool!Extend(executed, r, log[r])
        BY <3>1, <3>2, <3>11 DEF Pool!Extend
      <3>13. Pool!Start(r)
        BY <3>1, <3>9, <3>12 DEF Pool!Start
      <3> QED
        BY <3>10, <3>13 DEF Pool!Next
    <2>5. CASE Release(t)
      <3>1. PICK r \in running[t] : running' = [running EXCEPT ![t] = @ \ {r}]
        BY <2>5 DEF Release
      <3>2. UNCHANGED <<queueHead, queueTail, pc, pos, log, executed>>
        BY <2>5 DEF Release
      <3>3. r \in Nat /\ Takes(t, r) /\ pc[t] = "idle"
        BY <1>0, <2>5, <3>1 DEF Takes, Release
      <3>4. r < queueTail /\ r \in 0 .. queueHead - 1 /\ ~Claimed(r)
        BY <1>0, <3>3 DEF OrderInv, Claimed
      <3>5. \A p \in Nat : Claimed(p)' <=> Claimed(p)
        BY <3>2 DEF Claimed, Claims
      <3>6. \A p \in Nat : p # r =>
              /\ Taken(p)' <=> Taken(p)
              /\ (\E u \in Threads : p \in running[u])' <=> (\E u \in Threads : p \in running[u])
        BY <1>0, <3>1, <3>2 DEF Taken, Takes
      <3>7. ~Taken(r)'
        BY <1>0, <3>1, <3>2, <3>3 DEF Taken, Takes, OwnerInv, Uses
      <3>8. StatusOf(r) = "running" /\ StatusOf(r)' = "finished"
        <4>1. StatusOf(r) = "running"
          BY <1>0, <3>1, <3>4 DEF StatusOf
        <4>2. ~(\E u \in Threads : r \in running'[u])
          BY <3>7 DEF Taken, Takes
        <4> QED
          BY <1>0, <3>2, <3>3, <3>4, <3>5, <3>7, <4>1, <4>2 DEF StatusOf
      <3>9. \A p \in 0 .. queueHead - 1 : p # r => StatusOf(p)' = StatusOf(p)
        BY <1>0, <3>2, <3>5, <3>6 DEF StatusOf
      <3>10. TicketStatus[r] = "running" /\ TicketStatus' = [TicketStatus EXCEPT ![r] = "finished"]
        BY <3>2, <3>4, <3>8, <3>9, StatusMove
      <3>11. r \in DOMAIN TicketStatus
        BY <3>4 DEF TicketStatus
      <3>12. Pool!Finish(r)
        BY <3>2, <3>10 DEF Pool!Finish
      <3> QED
        BY <3>11, <3>12 DEF Pool!Next
    <2> QED
      BY <1>3, <2>1, <2>2, <2>3, <2>4, <2>5 DEF Pop, PopCas
  <1> QED
    BY <1>1, <1>2, <1>3 DEF Next

(* The ring implements the abstract pool: every step of push, pop and       *)
(* release is a step of the pool or none, for every number of threads, ring *)
(* size and counter width.                                                  *)
THEOREM Refinement == Spec => PoolSpec
  <1>1. Spec => []ArgInv
    BY Typing, InitArgInv, NextArgInv, PTL DEF Spec
  <1>2. Init => StartInv
    BY DEF Init, StartInv
  <1>3. Spec => []StartInv
    BY <1>2, Typing, NextStartInv, PTL DEF Spec
  <1> QED
    BY <1>1, <1>3, Invariance, InitRefines, StepRefines, PTL DEF Spec, PoolSpec, Pool!Spec
=============================================================================
