-------------------------- MODULE SharedArraysProofs --------------------------
(***************************************************************************)
(* Why lists and strings that share chunks keep their items, for any       *)
(* number of threads and values and any layout of the arenas: proofs about *)
(* SharedArrays.                                                           *)
(*                                                                         *)
(* The argument: a list whose end is unused reaches as far as any window    *)
(* on its chunk (Leads, in AllApart). So if no other list could claim that  *)
(* end as well, whoever sets its flag writes where no window lies, and the  *)
(* list it makes reaches farthest in turn. A thread that has seen room or   *)
(* the end of an arena still knows that when it acts (JobOK), because       *)
(* values never move and only its owner fills an arena. All of it is proved *)
(* up to the step that contests an end (contested); beyond that step it is  *)
(* false, as two lists may then write to the same place.                    *)
(***************************************************************************)
EXTENDS SharedArrays, FiniteSetTheorems, SequenceTheorems, WellFoundedInduction, TLAPS

Item == Nat \X (Nat \cup Threads)
Cells == Item \cup {Hole}
Ends == {"tail", "head"}
Values == [kind : {"list", "string"}, len : Nat, used : SUBSET Ends,
           val : Seq(Item), items : Seq(Item), cap : Nat, off : Nat, arena : Nat, pos : Nat]
Stores == UNION {[0 .. c - 1 -> Cells] : c \in Nat}
Arenas == [cap : Nat, count : Nat, owner : Threads, data : Stores]
Points == {"idle", "tail", "tail_claim", "head", "head_claim", "copy", "grow"}
Jobs == [at : Points, left : Nat, right : Nat, item : Cells, seen : Nat]

(* What is in use of an arena lies in its data.                             *)
Filled(a) == a.count <= a.cap /\ a.data \in [0 .. a.cap - 1 -> Cells]

(* The types, and each thread allocates from an arena of its own.           *)
TypeOK ==
  /\ arenas \in Seq(Arenas)
  /\ \A a \in DOMAIN arenas : Filled(arenas[a])
  /\ current \in [Threads -> Nat]
  /\ \A t \in Threads : current[t] # None =>
       current[t] \in DOMAIN arenas /\ arenas[current[t]].owner = t
  /\ values \in Seq(Values)
  /\ job \in [Threads -> Jobs]

(* The first position of the chunk of a value, and that behind it.          *)
From(v) == v.pos - v.off
Behind(v) == IF v.kind = "list" THEN v.pos - v.off + v.cap ELSE v.pos + v.len

(* A value has its items; its window lies in its chunk, its chunk in what   *)
(* its arena has handed out.                                                *)
Sound(v, as) ==
  /\ v.len > 0 /\ Len(v.val) = v.len
  /\ IF Large(v)
     THEN /\ v.arena \in DOMAIN as
          /\ v.off <= v.pos /\ (v.kind = "list" => v.off + v.len <= v.cap)
          /\ Behind(v) <= as[v.arena].count
          /\ \A k \in 1 .. v.len : as[v.arena].data[v.pos + k - 1] = v.val[k]
     ELSE v.items = v.val

(* Of the windows on one chunk, one whose flag says that its end is unused  *)
(* reaches farthest at that end. Of strings it is enough where they begin.  *)
Leads(v, w) ==
  /\ "tail" \notin v.used => w.pos + w.len <= v.pos + v.len
  /\ "head" \notin v.used => v.pos <= w.pos
Apart(v, w) ==
  \/ v.arena # w.arena
  \/ Behind(v) <= From(w)
  \/ Behind(w) <= From(v)
  \/ /\ v.kind = w.kind /\ From(v) = From(w)
     /\ v.kind = "list" => v.cap = w.cap /\ Leads(v, w)

AllSound(vs, as) == \A i \in DOMAIN vs : Sound(vs[i], as)
AllApart(vs) ==
  \A i, j \in DOMAIN vs : i # j /\ Large(vs[i]) /\ Large(vs[j]) => Apart(vs[i], vs[j])

(* What a thread that has looked at its operands still knows of them.       *)
IsList(i, vs) == i \in DOMAIN vs /\ vs[i].kind = "list"
Size(i, vs) == IF i = None THEN 1 ELSE vs[i].len
JobOK(t, j, vs, as) ==
  /\ j.at # "idle" => j.item \in Item
  /\ j.at \in {"tail", "tail_claim", "head", "head_claim", "copy"} =>
       /\ j.left = None \/ IsList(j.left, vs)
       /\ j.right = None \/ IsList(j.right, vs)
  /\ j.at \in {"tail", "tail_claim"} => j.left # None
  /\ j.at \in {"head", "head_claim"} => j.right # None
  /\ j.at = "tail_claim" =>
       Large(vs[j.left]) /\ vs[j.left].off + vs[j.left].len + Size(j.right, vs) <= vs[j.left].cap
  /\ j.at = "head_claim" =>
       Large(vs[j.right]) /\ vs[j.right].off >= Size(j.left, vs)
  /\ j.at = "grow" =>
       /\ j.left \in DOMAIN vs /\ vs[j.left].kind = "string" /\ Large(vs[j.left])
       /\ j.right = None
       /\ LET v == vs[j.left]
              a == as[v.arena]
          IN /\ v.arena \in DOMAIN as
             /\ a.owner = t
             /\ j.seen = a.count /\ v.pos + v.len = a.count /\ a.count + 1 <= a.cap

JobsOK(vs, as) == \A t \in Threads : JobOK(t, job[t], vs, as)

(* The inductive invariant.                                                 *)
IndInv ==
  /\ TypeOK
  /\ AllSound(values, arenas)
  /\ AllApart(values)
  /\ JobsOK(values, arenas)

-----------------------------------------------------------------------------
(* Every nonempty set of natural numbers has a least element.               *)
LEMMA Least ==
  ASSUME NEW T \in SUBSET Nat, T # {}
  PROVE  \E x \in T : \A y \in T : x <= y
<1> DEFINE below == {0 .. n : n \in T}
<1>1. below \subseteq FiniteSubsetsOf(Nat) /\ below # {}
  <2>1. ASSUME NEW n \in T PROVE 0 .. n \in FiniteSubsetsOf(Nat)
    <3>1. IsFiniteSet(0 .. n)
      BY FS_Interval
    <3>2. 0 .. n \in SUBSET Nat
      OBVIOUS
    <3> QED
      BY <3>1, <3>2 DEF FiniteSubsetsOf
  <2>2. PICK n \in T : TRUE
    OBVIOUS
  <2>3. 0 .. n \in below
    OBVIOUS
  <2> QED
    BY <2>1, <2>3
<1>2. PICK s \in below : \A r \in below : ~ (<<r, s>> \in StrictSubsetOrdering(Nat))
  <2> HIDE DEF below
  <2> QED
    BY <1>1, WFMin, FS_StrictSubsetOrderingWellFounded
<1>3. PICK x \in T : s = 0 .. x
  BY <1>2
<1>4. ASSUME NEW y \in T PROVE x <= y
  <2>1. 0 .. y \in below
    OBVIOUS
  <2>2. ~ (<<0 .. y, s>> \in StrictSubsetOrdering(Nat))
    BY <1>2, <2>1
  <2>3. SUFFICES ASSUME y < x PROVE FALSE
    OBVIOUS
  <2>4. 0 .. y \subseteq 0 .. x /\ x \in 0 .. x /\ x \notin 0 .. y
    BY <2>3
  <2>5. 0 .. y \subseteq Nat /\ 0 .. x \subseteq Nat
    OBVIOUS
  <2> QED
    BY <1>3, <2>2, <2>4, <2>5 DEF StrictSubsetOrdering
<1> QED
  BY <1>4

(* Induction over a set of natural numbers.                                 *)
LEMMA SetInduction ==
  ASSUME NEW T \in SUBSET Nat, 0 \in T, \A n \in T : n + 1 \in T
  PROVE  T = Nat
<1>1. SUFFICES ASSUME Nat \ T # {} PROVE FALSE
  OBVIOUS
<1>2. PICK x \in Nat \ T : \A y \in Nat \ T : x <= y
  BY <1>1, Least
<1>3. x - 1 \in Nat /\ x - 1 \notin T
  BY <1>2
<1> QED
  BY <1>2, <1>3

-----------------------------------------------------------------------------
(* Doubled is defined by its equation: for every n there is just one such   *)
(* function on 0 .. n, and together they are one on the natural numbers.    *)
Doubles(g, n) ==
  /\ g \in [0 .. n -> Nat]
  /\ \A k \in 0 .. n : g[k] = IF k = 0 THEN ArenaMin ELSE g[k - 1] * ExtraRoom

(* Such a function exists on every 0 .. n.                                  *)
LEMMA DoublesExists ==
  ASSUME NEW n \in Nat
  PROVE  \E g : Doubles(g, n)
<1> DEFINE T == {m \in Nat : \E g : Doubles(g, m)}
<1>1. 0 \in T
  <2>1. Doubles([k \in 0 .. 0 |-> ArenaMin], 0)
    BY SharedArraysAssumption DEF Doubles
  <2> QED
    BY <2>1
<1>2. ASSUME NEW m \in T PROVE m + 1 \in T
  <2>1. PICK g : Doubles(g, m)
    OBVIOUS
  <2> DEFINE h == [k \in 0 .. m + 1 |-> IF k = m + 1 THEN g[m] * ExtraRoom ELSE g[k]]
  <2>2. Doubles(h, m + 1)
    <3>1. h \in [0 .. m + 1 -> Nat]
      BY <2>1 DEF Doubles, ExtraRoom
    <3>2. ASSUME NEW k \in 0 .. m + 1
          PROVE h[k] = IF k = 0 THEN ArenaMin ELSE h[k - 1] * ExtraRoom
      <4>1. CASE k = m + 1
        BY <4>1, <2>1 DEF Doubles
      <4>2. CASE k # m + 1
        <5>1. k \in 0 .. m /\ (k # 0 => k - 1 \in 0 .. m /\ k - 1 # m + 1 /\ k - 1 \in 0 .. m + 1)
          BY <4>2
        <5> QED
          BY <5>1, <4>2, <2>1 DEF Doubles
      <4> QED
        BY <4>1, <4>2
    <3> QED
      BY <3>1, <3>2 DEF Doubles
  <2> QED
    BY <2>2
<1>3. T = Nat
  <2> HIDE DEF T
  <2>1. T \in SUBSET Nat
    BY DEF T
  <2> QED
    BY <1>1, <1>2, <2>1, SetInduction
<1> QED
  BY <1>3

(* Two of them agree where both are defined.                                *)
LEMMA DoublesUnique ==
  ASSUME NEW n \in Nat, NEW m \in Nat, NEW g, NEW h, Doubles(g, n), Doubles(h, m),
         NEW k \in Nat, k <= n, k <= m
  PROVE  g[k] = h[k]
<1> DEFINE T == {l \in Nat : l <= n /\ l <= m => g[l] = h[l]}
<1>1. 0 \in T
  BY DEF Doubles
<1>2. ASSUME NEW l \in T PROVE l + 1 \in T
  <2>1. SUFFICES ASSUME l + 1 <= n, l + 1 <= m PROVE g[l + 1] = h[l + 1]
    OBVIOUS
  <2>2. l + 1 \in 0 .. n /\ l + 1 \in 0 .. m /\ l + 1 # 0 /\ (l + 1) - 1 = l
    BY <2>1
  <2>3. g[l] = h[l]
    BY <2>1
  <2> QED
    BY <2>2, <2>3 DEF Doubles
<1>3. T = Nat
  <2> HIDE DEF T
  <2>1. T \in SUBSET Nat
    BY DEF T
  <2> QED
    BY <1>1, <1>2, <2>1, SetInduction
<1> QED
  BY <1>3

(* So the functions on 0 .. n together satisfy the equation of Doubled.     *)
LEMMA DoubledEquation ==
  Doubled = [k \in Nat |-> IF k = 0 THEN ArenaMin ELSE Doubled[k - 1] * ExtraRoom]
<1> DEFINE pick(n) == CHOOSE g : Doubles(g, n)
           F == [k \in Nat |-> pick(k)[k]]
<1>1. \A n \in Nat : Doubles(pick(n), n)
  BY DoublesExists
<1> HIDE DEF pick
<1>2. F = [k \in Nat |-> IF k = 0 THEN ArenaMin ELSE F[k - 1] * ExtraRoom]
  <2>1. ASSUME NEW k \in Nat
        PROVE F[k] = IF k = 0 THEN ArenaMin ELSE F[k - 1] * ExtraRoom
    <3>1. k \in 0 .. k
      OBVIOUS
    <3>2. pick(k)[k] = IF k = 0 THEN ArenaMin ELSE pick(k)[k - 1] * ExtraRoom
      BY <1>1, <3>1 DEF Doubles
    <3>3. k # 0 => pick(k)[k - 1] = pick(k - 1)[k - 1]
      BY <1>1, DoublesUnique
    <3> QED
      BY <3>2, <3>3
  <2> QED
    BY <2>1
<1> HIDE DEF F
<1>3. \E f : f = [k \in Nat |-> IF k = 0 THEN ArenaMin ELSE f[k - 1] * ExtraRoom]
  BY <1>2
<1> QED
  BY <1>3 DEF Doubled

(* Doubling exceeds any number of rounds, so it ends in reduct_arena_get.   *)
LEMMA DoubledGrows ==
  /\ Doubled \in [Nat -> Nat]
  /\ \A k \in Nat : k < Doubled[k]
<1> DEFINE T == {k \in Nat : Doubled[k] \in Nat /\ k < Doubled[k]}
<1>1. 0 \in T
  BY DoubledEquation, SharedArraysAssumption
<1>2. ASSUME NEW k \in T PROVE k + 1 \in T
  <2>1. Doubled[k + 1] = Doubled[k] * 2
    BY DoubledEquation DEF ExtraRoom
  <2> QED
    BY <2>1
<1>3. T = Nat
  <2> HIDE DEF T
  <2>1. T \in SUBSET Nat
    BY DEF T
  <2> QED
    BY <1>1, <1>2, <2>1, SetInduction
<1>4. \A k \in Nat : Doubled[k] \in Nat /\ k < Doubled[k]
  BY <1>3
<1>5. Doubled = [k \in Nat |-> Doubled[k]]
  BY DoubledEquation
<1> QED
  BY <1>4, <1>5

(* A new arena has room for what it is made for.                            *)
LEMMA ArenaFits ==
  ASSUME NEW size \in Nat
  PROVE  ArenaCapacity(size) \in Nat /\ size <= ArenaCapacity(size)
<1> DEFINE T == {k \in Nat : size <= Doubled[k]}
<1>1. size \in T
  BY DoubledGrows
<1>2. PICK k \in T : \A l \in T : k <= l
  <2> HIDE DEF T
  <2>1. T \in SUBSET Nat
    BY DEF T
  <2> QED
    BY <1>1, <2>1, Least
<1>3. k \in 0 .. size /\ Doubled[k] >= size
  BY <1>1, <1>2, DoubledGrows
<1>4. \A l \in 0 .. k - 1 : Doubled[l] < size
  <2> SUFFICES ASSUME NEW l \in 0 .. k - 1 PROVE Doubled[l] < size
    OBVIOUS
  <2>1. l \in Nat /\ l \notin T /\ Doubled[l] \in Nat
    BY <1>2, DoubledGrows
  <2> QED
    BY <2>1
<1> DEFINE Fits(m) == Doubled[m] >= size /\ \A l \in 0 .. m - 1 : Doubled[l] < size
           c == CHOOSE m \in 0 .. size : Fits(m)
<1>5. c \in 0 .. size /\ Fits(c)
  <2>1. \E m \in 0 .. size : Fits(m)
    BY <1>3, <1>4
  <2> HIDE DEF Fits
  <2> QED
    BY <2>1
<1>6. ArenaCapacity(size) = Doubled[c]
  BY DEF ArenaCapacity
<1> HIDE DEF c
<1> QED
  BY <1>5, <1>6, DoubledGrows

(* Rounding up does not make smaller.                                       *)
LEMMA RoundsUp ==
  ASSUME NEW n \in Nat
  PROVE  RoundUp(n) \in Nat /\ n <= RoundUp(n)
<1> DEFINE m == n + Align - 1
           q == m \div Align
<1>0. Align \in Nat \ {0}
  BY SharedArraysAssumption
<1>1. m \in Nat /\ q \in Nat
  BY <1>0, SMT
<1>2. m = Align * q + (m % Align) /\ m % Align \in 0 .. Align - 1
  BY <1>0, <1>1, SMT
<1>3. q * Align \in Nat /\ q * Align = Align * q
  BY <1>0, <1>1, SMT
<1> DEFINE r == m % Align
           p == q * Align
<1>4. r \in 0 .. Align - 1 /\ n + Align - 1 = p + r
  BY <1>2, <1>3
<1>5. p \in Nat /\ RoundUp(n) = p
  BY <1>3 DEF RoundUp
<1> HIDE DEF m, q, r, p
<1> QED
  BY <1>0, <1>4, <1>5
-----------------------------------------------------------------------------
(* What Put writes and what it leaves alone.                                *)
LEMMA Puts ==
  ASSUME NEW c \in Nat, NEW data \in [0 .. c - 1 -> Cells], NEW pos \in Nat,
         NEW items \in Seq(Item), pos + Len(items) <= c
  PROVE  /\ Put(data, pos, items) \in [0 .. c - 1 -> Cells]
         /\ \A p \in 0 .. c - 1 :
              p < pos \/ pos + Len(items) <= p => Put(data, pos, items)[p] = data[p]
         /\ \A k \in 1 .. Len(items) : Put(data, pos, items)[pos + k - 1] = items[k]
<1>0. Len(items) \in Nat /\ DOMAIN data = 0 .. c - 1
  OBVIOUS
<1>1. ASSUME NEW p \in 0 .. c - 1, p \in pos .. pos + Len(items) - 1
      PROVE items[p - pos + 1] \in Cells
  <2>1. p - pos + 1 \in 1 .. Len(items)
    BY <1>0, <1>1
  <2> QED
    BY <2>1, <1>0 DEF Cells
<1>2. Put(data, pos, items) =
        [p \in 0 .. c - 1 |-> IF p \in pos .. pos + Len(items) - 1 THEN items[p - pos + 1] ELSE data[p]]
  BY <1>0 DEF Put
<1>3. Put(data, pos, items) \in [0 .. c - 1 -> Cells]
  BY <1>1, <1>2
<1>4. ASSUME NEW p \in 0 .. c - 1, p < pos \/ pos + Len(items) <= p
      PROVE Put(data, pos, items)[p] = data[p]
  <2>1. p \notin pos .. pos + Len(items) - 1
    BY <1>0, <1>4
  <2> QED
    BY <1>2, <2>1
<1>5. ASSUME NEW k \in 1 .. Len(items)
      PROVE Put(data, pos, items)[pos + k - 1] = items[k]
  <2>1. /\ pos + k - 1 \in 0 .. c - 1
        /\ pos + k - 1 \in pos .. pos + Len(items) - 1
        /\ (pos + k - 1) - pos + 1 = k
    BY <1>0
  <2> QED
    BY <1>2, <2>1
<1> QED
  BY <1>3, <1>4, <1>5

(* The fields of a value.                                                   *)
LEMMA Fields ==
  ASSUME NEW v \in Values
  PROVE  /\ v.kind \in {"list", "string"}
         /\ v.len \in Nat /\ v.cap \in Nat /\ v.off \in Nat /\ v.arena \in Nat /\ v.pos \in Nat
         /\ v.used \in SUBSET Ends /\ v.val \in Seq(Item) /\ v.items \in Seq(Item)
         /\ From(v) \in Int /\ Behind(v) \in Int
BY DEF Values, From, Behind

(* Where a large value lies.                                                *)
LEMMA Lies ==
  ASSUME NEW v \in Values, NEW as, Sound(v, as), Large(v)
  PROVE  /\ 0 <= From(v) /\ From(v) <= v.pos /\ v.pos + v.len <= Behind(v)
         /\ From(v) < Behind(v)
BY Fields DEF Sound, From, Behind

(* Transitivity, for steps with no arithmetic in them.                      *)
LEMMA AtMost == \A x, y, z \in Int : x <= y /\ y <= z => x <= z
OBVIOUS

(* A value keeps its items as long as nobody writes into its window and its *)
(* arena gives nothing back.                                                *)
LEMMA SoundKept ==
  ASSUME NEW v \in Values, NEW as, NEW bs, Sound(v, as),
         Large(v) =>
           /\ v.arena \in DOMAIN bs
           /\ as[v.arena].count \in Int /\ bs[v.arena].count \in Int
           /\ as[v.arena].count <= bs[v.arena].count
           /\ \A p \in v.pos .. v.pos + v.len - 1 : bs[v.arena].data[p] = as[v.arena].data[p]
  PROVE  Sound(v, bs)
<1>1. CASE ~Large(v)
  BY <1>1 DEF Sound
<1>2. CASE Large(v)
  <2>1. ASSUME NEW k \in 1 .. v.len
        PROVE bs[v.arena].data[v.pos + k - 1] = v.val[k]
    <3>1. v.pos + k - 1 \in v.pos .. v.pos + v.len - 1
      BY Fields
    <3> QED
      BY <1>2, <3>1 DEF Sound
  <2>2. Behind(v) <= bs[v.arena].count
    <3>1. Behind(v) <= as[v.arena].count
      BY <1>2 DEF Sound
    <3>2. Behind(v) \in Int
      BY Fields
    <3>3. /\ as[v.arena].count \in Int /\ bs[v.arena].count \in Int
          /\ as[v.arena].count <= bs[v.arena].count
      BY <1>2
    <3> QED
      BY <3>1, <3>2, <3>3, AtMost, Zenon
  <2> QED
    BY <1>2, <2>1, <2>2 DEF Sound
<1> QED
  BY <1>1, <1>2

(* A value is added.                                                        *)
LEMMA Appended ==
  ASSUME NEW vs \in Seq(Values), NEW as, NEW new \in Values,
         AllSound(vs, as), AllApart(vs), Sound(new, as),
         \A i \in DOMAIN vs :
           Large(vs[i]) /\ Large(new) => Apart(vs[i], new) /\ Apart(new, vs[i])
  PROVE  /\ Append(vs, new) \in Seq(Values)
         /\ AllSound(Append(vs, new), as)
         /\ AllApart(Append(vs, new))
<1> DEFINE ws == Append(vs, new)
<1>1. /\ ws \in Seq(Values)
      /\ \A i \in DOMAIN ws : (i \in DOMAIN vs /\ ws[i] = vs[i]) \/ (i = Len(vs) + 1 /\ ws[i] = new)
  OBVIOUS
<1> HIDE DEF ws
<1>2. AllSound(ws, as)
  BY <1>1 DEF AllSound
<1>3. AllApart(ws)
  BY <1>1 DEF AllApart
<1> QED
  BY <1>1, <1>2, <1>3 DEF ws

(* One end of a value is marked as used.                                    *)
LEMMA Mark ==
  ASSUME NEW v \in Values, NEW side \in Ends
  PROVE  LET w == [v EXCEPT !.used = @ \cup {side}]
         IN /\ w \in Values
            /\ w.kind = v.kind /\ w.len = v.len /\ w.val = v.val
            /\ w.items = v.items /\ w.cap = v.cap /\ w.off = v.off /\ w.arena = v.arena
            /\ w.pos = v.pos /\ w.used = v.used \cup {side}
<1>1. v.used \cup {side} \in SUBSET Ends
  BY Fields
<1> QED
  BY <1>1 DEF Values

(* The geometry of a value: all but the flags of its ends.                  *)
Alike(v, w) ==
  /\ w.kind = v.kind /\ w.len = v.len /\ w.val = v.val
  /\ w.items = v.items /\ w.cap = v.cap /\ w.off = v.off /\ w.arena = v.arena /\ w.pos = v.pos

Marked(l, side) == [values EXCEPT ![l].used = @ \cup {side}]
(* Setting the flag of an end (atomic_fetch_or) leaves all other values,    *)
(* and the rest of the value, as they are.                                  *)
LEMMA Marks ==
  ASSUME values \in Seq(Values), NEW l \in DOMAIN values, NEW side \in Ends
  PROVE  /\ Marked(l, side) \in Seq(Values)
         /\ Len(Marked(l, side)) = Len(values)
         /\ DOMAIN Marked(l, side) = DOMAIN values
         /\ Alike(values[l], Marked(l, side)[l])
         /\ Marked(l, side)[l].used = values[l].used \cup {side}
         /\ \A i \in DOMAIN values : i # l => Marked(l, side)[i] = values[i]
<1> DEFINE w == [values[l] EXCEPT !.used = @ \cup {side}]
<1>0. values[l] \in Values
  OBVIOUS
<1>1. w \in Values /\ Alike(values[l], w) /\ w.used = values[l].used \cup {side}
  BY <1>0, Mark DEF Alike
<1>2. Marked(l, side) = [values EXCEPT ![l] = w]
  BY DEF Marked
<1> HIDE DEF w
<1> QED
  BY <1>1, <1>2

(* That changes neither where values lie nor what they hold.                *)
LEMMA MarksKeep ==
  ASSUME values \in Seq(Values), NEW l \in DOMAIN values, NEW side \in Ends, NEW as,
         AllSound(values, as), AllApart(values)
  PROVE  AllSound(Marked(l, side), as) /\ AllApart(Marked(l, side))
<1> DEFINE vs == Marked(l, side)
<1>1. \A i \in DOMAIN values : Alike(values[i], vs[i]) /\ values[i].used \subseteq vs[i].used
  BY Marks DEF Alike
<1>2. DOMAIN vs = DOMAIN values
  BY Marks
<1> HIDE DEF vs
<1>3. AllSound(vs, as)
  <2> SUFFICES ASSUME NEW i \in DOMAIN values PROVE Sound(vs[i], as)
    BY <1>2 DEF AllSound
  <2>1. Sound(values[i], as)
    BY DEF AllSound
  <2> QED
    BY <1>1, <2>1 DEF Sound, Alike, Large, Behind
<1>4. AllApart(vs)
  <2> SUFFICES ASSUME NEW i \in DOMAIN values, NEW j \in DOMAIN values, i # j,
                      Large(vs[i]), Large(vs[j])
               PROVE  Apart(vs[i], vs[j])
    BY <1>2 DEF AllApart
  <2>1. Alike(values[i], vs[i]) /\ Alike(values[j], vs[j])
    BY <1>1
  <2>2. Apart(values[i], values[j])
    BY <2>1 DEF AllApart, Alike, Large
  <2>3. Leads(values[i], values[j]) => Leads(vs[i], vs[j])
    BY <1>1, <2>1 DEF Alike, Leads
  <2>4. /\ Behind(vs[i]) = Behind(values[i]) /\ From(vs[i]) = From(values[i])
        /\ Behind(vs[j]) = Behind(values[j]) /\ From(vs[j]) = From(values[j])
    BY <2>1 DEF Alike, Behind, From
  <2> QED
    BY <2>1, <2>2, <2>3, <2>4 DEF Apart, Alike
<1> QED
  BY <1>3, <1>4 DEF vs

-----------------------------------------------------------------------------
(* The fields of an arena.                                                  *)
LEMMA ArenaFields ==
  ASSUME NEW r \in Arenas, Filled(r)
  PROVE  /\ r.cap \in Nat /\ r.count \in Nat /\ r.owner \in Threads
         /\ r.count <= r.cap /\ r.data \in [0 .. r.cap - 1 -> Cells]
BY DEF Arenas, Filled

(* Items are written into an arena that has the room, of which more is in   *)
(* use then.                                                                *)
Written(r, pos, items) == [r EXCEPT !.data = Put(r.data, pos, items)]
Used(r, c, pos, items) == [[r EXCEPT !.count = c] EXCEPT !.data = Put(r.data, pos, items)]
(* Both are arenas again, with the items put into their data.               *)
LEMMA Stored ==
  ASSUME NEW r \in Arenas, Filled(r), NEW pos \in Nat, NEW items \in Seq(Item),
         NEW c \in Nat, c <= r.cap, pos + Len(items) <= r.cap
  PROVE  LET q == Used(r, c, pos, items)
             p == Written(r, pos, items)
         IN /\ q \in Arenas /\ Filled(q) /\ q.cap = r.cap /\ q.owner = r.owner /\ q.count = c
            /\ q.data = Put(r.data, pos, items)
            /\ p \in Arenas /\ Filled(p) /\ p.cap = r.cap /\ p.owner = r.owner
            /\ p.count = r.count /\ p.data = Put(r.data, pos, items)
<1> DEFINE d == Put(r.data, pos, items)
<1>1. r.cap \in Nat /\ r.count \in Nat /\ r.count <= r.cap /\ r.data \in [0 .. r.cap - 1 -> Cells]
  BY ArenaFields
<1>2. d \in [0 .. r.cap - 1 -> Cells]
  BY <1>1, Puts
<1>3. d \in Stores
  BY <1>1, <1>2 DEF Stores
<1> HIDE DEF d
<1> DEFINE q == [[r EXCEPT !.count = c] EXCEPT !.data = d]
           p == [r EXCEPT !.data = d]
<1>4. q \in Arenas /\ q.cap = r.cap /\ q.owner = r.owner /\ q.count = c /\ q.data = d
  BY <1>3 DEF Arenas
<1>5. p \in Arenas /\ p.cap = r.cap /\ p.owner = r.owner /\ p.count = r.count /\ p.data = d
  BY <1>3 DEF Arenas
<1>6. Filled(q) /\ Filled(p)
  BY <1>1, <1>2, <1>4, <1>5 DEF Filled
<1> QED
  BY <1>4, <1>5, <1>6 DEF d, Used, Written

(* Writing behind or before the window of a value leaves it alone.          *)
OnlyWrites(old, new, a, pos, n) ==
  /\ \A b \in DOMAIN old : b \in DOMAIN new /\ old[b].count <= new[b].count
  /\ \A b \in DOMAIN old : b # a => new[b].data = old[b].data
  /\ a \in DOMAIN old =>
       \A p \in 0 .. old[a].cap - 1 :
         p < pos \/ pos + n <= p => new[a].data[p] = old[a].data[p]
(* A value is sound after a write that its window does not meet.            *)
LEMMA WriteKeeps ==
  ASSUME NEW old \in Seq(Arenas), NEW new \in Seq(Arenas), NEW a, NEW pos \in Nat, NEW n \in Nat,
         \A b \in DOMAIN old : Filled(old[b]),
         OnlyWrites(old, new, a, pos, n),
         NEW v \in Values, Sound(v, old),
         Large(v) /\ v.arena = a => v.pos + v.len <= pos \/ pos + n <= v.pos
  PROVE  Sound(v, new)
<1>1. SUFFICES ASSUME Large(v)
               PROVE  /\ v.arena \in DOMAIN new
                      /\ old[v.arena].count \in Int /\ new[v.arena].count \in Int
                      /\ old[v.arena].count <= new[v.arena].count
                      /\ \A p \in v.pos .. v.pos + v.len - 1 : new[v.arena].data[p] = old[v.arena].data[p]
  BY SoundKept
<1>2. v.arena \in DOMAIN old /\ v.arena \in DOMAIN new
      /\ old[v.arena].count <= new[v.arena].count
  BY <1>1 DEF Sound, OnlyWrites
<1>3. old[v.arena] \in Arenas /\ new[v.arena] \in Arenas /\ Filled(old[v.arena])
  BY <1>2
<1>4. old[v.arena].count \in Nat /\ new[v.arena].count \in Nat /\ old[v.arena].cap \in Nat
      /\ old[v.arena].count <= old[v.arena].cap
  BY <1>3 DEF Arenas, Filled
<1>5. ASSUME NEW p \in v.pos .. v.pos + v.len - 1
      PROVE new[v.arena].data[p] = old[v.arena].data[p]
  <2>1. CASE v.arena # a
    BY <1>2, <2>1 DEF OnlyWrites
  <2>2. CASE v.arena = a
    <3>1. Behind(v) <= old[v.arena].count
      BY <1>1 DEF Sound
    <3>2. v.pos + v.len <= Behind(v) /\ Behind(v) \in Int
      BY <1>1, Lies, Fields
    <3>3. v.pos \in Nat /\ v.len \in Nat
      BY Fields
    <3>4. p \in 0 .. old[v.arena].cap - 1
      <4>1. v.pos + v.len <= old[v.arena].cap
        BY <1>4, <3>1, <3>2, <3>3
      <4>2. p \in Nat /\ p < v.pos + v.len
        BY <1>5, <3>3
      <4> QED
        BY <1>4, <3>3, <4>1, <4>2
    <3>5. p < pos \/ pos + n <= p
      BY <1>1, <2>2, <3>3
    <3> QED
      BY <1>2, <2>2, <3>4, <3>5 DEF OnlyWrites
  <2> QED
    BY <2>1, <2>2
<1> QED
  BY <1>2, <1>4, <1>5

(* What others do neither moves the operands of a thread nor gives anything *)
(* out of its arenas.                                                       *)
LEMMA JobKept ==
  ASSUME NEW u \in Threads, NEW j, NEW vs, NEW ws, NEW old, NEW new, JobOK(u, j, vs, old),
         \A i \in DOMAIN vs : i \in DOMAIN ws /\ Alike(vs[i], ws[i]),
         \A b \in DOMAIN old : b \in DOMAIN new /\ new[b].owner = old[b].owner,
         \A b \in DOMAIN old :
           old[b].owner = u => new[b].count = old[b].count /\ new[b].cap = old[b].cap
  PROVE  JobOK(u, j, ws, new)
<1>1. ASSUME NEW i, IsList(i, vs)
      PROVE  IsList(i, ws) /\ Alike(vs[i], ws[i])
  BY <1>1 DEF IsList, Alike
<1>2. /\ j.at \in {"tail", "tail_claim", "head", "head_claim", "copy"} =>
          /\ j.left = None \/ IsList(j.left, ws)
          /\ j.right = None \/ IsList(j.right, ws)
      /\ j.at \in {"tail", "tail_claim"} => j.left # None
      /\ j.at \in {"head", "head_claim"} => j.right # None
      /\ j.at # "idle" => j.item \in Item
  BY <1>1 DEF JobOK
<1>3. j.at = "tail_claim" =>
        Large(ws[j.left]) /\ ws[j.left].off + ws[j.left].len + Size(j.right, ws) <= ws[j.left].cap
  BY <1>1 DEF JobOK, Alike, Large, Size
<1>4. j.at = "head_claim" => Large(ws[j.right]) /\ ws[j.right].off >= Size(j.left, ws)
  BY <1>1 DEF JobOK, Alike, Large, Size
<1>5. ASSUME j.at = "grow"
      PROVE  /\ j.left \in DOMAIN ws /\ ws[j.left].kind = "string" /\ Large(ws[j.left])
             /\ j.right = None
             /\ LET v == ws[j.left]
                    a == new[v.arena]
                IN /\ v.arena \in DOMAIN new /\ a.owner = u /\ j.seen = a.count
                   /\ v.pos + v.len = a.count /\ a.count + 1 <= a.cap
  <2>1. j.left \in DOMAIN vs /\ vs[j.left].kind = "string" /\ Large(vs[j.left]) /\ j.right = None
    BY <1>5 DEF JobOK
  <2>2. j.left \in DOMAIN ws /\ Alike(vs[j.left], ws[j.left])
    BY <2>1
  <2>3. LET v == vs[j.left]
            a == old[v.arena]
        IN /\ v.arena \in DOMAIN old /\ a.owner = u /\ j.seen = a.count
           /\ v.pos + v.len = a.count /\ a.count + 1 <= a.cap
    BY <1>5 DEF JobOK
  <2> QED
    BY <2>1, <2>2, <2>3 DEF Alike, Large
<1> QED
  BY <1>2, <1>3, <1>4, <1>5 DEF JobOK

(* reduct_arena_get: an arena of the thread with the room asked for; the    *)
(* arenas there were are the same.                                          *)
LEMMA RoomMade ==
  ASSUME TypeOK, NEW t \in Threads, NEW size \in Nat
  PROVE  LET with == ArenasWith(t, size)
             a == ArenaFor(t, size)
         IN /\ with \in Seq(Arenas) /\ \A b \in DOMAIN with : Filled(with[b])
            /\ a \in DOMAIN with /\ a # None /\ with[a].owner = t
            /\ \A b \in DOMAIN arenas : b \in DOMAIN with /\ with[b] = arenas[b]
            /\ RoundUp(with[a].count) + size <= with[a].cap
<1>1. CASE current[t] # None /\ Room(t, size)
  <2>1. ArenasWith(t, size) = arenas /\ ArenaFor(t, size) = current[t]
    BY <1>1 DEF ArenasWith, ArenaFor
  <2> QED
    BY <1>1, <2>1 DEF TypeOK, Room
<1>2. CASE ~ (current[t] # None /\ Room(t, size))
  <2> DEFINE r == NewArena(t, size)
             c == ArenaCapacity(size)
  <2>1. ArenasWith(t, size) = Append(arenas, r) /\ ArenaFor(t, size) = Len(arenas) + 1
    BY <1>2 DEF ArenasWith, ArenaFor
  <2>2. c \in Nat /\ size <= c
    BY ArenaFits
  <2>3. r = [cap |-> c, count |-> 0, owner |-> t, data |-> [p \in 0 .. c - 1 |-> Hole]]
    BY DEF NewArena
  <2> HIDE DEF c, r
  <2>4. [p \in 0 .. c - 1 |-> Hole] \in [0 .. c - 1 -> Cells]
    BY DEF Cells
  <2>5. [p \in 0 .. c - 1 |-> Hole] \in Stores
    BY <2>2, <2>4 DEF Stores
  <2>6. r \in Arenas /\ Filled(r) /\ r.count = 0 /\ r.cap = c /\ r.owner = t
    <3>1. r \in Arenas
      BY <2>2, <2>3, <2>5 DEF Arenas
    <3> QED
      BY <2>2, <2>3, <2>4, <3>1 DEF Filled
  <2>7. RoundUp(0) = 0
    <3>1. Align \in Nat \ {0}
      BY SharedArraysAssumption
    <3>2. (Align - 1) \div Align = 0
      BY <3>1, SMT
    <3> QED
      BY <3>1, <3>2 DEF RoundUp
  <2>8. arenas \in Seq(Arenas) /\ \A b \in DOMAIN arenas : Filled(arenas[b])
    BY DEF TypeOK
  <2> DEFINE with == Append(arenas, r)
             a == Len(arenas) + 1
  <2>9. /\ with \in Seq(Arenas) /\ a \in DOMAIN with /\ a # None /\ with[a] = r
        /\ \A b \in DOMAIN arenas : b \in DOMAIN with /\ with[b] = arenas[b]
        /\ \A b \in DOMAIN with : b \in DOMAIN arenas \/ with[b] = r
    BY <2>6, <2>8 DEF None
  <2> HIDE DEF with, a
  <2>10. \A b \in DOMAIN with : Filled(with[b])
    BY <2>6, <2>8, <2>9
  <2>11. RoundUp(with[a].count) + size <= with[a].cap
    BY <2>2, <2>6, <2>7, <2>9
  <2> QED
    BY <2>1, <2>6, <2>9, <2>10, <2>11 DEF with, a
<1> QED
  BY <1>1, <1>2

(* A chunk has room for the items behind its headroom.                      *)
LEMMA ChunkFits ==
  ASSUME NEW kind \in {"list", "string"}, NEW len \in Nat
  PROVE  /\ Capacity(kind, len) \in Nat /\ Headroom(kind, len) \in Nat
         /\ Headroom(kind, len) + len <= Capacity(kind, len)
         /\ kind = "string" => Headroom(kind, len) = 0 /\ Capacity(kind, len) = len
<1>1. LargeMin \in Nat
  BY SharedArraysAssumption
<1>2. CASE kind = "string"
  BY <1>2 DEF Capacity, Headroom
<1>3. CASE kind = "list"
  <2>1. Capacity(kind, len) = (IF len > LargeMin THEN len ELSE LargeMin) * 2
    BY <1>3 DEF Capacity, ExtraRoom
  <2>2. Capacity(kind, len) \in Nat /\ 2 * len <= Capacity(kind, len)
    BY <1>1, <2>1
  <2>3. Headroom(kind, len) = (Capacity(kind, len) - len) \div 4
    BY <1>3 DEF Headroom, ExtraRoom
  <2>4. \A cap \in Nat : 2 * len <= cap => (cap - len) \div 4 \in Nat /\ (cap - len) \div 4 + len <= cap
    OBVIOUS
  <2> QED
    BY <1>3, <2>2, <2>3, <2>4
<1> QED
  BY <1>2, <1>3

(* What a thread does to the values and arenas leaves the invariant of both *)
(* and what the other threads know of them.                                 *)
ValuesStay == \A i \in DOMAIN values : i \in DOMAIN values' /\ Alike(values[i], values'[i])
ArenasStay(t) ==
  /\ \A b \in DOMAIN arenas : b \in DOMAIN arenas' /\ arenas'[b].owner = arenas[b].owner
  /\ \A b \in DOMAIN arenas :
       arenas[b].owner # t => arenas'[b].count = arenas[b].count /\ arenas'[b].cap = arenas[b].cap
Kept(t) ==
  /\ arenas' \in Seq(Arenas) /\ \A b \in DOMAIN arenas' : Filled(arenas'[b])
  /\ current' \in [Threads -> Nat]
  /\ \A u \in Threads : current'[u] # None =>
       current'[u] \in DOMAIN arenas' /\ arenas'[current'[u]].owner = u
  /\ values' \in Seq(Values) /\ AllSound(values', arenas') /\ AllApart(values')
  /\ ValuesStay /\ ArenasStay(t)

(* reduct_list_new_handles and reduct_atom_new.                             *)
LEMMA FreshKeeps ==
  ASSUME IndInv, NEW t \in Threads, NEW kind \in {"list", "string"},
         NEW items \in Seq(Item), Len(items) > 0, Fresh(t, kind, items, items)
  PROVE  Kept(t)
<1> DEFINE len == Len(items)
           cap == Capacity(kind, len)
           a == ArenaFor(t, cap)
           with == ArenasWith(t, cap)
           base == RoundUp(with[a].count)
           off == Headroom(kind, len)
           small == [kind |-> kind, len |-> len, used |-> {}, val |-> items,
                     items |-> items, cap |-> SmallMax, off |-> 0, arena |-> None, pos |-> 0]
           large == [small EXCEPT !.items = Hole, !.cap = cap, !.off = off,
                                  !.arena = a, !.pos = base + off]
<1>0. TypeOK /\ AllSound(values, arenas) /\ AllApart(values) /\ SmallMax \in Nat
  BY SharedArraysAssumption DEF IndInv
<1>1. len \in Nat /\ cap \in Nat /\ off \in Nat /\ off + len <= cap
      /\ (kind = "string" => off = 0 /\ cap = len)
  <2>1. len \in Nat
    OBVIOUS
  <2> HIDE DEF len
  <2> QED
    BY <2>1, ChunkFits
<1>2. small \in Values /\ small.arena = None /\ small.items = items /\ small.val = items
      /\ small.len = len
  BY <1>0, <1>1 DEF Values, None
<1>3. CASE len <= SmallMax
  <2>1. values' = Append(values, small) /\ UNCHANGED <<arenas, current>>
    BY <1>3 DEF Fresh
  <2> HIDE DEF small
  <2>2. Sound(small, arenas) /\ ~Large(small)
    <3>1. ~Large(small)
      BY <1>2 DEF Large
    <3> QED
      BY <1>2, <3>1 DEF Sound
  <2>3. values' \in Seq(Values) /\ AllSound(values', arenas) /\ AllApart(values')
    <3>1. values \in Seq(Values)
      BY <1>0 DEF TypeOK
    <3> QED
      BY <1>0, <1>2, <2>1, <2>2, <3>1, Appended
  <2>4. ValuesStay
    BY <1>0, <2>1 DEF TypeOK, ValuesStay, Alike
  <2> QED
    BY <1>0, <2>1, <2>3, <2>4 DEF Kept, TypeOK, ArenasStay
<1>4. CASE ~ (len <= SmallMax)
  <2>1. /\ with \in Seq(Arenas) /\ \A b \in DOMAIN with : Filled(with[b])
        /\ a \in DOMAIN with /\ a # None /\ with[a].owner = t
        /\ \A b \in DOMAIN arenas : b \in DOMAIN with /\ with[b] = arenas[b]
        /\ base + cap <= with[a].cap
    <3> HIDE DEF cap
    <3> QED
      BY <1>0, <1>1, RoomMade
  <2> DEFINE r == Used(with[a], base + cap, base + off, items)
  <2>2. /\ arenas' = [with EXCEPT ![a] = r]
        /\ current' = [current EXCEPT ![t] = a]
        /\ values' = Append(values, large)
    <3>1. /\ arenas' = [with EXCEPT ![a].count = base + cap,
                                    ![a].data = Put(@, base + off, items)]
          /\ current' = [current EXCEPT ![t] = a]
          /\ values' = Append(values, large)
      BY <1>4 DEF Fresh
    <3> HIDE DEF with, a, base, off, cap, large
    <3>2. [with EXCEPT ![a].count = base + cap, ![a].data = Put(@, base + off, items)]
            = [with EXCEPT ![a] = r]
      BY <2>1 DEF Arenas, Used
    <3> QED
      BY <3>1, <3>2
  <2>3. with[a].count \in Nat /\ with[a].cap \in Nat /\ base \in Nat /\ with[a].count <= base
    <3> HIDE DEF with, a
    <3>1. with[a] \in Arenas /\ Filled(with[a])
      BY <2>1
    <3>2. with[a].count \in Nat /\ with[a].cap \in Nat
      BY <3>1, ArenaFields
    <3> QED
      BY <3>2, RoundsUp
  <2>4. a \in Nat
    BY <2>1
  <2>5. /\ large \in Values
        /\ large.kind = kind /\ large.len = len /\ large.used = {}
        /\ large.val = items /\ large.cap = cap /\ large.off = off /\ large.arena = a
        /\ large.pos = base + off
    <3> HIDE DEF with, a, base, off, cap, len
    <3>1. small.kind = kind /\ small.used = {}
      OBVIOUS
    <3> HIDE DEF small
    <3>2. Hole \in Seq(Item)
      BY DEF Hole
    <3>3. large = [[[[[small EXCEPT !.items = Hole] EXCEPT !.cap = cap] EXCEPT !.off = off]
                     EXCEPT !.arena = a] EXCEPT !.pos = base + off]
      OBVIOUS
    <3>4. base + off \in Nat
      BY <1>1, <2>3
    <3> HIDE DEF large
    <3> QED
      BY <1>1, <1>2, <2>4, <3>1, <3>2, <3>3, <3>4 DEF Values
  <2> HIDE DEF with, a, base, off, cap, large
  <2>6. /\ r \in Arenas /\ Filled(r) /\ r.cap = with[a].cap /\ r.owner = t
        /\ r.count = base + cap /\ r.data = Put(with[a].data, base + off, items)
    <3>1. with[a] \in Arenas /\ Filled(with[a]) /\ base + off \in Nat /\ base + cap \in Nat
          /\ (base + off) + Len(items) <= with[a].cap
      BY <1>1, <2>1, <2>3
    <3>2. with[a].owner = t /\ base + cap <= with[a].cap
      BY <2>1
    <3> HIDE DEF len
    <3> QED
      BY <3>1, <3>2, Stored
  <2> HIDE DEF r
  <2>7. /\ arenas' \in Seq(Arenas) /\ DOMAIN arenas' = DOMAIN with /\ arenas'[a] = r
        /\ \A b \in DOMAIN with : b # a => arenas'[b] = with[b]
    BY <2>1, <2>2, <2>6
  <2>8. \A b \in DOMAIN arenas' : Filled(arenas'[b])
    BY <2>1, <2>6, <2>7
  <2>9. /\ current' \in [Threads -> Nat]
        /\ \A u \in Threads : current'[u] # None =>
             current'[u] \in DOMAIN arenas' /\ arenas'[current'[u]].owner = u
    <3>1. current \in [Threads -> Nat]
      BY <1>0 DEF TypeOK
    <3>2. ASSUME NEW u \in Threads, current'[u] # None
          PROVE  current'[u] \in DOMAIN arenas' /\ arenas'[current'[u]].owner = u
      <4>1. CASE u = t
        BY <2>1, <2>2, <2>6, <2>7, <3>1, <4>1
      <4>2. CASE u # t
        <5>1. current'[u] = current[u]
          BY <2>2, <3>1, <4>2
        <5>2. current[u] \in DOMAIN arenas /\ arenas[current[u]].owner = u
          BY <1>0, <3>2, <5>1 DEF TypeOK
        <5>3. current[u] # a
          BY <2>1, <4>2, <5>2
        <5> QED
          BY <2>1, <2>7, <5>1, <5>2, <5>3
      <4> QED
        BY <4>1, <4>2
    <3> QED
      BY <2>2, <2>4, <3>1, <3>2
  <2>10. AllSound(values, arenas')
    <3> SUFFICES ASSUME NEW i \in DOMAIN values PROVE Sound(values[i], arenas')
      BY DEF AllSound
    <3>1. values[i] \in Values /\ Sound(values[i], arenas) /\ arenas \in Seq(Arenas)
          /\ \A b \in DOMAIN arenas : Filled(arenas[b])
      BY <1>0 DEF TypeOK, AllSound
    <3>2. ASSUME NEW b \in DOMAIN arenas
          PROVE /\ b \in DOMAIN arenas' /\ arenas[b].count <= arenas'[b].count
                /\ b # a => arenas'[b].data = arenas[b].data
      <4>1. arenas[b].count \in Nat
        BY <3>1, ArenaFields
      <4>2. CASE b = a
        BY <1>1, <2>1, <2>3, <2>6, <2>7, <4>1, <4>2
      <4>3. CASE b # a
        BY <2>1, <2>7, <4>1, <4>3
      <4> QED
        BY <4>2, <4>3
    <3>3. ASSUME a \in DOMAIN arenas, NEW p \in 0 .. arenas[a].cap - 1,
                 p < base + off \/ (base + off) + len <= p
          PROVE  arenas'[a].data[p] = arenas[a].data[p]
      <4>1. with[a] = arenas[a] /\ with[a] \in Arenas /\ Filled(with[a])
        BY <2>1, <3>3
      <4>2. with[a].data \in [0 .. with[a].cap - 1 -> Cells] /\ with[a].cap \in Nat
        BY <4>1, ArenaFields
      <4>3. base + off \in Nat /\ (base + off) + Len(items) <= with[a].cap
        BY <1>1, <2>1, <2>3
      <4>4. p \in 0 .. with[a].cap - 1 /\ (p < base + off \/ (base + off) + Len(items) <= p)
        BY <3>3, <4>1
      <4>5. Put(with[a].data, base + off, items)[p] = with[a].data[p]
        <5> HIDE DEF len
        <5> QED
          BY <4>2, <4>3, <4>4, Puts
      <4> QED
        BY <2>6, <2>7, <4>1, <4>5
    <3>4. ASSUME Large(values[i]), values[i].arena = a
          PROVE  values[i].pos + values[i].len <= base + off
      <4>1. a \in DOMAIN arenas /\ Behind(values[i]) <= arenas[a].count
        BY <3>1, <3>4 DEF Sound
      <4>2. values[i].pos + values[i].len <= Behind(values[i])
        BY <3>1, <3>4, Lies
      <4>3. arenas[a].count = with[a].count
        BY <2>1, <4>1
      <4>4. Behind(values[i]) \in Int /\ values[i].pos \in Nat /\ values[i].len \in Nat
        BY <3>1, Fields
      <4> QED
        BY <1>1, <2>3, <4>1, <4>2, <4>3, <4>4
    <3>5. base + off \in Nat
      BY <1>1, <2>3
    <3> HIDE DEF len
    <3>6. OnlyWrites(arenas, arenas', a, base + off, len)
      BY <3>2, <3>3 DEF OnlyWrites
    <3>7. len \in Nat /\ arenas' \in Seq(Arenas)
      BY <1>1, <2>7
    <3> QED
      BY <3>1, <3>4, <3>5, <3>6, <3>7, WriteKeeps
  <2>11. Large(large)
    BY <2>1, <2>5 DEF Large
  <2>12. Behind(large) <= base + cap /\ base <= From(large)
    BY <1>1, <2>3, <2>5 DEF Behind, From
  <2>13. Sound(large, arenas')
    <3>1. ASSUME NEW k \in 1 .. len
          PROVE arenas'[a].data[large.pos + k - 1] = items[k]
      <4>1. with[a] \in Arenas /\ Filled(with[a])
        BY <2>1
      <4>2. with[a].data \in [0 .. with[a].cap - 1 -> Cells] /\ with[a].cap \in Nat
        BY <4>1, ArenaFields
      <4>3. base + off \in Nat /\ (base + off) + Len(items) <= with[a].cap
        BY <1>1, <2>1, <2>3
      <4>4. Put(with[a].data, base + off, items)[(base + off) + k - 1] = items[k]
        BY <4>2, <4>3, Puts
      <4> QED
        BY <2>5, <2>6, <2>7, <4>4
    <3>2. arenas'[a].count = base + cap /\ a \in DOMAIN arenas'
      BY <2>1, <2>6, <2>7
    <3>3. large.off <= large.pos /\ (large.kind = "list" => large.off + large.len <= large.cap)
      BY <1>1, <2>3, <2>5
    <3> QED
      BY <2>5, <2>11, <2>12, <3>1, <3>2, <3>3 DEF Sound
  <2>14. ASSUME NEW i \in DOMAIN values, Large(values[i])
         PROVE  Apart(values[i], large) /\ Apart(large, values[i])
    <3>1. CASE values[i].arena # a
      BY <2>5, <3>1 DEF Apart
    <3>2. CASE values[i].arena = a
      <4>1. values[i] \in Values /\ Sound(values[i], arenas)
        BY <1>0 DEF TypeOK, AllSound
      <4>2. a \in DOMAIN arenas /\ Behind(values[i]) <= arenas[a].count /\ arenas[a].count = with[a].count
        <5>1. a \in DOMAIN arenas /\ Behind(values[i]) <= arenas[a].count
          BY <2>14, <3>2, <4>1 DEF Sound
        <5> QED
          BY <2>1, <5>1
      <4>3. Behind(values[i]) \in Int /\ From(large) \in Int
        BY <2>5, <4>1, Fields
      <4>4. Behind(values[i]) <= From(large)
        BY <2>3, <2>12, <4>2, <4>3
      <4> QED
        BY <4>4 DEF Apart
    <3> QED
      BY <3>1, <3>2
  <2>15. values' \in Seq(Values) /\ AllSound(values', arenas') /\ AllApart(values')
    <3>1. values \in Seq(Values) /\ large \in Values
      BY <1>0, <2>5 DEF TypeOK
    <3> QED
      BY <1>0, <2>2, <2>10, <2>13, <2>14, <3>1, Appended
  <2>16. ValuesStay
    BY <1>0, <2>2 DEF TypeOK, ValuesStay, Alike
  <2>17. ArenasStay(t)
    BY <2>1, <2>6, <2>7 DEF ArenasStay
  <2> QED
    BY <2>7, <2>8, <2>9, <2>15, <2>16, <2>17 DEF Kept
<1> QED
  BY <1>3, <1>4

-----------------------------------------------------------------------------
(* The data hold the items from a position on; two data agree on a range.   *)
Holds(data, pos, items) == \A m \in 1 .. Len(items) : data[pos + m - 1] = items[m]
Same(data, more, pos, len) == \A p \in pos .. pos + len - 1 : more[p] = data[p]

(* An arena is replaced by one with more items in it.                       *)
Replaced(new, k, r) == new = [arenas EXCEPT ![k] = r]
(* What the arenas are afterwards.                                          *)
LEMMA Rewritten ==
  ASSUME arenas \in Seq(Arenas), \A b \in DOMAIN arenas : Filled(arenas[b]),
         NEW k \in DOMAIN arenas, NEW pos \in Nat, NEW items \in Seq(Item),
         pos + Len(items) <= arenas[k].cap,
         NEW r \in Arenas, Filled(r), r.data = Put(arenas[k].data, pos, items),
         arenas[k].count <= r.count,
         NEW new, Replaced(new, k, r)
  PROVE  /\ new \in Seq(Arenas) /\ \A b \in DOMAIN new : Filled(new[b])
         /\ DOMAIN new = DOMAIN arenas
         /\ new[k] = r /\ \A b \in DOMAIN arenas : b # k => new[b] = arenas[b]
         /\ OnlyWrites(arenas, new, k, pos, Len(items))
         /\ Holds(new[k].data, pos, items)
<1>1. /\ new \in Seq(Arenas) /\ DOMAIN new = DOMAIN arenas
      /\ new[k] = r /\ \A b \in DOMAIN arenas : b # k => new[b] = arenas[b]
  BY DEF Replaced
<1>2. arenas[k] \in Arenas /\ Filled(arenas[k])
  OBVIOUS
<1>3. arenas[k].cap \in Nat /\ arenas[k].data \in [0 .. arenas[k].cap - 1 -> Cells]
  BY <1>2, ArenaFields
<1>4. /\ \A p \in 0 .. arenas[k].cap - 1 :
           p < pos \/ pos + Len(items) <= p => r.data[p] = arenas[k].data[p]
      /\ \A m \in 1 .. Len(items) : r.data[pos + m - 1] = items[m]
  <2> DEFINE c == arenas[k].cap
             data == arenas[k].data
  <2>1. c \in Nat /\ data \in [0 .. c - 1 -> Cells] /\ pos + Len(items) <= c
    BY <1>3
  <2>2. r.data = Put(data, pos, items)
    OBVIOUS
  <2> HIDE DEF c, data
  <2>3. /\ \A p \in 0 .. c - 1 :
             p < pos \/ pos + Len(items) <= p => Put(data, pos, items)[p] = data[p]
        /\ \A m \in 1 .. Len(items) : Put(data, pos, items)[pos + m - 1] = items[m]
    BY <2>1, Puts
  <2> QED
    BY <2>2, <2>3 DEF c, data
<1>5. OnlyWrites(arenas, new, k, pos, Len(items))
  <2>1. ASSUME NEW b \in DOMAIN arenas
        PROVE  /\ b \in DOMAIN new /\ arenas[b].count <= new[b].count
               /\ b # k => new[b].data = arenas[b].data
    <3>1. arenas[b].count \in Nat
      BY ArenaFields
    <3> QED
      BY <1>1, <3>1
  <2> QED
    BY <1>1, <1>4, <2>1 DEF OnlyWrites
<1>6. \A b \in DOMAIN new : Filled(new[b])
  BY <1>1
<1> QED
  BY <1>1, <1>4, <1>5, <1>6 DEF Holds

(* A list whose end is unused, grown in place at that end by the items: the *)
(* new list has the same chunk.                                             *)
GrownTail(v, new, pos, items) ==
  /\ pos = v.pos + v.len /\ new.pos = v.pos
  /\ new.val = v.val \o items
GrownHead(v, new, pos, items) ==
  /\ pos + Len(items) = v.pos /\ new.pos = pos
  /\ new.val = items \o v.val
Grown(v, new, side, pos, items) ==
  /\ new \in Values /\ new.kind = "list" /\ v.kind = "list"
  /\ new.used = v.used /\ side \notin v.used
  /\ new.arena = v.arena /\ new.cap = v.cap
  /\ new.len = v.len + Len(items)
  /\ new.pos - new.off = v.pos - v.off
  /\ new.off + new.len <= new.cap
  /\ \/ side = "tail" /\ GrownTail(v, new, pos, items)
     \/ side = "head" /\ GrownHead(v, new, pos, items)

(* A list that could claim the same end.                                    *)
Rival(v, w, side) ==
  /\ w.kind = "list" /\ Large(w) /\ side \notin w.used
  /\ w.arena = v.arena /\ From(w) = From(v)
  /\ IF side = "tail" THEN w.pos + w.len = v.pos + v.len ELSE w.pos = v.pos

(* The data of the new list.                                                *)
LEMMA GrownHolds ==
  ASSUME NEW v \in Values, NEW new, NEW side \in Ends, NEW pos \in Nat, NEW items \in Seq(Item),
         Grown(v, new, side, pos, items),
         Len(v.val) = v.len, NEW data, NEW more,
         Holds(data, v.pos, v.val), Same(data, more, v.pos, v.len), Holds(more, pos, items)
  PROVE  Len(new.val) = new.len /\ Holds(more, new.pos, new.val)
<1>0. /\ v.len \in Nat /\ v.pos \in Nat /\ Len(items) \in Nat /\ v.val \in Seq(Item)
      /\ new.len = v.len + Len(items)
  BY Fields DEF Grown
<1>1. ASSUME NEW m \in 1 .. v.len PROVE more[v.pos + m - 1] = v.val[m]
  <2>1. v.pos + m - 1 \in v.pos .. v.pos + v.len - 1
    BY <1>0
  <2> QED
    BY <2>1 DEF Holds, Same
<1>2. CASE GrownTail(v, new, pos, items)
  <2>1. pos = v.pos + v.len /\ new.pos = v.pos /\ new.val = v.val \o items
    BY <1>2 DEF GrownTail
  <2>2. Len(new.val) = new.len
    BY <1>0, <2>1
  <2>3. ASSUME NEW m \in 1 .. new.len PROVE more[new.pos + m - 1] = new.val[m]
    <3>1. CASE m <= v.len
      <4>1. new.val[m] = v.val[m]
        BY <1>0, <2>1, <3>1
      <4> QED
        BY <1>0, <1>1, <2>1, <3>1, <4>1
    <3>2. CASE m > v.len
      <4>1. new.val[m] = items[m - v.len]
        BY <1>0, <2>1, <3>2
      <4>2. m - v.len \in 1 .. Len(items)
        BY <1>0, <3>2
      <4>3. pos + (m - v.len) - 1 = new.pos + m - 1
        BY <1>0, <2>1
      <4> QED
        BY <4>1, <4>2, <4>3 DEF Holds
    <3> QED
      BY <1>0, <3>1, <3>2
  <2> QED
    BY <2>2, <2>3 DEF Holds
<1>3. CASE GrownHead(v, new, pos, items)
  <2>1. pos + Len(items) = v.pos /\ new.pos = pos /\ new.val = items \o v.val
    BY <1>3 DEF GrownHead
  <2>2. Len(new.val) = new.len
    BY <1>0, <2>1
  <2>3. ASSUME NEW m \in 1 .. new.len PROVE more[new.pos + m - 1] = new.val[m]
    <3>1. CASE m <= Len(items)
      <4>1. new.val[m] = items[m]
        BY <1>0, <2>1, <3>1
      <4> QED
        BY <1>0, <2>1, <3>1, <4>1 DEF Holds
    <3>2. CASE m > Len(items)
      <4>1. new.val[m] = v.val[m - Len(items)]
        BY <1>0, <2>1, <3>2
      <4>2. m - Len(items) \in 1 .. v.len
        BY <1>0, <3>2
      <4>3. v.pos + (m - Len(items)) - 1 = new.pos + m - 1
        BY <1>0, <2>1
      <4> QED
        BY <1>1, <4>1, <4>2, <4>3
    <3> QED
      BY <1>0, <3>1, <3>2
  <2> QED
    BY <2>2, <2>3 DEF Holds
<1> QED
  BY <1>2, <1>3 DEF Grown

(* Where the items of a grown list go: into its chunk, past every window on *)
(* that.                                                                    *)
LEMMA GrownBounds ==
  ASSUME NEW v \in Values, NEW new, NEW side \in Ends, NEW pos \in Nat, NEW items \in Seq(Item),
         Grown(v, new, side, pos, items),
         NEW as, Sound(v, as), Large(v)
  PROVE  /\ From(new) = From(v) /\ Behind(new) = Behind(v) /\ Large(new)
         /\ From(v) <= pos /\ pos + Len(items) <= Behind(v)
         /\ new.off <= new.pos
         /\ v.pos + v.len <= pos \/ pos + Len(items) <= v.pos
         /\ new \in Values
<1>0. /\ v.len \in Nat /\ v.pos \in Nat /\ v.off \in Nat /\ v.cap \in Nat /\ Len(items) \in Nat
      /\ new \in Values /\ new.kind = "list" /\ v.kind = "list" /\ new.arena = v.arena
      /\ new.cap = v.cap /\ new.len = v.len + Len(items) /\ new.pos - new.off = v.pos - v.off
      /\ new.off + new.len <= new.cap
  BY Fields DEF Grown
<1>1. new.pos \in Nat /\ new.off \in Nat
  BY <1>0, Fields
<1>2. v.off <= v.pos /\ v.off + v.len <= v.cap
  BY <1>0 DEF Sound
<1>3. From(new) = From(v) /\ Behind(new) = Behind(v) /\ Large(new)
  BY <1>0, <1>1 DEF From, Behind, Large
<1>4. From(v) = v.pos - v.off /\ Behind(v) = v.pos - v.off + v.cap
  BY <1>0 DEF From, Behind
<1>5. CASE GrownTail(v, new, pos, items)
  <2>1. pos = v.pos + v.len /\ new.pos = v.pos
    BY <1>5 DEF GrownTail
  <2>2. From(v) <= pos /\ pos + Len(items) <= Behind(v)
    <3>1. new.off = v.off
      BY <1>0, <1>1, <2>1
    <3>2. v.off + (v.len + Len(items)) <= v.cap
      BY <1>0, <3>1
    <3>3. \A p, l, o, c, n \in Nat :
            o + (l + n) <= c => p - o <= p + l /\ (p + l) + n <= p - o + c
      OBVIOUS
    <3>4. v.pos - v.off <= v.pos + v.len /\ (v.pos + v.len) + Len(items) <= v.pos - v.off + v.cap
      BY <1>0, <3>2, <3>3, Zenon
    <3> QED
      BY <1>4, <2>1, <3>4, Zenon
  <2>3. new.off <= new.pos
    BY <1>0, <1>1, <1>2, <2>1
  <2>4. v.pos + v.len <= pos \/ pos + Len(items) <= v.pos
    BY <1>0, <2>1
  <2> QED
    BY <1>0, <1>3, <2>2, <2>3, <2>4
<1>6. CASE GrownHead(v, new, pos, items)
  <2>1. pos + Len(items) = v.pos /\ new.pos = pos
    BY <1>6 DEF GrownHead
  <2>2. From(v) <= pos /\ pos + Len(items) <= Behind(v)
    <3>1. v.pos - v.off <= pos
      BY <1>0, <1>1, <2>1
    <3>2. v.pos <= v.pos - v.off + v.cap
      BY <1>0, <1>2
    <3> QED
      BY <1>4, <2>1, <3>1, <3>2, Zenon
  <2>3. new.off <= new.pos
    BY <1>0, <1>1, <1>2, <2>1
  <2>4. v.pos + v.len <= pos \/ pos + Len(items) <= v.pos
    BY <1>0, <2>1
  <2> QED
    BY <1>0, <1>3, <2>2, <2>3, <2>4
<1> QED
  BY <1>5, <1>6 DEF Grown

(* Windows on other chunks, and the others on this chunk, are not written,  *)
(* if no other list could claim the end.                                    *)
LEMMA GrownApart ==
  ASSUME NEW v \in Values, NEW new, NEW side \in Ends, NEW pos \in Nat, NEW items \in Seq(Item),
         Grown(v, new, side, pos, items),
         NEW as, Sound(v, as), Large(v), NEW w \in Values, Sound(w, as), Large(w),
         Apart(v, w), Apart(w, v), ~Rival(v, w, side)
  PROVE  /\ w.arena = v.arena => w.pos + w.len <= pos \/ pos + Len(items) <= w.pos
         /\ Apart(new, w) /\ Apart(w, new)
<1>1. /\ v.len \in Nat /\ v.pos \in Nat /\ w.len \in Nat /\ w.pos \in Nat /\ Len(items) \in Nat
      /\ From(v) \in Int /\ Behind(v) \in Int /\ From(w) \in Int /\ Behind(w) \in Int
  BY Fields
<1>2. /\ From(new) = From(v) /\ Behind(new) = Behind(v) /\ Large(new)
      /\ From(v) <= pos /\ pos + Len(items) <= Behind(v)
  BY GrownBounds
<1>3. From(w) <= w.pos /\ w.pos + w.len <= Behind(w)
  BY Lies
<1>4. /\ new.arena = v.arena /\ new.kind = "list" /\ v.kind = "list"
      /\ new.used = v.used /\ side \notin v.used /\ new.cap = v.cap
      /\ new.len = v.len + Len(items)
  BY DEF Grown
<1>5. CASE w.arena # v.arena
  BY <1>4, <1>5 DEF Apart
<1>6. CASE Behind(v) <= From(w)
  <2>1. Apart(new, w) /\ Apart(w, new)
    BY <1>2, <1>6 DEF Apart
  <2>2. pos + Len(items) <= w.pos
    BY <1>1, <1>2, <1>3, <1>6
  <2> QED
    BY <2>1, <2>2
<1>7. CASE Behind(w) <= From(v)
  <2>1. Apart(new, w) /\ Apart(w, new)
    BY <1>2, <1>7 DEF Apart
  <2>2. w.pos + w.len <= pos
    BY <1>1, <1>2, <1>3, <1>7
  <2> QED
    BY <2>1, <2>2
<1>8. CASE /\ w.arena = v.arena /\ w.kind = "list" /\ From(v) = From(w)
           /\ v.cap = w.cap /\ Leads(v, w) /\ Leads(w, v)
  <2>1. side \in w.used
    <3>1. SUFFICES ASSUME side \notin w.used PROVE FALSE
      OBVIOUS
    <3>2. CASE side = "tail"
      <4>1. w.pos + w.len <= v.pos + v.len /\ v.pos + v.len <= w.pos + w.len
        BY <1>4, <1>8, <3>1, <3>2 DEF Leads
      <4>2. w.pos + w.len = v.pos + v.len
        BY <1>1, <4>1
      <4> QED
        BY <1>8, <3>1, <3>2, <4>2 DEF Rival
    <3>3. CASE side = "head"
      <4>1. v.pos <= w.pos /\ w.pos <= v.pos
        BY <1>4, <1>8, <3>1, <3>3 DEF Leads
      <4>2. w.pos = v.pos
        BY <1>1, <4>1
      <4> QED
        BY <1>8, <3>1, <3>3, <4>2 DEF Rival
    <3> QED
      BY <3>2, <3>3 DEF Ends
  <2>2. CASE side = "tail" /\ GrownTail(v, new, pos, items)
    <3>1. pos = v.pos + v.len /\ new.pos = v.pos
      BY <2>2 DEF GrownTail
    <3>2. w.pos + w.len <= v.pos + v.len
      BY <1>4, <1>8, <2>2 DEF Leads
    <3>3. w.pos + w.len <= new.pos + new.len /\ w.pos + w.len <= pos
      BY <1>1, <1>4, <3>1, <3>2
    <3>4. Leads(new, w) /\ Leads(w, new)
      BY <1>4, <1>8, <2>1, <2>2, <3>1, <3>3 DEF Leads
    <3> QED
      BY <1>2, <1>4, <1>8, <3>3, <3>4 DEF Apart
  <2>3. CASE side = "head" /\ GrownHead(v, new, pos, items)
    <3>1. pos + Len(items) = v.pos /\ new.pos = pos
      BY <2>3 DEF GrownHead
    <3>2. v.pos <= w.pos
      BY <1>4, <1>8, <2>3 DEF Leads
    <3>3. new.pos <= w.pos /\ pos + Len(items) <= w.pos
      BY <1>1, <3>1, <3>2
    <3>4. new.pos + new.len = v.pos + v.len
      BY <1>1, <1>4, <3>1
    <3>5. Leads(new, w) /\ Leads(w, new)
      BY <1>4, <1>8, <2>1, <2>3, <3>3, <3>4 DEF Leads
    <3> QED
      BY <1>2, <1>4, <1>8, <3>3, <3>5 DEF Apart
  <2> QED
    BY <2>2, <2>3 DEF Grown
<1> QED
  BY <1>4, <1>5, <1>6, <1>7, <1>8 DEF Apart

(* The operand itself, with its end marked.                                 *)
LEMMA GrownFromMarked ==
  ASSUME NEW v \in Values, NEW new, NEW side \in Ends, NEW pos \in Nat, NEW items \in Seq(Item),
         Grown(v, new, side, pos, items),
         NEW as, Sound(v, as), Large(v), NEW m, Alike(v, m), m.used = v.used \cup {side}
  PROVE  Apart(new, m) /\ Apart(m, new)
<1>1. v.len \in Nat /\ v.pos \in Nat /\ Len(items) \in Nat
  BY Fields
<1>2. /\ new.arena = v.arena /\ new.kind = "list" /\ v.kind = "list"
      /\ new.cap = v.cap /\ new.len = v.len + Len(items)
  BY DEF Grown
<1>3. From(new) = From(v)
  BY GrownBounds
<1>4. /\ m.arena = v.arena /\ m.kind = "list" /\ m.cap = v.cap
      /\ m.pos = v.pos /\ m.len = v.len /\ From(m) = From(v)
  BY <1>2 DEF Alike, From
<1>5. new.pos <= m.pos /\ m.pos + m.len <= new.pos + new.len
  BY <1>1, <1>2, <1>4 DEF Grown, GrownTail, GrownHead
<1>6. Leads(new, m)
  BY <1>5 DEF Leads
<1>7. Leads(m, new)
  <2>1. CASE side = "tail" /\ GrownTail(v, new, pos, items)
    <3>1. new.pos = v.pos
      BY <2>1 DEF GrownTail
    <3> QED
      BY <1>1, <1>4, <2>1, <3>1 DEF Leads
  <2>2. CASE side = "head" /\ GrownHead(v, new, pos, items)
    <3>1. new.pos + new.len = v.pos + v.len
      BY <1>1, <1>2, <2>2 DEF GrownHead
    <3> QED
      BY <1>1, <1>4, <2>2, <3>1 DEF Leads
  <2> QED
    BY <2>1, <2>2 DEF Grown
<1> QED
  BY <1>2, <1>3, <1>4, <1>6, <1>7 DEF Apart

(* The step that grows a list in place.                                     *)
GrowsInPlace(l, side, new, pos, items) ==
  /\ values' = Append(Marked(l, side), new)
  /\ Replaced(arenas', values[l].arena, Written(arenas[values[l].arena], pos, items))
  /\ current' = current
(* It keeps the invariant of values and arenas: the items lie in the chunk, *)
(* past every window on it, and the flag set takes the lead from the        *)
(* operand to the new list.                                                 *)
LEMMA ListGrows ==
  ASSUME IndInv, NEW t \in Threads, NEW l \in DOMAIN values, Large(values[l]),
         NEW new, NEW side \in Ends, NEW pos \in Nat, NEW items \in Seq(Item),
         Grown(values[l], new, side, pos, items), GrowsInPlace(l, side, new, pos, items),
         \A i \in DOMAIN values : i # l => ~Rival(values[l], values[i], side)
  PROVE  Kept(t)
<1> DEFINE v == values[l]
           k == v.arena
           r == Written(arenas[k], pos, items)
           vs == Marked(l, side)
<1>1. /\ arenas \in Seq(Arenas) /\ \A b \in DOMAIN arenas : Filled(arenas[b])
      /\ values \in Seq(Values) /\ v \in Values /\ Sound(v, arenas)
      /\ AllSound(values, arenas) /\ AllApart(values)
  BY DEF IndInv, TypeOK, AllSound
<1>2. k \in DOMAIN arenas /\ Behind(v) <= arenas[k].count /\ Large(v)
  BY <1>1 DEF Sound
<1>3. /\ arenas[k] \in Arenas /\ Filled(arenas[k]) /\ arenas[k].count \in Nat
      /\ arenas[k].cap \in Nat /\ arenas[k].count <= arenas[k].cap
  <2>1. arenas[k] \in Arenas /\ Filled(arenas[k])
    BY <1>1, <1>2
  <2> HIDE DEF k
  <2> QED
    BY <2>1, ArenaFields
<1> HIDE DEF v, k, r, vs
<1>4. Grown(v, new, side, pos, items)
  BY DEF v
<1>5. /\ From(new) = From(v) /\ Behind(new) = Behind(v) /\ Large(new)
      /\ From(v) <= pos /\ pos + Len(items) <= Behind(v)
      /\ new.off <= new.pos
      /\ v.pos + v.len <= pos \/ pos + Len(items) <= v.pos
      /\ new \in Values
  BY <1>1, <1>2, <1>4, GrownBounds
<1>6. Len(items) \in Nat /\ Behind(v) \in Int /\ v.pos \in Nat /\ v.len \in Nat
      /\ v.pos + v.len <= Behind(v)
  BY <1>1, <1>2, Fields, Lies
<1>7. pos + Len(items) <= arenas[k].cap
  BY <1>2, <1>3, <1>5, <1>6
<1>8. /\ r \in Arenas /\ Filled(r) /\ r.cap = arenas[k].cap /\ r.owner = arenas[k].owner
      /\ r.count = arenas[k].count /\ r.data = Put(arenas[k].data, pos, items)
  BY <1>3, <1>7, Stored DEF r
<1>9. Replaced(arenas', k, r) /\ values' = Append(vs, new) /\ current' = current
  BY DEF v, k, r, vs, GrowsInPlace
<1>10. /\ arenas' \in Seq(Arenas) /\ \A b \in DOMAIN arenas' : Filled(arenas'[b])
       /\ DOMAIN arenas' = DOMAIN arenas
       /\ arenas'[k] = r /\ \A b \in DOMAIN arenas : b # k => arenas'[b] = arenas[b]
       /\ OnlyWrites(arenas, arenas', k, pos, Len(items))
       /\ Holds(arenas'[k].data, pos, items)
  <2>1. arenas[k].count <= r.count
    BY <1>3, <1>8
  <2> QED
    BY <1>1, <1>2, <1>7, <1>8, <1>9, <2>1, Rewritten
<1>11. ASSUME NEW i \in DOMAIN values, i # l, Large(values[i])
       PROVE  /\ values[i].arena = k =>
                   values[i].pos + values[i].len <= pos \/ pos + Len(items) <= values[i].pos
              /\ Apart(new, values[i]) /\ Apart(values[i], new)
  <2>1. /\ values[i] \in Values /\ Sound(values[i], arenas)
        /\ Apart(v, values[i]) /\ Apart(values[i], v) /\ ~Rival(v, values[i], side)
    BY <1>1, <1>2, <1>11 DEF AllSound, AllApart, v
  <2> QED
    BY <1>1, <1>2, <1>4, <1>11, <2>1, GrownApart DEF k
<1>12. AllSound(values, arenas')
  <2> SUFFICES ASSUME NEW i \in DOMAIN values PROVE Sound(values[i], arenas')
    BY DEF AllSound
  <2>1. values[i] \in Values /\ Sound(values[i], arenas)
    BY <1>1 DEF AllSound
  <2>2. Large(values[i]) /\ values[i].arena = k =>
          values[i].pos + values[i].len <= pos \/ pos + Len(items) <= values[i].pos
    BY <1>5, <1>11 DEF v
  <2> QED
    BY <1>1, <1>6, <1>10, <2>1, <2>2, WriteKeeps
<1>13. /\ vs \in Seq(Values) /\ DOMAIN vs = DOMAIN values
       /\ Alike(v, vs[l]) /\ vs[l].used = v.used \cup {side}
       /\ \A i \in DOMAIN values : i # l => vs[i] = values[i]
       /\ AllSound(vs, arenas') /\ AllApart(vs)
  BY <1>1, <1>12, Marks, MarksKeep DEF vs, v
<1>14. Sound(new, arenas')
  <2>1. ASSUME NEW p \in v.pos .. v.pos + v.len - 1
        PROVE  arenas'[k].data[p] = arenas[k].data[p]
    <3>1. v.pos + v.len <= arenas[k].cap
      BY <1>2, <1>3, <1>6
    <3>2. p \in Nat /\ p < v.pos + v.len /\ v.pos <= p
      BY <1>6
    <3>3. p \in 0 .. arenas[k].cap - 1
      BY <1>3, <1>6, <3>1, <3>2
    <3>4. p < pos \/ pos + Len(items) <= p
      BY <1>5, <1>6, <3>2
    <3> QED
      BY <1>2, <1>10, <3>3, <3>4 DEF OnlyWrites
  <2>2. Len(v.val) = v.len /\ Holds(arenas[k].data, v.pos, v.val)
    BY <1>1, <1>2 DEF Sound, Holds, k
  <2>3. Len(new.val) = new.len /\ Holds(arenas'[k].data, new.pos, new.val)
    <3>1. Same(arenas[k].data, arenas'[k].data, v.pos, v.len)
      BY <2>1 DEF Same
    <3>2. Holds(arenas'[k].data, pos, items) /\ v \in Values
      BY <1>1, <1>10
    <3> DEFINE data == arenas[k].data
               more == arenas'[k].data
    <3>3. Holds(data, v.pos, v.val) /\ Same(data, more, v.pos, v.len) /\ Holds(more, pos, items)
      BY <2>2, <3>1, <3>2
    <3> HIDE DEF data, more
    <3>4. Len(new.val) = new.len /\ Holds(more, new.pos, new.val)
      BY <1>4, <2>2, <3>2, <3>3, GrownHolds
    <3> QED
      BY <3>4 DEF more
  <2>4. new.arena = k /\ new.len = v.len + Len(items) /\ new.off + new.len <= new.cap
    BY <1>4 DEF Grown, k
  <2>5. new.len > 0
    <3>1. v.len > 0
      BY <1>1 DEF Sound
    <3> QED
      BY <1>6, <2>4, <3>1
  <2>6. Behind(new) <= arenas'[k].count /\ k \in DOMAIN arenas'
    BY <1>2, <1>5, <1>8, <1>10
  <2> QED
    BY <1>5, <2>3, <2>4, <2>5, <2>6 DEF Sound, Holds
<1>15. ASSUME NEW i \in DOMAIN vs, Large(vs[i])
       PROVE  Apart(vs[i], new) /\ Apart(new, vs[i])
  <2>1. CASE i = l
    BY <1>1, <1>2, <1>4, <1>13, <2>1, GrownFromMarked
  <2>2. CASE i # l
    BY <1>11, <1>13, <1>15, <2>2
  <2> QED
    BY <2>1, <2>2
<1>16. values' \in Seq(Values) /\ AllSound(values', arenas') /\ AllApart(values')
  BY <1>5, <1>9, <1>13, <1>14, <1>15, Appended
<1>17. ValuesStay
  <2>1. ASSUME NEW i \in DOMAIN values PROVE i \in DOMAIN values' /\ Alike(values[i], values'[i])
    <3>1. i \in DOMAIN vs /\ Alike(values[i], vs[i])
      BY <1>13 DEF Alike, v
    <3>2. i \in DOMAIN values' /\ values'[i] = vs[i]
      BY <1>5, <1>9, <1>13, <3>1
    <3> QED
      BY <3>1, <3>2
  <2> QED
    BY <2>1 DEF ValuesStay
<1>18. ArenasStay(t)
  BY <1>2, <1>8, <1>10 DEF ArenasStay
<1>19. /\ current' \in [Threads -> Nat]
       /\ \A u \in Threads : current'[u] # None =>
            current'[u] \in DOMAIN arenas' /\ arenas'[current'[u]].owner = u
  <2>1. /\ current \in [Threads -> Nat]
        /\ \A u \in Threads : current[u] # None =>
             current[u] \in DOMAIN arenas /\ arenas[current[u]].owner = u
    BY DEF IndInv, TypeOK
  <2>2. \A b \in DOMAIN arenas : arenas'[b].owner = arenas[b].owner
    BY <1>8, <1>10
  <2> QED
    BY <1>9, <1>10, <2>1, <2>2
<1> QED
  BY <1>10, <1>16, <1>17, <1>18, <1>19 DEF Kept

-----------------------------------------------------------------------------
(* A slice has the items it names, in a window on the same chunk.           *)
SliceOf(v, n, s, e) ==
  /\ n \in Values
  /\ n.kind = v.kind /\ n.arena = v.arena /\ n.cap = v.cap
  /\ n.len = e - s
  /\ Len(n.val) = e - s /\ \A k \in 1 .. e - s : n.val[k] = v.val[s + k]
  /\ Large(v) =>
       /\ n.pos = v.pos + s /\ n.off = v.off + s
       /\ v.kind = "list" => v.used \subseteq n.used
       /\ v.kind = "list" /\ s > 0 => "head" \in n.used
       /\ v.kind = "list" /\ e < v.len => "tail" \in n.used
  /\ ~Large(v) => n.items = SubSeq(v.items, s + 1, e) /\ n.val = SubSeq(v.val, s + 1, e)

(* Sliced makes such a value.                                               *)
LEMMA SliceIs ==
  ASSUME NEW v \in Values, v.len = Len(v.val), ~Large(v) => v.items = v.val,
         NEW s \in 0 .. v.len - 1, NEW e \in s + 1 .. v.len
  PROVE  SliceOf(v, Sliced(v, s, e), s, e)
<1> DEFINE part == SubSeq(v.val, s + 1, e)
           cut == (IF s > 0 THEN {"head"} ELSE {}) \cup (IF e < v.len THEN {"tail"} ELSE {})
           n == Sliced(v, s, e)
<1>1. /\ v.len \in Nat /\ v.val \in Seq(Item) /\ v.pos \in Nat /\ v.off \in Nat
      /\ v.used \in SUBSET Ends
  BY Fields
<1>2. part \in Seq(Item) /\ Len(part) = e - s /\ \A k \in 1 .. e - s : part[k] = v.val[s + k]
  <2>1. \A k \in s + 1 .. e : v.val[k] \in Item
    BY <1>1
  <2>2. s + 1 \in Int /\ e \in Int /\ s + 1 <= e /\ e - (s + 1) + 1 = e - s
    BY <1>1
  <2>3. /\ part \in Seq(Item) /\ Len(part) = e - (s + 1) + 1
        /\ \A k \in 1 .. e - (s + 1) + 1 : part[k] = v.val[(s + 1) + k - 1]
    BY <2>1, <2>2, SubSeqProperties
  <2>4. \A k \in Int : (s + 1) + k - 1 = s + k
    BY <1>1
  <2> HIDE DEF part
  <2> QED
    BY <2>2, <2>3, <2>4
<1>3. CASE ~Large(v)
  <2>1. v.items = v.val
    BY <1>3
  <2>2. n = [[[v EXCEPT !.len = e - s] EXCEPT !.items = part] EXCEPT !.val = part]
    BY <1>3, <2>1 DEF Sliced, Values
  <2>3. e - s \in Nat
    BY <1>1
  <2> HIDE DEF n, part
  <2>4. /\ n \in Values
        /\ n.kind = v.kind /\ n.arena = v.arena /\ n.cap = v.cap
        /\ n.len = e - s /\ n.val = part /\ n.items = part
    BY <1>2, <2>2, <2>3 DEF Values
  <2> QED
    BY <1>2, <1>3, <2>1, <2>4 DEF SliceOf, part, n
<1>4. CASE Large(v)
  <2> DEFINE used == IF v.kind = "list" THEN v.used \cup cut ELSE {}
  <2>1. n = [[[[[v EXCEPT !.len = e - s] EXCEPT !.off = v.off + s] EXCEPT !.pos = v.pos + s]
              EXCEPT !.val = part] EXCEPT !.used = used]
    BY <1>4 DEF Sliced, Values
  <2>2. e - s \in Nat /\ v.off + s \in Nat /\ v.pos + s \in Nat
    BY <1>1
  <2>3. used \in SUBSET Ends
    BY <1>1 DEF Ends
  <2>4. /\ v.kind = "list" => v.used \subseteq used
        /\ v.kind = "list" /\ s > 0 => "head" \in used
        /\ v.kind = "list" /\ e < v.len => "tail" \in used
    OBVIOUS
  <2> HIDE DEF n, part, used
  <2>5. /\ n \in Values
        /\ n.kind = v.kind /\ n.arena = v.arena /\ n.cap = v.cap
        /\ n.len = e - s /\ n.val = part /\ n.off = v.off + s /\ n.pos = v.pos + s
        /\ n.used = used
    BY <1>2, <2>1, <2>2, <2>3 DEF Values
  <2> QED
    BY <1>2, <1>4, <2>4, <2>5 DEF SliceOf, n
<1> QED
  BY <1>3, <1>4

(* Where a slice lies, and that it is sound.                                *)
SliceLies(v, n, s, e) ==
  /\ From(n) = From(v) /\ Behind(n) <= Behind(v)
  /\ v.kind = "list" => Behind(n) = Behind(v)
  /\ n.pos = v.pos + s /\ n.pos + n.len = v.pos + e
(* It is sound because its window lies in that of the value.                *)
LEMMA SliceSound ==
  ASSUME NEW v \in Values, NEW as, Sound(v, as), NEW n,
         NEW s \in 0 .. v.len - 1, NEW e \in s + 1 .. v.len, SliceOf(v, n, s, e),
         Large(v) => as[v.arena].count \in Int
  PROVE  /\ Sound(n, as)
         /\ Large(n) <=> Large(v)
         /\ Large(v) => SliceLies(v, n, s, e)
<1>1. /\ v.len \in Nat /\ v.pos \in Nat /\ v.off \in Nat /\ v.cap \in Nat
      /\ n.kind = v.kind /\ n.arena = v.arena /\ n.cap = v.cap /\ n.len = e - s
      /\ Len(n.val) = e - s /\ \A k \in 1 .. e - s : n.val[k] = v.val[s + k]
  BY Fields DEF SliceOf
<1>2. (Large(n) <=> Large(v)) /\ n.len > 0 /\ Len(n.val) = n.len
  BY <1>1 DEF Large
<1>3. CASE ~Large(v)
  <2>1. n.items = SubSeq(v.items, s + 1, e) /\ n.val = SubSeq(v.val, s + 1, e) /\ v.items = v.val
    BY <1>3 DEF SliceOf, Sound
  <2> QED
    BY <1>2, <1>3, <2>1 DEF Sound
<1>4. CASE Large(v)
  <2>1. n.pos = v.pos + s /\ n.off = v.off + s
    BY <1>4 DEF SliceOf
  <2>2. n.pos + n.len = v.pos + e
    <3>1. n.pos = v.pos + s /\ n.len = e - s /\ v.pos \in Nat /\ v.len \in Nat
      BY <1>1, <2>1
    <3> QED
      BY <3>1
  <2>3. From(n) = From(v) /\ (v.kind = "list" => Behind(n) = Behind(v))
    BY <1>1, <2>1 DEF From, Behind
  <2>4. v.kind # "list" => Behind(n) <= Behind(v)
    BY <1>1, <2>1, <2>2 DEF From, Behind
  <2>5. Behind(n) <= Behind(v)
    <3>1. Behind(v) \in Int
      BY Fields
    <3> QED
      BY <2>3, <2>4, <3>1
  <2>6. /\ v.arena \in DOMAIN as /\ Behind(v) <= as[v.arena].count
        /\ v.off <= v.pos /\ (v.kind = "list" => v.off + v.len <= v.cap)
        /\ \A k \in 1 .. v.len : as[v.arena].data[v.pos + k - 1] = v.val[k]
    BY <1>4 DEF Sound
  <2>7. Behind(n) <= as[n.arena].count
    <3>1. Behind(v) \in Int /\ Behind(n) \in Int
      BY Fields DEF SliceOf
    <3> QED
      BY <1>1, <1>4, <2>5, <2>6, <3>1, AtMost, Zenon
  <2>8. n.off <= n.pos /\ (n.kind = "list" => n.off + n.len <= n.cap)
    BY <1>1, <2>1, <2>6
  <2>9. ASSUME NEW k \in 1 .. n.len PROVE as[n.arena].data[n.pos + k - 1] = n.val[k]
    <3>1. k \in 1 .. e - s
      BY <1>1
    <3>2. s + k \in 1 .. v.len
      BY <1>1, <3>1
    <3>3. v.pos + (s + k) - 1 = n.pos + k - 1
      BY <1>1, <2>1, <3>1
    <3> QED
      BY <1>1, <2>6, <3>1, <3>2, <3>3
  <2> QED
    BY <1>1, <1>2, <1>4, <2>1, <2>2, <2>3, <2>5, <2>6, <2>7, <2>8, <2>9 DEF Sound, SliceLies
<1> QED
  BY <1>3, <1>4

(* What was apart from a value is apart from its slices: an end of a slice  *)
(* that is unused is an unused end of the value.                            *)
LEMMA SliceApart ==
  ASSUME NEW v \in Values, NEW as, Sound(v, as), NEW n, Large(v),
         NEW s \in 0 .. v.len - 1, NEW e \in s + 1 .. v.len, SliceOf(v, n, s, e),
         as[v.arena].count \in Int,
         NEW w \in Values, w = v \/ (Apart(v, w) /\ Apart(w, v))
  PROVE  Apart(n, w) /\ Apart(w, n)
<1>1. /\ v.len \in Nat /\ v.pos \in Nat /\ w.len \in Nat /\ w.pos \in Nat
      /\ From(v) \in Int /\ Behind(v) \in Int /\ From(w) \in Int /\ Behind(w) \in Int
      /\ From(n) \in Int /\ Behind(n) \in Int /\ n \in Values
      /\ n.kind = v.kind /\ n.arena = v.arena /\ n.cap = v.cap /\ n.len = e - s
  BY Fields DEF SliceOf
<1>2. /\ From(n) = From(v) /\ Behind(n) <= Behind(v)
      /\ n.pos = v.pos + s /\ n.pos + n.len = v.pos + e
  <2>1. Large(v) => SliceLies(v, n, s, e)
    BY SliceSound, Zenon
  <2> QED
    BY <2>1 DEF SliceLies
<1>3. /\ v.kind = "list" => v.used \subseteq n.used
      /\ v.kind = "list" /\ s > 0 => "head" \in n.used
      /\ v.kind = "list" /\ e < v.len => "tail" \in n.used
  BY DEF SliceOf
<1>4. ASSUME v.kind = "list", w = v \/ Leads(v, w) PROVE Leads(n, w)
  <2>1. ASSUME "tail" \notin n.used PROVE w.pos + w.len <= n.pos + n.len
    <3>1. "tail" \notin v.used /\ e = v.len
      BY <1>1, <1>3, <1>4, <2>1
    <3>2. w.pos + w.len <= v.pos + v.len
      BY <1>1, <1>4, <3>1 DEF Leads
    <3> QED
      BY <1>2, <3>1, <3>2
  <2>2. ASSUME "head" \notin n.used PROVE n.pos <= w.pos
    <3>1. "head" \notin v.used /\ s = 0
      BY <1>1, <1>3, <1>4, <2>2
    <3>2. v.pos <= w.pos
      BY <1>1, <1>4, <3>1 DEF Leads
    <3> QED
      BY <1>1, <1>2, <3>1, <3>2
  <2> QED
    BY <2>1, <2>2 DEF Leads
<1>5. ASSUME w = v \/ Leads(w, v) PROVE Leads(w, n)
  <2>1. ASSUME "tail" \notin w.used PROVE n.pos + n.len <= w.pos + w.len
    <3>1. v.pos + v.len <= w.pos + w.len
      BY <1>1, <1>5, <2>1 DEF Leads
    <3> QED
      BY <1>1, <1>2, <3>1
  <2>2. ASSUME "head" \notin w.used PROVE w.pos <= n.pos
    <3>1. w.pos <= v.pos
      BY <1>1, <1>5, <2>2 DEF Leads
    <3> QED
      BY <1>1, <1>2, <3>1
  <2> QED
    BY <2>1, <2>2 DEF Leads
<1>6. CASE w = v
  BY <1>1, <1>2, <1>4, <1>5, <1>6 DEF Apart
<1>7. CASE Apart(v, w) /\ Apart(w, v)
  <2>1. CASE v.arena # w.arena
    BY <1>1, <2>1 DEF Apart
  <2>2. CASE Behind(v) <= From(w)
    <3>1. Behind(n) <= From(w)
      BY <1>1, <1>2, <2>2
    <3> QED
      BY <3>1 DEF Apart
  <2>3. CASE Behind(w) <= From(v)
    <3>1. Behind(w) <= From(n)
      BY <1>1, <1>2, <2>3
    <3> QED
      BY <3>1 DEF Apart
  <2>4. CASE v.arena = w.arena /\ ~ (Behind(v) <= From(w)) /\ ~ (Behind(w) <= From(v))
    <3>1. /\ v.kind = w.kind /\ From(v) = From(w)
          /\ v.kind = "list" => v.cap = w.cap /\ Leads(v, w) /\ Leads(w, v)
      BY <1>7, <2>4 DEF Apart
    <3> QED
      BY <1>1, <1>2, <1>4, <1>5, <3>1 DEF Apart
  <2> QED
    BY <2>1, <2>2, <2>3, <2>4
<1> QED
  BY <1>6, <1>7

-----------------------------------------------------------------------------
(* What each step does to the values and arenas.                            *)
LEMMA Parts ==
  ASSUME IndInv
  PROVE  /\ arenas \in Seq(Arenas) /\ \A b \in DOMAIN arenas : Filled(arenas[b])
         /\ values \in Seq(Values) /\ job \in [Threads -> Jobs]
         /\ current \in [Threads -> Nat]
         /\ \A u \in Threads : current[u] # None =>
              current[u] \in DOMAIN arenas /\ arenas[current[u]].owner = u
         /\ AllSound(values, arenas) /\ AllApart(values)
         /\ \A u \in Threads : JobOK(u, job[u], values, arenas)
         /\ \A i \in DOMAIN values : values[i] \in Values /\ Sound(values[i], arenas)
         /\ \A b \in DOMAIN arenas : arenas[b] \in Arenas
BY DEF IndInv, TypeOK, JobsOK, AllSound

(* A step that makes one value and writes nothing.                          *)
LEMMA OneMore ==
  ASSUME IndInv, NEW t \in Threads, NEW new \in Values, Sound(new, arenas),
         \A i \in DOMAIN values :
           Large(values[i]) /\ Large(new) => Apart(values[i], new) /\ Apart(new, values[i]),
         values' = Append(values, new), arenas' = arenas, current' = current
  PROVE  Kept(t)
<1>1. values' \in Seq(Values) /\ AllSound(values', arenas') /\ AllApart(values')
  BY Parts, Appended
<1>2. ValuesStay
  BY Parts DEF ValuesStay, Alike
<1>3. ArenasStay(t)
  BY DEF ArenasStay
<1>4. /\ arenas' \in Seq(Arenas) /\ \A b \in DOMAIN arenas' : Filled(arenas'[b])
      /\ current' \in [Threads -> Nat]
      /\ \A u \in Threads : current'[u] # None =>
           current'[u] \in DOMAIN arenas' /\ arenas'[current'[u]].owner = u
  BY Parts
<1> QED
  BY <1>1, <1>2, <1>3, <1>4 DEF Kept

(* reduct_list_slice and reduct_atom_substr.                                *)
LEMMA SliceKeeps ==
  ASSUME IndInv, NEW t \in Threads, Slice(t)
  PROVE  Kept(t)
<1>1. PICK i \in DOMAIN values :
        \E s \in 0 .. values[i].len - 1 : \E e \in s + 1 .. values[i].len :
          values' = Append(values, Sliced(values[i], s, e))
  BY DEF Slice, Indices
<1>2. arenas' = arenas /\ current' = current
  BY DEF Slice
<1> DEFINE v == values[i]
<1>3. v \in Values /\ Sound(v, arenas)
  BY Parts
<1>4. PICK s \in 0 .. v.len - 1 : \E e \in s + 1 .. v.len :
        values' = Append(values, Sliced(v, s, e))
  BY <1>1
<1>5. PICK e \in s + 1 .. v.len :
        values' = Append(values, Sliced(v, s, e))
  BY <1>4
<1> DEFINE n == Sliced(v, s, e)
<1>6. ASSUME NEW j \in DOMAIN values, j # i, Large(v), Large(values[j])
      PROVE  Apart(v, values[j]) /\ Apart(values[j], v)
  BY <1>6, Parts DEF AllApart
<1> HIDE DEF v
<1>7. SliceOf(v, n, s, e)
  <2>1. v.len = Len(v.val) /\ (~Large(v) => v.items = v.val)
    BY <1>3 DEF Sound
  <2> QED
    BY <1>3, <2>1, SliceIs
<1> HIDE DEF n
<1>8. Large(v) => arenas[v.arena].count \in Int
  <2>1. Large(v) => v.arena \in DOMAIN arenas
    BY <1>3 DEF Sound
  <2>2. Large(v) => arenas[v.arena] \in Arenas /\ Filled(arenas[v.arena])
    BY <2>1, Parts
  <2>3. \A r \in Arenas : r.count \in Nat
    BY DEF Arenas
  <2> QED
    BY <2>2, <2>3
<1>9. Sound(n, arenas) /\ (Large(n) <=> Large(v))
  BY <1>3, <1>7, <1>8, SliceSound, Zenon
<1>10. n \in Values
  BY <1>7 DEF SliceOf
<1>12. ASSUME NEW j \in DOMAIN values, Large(values[j]), Large(n)
       PROVE  Apart(values[j], n) /\ Apart(n, values[j])
  <2> DEFINE w == values[j]
  <2>1. w \in Values /\ Large(w)
    BY <1>12, Parts
  <2>2. w = v \/ (Apart(v, w) /\ Apart(w, v))
    <3>1. CASE j = i
      <4>1. w = v
        BY <3>1 DEF v
      <4> QED
        BY <4>1, Zenon
    <3>2. CASE j # i
      BY <1>6, <1>9, <1>12, <3>2
    <3> QED
      BY <3>1, <3>2
  <2>3. Large(v) /\ arenas[v.arena].count \in Int
    BY <1>8, <1>9, <1>12
  <2> HIDE DEF w
  <2>4. Apart(n, w) /\ Apart(w, n)
    BY <1>3, <1>7, <2>1, <2>2, <2>3, SliceApart, Zenon
  <2> QED
    BY <2>4 DEF w
<1>13. values' = Append(values, n)
  BY <1>5 DEF n
<1> QED
  BY <1>2, <1>9, <1>10, <1>12, <1>13, OneMore

(* A sound value has its items in the arenas.                               *)
LEMMA ContentsAre ==
  ASSUME NEW v \in Values, Sound(v, arenas)
  PROVE  Contents(v) = v.val
<1>1. v.len \in Nat /\ v.val \in Seq(Item) /\ Len(v.val) = v.len
  BY Fields DEF Sound
<1>2. CASE Large(v)
  <2>1. Contents(v) = [k \in 1 .. v.len |-> arenas[v.arena].data[v.pos + k - 1]]
    BY <1>2 DEF Contents
  <2>2. \A k \in 1 .. v.len : arenas[v.arena].data[v.pos + k - 1] = v.val[k]
    BY <1>2 DEF Sound
  <2>3. v.val = [k \in 1 .. v.len |-> v.val[k]]
    BY <1>1
  <2> QED
    BY <2>1, <2>2, <2>3, Zenon
<1>3. CASE ~Large(v)
  BY <1>3 DEF Contents, Sound
<1> QED
  BY <1>2, <1>3

(* An operand has the items promised: at least one, and as many as the      *)
(* thread has found.                                                        *)
Given(i, item, items) ==
  items = IF i = None THEN <<item>> ELSE values[i].val
(* An operand is a value's items or the one new item.                       *)
LEMMA GivenIs ==
  ASSUME IndInv, NEW i, NEW item \in Item, i = None \/ i \in DOMAIN values,
         NEW items, Given(i, item, items)
  PROVE  items \in Seq(Item) /\ Len(items) = Size(i, values) /\ Len(items) > 0
<1>1. CASE i = None
  BY <1>1 DEF Given, Size
<1>2. CASE i # None
  <2>1. values[i] \in Values /\ Sound(values[i], arenas)
    BY <1>2, Parts
  <2>2. items = values[i].val
    BY <1>2 DEF Given
  <2> QED
    BY <1>2, <2>1, <2>2, Fields DEF Sound, Size
<1> QED
  BY <1>1, <1>2

(* What the arenas give for an operand is what was promised.                *)
LEMMA Operands ==
  ASSUME IndInv, NEW t \in Threads, job[t].at # "idle",
         job[t].left = None \/ job[t].left \in DOMAIN values,
         job[t].right = None \/ job[t].right \in DOMAIN values
  PROVE  /\ Promised(t, "left") = Operand(t, "left")
         /\ Promised(t, "right") = Operand(t, "right")
         /\ Given(job[t].left, job[t].item, Operand(t, "left"))
         /\ Given(job[t].right, job[t].item, Operand(t, "right"))
         /\ Operand(t, "left") \in Seq(Item) /\ Operand(t, "right") \in Seq(Item)
         /\ Len(Operand(t, "left")) = Size(job[t].left, values)
         /\ Len(Operand(t, "right")) = Size(job[t].right, values)
         /\ Len(Operand(t, "left")) > 0 /\ Len(Operand(t, "right")) > 0
<1>1. job[t].item \in Item
  BY Parts DEF JobOK
<1>2. \A i \in DOMAIN values : Contents(values[i]) = values[i].val
  BY Parts, ContentsAre
<1>3. Promised(t, "left") = Operand(t, "left") /\ Given(job[t].left, job[t].item, Operand(t, "left"))
  BY <1>2 DEF Promised, Operand, Given
<1>4. Promised(t, "right") = Operand(t, "right") /\ Given(job[t].right, job[t].item, Operand(t, "right"))
  BY <1>2 DEF Promised, Operand, Given
<1> QED
  BY <1>1, <1>3, <1>4, GivenIs

-----------------------------------------------------------------------------
(* A step of one thread that keeps values and arenas keeps the invariant if *)
(* it keeps the job of the thread; a thread that is idle has none.          *)
OthersWait(t) ==
  /\ job' \in [Threads -> Jobs]
  /\ \A u \in Threads \ {t} : job'[u] = job[u]

(* The other threads' jobs are kept because their operands are (JobKept).   *)
LEMMA StepKeeps ==
  ASSUME IndInv, NEW t \in Threads, Kept(t), OthersWait(t),
         JobOK(t, job'[t], values', arenas')
  PROVE  IndInv'
<1>1. ASSUME NEW u \in Threads PROVE JobOK(u, job'[u], values', arenas')
  <2>1. CASE u = t
    BY <2>1
  <2>2. CASE u # t
    <3>1. job'[u] = job[u] /\ JobOK(u, job[u], values, arenas)
      BY <2>2, Parts DEF OthersWait
    <3>2. \A i \in DOMAIN values : i \in DOMAIN values' /\ Alike(values[i], values'[i])
      BY DEF Kept, ValuesStay
    <3>3. /\ \A b \in DOMAIN arenas : b \in DOMAIN arenas' /\ arenas'[b].owner = arenas[b].owner
          /\ \A b \in DOMAIN arenas : arenas[b].owner = u =>
               arenas'[b].count = arenas[b].count /\ arenas'[b].cap = arenas[b].cap
      BY <2>2 DEF Kept, ArenasStay
    <3>4. JobOK(u, job[u], values', arenas')
      BY <3>1, <3>2, <3>3, JobKept
    <3> QED
      BY <3>1, <3>4
  <2> QED
    BY <2>1, <2>2
<1>2. TypeOK'
  BY DEF Kept, OthersWait, TypeOK
<1>3. AllSound(values', arenas') /\ AllApart(values')
  BY DEF Kept
<1> QED
  BY <1>1, <1>2, <1>3 DEF IndInv, JobsOK

(* The fields of a job, and a job that goes on to another point.            *)
LEMMA JobFields ==
  ASSUME NEW j \in Jobs
  PROVE  /\ j.at \in Points /\ j.left \in Nat /\ j.right \in Nat /\ j.item \in Cells /\ j.seen \in Nat
         /\ \A at \in Points :
              LET k == [j EXCEPT !.at = at]
              IN /\ k \in Jobs /\ k.at = at /\ k.left = j.left /\ k.right = j.right
                 /\ k.item = j.item /\ k.seen = j.seen
BY DEF Jobs

(* An idle thread relies on nothing.                                        *)
LEMMA IdleIs ==
  /\ Idle \in Jobs
  /\ \A t, vs, as : JobOK(t, Idle, vs, as)
BY DEF Idle, Jobs, Points, Cells, JobOK, None

(* A thread ends its job.                                                   *)
LEMMA BecomesIdle ==
  ASSUME IndInv, NEW t \in Threads, Kept(t), job' = [job EXCEPT ![t] = Idle]
  PROVE  IndInv'
<1>1. job'[t] = Idle /\ OthersWait(t)
  BY Parts, IdleIs DEF OthersWait
<1>2. JobOK(t, job'[t], values', arenas')
  BY <1>1, IdleIs
<1> QED
  BY <1>1, <1>2, StepKeeps

(* A step that leaves values and arenas alone keeps them.                   *)
LEMMA NothingMoves ==
  ASSUME IndInv, NEW t \in Threads, values' = values, arenas' = arenas, current' = current
  PROVE  Kept(t)
BY Parts DEF Kept, ValuesStay, ArenasStay, Alike

(* A thread takes up a job, or goes on to another point of it.              *)
LEMMA TakesUp ==
  ASSUME IndInv, NEW t \in Threads, values' = values, arenas' = arenas, current' = current,
         NEW j \in Jobs, JobOK(t, j, values, arenas), job' = [job EXCEPT ![t] = j]
  PROVE  IndInv'
<1>1. job'[t] = j /\ OthersWait(t)
  BY Parts DEF OthersWait
<1>2. Kept(t)
  BY NothingMoves
<1>3. JobOK(t, job'[t], values', arenas')
  BY <1>1
<1> QED
  BY <1>1, <1>2, <1>3, StepKeeps

(* The same operands, at the next point; to claim, the room must have been  *)
(* seen.                                                                    *)
LEMMA GoesOn ==
  ASSUME IndInv, NEW t \in Threads, values' = values, arenas' = arenas, current' = current,
         NEW at \in {"tail", "tail_claim", "head", "head_claim", "copy"}, Go(t, at),
         job[t].at \in {"tail", "tail_claim", "head", "head_claim", "copy"},
         at \in {"tail", "tail_claim"} => job[t].left # None,
         at \in {"head", "head_claim"} => job[t].right # None,
         at = "tail_claim" =>
           /\ Large(values[job[t].left])
           /\ values[job[t].left].off + values[job[t].left].len + Size(job[t].right, values)
                <= values[job[t].left].cap,
         at = "head_claim" =>
           /\ Large(values[job[t].right])
           /\ values[job[t].right].off >= Size(job[t].left, values)
  PROVE  IndInv'
<1> DEFINE j == [job[t] EXCEPT !.at = at]
<1>1. job[t] \in Jobs /\ JobOK(t, job[t], values, arenas)
  BY Parts
<1>2. /\ j \in Jobs /\ j.at = at /\ j.left = job[t].left /\ j.right = job[t].right
      /\ j.item = job[t].item
  <2>1. at \in Points
    BY DEF Points
  <2> HIDE DEF j
  <2> SUFFICES /\ [job[t] EXCEPT !.at = at] \in Jobs
               /\ [job[t] EXCEPT !.at = at].at = at
               /\ [job[t] EXCEPT !.at = at].left = job[t].left
               /\ [job[t] EXCEPT !.at = at].right = job[t].right
               /\ [job[t] EXCEPT !.at = at].item = job[t].item
    BY DEF j
  <2> QED
    BY <1>1, <2>1 DEF Jobs
<1>3. job' = [job EXCEPT ![t] = j]
  BY DEF Go
<1> HIDE DEF j
<1>4. JobOK(t, j, values, arenas)
  <2>1. j.item \in Item
    BY <1>1, <1>2 DEF JobOK
  <2>2. /\ j.left = None \/ IsList(j.left, values)
        /\ j.right = None \/ IsList(j.right, values)
    BY <1>1, <1>2 DEF JobOK
  <2> QED
    BY <1>2, <2>1, <2>2 DEF JobOK
<1> QED
  BY <1>2, <1>3, <1>4, TakesUp

-----------------------------------------------------------------------------
(* The steps that only look: reduct_list_append, reduct_list_prepend and    *)
(* reduct_list_concat before they claim or copy anything.                   *)
LEMMA Starts ==
  ASSUME IndInv, NEW t \in Threads, values' = values, arenas' = arenas, current' = current,
         NEW at \in {"tail", "head", "copy"},
         NEW left \in Nat, NEW right \in Nat, Start(t, at, left, right),
         left = None \/ IsList(left, values),
         right = None \/ IsList(right, values),
         at = "tail" => left # None, at = "head" => right # None
  PROVE  IndInv'
<1> DEFINE j == [at |-> at, left |-> left, right |-> right,
                 item |-> <<Len(values), t>>, seen |-> 0]
<1>1. <<Len(values), t>> \in Item
  <2>1. Len(values) \in Nat
    BY Parts
  <2> QED
    BY <2>1 DEF Item
<1>2. /\ j.at = at /\ j.left = left /\ j.right = right /\ j.item = <<Len(values), t>>
      /\ j \in Jobs
  BY <1>1 DEF Jobs, Points, Cells
<1>3. job' = [job EXCEPT ![t] = j]
  BY DEF Start
<1> HIDE DEF j
<1>4. JobOK(t, j, values, arenas)
  BY <1>1, <1>2 DEF JobOK
<1> QED
  BY <1>2, <1>3, <1>4, TakesUp

(* StartAppend: the operand is a list.                                      *)
LEMMA StartAppendKeeps ==
  ASSUME IndInv, NEW t \in Threads, StartAppend(t)
  PROVE  IndInv'
<1>1. PICK i \in Lists :
        Start(t, IF values[i].len + 1 <= SmallMax THEN "copy" ELSE "tail", i, None)
  BY DEF StartAppend
<1>2. IsList(i, values) /\ i \in Nat /\ i # None /\ None \in Nat
  BY <1>1, Parts DEF Lists, Indices, IsList, None
<1>3. values' = values /\ arenas' = arenas /\ current' = current
  BY DEF StartAppend
<1> DEFINE at == IF values[i].len + 1 <= SmallMax THEN "copy" ELSE "tail"
<1>4. at \in {"tail", "head", "copy"} /\ at # "head" /\ Start(t, at, i, None)
  BY <1>1
<1> HIDE DEF at
<1> QED
  BY <1>2, <1>3, <1>4, Starts

(* StartPrepend: the operand is a list.                                     *)
LEMMA StartPrependKeeps ==
  ASSUME IndInv, NEW t \in Threads, StartPrepend(t)
  PROVE  IndInv'
<1>1. PICK i \in Lists : Start(t, "head", None, i)
  BY DEF StartPrepend
<1>2. IsList(i, values) /\ i \in Nat /\ i # None /\ None \in Nat
  BY <1>1, Parts DEF Lists, Indices, IsList, None
<1>3. values' = values /\ arenas' = arenas /\ current' = current
  BY DEF StartPrepend
<1> QED
  BY <1>1, <1>2, <1>3, Starts

(* StartConcat: both operands are lists.                                    *)
LEMMA StartConcatKeeps ==
  ASSUME IndInv, NEW t \in Threads, StartConcat(t)
  PROVE  IndInv'
<1>1. PICK l \in Lists, r \in Lists :
        Start(t, IF values[l].len + values[r].len <= SmallMax THEN "copy" ELSE "tail", l, r)
  BY DEF StartConcat
<1>2. /\ IsList(l, values) /\ l \in Nat /\ l # None
      /\ IsList(r, values) /\ r \in Nat
  BY <1>1, Parts DEF Lists, Indices, IsList, None
<1>3. values' = values /\ arenas' = arenas /\ current' = current
  BY DEF StartConcat
<1> DEFINE at == IF values[l].len + values[r].len <= SmallMax THEN "copy" ELSE "tail"
<1>4. at \in {"tail", "head", "copy"} /\ at # "head" /\ Start(t, at, l, r)
  BY <1>1
<1> HIDE DEF at
<1> QED
  BY <1>2, <1>3, <1>4, Starts

(* What a thread in the middle of a list operation knows of its operands.   *)
LEMMA Working ==
  ASSUME IndInv, NEW t \in Threads,
         job[t].at \in {"tail", "tail_claim", "head", "head_claim", "copy"}
  PROVE  /\ job[t].left = None \/ IsList(job[t].left, values)
         /\ job[t].right = None \/ IsList(job[t].right, values)
         /\ job[t].left = None \/ job[t].left \in DOMAIN values
         /\ job[t].right = None \/ job[t].right \in DOMAIN values
         /\ job[t].at # "idle"
         /\ job[t].at \in {"tail", "tail_claim"} => job[t].left # None
         /\ job[t].at \in {"head", "head_claim"} => job[t].right # None
BY Parts DEF JobOK, IsList

(* TailLook: the room is there if the thread goes on to claim the tail.     *)
LEMMA TailLookKeeps ==
  ASSUME IndInv, NEW t \in Threads, TailLook(t)
  PROVE  IndInv'
<1>1. job[t].at = "tail" /\ values' = values /\ arenas' = arenas /\ current' = current
  BY DEF TailLook
<1>2. Len(Operand(t, "right")) = Size(job[t].right, values) /\ job[t].left # None
  BY <1>1, Working, Operands
<1> DEFINE a == values[job[t].left]
           free == /\ Large(a) /\ "tail" \notin a.used
                   /\ a.off + a.len + Len(Operand(t, "right")) <= a.cap
           at == CASE free -> "tail_claim"
                   [] ~free /\ job[t].right # None -> "head"
                   [] OTHER -> "copy"
<1>3. /\ at \in {"tail_claim", "head", "copy"}
      /\ at = "tail_claim" => free
      /\ at = "head" => job[t].right # None
  <2> HIDE DEF free
  <2> QED
    OBVIOUS
<1>4. Go(t, at)
  BY DEF TailLook
<1> HIDE DEF at
<1>5. at = "tail_claim" =>
        Large(a) /\ a.off + a.len + Size(job[t].right, values) <= a.cap
  BY <1>2, <1>3
<1> QED
  BY <1>1, <1>2, <1>3, <1>4, <1>5, GoesOn

(* HeadLook: the room is there if the thread goes on to claim the head.     *)
LEMMA HeadLookKeeps ==
  ASSUME IndInv, NEW t \in Threads, HeadLook(t)
  PROVE  IndInv'
<1>1. job[t].at = "head" /\ values' = values /\ arenas' = arenas /\ current' = current
  BY DEF HeadLook
<1>2. Len(Operand(t, "left")) = Size(job[t].left, values) /\ job[t].right # None
  BY <1>1, Working, Operands
<1> DEFINE b == values[job[t].right]
           free == Large(b) /\ "head" \notin b.used /\ b.off >= Len(Operand(t, "left"))
           at == IF free THEN "head_claim" ELSE "copy"
<1>3. at \in {"head_claim", "copy"} /\ (at = "head_claim" => free)
  <2> HIDE DEF free
  <2> QED
    OBVIOUS
<1>4. Go(t, at)
  BY DEF HeadLook
<1> HIDE DEF at
<1>5. at = "head_claim" => Large(b) /\ b.off >= Size(job[t].left, values)
  BY <1>2, <1>3
<1> QED
  BY <1>1, <1>2, <1>3, <1>4, <1>5, GoesOn

-----------------------------------------------------------------------------
(* A claim that is not contested has no rival.                              *)
LEMMA NoRival ==
  ASSUME NEW l, NEW side \in Ends, ~Contest(l, side)
  PROVE  \A i \in DOMAIN values : i # l => ~Rival(values[l], values[i], side)
BY DEF Contest, Rival, Indices, From

(* The claims: whoever finds the flag unset grows the list in place, the    *)
(* others go on.                                                            *)
LEMMA TailClaimKeeps ==
  ASSUME IndInv, NEW t \in Threads, TailClaim(t), ~contested'
  PROVE  IndInv'
<1> DEFINE l == job[t].left
           a == values[l]
           items == Operand(t, "right")
           pos == a.pos + a.len
           new == [[a EXCEPT !.len = a.len + Len(items)] EXCEPT !.val = Joined(t)]
<1>1. job[t].at = "tail_claim"
  BY DEF TailClaim
<1>2. /\ l # None /\ IsList(l, values) /\ l \in DOMAIN values /\ job[t].at # "idle"
      /\ job[t].right = None \/ IsList(job[t].right, values)
      /\ job[t].right = None \/ job[t].right \in DOMAIN values
  BY <1>1, Working DEF IsList
<1>3. CASE "tail" \in a.used
  <2> DEFINE at == IF job[t].right # None THEN "head" ELSE "copy"
  <2>1. values' = values /\ arenas' = arenas /\ current' = current /\ Go(t, at)
    BY <1>3 DEF TailClaim
  <2>2. at \in {"head", "copy"} /\ (at = "head" => job[t].right # None)
    OBVIOUS
  <2> HIDE DEF at
  <2> QED
    BY <1>1, <2>1, <2>2, GoesOn
<1>4. CASE "tail" \notin a.used
  <2>1. /\ a \in Values /\ Sound(a, arenas) /\ a.kind = "list"
        /\ Large(a) /\ a.off + a.len + Size(job[t].right, values) <= a.cap
    BY <1>1, <1>2, Parts DEF JobOK, IsList
  <2>2. /\ items \in Seq(Item) /\ Len(items) = Size(job[t].right, values)
        /\ Joined(t) = a.val \o items
    <3>1. /\ Promised(t, "left") = Operand(t, "left") /\ Promised(t, "right") = Operand(t, "right")
          /\ Given(l, job[t].item, Operand(t, "left"))
          /\ items \in Seq(Item) /\ Len(items) = Size(job[t].right, values)
      BY <1>1, <1>2, Operands
    <3>2. Operand(t, "left") = a.val
      BY <1>2, <3>1 DEF Given
    <3> QED
      BY <3>1, <3>2 DEF Joined
  <2>3. /\ values' = Append([values EXCEPT ![l].used = @ \cup {"tail"}], new)
        /\ arenas' = [arenas EXCEPT ![a.arena].data = Put(@, pos, items)]
        /\ job' = [job EXCEPT ![t] = Idle]
        /\ current' = current
        /\ ~Contest(l, "tail")
    BY <1>4 DEF TailClaim
  <2> HIDE DEF items, a
  <2>4. /\ Joined(t) \in Seq(Item) /\ a.len + Len(items) \in Nat /\ pos \in Nat /\ a.pos \in Nat
        /\ a.len \in Nat /\ a.off \in Nat /\ a.val \in Seq(Item)
    <3>1. a.pos \in Nat /\ a.len \in Nat /\ a.off \in Nat /\ a.val \in Seq(Item)
      BY <2>1, Fields
    <3>2. Joined(t) \in Seq(Item) /\ Len(items) \in Nat
      BY <2>2, <3>1
    <3> QED
      BY <3>1, <3>2
  <2>5. /\ new \in Values /\ new.kind = a.kind /\ new.len = a.len + Len(items)
        /\ new.used = a.used /\ new.val = Joined(t) /\ new.cap = a.cap /\ new.off = a.off
        /\ new.arena = a.arena /\ new.pos = a.pos
    <3> DEFINE len == a.len + Len(items)
               val == Joined(t)
    <3>1. a \in Values /\ len \in Nat /\ val \in Seq(Item)
      BY <2>1, <2>4, Zenon
    <3> HIDE DEF len, val
    <3> DEFINE n == [[a EXCEPT !.len = len] EXCEPT !.val = val]
    <3>2. /\ n \in Values /\ n.kind = a.kind /\ n.len = len
          /\ n.used = a.used /\ n.val = val /\ n.cap = a.cap /\ n.off = a.off
          /\ n.arena = a.arena /\ n.pos = a.pos
      BY <3>1 DEF Values
    <3>3. new = n
      BY DEF len, val
    <3> HIDE DEF new, n
    <3> QED
      BY <3>2, <3>3, Zenon DEF len, val
  <2> HIDE DEF new
  <2>6. Grown(a, new, "tail", pos, items)
    <3>1. GrownTail(a, new, pos, items)
      BY <2>1, <2>2, <2>5 DEF GrownTail
    <3>2. new.off + new.len <= new.cap
      <4> DEFINE n == Len(items)
      <4>1. n = Size(job[t].right, values)
        BY <2>2
      <4>2. a.off + a.len + n <= a.cap
        BY <2>1, <4>1, Zenon
      <4>3. n \in Nat /\ a.cap \in Nat
        BY <2>1, <2>2, Fields
      <4> HIDE DEF n
      <4>4. a.off + (a.len + n) <= a.cap
        BY <2>4, <4>2, <4>3
      <4> QED
        BY <2>5, <4>4, Zenon DEF n
    <3>3. new.pos - new.off = a.pos - a.off
      BY <2>5, Zenon
    <3> HIDE DEF pos
    <3> QED
      BY <1>4, <2>1, <2>5, <3>1, <3>2, <3>3, Zenon DEF Grown
  <2>7. GrowsInPlace(l, "tail", new, pos, items)
    <3>1. values' = Append(Marked(l, "tail"), new)
      BY <2>3, Zenon DEF Marked
    <3>2. Replaced(arenas', a.arena, Written(arenas[a.arena], pos, items))
      BY <2>3 DEF Replaced, Written
    <3> QED
      BY <2>3, <3>1, <3>2, Zenon DEF GrowsInPlace, a
  <2>8. Kept(t)
    <3>1. Large(values[l]) /\ Grown(values[l], new, "tail", pos, items)
      BY <2>1, <2>6, Zenon DEF a
    <3>2. pos \in Nat
      BY <2>4
    <3>3. /\ "tail" \in Ends
          /\ \A i \in DOMAIN values : i # l => ~Rival(values[l], values[i], "tail")
      BY <2>3, NoRival DEF Ends
    <3> HIDE DEF pos, l
    <3> QED
      BY <1>2, <2>2, <2>7, <3>1, <3>2, <3>3, ListGrows
  <2> QED
    BY <2>3, <2>8, BecomesIdle
<1> QED
  BY <1>3, <1>4

(* HeadClaim: the new list begins in the room before its operand.           *)
LEMMA HeadClaimKeeps ==
  ASSUME IndInv, NEW t \in Threads, HeadClaim(t), ~contested'
  PROVE  IndInv'
<1> DEFINE l == job[t].right
           b == values[l]
           items == Operand(t, "left")
           pos == b.pos - Len(items)
           new == [[[[b EXCEPT !.len = b.len + Len(items)] EXCEPT !.off = b.off - Len(items)]
                    EXCEPT !.pos = pos] EXCEPT !.val = Joined(t)]
<1>1. job[t].at = "head_claim"
  BY DEF HeadClaim
<1>2. /\ l # None /\ IsList(l, values) /\ l \in DOMAIN values /\ job[t].at # "idle"
      /\ job[t].left = None \/ IsList(job[t].left, values)
      /\ job[t].left = None \/ job[t].left \in DOMAIN values
  BY <1>1, Working DEF IsList
<1>3. CASE "head" \in b.used
  <2>1. values' = values /\ arenas' = arenas /\ current' = current /\ Go(t, "copy")
    BY <1>3 DEF HeadClaim
  <2> QED
    BY <1>1, <2>1, GoesOn
<1>4. CASE "head" \notin b.used
  <2>1. /\ b \in Values /\ Sound(b, arenas) /\ b.kind = "list"
        /\ Large(b) /\ b.off >= Size(job[t].left, values)
    BY <1>1, <1>2, Parts DEF JobOK, IsList
  <2>2. /\ items \in Seq(Item) /\ Len(items) = Size(job[t].left, values)
        /\ Joined(t) = items \o b.val
    <3>1. /\ Promised(t, "left") = Operand(t, "left") /\ Promised(t, "right") = Operand(t, "right")
          /\ Given(l, job[t].item, Operand(t, "right"))
          /\ items \in Seq(Item) /\ Len(items) = Size(job[t].left, values)
      BY <1>1, <1>2, Operands
    <3>2. Operand(t, "right") = b.val
      BY <1>2, <3>1 DEF Given
    <3> QED
      BY <3>1, <3>2 DEF Joined
  <2>3. /\ values' = Append([values EXCEPT ![l].used = @ \cup {"head"}], new)
        /\ arenas' = [arenas EXCEPT ![b.arena].data = Put(@, pos, items)]
        /\ job' = [job EXCEPT ![t] = Idle]
        /\ current' = current
        /\ ~Contest(l, "head")
    BY <1>4 DEF HeadClaim
  <2> HIDE DEF items, b
  <2>4. /\ b.pos \in Nat /\ b.len \in Nat /\ b.off \in Nat /\ b.cap \in Nat /\ b.val \in Seq(Item)
        /\ b.off <= b.pos /\ b.off + b.len <= b.cap
    BY <2>1, Fields DEF Sound
  <2>5. /\ Joined(t) \in Seq(Item) /\ Len(items) \in Nat /\ Len(items) <= b.off
    <3>1. Joined(t) \in Seq(Item) /\ Len(items) \in Nat
      BY <2>2, <2>4
    <3>2. Len(items) <= b.off
      BY <2>1, <2>2, <2>4
    <3> QED
      BY <3>1, <3>2
  <2>6. b.len + Len(items) \in Nat /\ b.off - Len(items) \in Nat /\ pos \in Nat
    BY <2>4, <2>5
  <2>7. /\ new \in Values /\ new.kind = b.kind /\ new.len = b.len + Len(items)
        /\ new.used = b.used /\ new.val = Joined(t) /\ new.cap = b.cap
        /\ new.off = b.off - Len(items) /\ new.arena = b.arena /\ new.pos = pos
    <3> DEFINE len == b.len + Len(items)
               off == b.off - Len(items)
               val == Joined(t)
    <3>1. b \in Values /\ len \in Nat /\ off \in Nat /\ pos \in Nat /\ val \in Seq(Item)
      BY <2>1, <2>5, <2>6, Zenon
    <3> HIDE DEF len, off, val, pos
    <3> DEFINE n == [[[[b EXCEPT !.len = len] EXCEPT !.off = off] EXCEPT !.pos = pos]
                     EXCEPT !.val = val]
    <3>2. /\ n \in Values /\ n.kind = b.kind /\ n.len = len
          /\ n.used = b.used /\ n.val = val /\ n.cap = b.cap /\ n.off = off
          /\ n.arena = b.arena /\ n.pos = pos
      BY <3>1 DEF Values
    <3>3. new = n
      BY DEF len, off, val
    <3> HIDE DEF new, n
    <3> QED
      BY <3>2, <3>3, Zenon DEF len, off, val
  <2> HIDE DEF new
  <2>8. Grown(b, new, "head", pos, items)
    <3>1. GrownHead(b, new, pos, items)
      <4>1. pos + Len(items) = b.pos
        BY <2>4, <2>5
      <4> HIDE DEF pos
      <4> QED
        BY <2>1, <2>2, <2>7, <4>1, Zenon DEF GrownHead
    <3>2. new.off + new.len <= new.cap
      <4> DEFINE n == Len(items)
      <4>1. n \in Nat /\ n <= b.off
        BY <2>5
      <4> HIDE DEF n
      <4>2. (b.off - n) + (b.len + n) <= b.cap
        BY <2>4, <4>1
      <4> QED
        BY <2>7, <4>2, Zenon DEF n
    <3>3. new.pos - new.off = b.pos - b.off
      <4> DEFINE n == Len(items)
      <4>1. n \in Nat
        BY <2>5
      <4> HIDE DEF n
      <4>2. (b.pos - n) - (b.off - n) = b.pos - b.off
        BY <2>4, <4>1
      <4> QED
        BY <2>7, <4>2, Zenon DEF n
    <3> HIDE DEF pos
    <3> QED
      BY <1>4, <2>1, <2>7, <3>1, <3>2, <3>3, Zenon DEF Grown
  <2>9. GrowsInPlace(l, "head", new, pos, items)
    <3>1. values' = Append(Marked(l, "head"), new)
      BY <2>3, Zenon DEF Marked
    <3>2. Replaced(arenas', b.arena, Written(arenas[b.arena], pos, items))
      BY <2>3 DEF Replaced, Written
    <3> QED
      BY <2>3, <3>1, <3>2, Zenon DEF GrowsInPlace, b
  <2>10. Kept(t)
    <3>1. Large(values[l]) /\ Grown(values[l], new, "head", pos, items)
      BY <2>1, <2>8, Zenon DEF b
    <3>2. pos \in Nat
      BY <2>6
    <3>3. /\ "head" \in Ends
          /\ \A i \in DOMAIN values : i # l => ~Rival(values[l], values[i], "head")
      BY <2>3, NoRival DEF Ends
    <3> HIDE DEF pos, l
    <3> QED
      BY <1>2, <2>2, <2>9, <3>1, <3>2, <3>3, ListGrows
  <2> QED
    BY <2>3, <2>10, BecomesIdle
<1> QED
  BY <1>3, <1>4

(* The copies that are made where nothing can be claimed.                   *)
LEMMA CopyKeeps ==
  ASSUME IndInv, NEW t \in Threads, Copy(t)
  PROVE  IndInv'
<1> DEFINE items == Operand(t, "left") \o Operand(t, "right")
<1>1. /\ job[t].at = "copy" /\ Fresh(t, "list", items, Joined(t))
      /\ job' = [job EXCEPT ![t] = Idle]
  BY DEF Copy
<1>2. /\ Promised(t, "left") = Operand(t, "left") /\ Promised(t, "right") = Operand(t, "right")
      /\ Operand(t, "left") \in Seq(Item) /\ Operand(t, "right") \in Seq(Item)
      /\ Len(Operand(t, "left")) > 0 /\ Len(Operand(t, "right")) > 0
  BY <1>1, Working, Operands
<1>3. Joined(t) = items
  BY <1>2, Zenon DEF Joined
<1>4. items \in Seq(Item) /\ Len(items) > 0
  <2>1. \A p, q \in Seq(Item) : Len(p) > 0 => p \o q \in Seq(Item) /\ Len(p \o q) > 0
    OBVIOUS
  <2> QED
    BY <1>2, <2>1, Zenon
<1> HIDE DEF items
<1>6. Fresh(t, "list", items, items)
  BY <1>1, <1>3, Zenon
<1>7. Kept(t)
  BY <1>4, <1>6, FreshKeeps
<1> QED
  BY <1>1, <1>7, BecomesIdle

(* reduct_concat of a string and a character: it is copied, or the thread   *)
(* has seen that its chunk is the last one of an arena of its own.          *)
LEMMA SuperLookKeeps ==
  ASSUME IndInv, NEW t \in Threads, SuperLook(t), ~contested'
  PROVE  IndInv'
<1>1. PICK i \in Strings :
        LET v == values[i]
            item == <<Len(values), t>>
        IN IF Large(v) /\ LastOfArena(v)
           THEN /\ job' = [job EXCEPT ![t] = [at |-> "grow", left |-> i, right |-> None,
                                              item |-> item, seen |-> arenas[v.arena].count]]
                /\ contested' = (contested \/ arenas[v.arena].owner # t)
                /\ UNCHANGED <<arenas, current, values>>
           ELSE /\ Fresh(t, "string", Append(Contents(v), item), Append(v.val, item))
                /\ UNCHANGED job
  BY DEF SuperLook
<1> DEFINE v == values[i]
           item == <<Len(values), t>>
<1>2. i \in DOMAIN values /\ v \in Values /\ Sound(v, arenas) /\ v.kind = "string" /\ i \in Nat
  BY Parts DEF Strings, Indices
<1>3. item \in Item /\ item \in Cells
  <2>1. Len(values) \in Nat
    BY Parts
  <2> QED
    BY <2>1 DEF Item, Cells
<1>4. CASE Large(v) /\ LastOfArena(v)
  <2> DEFINE j == [at |-> "grow", left |-> i, right |-> None, item |-> item,
                   seen |-> arenas[v.arena].count]
  <2>1. job' = [job EXCEPT ![t] = j] /\ values' = values /\ arenas' = arenas /\ current' = current
    BY <1>1, <1>4
  <2>2. v.arena \in DOMAIN arenas /\ arenas[v.arena].owner = t
        /\ v.pos + v.len = arenas[v.arena].count /\ arenas[v.arena].count + 1 <= arenas[v.arena].cap
    BY <1>1, <1>2, <1>4 DEF Sound, LastOfArena
  <2>3. arenas[v.arena].count \in Nat
    BY <2>2, Parts, ArenaFields
  <2>4. j \in Jobs
    BY <1>2, <1>3, <2>3 DEF Jobs, Points, None
  <2>5. j.at = "grow" /\ j.left = i /\ j.right = None /\ j.item = item
        /\ j.seen = arenas[v.arena].count
    OBVIOUS
  <2> HIDE DEF j, item
  <2>6. JobOK(t, j, values, arenas)
    <3> HIDE DEF v
    <3>1. j.at # "idle" => j.item \in Item
      BY <1>3, <2>5
    <3> QED
      BY <1>2, <1>4, <2>2, <2>5, <3>1 DEF JobOK, v
  <2> QED
    BY <2>1, <2>4, <2>6, TakesUp
<1>5. CASE ~ (Large(v) /\ LastOfArena(v))
  <2> DEFINE items == Append(v.val, item)
  <2>1. Fresh(t, "string", Append(Contents(v), item), items) /\ job' = job
    BY <1>1, <1>5
  <2>2. Contents(v) = v.val
    BY <1>2, ContentsAre
  <2>3. items \in Seq(Item) /\ Len(items) > 0
    <3> HIDE DEF v, item
    <3>1. v.val \in Seq(Item)
      BY <1>2, Fields
    <3>2. \A p \in Seq(Item) : Append(p, item) \in Seq(Item) /\ Len(Append(p, item)) > 0
      BY <1>3
    <3> QED
      BY <3>1, <3>2
  <2>4. Fresh(t, "string", items, items)
    BY <2>1, <2>2, Zenon
  <2> HIDE DEF items, v
  <2>5. Kept(t)
    BY <2>3, <2>4, FreshKeeps
  <2>6. job[t] = Idle
    BY DEF SuperLook, MayStart
  <2>7. OthersWait(t) /\ JobOK(t, job'[t], values', arenas')
    <3>1. OthersWait(t)
      BY <2>1, Parts DEF OthersWait
    <3>2. job'[t] = Idle
      BY <2>1, <2>6
    <3> QED
      BY <3>1, <3>2, IdleIs
  <2> QED
    BY <2>5, <2>7, StepKeeps
<1> QED
  BY <1>4, <1>5

(* A string grown in place at the end of its arena.                         *)
Longer(v, new, item) ==
  /\ new \in Values /\ new.kind = v.kind /\ new.arena = v.arena /\ new.off = v.off
  /\ new.pos = v.pos /\ new.len = v.len + 1 /\ new.val = Append(v.val, item)

(* Where the longer string lies.                                            *)
LEMMA LongerLies ==
  ASSUME NEW v \in Values, v.kind = "string", NEW new, NEW item \in Item, Longer(v, new, item)
  PROVE  From(new) = From(v) /\ Behind(new) = v.pos + v.len + 1 /\ new.kind = "string"
         /\ v.pos \in Nat /\ v.len \in Nat /\ new.arena = v.arena
BY Fields DEF From, Behind, Longer

(* It has the items of the shorter one and one more.                        *)
LEMMA LongerHolds ==
  ASSUME NEW v \in Values, NEW new, NEW item \in Item, Longer(v, new, item),
         Len(v.val) = v.len, NEW data, NEW more,
         Holds(data, v.pos, v.val), Same(data, more, v.pos, v.len),
         Holds(more, v.pos + v.len, <<item>>)
  PROVE  Len(new.val) = new.len /\ Holds(more, new.pos, new.val) /\ new.len > 0
<1>1. /\ v.len \in Nat /\ v.pos \in Nat /\ v.val \in Seq(Item)
      /\ new.pos = v.pos /\ new.len = v.len + 1 /\ new.val = Append(v.val, item)
  BY Fields DEF Longer
<1>2. Len(new.val) = new.len /\ new.len > 0
  BY <1>1
<1>3. ASSUME NEW m \in 1 .. new.len PROVE more[new.pos + m - 1] = new.val[m]
  <2>1. CASE m <= v.len
    <3>1. m \in 1 .. v.len /\ v.pos + m - 1 \in v.pos .. v.pos + v.len - 1 /\ new.val[m] = v.val[m]
      BY <1>1, <2>1
    <3> QED
      BY <1>1, <3>1 DEF Holds, Same
  <2>2. CASE m > v.len
    <3>1. m = v.len + 1 /\ new.val[m] = item /\ new.pos + m - 1 = v.pos + v.len
      BY <1>1, <2>2
    <3>2. more[v.pos + v.len + 1 - 1] = item
      BY DEF Holds
    <3>3. v.pos + v.len + 1 - 1 = v.pos + v.len
      BY <1>1
    <3> QED
      BY <3>1, <3>2, <3>3
  <2> QED
    BY <1>1, <2>1, <2>2
<1> QED
  BY <1>2, <1>3 DEF Holds

(* SuperGrow: nothing lies behind the string, and nobody else allocates     *)
(* from the arena, so the counter still is the one that was seen.           *)
LEMMA SuperGrowKeeps ==
  ASSUME IndInv, NEW t \in Threads, SuperGrow(t)
  PROVE  IndInv'
<1> DEFINE l == job[t].left
           v == values[l]
           k == v.arena
           item == job[t].item
           items == <<item>>
           pos == v.pos + v.len
           r == Used(arenas[k], arenas[k].count + 1, pos, items)
           new == [[v EXCEPT !.len = v.len + 1] EXCEPT !.val = Joined(t)]
<1>1. job[t].at = "grow"
  BY DEF SuperGrow
<1>2. /\ JobOK(t, job[t], values, arenas)
      /\ l \in DOMAIN values /\ v.kind = "string" /\ Large(v) /\ job[t].right = None
      /\ k \in DOMAIN arenas /\ arenas[k].owner = t
      /\ job[t].seen = arenas[k].count /\ pos = arenas[k].count
      /\ arenas[k].count + 1 <= arenas[k].cap
      /\ item \in Item
  BY <1>1, Parts DEF JobOK
<1>3. l # None /\ v \in Values /\ Sound(v, arenas)
  BY <1>2, Parts DEF None
<1>4. Joined(t) = Append(v.val, item)
  <2>1. /\ Given(l, item, Operand(t, "left")) /\ Given(None, item, Operand(t, "right"))
        /\ Promised(t, "left") = Operand(t, "left") /\ Promised(t, "right") = Operand(t, "right")
    BY <1>1, <1>2, Operands
  <2>2. Operand(t, "left") = v.val /\ Operand(t, "right") = <<item>>
    BY <1>3, <2>1 DEF Given
  <2>3. Joined(t) = v.val \o <<item>>
    BY <2>1, <2>2 DEF Joined
  <2> HIDE DEF v, item
  <2>4. v.val \in Seq(Item) /\ item \in Item
    BY <1>2, <1>3, Fields
  <2>5. \A p \in Seq(Item), x \in Item : p \o <<x>> = Append(p, x)
    OBVIOUS
  <2> QED
    BY <2>3, <2>4, <2>5, Zenon
<1>5. /\ Replaced(arenas', k, r)
      /\ values' = Append(values, new)
      /\ job' = [job EXCEPT ![t] = Idle]
      /\ current' = current
  <2>1. PICK count \in {job[t].seen, arenas[k].count} :
          arenas' = [arenas EXCEPT ![k].count = count + 1,
                                   ![k].data = Put(@, v.pos + v.len, <<job[t].item>>)]
    BY DEF SuperGrow
  <2>2. count = arenas[k].count
    BY <1>2
  <2>3. arenas[k] \in Arenas /\ arenas \in Seq(Arenas)
    BY <1>2, Parts
  <2>4. Replaced(arenas', k, r)
    <3> HIDE DEF k, pos, v
    <3>1. arenas' = [arenas EXCEPT ![k].count = arenas[k].count + 1,
                                   ![k].data = Put(@, pos, items)]
      BY <2>1, <2>2, Zenon DEF pos
    <3> HIDE DEF items
    <3> QED
      BY <2>3, <3>1 DEF Replaced, Used, Arenas
  <2>5. /\ values' = Append(values, new) /\ job' = [job EXCEPT ![t] = Idle] /\ current' = current
    BY DEF SuperGrow
  <2> QED
    BY <2>4, <2>5
<1> HIDE DEF r, v, k, item
<1>6. /\ arenas \in Seq(Arenas) /\ \A b \in DOMAIN arenas : Filled(arenas[b])
      /\ values \in Seq(Values) /\ AllSound(values, arenas) /\ AllApart(values)
      /\ arenas[k] \in Arenas /\ Filled(arenas[k])
  BY <1>2, Parts
<1>7. /\ arenas[k].count \in Nat /\ arenas[k].cap \in Nat
      /\ v.pos \in Nat /\ v.len \in Nat /\ v.val \in Seq(Item)
  BY <1>3, <1>6, Fields, ArenaFields
<1>8. Longer(v, new, item)
  <2> DEFINE val == Joined(t)
             len == v.len + 1
  <2>1. val \in Seq(Item) /\ len \in Nat /\ val = Append(v.val, item) /\ v \in Values
    <3>1. \A p \in Seq(Item) : Append(p, item) \in Seq(Item)
      BY <1>2
    <3>2. len \in Nat
      BY <1>7
    <3> QED
      BY <1>3, <1>4, <1>7, <3>1, <3>2, Zenon
  <2> HIDE DEF val, len
  <2> DEFINE n == [[v EXCEPT !.len = len] EXCEPT !.val = val]
  <2>2. /\ n \in Values /\ n.kind = v.kind /\ n.arena = v.arena /\ n.off = v.off
        /\ n.pos = v.pos /\ n.len = len /\ n.val = val
    BY <2>1 DEF Values
  <2>3. new = n
    BY DEF len, val
  <2> HIDE DEF new, n
  <2> QED
    BY <2>1, <2>2, <2>3, Zenon DEF Longer, len
<1> HIDE DEF new
<1>9. /\ From(new) = From(v) /\ Behind(new) = v.pos + v.len + 1 /\ new.kind = "string"
      /\ new.arena = k
  BY <1>2, <1>3, <1>8, LongerLies DEF k
<1>10. pos \in Nat /\ items \in Seq(Item) /\ Len(items) = 1 /\ pos + 1 <= arenas[k].cap
  BY <1>2, <1>7
<1>11. /\ r \in Arenas /\ Filled(r) /\ r.cap = arenas[k].cap /\ r.owner = t
       /\ r.count = arenas[k].count + 1 /\ r.data = Put(arenas[k].data, pos, items)
  <2> DEFINE c == arenas[k].count + 1
  <2>1. c \in Nat /\ c <= arenas[k].cap /\ pos + Len(items) <= arenas[k].cap
    BY <1>2, <1>7, <1>10
  <2> HIDE DEF c, pos, items
  <2>2. r = Used(arenas[k], c, pos, items)
    BY DEF r, c
  <2>3. LET q == Used(arenas[k], c, pos, items)
        IN /\ q \in Arenas /\ Filled(q) /\ q.cap = arenas[k].cap /\ q.owner = arenas[k].owner
           /\ q.count = c /\ q.data = Put(arenas[k].data, pos, items)
    <3>1. /\ arenas[k] \in Arenas /\ Filled(arenas[k]) /\ pos \in Nat /\ items \in Seq(Item)
          /\ c \in Nat /\ c <= arenas[k].cap /\ pos + Len(items) <= arenas[k].cap
      BY <1>6, <1>10, <2>1
    <3> QED
      BY <3>1, Stored
  <2> QED
    BY <1>2, <2>2, <2>3, Zenon DEF c
<1>12. /\ arenas' \in Seq(Arenas) /\ \A b \in DOMAIN arenas' : Filled(arenas'[b])
       /\ DOMAIN arenas' = DOMAIN arenas
       /\ arenas'[k] = r /\ \A b \in DOMAIN arenas : b # k => arenas'[b] = arenas[b]
       /\ OnlyWrites(arenas, arenas', k, pos, Len(items))
       /\ Holds(arenas'[k].data, pos, items)
  <2>1. arenas[k].count <= r.count
    BY <1>7, <1>11
  <2>2. pos + Len(items) <= arenas[k].cap
    BY <1>10
  <2>3. pos \in Nat /\ items \in Seq(Item) /\ k \in DOMAIN arenas
    BY <1>2, <1>10
  <2>4. r \in Arenas /\ Filled(r) /\ r.data = Put(arenas[k].data, pos, items)
    BY <1>11
  <2> HIDE DEF pos, items
  <2> QED
    BY <1>5, <1>6, <2>1, <2>2, <2>3, <2>4, Rewritten
<1>13. ASSUME NEW i \in DOMAIN values, Large(values[i]), values[i].arena = k
       PROVE  /\ values[i] \in Values /\ Sound(values[i], arenas)
              /\ Behind(values[i]) <= pos /\ values[i].pos + values[i].len <= pos
  <2> DEFINE w == values[i]
  <2>1. w \in Values /\ Sound(w, arenas) /\ Large(w) /\ w.arena = k
    BY <1>13, Parts
  <2> HIDE DEF w
  <2>2. Behind(w) <= arenas[k].count
    BY <2>1 DEF Sound
  <2>3. Behind(w) <= pos
    BY <1>2, <2>2
  <2>4. w.pos + w.len <= Behind(w) /\ Behind(w) \in Int /\ w.pos \in Nat /\ w.len \in Nat
    BY <2>1, Lies, Fields
  <2>5. w.pos + w.len <= pos
    <3> HIDE DEF pos
    <3> QED
      BY <1>10, <2>3, <2>4
  <2> QED
    BY <2>1, <2>3, <2>5 DEF w
<1>14. AllSound(values, arenas')
  <2> SUFFICES ASSUME NEW i \in DOMAIN values PROVE Sound(values[i], arenas')
    BY DEF AllSound
  <2> DEFINE w == values[i]
             n == Len(items)
  <2>1. w \in Values /\ Sound(w, arenas)
    BY Parts
  <2>2. Large(w) /\ w.arena = k => w.pos + w.len <= pos \/ pos + n <= w.pos
    BY <1>13
  <2>3. n \in Nat /\ OnlyWrites(arenas, arenas', k, pos, n)
    BY <1>10, <1>12
  <2> HIDE DEF w, n, pos, items
  <2>4. Sound(w, arenas')
    BY <1>6, <1>10, <1>12, <2>1, <2>2, <2>3, WriteKeeps
  <2> QED
    BY <2>4 DEF w
<1>15. Sound(new, arenas')
  <2>1. ASSUME NEW p \in v.pos .. v.pos + v.len - 1
        PROVE  arenas'[k].data[p] = arenas[k].data[p]
    <3>1. p \in 0 .. arenas[k].cap - 1 /\ p < pos
      BY <1>7, <1>10
    <3> QED
      BY <1>2, <1>12, <3>1 DEF OnlyWrites
  <2>2. Len(v.val) = v.len /\ Holds(arenas[k].data, v.pos, v.val)
    BY <1>2, <1>3 DEF Sound, Holds, k
  <2> DEFINE data == arenas[k].data
             more == arenas'[k].data
  <2>3. Holds(data, v.pos, v.val) /\ Same(data, more, v.pos, v.len) /\ Holds(more, v.pos + v.len, <<item>>)
    BY <1>12, <2>1, <2>2 DEF Same
  <2> HIDE DEF data, more
  <2>4. Len(new.val) = new.len /\ Holds(more, new.pos, new.val) /\ new.len > 0
    BY <1>2, <1>3, <1>8, <2>2, <2>3, LongerHolds
  <2>5. Behind(new) <= arenas'[k].count /\ k \in DOMAIN arenas'
    <3>1. pos = arenas[k].count /\ Behind(new) = pos + 1
      BY <1>2, <1>9
    <3>2. arenas'[k].count = arenas[k].count + 1 /\ k \in DOMAIN arenas'
      BY <1>2, <1>11, <1>12
    <3> HIDE DEF pos
    <3> QED
      BY <1>7, <3>1, <3>2
  <2>6. Large(new) /\ new.off <= new.pos
    BY <1>2, <1>3, <1>8, <1>9 DEF Large, Longer, Sound, k
  <2> QED
    BY <1>9, <2>4, <2>5, <2>6 DEF Sound, Holds, more
<1>16. ASSUME NEW i \in DOMAIN values, Large(values[i])
       PROVE  Apart(values[i], new) /\ Apart(new, values[i])
  <2>1. CASE values[i].arena # k
    BY <1>9, <2>1 DEF Apart
  <2>2. CASE values[i].kind = "string" /\ From(values[i]) = From(v)
    BY <1>9, <2>2 DEF Apart
  <2>3. CASE values[i].arena = k /\ ~ (values[i].kind = "string" /\ From(values[i]) = From(v))
    <3> DEFINE w == values[i]
    <3>1. /\ w \in Values /\ Sound(w, arenas) /\ Large(w) /\ w.arena = k /\ Behind(w) <= pos
          /\ ~ (w.kind = "string" /\ From(w) = From(v))
      BY <1>13, <1>16, <2>3
    <3>2. i # l /\ Apart(w, v)
      <4>1. i # l
        BY <1>2, <2>3 DEF v
      <4> QED
        BY <1>2, <1>6, <1>16, <4>1 DEF AllApart, v
    <3> HIDE DEF w
    <3>3. From(w) < Behind(w) /\ From(w) \in Int /\ Behind(w) \in Int
      BY <3>1, Lies, Fields
    <3>4. Behind(v) = pos
      BY <1>2 DEF Behind
    <3>5. ~ (Behind(v) <= From(w))
      <4> HIDE DEF pos
      <4> QED
        BY <1>10, <3>1, <3>3, <3>4
    <3>6. Behind(w) <= From(v)
      BY <1>2, <3>1, <3>2, <3>5 DEF Apart, k
    <3>7. Behind(w) <= From(new)
      BY <1>9, <3>6
    <3> QED
      BY <3>7 DEF Apart, w
  <2> QED
    BY <2>1, <2>2, <2>3
<1>17. new \in Values
  BY <1>8 DEF Longer
<1>18. values' \in Seq(Values) /\ AllSound(values', arenas') /\ AllApart(values')
  BY <1>5, <1>6, <1>14, <1>15, <1>16, <1>17, Appended
<1>19. ValuesStay
  BY <1>5, <1>6 DEF ValuesStay, Alike
<1>20. ArenasStay(t)
  BY <1>2, <1>11, <1>12 DEF ArenasStay
<1>21. /\ current' \in [Threads -> Nat]
       /\ \A u \in Threads : current'[u] # None =>
            current'[u] \in DOMAIN arenas' /\ arenas'[current'[u]].owner = u
  <2>1. \A b \in DOMAIN arenas : arenas'[b].owner = arenas[b].owner
    BY <1>2, <1>11, <1>12
  <2> QED
    BY <1>5, <1>12, <2>1, Parts
<1>22. Kept(t)
  BY <1>12, <1>18, <1>19, <1>20, <1>21 DEF Kept
<1> QED
  BY <1>5, <1>22, BecomesIdle

-----------------------------------------------------------------------------
(* The beginning: a list and a string, one behind the other in an arena.    *)
LEMMA NewArenaIs ==
  ASSUME NEW t \in Threads, NEW size \in Nat
  PROVE  /\ NewArena(t, size) \in Arenas /\ NewArena(t, size).cap \in Nat
         /\ size <= NewArena(t, size).cap /\ NewArena(t, size).owner = t
         /\ NewArena(t, size).data \in [0 .. NewArena(t, size).cap - 1 -> Cells]
<1> DEFINE c == ArenaCapacity(size)
           data == [p \in 0 .. c - 1 |-> Hole]
<1>1. c \in Nat /\ size <= c
  BY ArenaFits
<1>2. NewArena(t, size) = [cap |-> c, count |-> 0, owner |-> t, data |-> data]
  BY DEF NewArena
<1>3. data \in [0 .. c - 1 -> Cells]
  BY DEF Cells
<1> HIDE DEF c, data
<1>4. data \in Stores
  BY <1>1, <1>3 DEF Stores
<1> QED
  BY <1>1, <1>2, <1>3, <1>4 DEF Arenas

(* Put holds its items, and what lies before them is held as before.        *)
LEMMA HoldsStill ==
  ASSUME NEW c \in Nat, NEW data \in [0 .. c - 1 -> Cells], NEW pos \in Nat,
         NEW items \in Seq(Item), pos + Len(items) <= c
  PROVE  /\ Put(data, pos, items) \in [0 .. c - 1 -> Cells]
         /\ Holds(Put(data, pos, items), pos, items)
         /\ \A q \in Nat, more \in Seq(Item) :
              q + Len(more) <= pos /\ Holds(data, q, more) => Holds(Put(data, pos, items), q, more)
<1> DEFINE new == Put(data, pos, items)
<1>1. /\ new \in [0 .. c - 1 -> Cells]
      /\ \A p \in 0 .. c - 1 : p < pos \/ pos + Len(items) <= p => new[p] = data[p]
      /\ \A k \in 1 .. Len(items) : new[pos + k - 1] = items[k]
  BY Puts
<1> HIDE DEF new
<1>2. ASSUME NEW q \in Nat, NEW more \in Seq(Item), q + Len(more) <= pos, Holds(data, q, more)
      PROVE  Holds(new, q, more)
  <2> SUFFICES ASSUME NEW m \in 1 .. Len(more) PROVE new[q + m - 1] = more[m]
    BY DEF Holds
  <2> DEFINE p == q + m - 1
  <2>1. p < pos /\ p \in 0 .. c - 1
    BY <1>2
  <2>2. data[p] = more[m]
    BY <1>2 DEF Holds
  <2> HIDE DEF p
  <2>3. new[p] = more[m]
    BY <1>1, <2>1, <2>2
  <2> QED
    BY <2>3 DEF p
<1> QED
  BY <1>1, <1>2 DEF new, Holds

FirstOne(v, k, kind, base) ==
  /\ v \in Values /\ v.kind = kind /\ v.len = FirstLength /\ v.arena = 1
  /\ v.val = FirstItems(k)
  /\ v.pos = base + v.off /\ v.off + v.len <= v.cap /\ v.cap = Capacity(kind, FirstLength)
  /\ kind = "string" => v.pos = base
(* The values there are at the beginning.                                   *)
LEMMA FirstValueIs ==
  ASSUME NEW k \in Nat, NEW kind \in {"list", "string"}, NEW base \in Nat
  PROVE  /\ FirstOne(FirstValue(k, kind, base), k, kind, base)
         /\ FirstItems(k) \in Seq(Item) /\ Len(FirstItems(k)) = FirstLength
<1>1. FirstLength \in Nat
  BY SharedArraysAssumption
<1>2. /\ Capacity(kind, FirstLength) \in Nat /\ Headroom(kind, FirstLength) \in Nat
      /\ Headroom(kind, FirstLength) + FirstLength <= Capacity(kind, FirstLength)
      /\ kind = "string" => Headroom(kind, FirstLength) = 0
  BY <1>1, ChunkFits
<1>3. FirstItems(k) \in Seq(Item) /\ Len(FirstItems(k)) = FirstLength
  <2>1. \A m \in 1 .. FirstLength : <<k, m>> \in Item
    BY <1>1 DEF Item
  <2> QED
    BY <1>1, <2>1 DEF FirstItems
<1> DEFINE v == FirstValue(k, kind, base)
           cap == Capacity(kind, FirstLength)
           off == Headroom(kind, FirstLength)
           val == FirstItems(k)
<1>4. v = [kind |-> kind, len |-> FirstLength, used |-> {}, val |-> val,
           items |-> Hole, cap |-> cap, off |-> off, arena |-> 1, pos |-> base + off]
  BY DEF FirstValue
<1>5. cap \in Nat /\ off \in Nat /\ off + FirstLength <= cap /\ val \in Seq(Item)
      /\ (kind = "string" => off = 0) /\ Hole \in Seq(Item) /\ base + off \in Nat
  BY <1>2, <1>3 DEF Hole
<1> HIDE DEF v, cap, off, val
<1>6. v \in Values
  BY <1>1, <1>4, <1>5 DEF Values
<1>7. /\ v.kind = kind /\ v.len = FirstLength /\ v.arena = 1 /\ v.val = val
      /\ v.pos = base + v.off /\ v.off + v.len <= v.cap /\ v.cap = cap
      /\ kind = "string" => v.pos = base
  BY <1>4, <1>5
<1>8. FirstOne(v, k, kind, base)
  BY <1>6, <1>7, Zenon DEF FirstOne, cap, val
<1> QED
  BY <1>3, <1>8 DEF v

(* They are sound in an arena that holds their items.                       *)
LEMMA FirstSound ==
  ASSUME NEW v, NEW k, NEW kind \in {"list", "string"}, NEW base \in Nat,
         FirstOne(v, k, kind, base), FirstItems(k) \in Seq(Item),
         Len(FirstItems(k)) = FirstLength,
         NEW as, 1 \in DOMAIN as, Holds(as[1].data, v.pos, FirstItems(k)),
         NEW c \in Nat, as[1].count = c, base + Capacity(kind, FirstLength) <= c
  PROVE  /\ Sound(v, as) /\ Large(v)
         /\ From(v) = base /\ Behind(v) <= base + Capacity(kind, FirstLength)
<1>1. /\ v \in Values /\ v.kind = kind /\ v.len = FirstLength /\ v.arena = 1
      /\ v.val = FirstItems(k)
      /\ v.pos = base + v.off /\ v.off + v.len <= v.cap /\ v.cap = Capacity(kind, FirstLength)
      /\ kind = "string" => v.pos = base
  BY DEF FirstOne
<1>2. v.pos \in Nat /\ v.off \in Nat /\ v.cap \in Nat /\ v.len \in Nat
  BY <1>1, Fields
<1>3. Large(v)
  BY <1>1 DEF Large, None
<1>4. From(v) = base
  <2>1. v.pos - v.off = base
    BY <1>1, <1>2
  <2> QED
    BY <2>1, Zenon DEF From
<1>5. Behind(v) <= base + v.cap
  <2>1. v.pos + v.len <= base + v.cap
    <3>1. \A b, o, l, x \in Nat : o + l <= x => (b + o) + l <= b + x
      OBVIOUS
    <3>2. (base + v.off) + v.len <= base + v.cap
      <4>1. v.off + v.len <= v.cap
        BY <1>1
      <4> QED
        BY <1>2, <3>1, <4>1
    <3>3. v.pos = base + v.off
      BY <1>1
    <3> QED
      BY <3>2, <3>3, Zenon
  <2>2. v.pos - v.off + v.cap = base + v.cap
    <3>1. v.pos - v.off = base
      BY <1>1, <1>2
    <3> QED
      BY <3>1, Zenon
  <2>3. base + v.cap <= base + v.cap
    BY <1>2
  <2> QED
    BY <2>1, <2>2, <2>3, Zenon DEF Behind
<1>6. Behind(v) <= as[v.arena].count
  <2>1. Behind(v) \in Int
    BY <1>1, Fields
  <2>2. base + v.cap <= c
    BY <1>1, Zenon
  <2>3. base + v.cap \in Int /\ c \in Int
    BY <1>2
  <2>4. Behind(v) <= c
    BY <1>5, <2>1, <2>2, <2>3, AtMost, Zenon
  <2> QED
    BY <1>1, <2>4, Zenon
<1>7. v.len > 0 /\ Len(v.val) = v.len
  <2>1. v.len > 0
    BY <1>1, SharedArraysAssumption
  <2> QED
    BY <1>1, <2>1, Zenon
<1>8. \A m \in 1 .. v.len : as[v.arena].data[v.pos + m - 1] = v.val[m]
  BY <1>1, Zenon DEF Holds
<1>9. v.off <= v.pos
  <2>1. \A x, y \in Nat : y <= x + y
    OBVIOUS
  <2> QED
    BY <1>1, <1>2, <2>1, Zenon
<1> QED
  BY <1>1, <1>3, <1>4, <1>5, <1>6, <1>7, <1>8, <1>9, Zenon DEF Sound

(* The invariant holds at the beginning.                                    *)
LEMMA InitKeeps == Init => IndInv
<1> SUFFICES ASSUME Init PROVE IndInv
  OBVIOUS
<1> DEFINE cap == Capacity("list", FirstLength)
           size == RoundUp(cap)
           all == RoundUp(Capacity("list", FirstLength)) + FirstLength
<1>1. PICK t \in Threads :
        /\ values = FirstValues
        /\ arenas = <<[NewArena(t, all)
                        EXCEPT !.count = all,
                               !.data = Put(Put(@, values[1].pos, values[1].val),
                                            values[2].pos, values[2].val)]>>
        /\ current = [u \in Threads |-> IF u = t THEN 1 ELSE None]
        /\ job = [u \in Threads |-> Idle]
  BY DEF Init
<1>2. FirstLength \in Nat /\ FirstLength > 0
  BY SharedArraysAssumption
<1>3. /\ cap \in Nat /\ size \in Nat /\ cap <= size /\ all \in Nat /\ all = size + FirstLength
      /\ Capacity("string", FirstLength) = FirstLength /\ FirstLength <= cap
  <2>1. cap \in Nat /\ FirstLength <= cap /\ Capacity("string", FirstLength) = FirstLength
    <3>1. /\ Capacity("list", FirstLength) \in Nat /\ Headroom("list", FirstLength) \in Nat
          /\ Headroom("list", FirstLength) + FirstLength <= Capacity("list", FirstLength)
          /\ Capacity("string", FirstLength) = FirstLength
      BY <1>2, ChunkFits
    <3> QED
      BY <1>2, <3>1
  <2>2. size \in Nat /\ cap <= size
    <3> HIDE DEF cap
    <3> QED
      BY <2>1, RoundsUp
  <2>3. all = size + FirstLength
    OBVIOUS
  <2> HIDE DEF size, all, cap
  <2> QED
    BY <1>2, <2>1, <2>2, <2>3
<1> HIDE DEF cap, size, all
<1>4. /\ DOMAIN values = {1, 2} /\ Len(values) = 2
      /\ values[1] = FirstValue(1, "list", 0)
      /\ values[2] = FirstValue(2, "string", size)
      /\ values = <<values[1], values[2]>>
  BY <1>1 DEF FirstValues, size, cap
<1>5. /\ FirstOne(values[1], 1, "list", 0)
      /\ FirstOne(values[2], 2, "string", size)
      /\ \A k \in Nat : FirstItems(k) \in Seq(Item) /\ Len(FirstItems(k)) = FirstLength
  BY <1>3, <1>4, FirstValueIs
<1> DEFINE v1 == values[1]
           v2 == values[2]
           r == NewArena(t, all)
           c == r.cap
           d1 == Put(r.data, v1.pos, v1.val)
           d2 == Put(d1, v2.pos, v2.val)
           a == [[r EXCEPT !.count = all] EXCEPT !.data = d2]
<1>6. arenas = <<a>>
  BY <1>1
<1>7. /\ v1 \in Values /\ v1.kind = "list" /\ v1.val = FirstItems(1) /\ v1.pos \in Nat
      /\ v2 \in Values /\ v2.kind = "string" /\ v2.val = FirstItems(2) /\ v2.pos = size
  <2>1. v1 \in Values /\ v2 \in Values
    BY <1>5 DEF FirstOne
  <2> QED
    BY <1>5, <2>1, Fields DEF FirstOne
<1>8. v1.pos + FirstLength <= v2.pos /\ v1.pos + FirstLength <= all
  <2>1. v1.pos = 0 + v1.off /\ v1.off + v1.len <= v1.cap /\ v1.len = FirstLength /\ v1.cap = cap
    BY <1>5 DEF FirstOne, cap
  <2>2. v1.off \in Nat
    BY <1>7, Fields
  <2> HIDE DEF v1
  <2>3. v1.off + FirstLength <= cap
    BY <2>1
  <2> QED
    BY <1>2, <1>3, <1>7, <2>1, <2>2, <2>3
<1>9. r \in Arenas /\ c \in Nat /\ all <= c /\ r.owner = t /\ r.data \in [0 .. c - 1 -> Cells]
  BY <1>3, NewArenaIs
<1> HIDE DEF v1, v2, r, c
<1>10. d1 \in [0 .. c - 1 -> Cells] /\ Holds(d1, v1.pos, v1.val)
  <2>1. v1.val \in Seq(Item) /\ Len(v1.val) = FirstLength
    BY <1>5, <1>7
  <2>2. v1.pos + Len(v1.val) <= c
    BY <1>2, <1>3, <1>7, <1>8, <1>9, <2>1
  <2> QED
    BY <1>7, <1>9, <2>1, <2>2, HoldsStill
<1> HIDE DEF d1
<1>11. d2 \in [0 .. c - 1 -> Cells] /\ Holds(d2, v1.pos, v1.val) /\ Holds(d2, v2.pos, v2.val)
  <2>1. /\ v1.val \in Seq(Item) /\ Len(v1.val) = FirstLength
        /\ v2.val \in Seq(Item) /\ Len(v2.val) = FirstLength
    BY <1>5, <1>7
  <2>2. v2.pos + Len(v2.val) <= c /\ v1.pos + Len(v1.val) <= v2.pos
    BY <1>2, <1>3, <1>7, <1>8, <1>9, <2>1
  <2>3. v1.val \in Seq(Item) /\ v2.val \in Seq(Item) /\ v2.pos \in Nat
    BY <1>3, <1>7, <2>1
  <2> QED
    BY <1>7, <1>9, <1>10, <2>2, <2>3, HoldsStill
<1> HIDE DEF d2
<1>12. a \in Arenas /\ a.cap = c /\ a.count = all /\ a.owner = t /\ a.data = d2 /\ Filled(a)
  <2>1. d2 \in Stores
    BY <1>9, <1>11 DEF Stores
  <2>2. a \in Arenas /\ a.cap = c /\ a.count = all /\ a.owner = t /\ a.data = d2
    BY <1>3, <1>9, <2>1 DEF Arenas, c
  <2> HIDE DEF a
  <2> QED
    BY <1>9, <1>11, <2>2 DEF Filled
<1> HIDE DEF a
<1>13. DOMAIN arenas = {1} /\ arenas[1] = a /\ arenas \in Seq(Arenas)
  BY <1>6, <1>12
<1>14. /\ Sound(v1, arenas) /\ Large(v1) /\ From(v1) = 0 /\ Behind(v1) <= 0 + cap
       /\ Sound(v2, arenas) /\ Large(v2) /\ From(v2) = size
  <2>1. 1 \in DOMAIN arenas /\ arenas[1].count = all /\ all \in Nat
    BY <1>3, <1>12, <1>13
  <2>2. /\ Holds(arenas[1].data, v1.pos, FirstItems(1))
        /\ Holds(arenas[1].data, v2.pos, FirstItems(2))
    BY <1>7, <1>11, <1>12, <1>13
  <2>3. \A k \in Nat : FirstItems(k) \in Seq(Item) /\ Len(FirstItems(k)) = FirstLength
    BY <1>5
  <2>4. 0 + cap <= all /\ size + FirstLength <= all
    BY <1>2, <1>3
  <2>5. FirstOne(v1, 1, "list", 0) /\ FirstOne(v2, 2, "string", size)
    BY <1>5 DEF v1, v2
  <2>6. Sound(v1, arenas) /\ Large(v1) /\ From(v1) = 0 /\ Behind(v1) <= 0 + cap
    BY <2>1, <2>2, <2>3, <2>4, <2>5, FirstSound DEF cap
  <2>7. Sound(v2, arenas) /\ Large(v2) /\ From(v2) = size
    BY <1>3, <2>1, <2>2, <2>3, <2>4, <2>5, FirstSound
  <2> QED
    BY <2>6, <2>7
<1>15. values \in Seq(Values)
  <2>1. values = <<v1, v2>> /\ v1 \in Values /\ v2 \in Values
    BY <1>4, <1>7, Zenon DEF v1, v2
  <2>2. \A x, y \in Values : <<x, y>> \in Seq(Values)
    OBVIOUS
  <2> QED
    BY <2>1, <2>2, Zenon
<1>16. AllSound(values, arenas)
  BY <1>4, <1>14 DEF AllSound, v1, v2
<1>17. AllApart(values)
  <2>1. Behind(v1) \in Int
    BY <1>7, Fields
  <2>2. Behind(v1) <= From(v2)
    BY <1>3, <1>14, <2>1
  <2>3. Apart(v1, v2) /\ Apart(v2, v1)
    BY <2>2 DEF Apart
  <2> QED
    BY <1>4, <2>3 DEF AllApart, v1, v2
<1>18. TypeOK
  <2>1. \A b \in DOMAIN arenas : Filled(arenas[b])
    BY <1>12, <1>13
  <2>2. /\ current \in [Threads -> Nat]
        /\ \A u \in Threads : current[u] # None =>
             current[u] \in DOMAIN arenas /\ arenas[current[u]].owner = u
    BY <1>1, <1>12, <1>13 DEF None
  <2>3. job \in [Threads -> Jobs]
    BY <1>1, IdleIs
  <2> QED
    BY <1>13, <1>15, <2>1, <2>2, <2>3 DEF TypeOK
<1>19. JobsOK(values, arenas)
  BY <1>1, IdleIs DEF JobsOK
<1> QED
  BY <1>16, <1>17, <1>18, <1>19 DEF IndInv

-----------------------------------------------------------------------------
(* An end once contested has been contested ever after.                     *)
LEMMA Remembered ==
  ASSUME [Next]_vars, contested
  PROVE  contested'
BY DEF Next, vars, StartAppend, StartPrepend, StartConcat, TailLook, TailClaim, HeadLook, HeadClaim,
       Copy, Slice, SuperLook, SuperGrow

(* Every step that contests no end keeps the invariant, one lemma per       *)
(* action.                                                                  *)
LEMMA NextKeeps ==
  ASSUME IndInv, [Next]_vars, ~contested'
  PROVE  IndInv'
<1>1. CASE UNCHANGED vars
  BY <1>1 DEF vars, IndInv, TypeOK, JobsOK
<1>2. ASSUME NEW t \in Threads, StartAppend(t) PROVE IndInv'
  BY <1>2, StartAppendKeeps
<1>3. ASSUME NEW t \in Threads, StartPrepend(t) PROVE IndInv'
  BY <1>3, StartPrependKeeps
<1>4. ASSUME NEW t \in Threads, StartConcat(t) PROVE IndInv'
  BY <1>4, StartConcatKeeps
<1>5. ASSUME NEW t \in Threads, TailLook(t) PROVE IndInv'
  BY <1>5, TailLookKeeps
<1>6. ASSUME NEW t \in Threads, TailClaim(t) PROVE IndInv'
  BY <1>6, TailClaimKeeps
<1>7. ASSUME NEW t \in Threads, HeadLook(t) PROVE IndInv'
  BY <1>7, HeadLookKeeps
<1>8. ASSUME NEW t \in Threads, HeadClaim(t) PROVE IndInv'
  BY <1>8, HeadClaimKeeps
<1>9. ASSUME NEW t \in Threads, Copy(t) PROVE IndInv'
  BY <1>9, CopyKeeps
<1>10. ASSUME NEW t \in Threads, Slice(t) PROVE IndInv'
  <2>1. Kept(t)
    BY <1>10, SliceKeeps
  <2>2. job' = job /\ job[t] = Idle
    BY <1>10 DEF Slice, MayStart
  <2>3. OthersWait(t) /\ job'[t] = Idle
    BY <2>2, Parts DEF OthersWait
  <2> QED
    BY <2>1, <2>3, IdleIs, StepKeeps
<1>11. ASSUME NEW t \in Threads, SuperLook(t) PROVE IndInv'
  BY <1>11, SuperLookKeeps
<1>12. ASSUME NEW t \in Threads, SuperGrow(t) PROVE IndInv'
  BY <1>12, SuperGrowKeeps
<1> QED
  BY <1>1, <1>2, <1>3, <1>4, <1>5, <1>6, <1>7, <1>8, <1>9, <1>10, <1>11, <1>12 DEF Next

(* For any number of threads and values, any lengths and any layout of the  *)
(* arenas: in every state up to the step that contests an end, values are   *)
(* sound and apart, and each thread still knows what it has seen. An end is *)
(* contested when it is claimed while another list has an unused flag for   *)
(* it, or a string is grown in the arena of another thread (list.c:147,     *)
(* arena.c:87: the code prevents neither); of later states nothing is said. *)
THEOREM Invariance == Spec => [](~contested => IndInv)
<1>1. Init => (~contested => IndInv)
  BY InitKeeps
<1>2. (~contested => IndInv) /\ [Next]_vars => (~contested => IndInv)'
  <2> SUFFICES ASSUME ~contested => IndInv, [Next]_vars, ~contested' PROVE IndInv'
    OBVIOUS
  <2>1. ~contested
    BY Remembered
  <2> QED
    BY <2>1, NextKeeps
<1> QED
  BY <1>1, <1>2, PTL DEF Spec

(* Until an end is contested, nothing that is done to one list or string    *)
(* changes another (ValuesKeepTheirItems): however two threads interleave   *)
(* the look at the flags, the claim (list.c's atomic_fetch_or) and the      *)
(* copy, and whatever is sliced from what, every value has the items it was *)
(* made of. The state after a contested claim itself is already left out.   *)
THEOREM ItemsAreKept == Spec => []ValuesKeepTheirItems
<1>1. (~contested => IndInv) => ValuesKeepTheirItems
  BY Parts, ContentsAre DEF ValuesKeepTheirItems, ItemsKept, Indices
<1> QED
  BY <1>1, Invariance, PTL

(* Until an end is contested, windows lie in their chunks, chunks in what   *)
(* their arena has handed out, and two chunks of one arena do not overlap   *)
(* unless they are the same array, or two strings that begin at the same    *)
(* place, one a slice of the other or grown from it (ChunksApart).          *)
THEOREM ChunksNeverOverlap == Spec => []ChunksApart
<1>1. ASSUME ~contested => IndInv PROVE ChunksApart
  <2> SUFFICES ASSUME IndInv PROVE ChunksApart
    BY <1>1 DEF ChunksApart
  <2>1. ASSUME NEW v \in Values, Sound(v, arenas), Large(v)
        PROVE  /\ Window(v) \subseteq Chunk(v)
               /\ Chunk(v) = From(v) .. Behind(v) - 1
               /\ Chunk(v) \subseteq 0 .. arenas[v.arena].count - 1
    <3>1. /\ v.pos \in Nat /\ v.len \in Nat /\ v.off \in Nat /\ v.cap \in Nat
          /\ From(v) \in Int /\ Behind(v) \in Int /\ v.kind \in {"list", "string"}
      BY <2>1, Fields
    <3>2. 0 <= From(v) /\ From(v) <= v.pos /\ v.pos + v.len <= Behind(v)
      BY <2>1, Lies
    <3>3. v.arena \in DOMAIN arenas /\ Behind(v) <= arenas[v.arena].count
      BY <2>1 DEF Sound
    <3>4. arenas[v.arena].count \in Nat
      BY <3>3, Parts, ArenaFields
    <3>5. Chunk(v) = From(v) .. Behind(v) - 1
      BY <3>1 DEF Chunk, Base, From, Behind
    <3>6. Window(v) \subseteq From(v) .. Behind(v) - 1
      BY <3>1, <3>2 DEF Window
    <3>7. From(v) .. Behind(v) - 1 \subseteq 0 .. arenas[v.arena].count - 1
      BY <3>1, <3>2, <3>3, <3>4
    <3> QED
      BY <3>5, <3>6, <3>7
  <2>2. ASSUME NEW v \in Values, NEW w \in Values, Sound(v, arenas), Sound(w, arenas),
               Large(v), Large(w), v = w \/ Apart(v, w)
        PROVE  v.arena # w.arena \/ Chunk(v) \cap Chunk(w) = {} \/ SameChunk(v, w)
    <3>1. Chunk(v) = From(v) .. Behind(v) - 1 /\ Chunk(w) = From(w) .. Behind(w) - 1
      BY <2>1, <2>2
    <3>2. /\ From(v) \in Int /\ Behind(v) \in Int /\ From(w) \in Int /\ Behind(w) \in Int
          /\ Base(v) = From(v) /\ Base(w) = From(w)
      BY <2>2, Fields DEF Base, From
    <3>3. CASE v = w
      BY <3>3 DEF SameChunk
    <3>4. CASE Behind(v) <= From(w) \/ Behind(w) <= From(v)
      BY <3>1, <3>2, <3>4
    <3>5. CASE v.kind = w.kind /\ From(v) = From(w) /\ (v.kind = "list" => v.cap = w.cap)
      <4>1. v.kind = "list" => Behind(v) = Behind(w)
        BY <3>5 DEF From, Behind
      <4> QED
        BY <3>1, <3>2, <3>5, <4>1 DEF SameChunk
    <3> QED
      BY <2>2, <3>3, <3>4, <3>5 DEF Apart
  <2> QED
    BY <2>1, <2>2, Parts DEF ChunksApart, LargeOnes, Indices, AllApart
<1> QED
  BY <1>1, Invariance, PTL
=============================================================================
