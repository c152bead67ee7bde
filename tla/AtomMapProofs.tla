--------------------------- MODULE AtomMapProofs ---------------------------
(***************************************************************************)
(* Why the map of interned atoms stays right, for any number of threads,   *)
(* items, strings and any hash function: proofs about AtomMap.             *)
(*                                                                         *)
(* The argument: triangular probing visits every slot of a table whose     *)
(* size is a power of two (ProbesCover), so a search ends if some slot is  *)
(* empty, and one is, because every insertion first checks the growth      *)
(* limit against counts that are never too small. An atom that its own     *)
(* text can find sits on the probe sequence of its hash before the first   *)
(* empty slot (Reached); so when a search for a string meets none, no      *)
(* such atom has that text, and the insertion does not make a second one.  *)
(* Atoms whose spelling had escapes sit on the sequence of another hash    *)
(* until the map grows, and nothing is claimed of their number.            *)
(***************************************************************************)
EXTENDS AtomMap, FiniteSetTheorems, SequenceTheorems, WellFoundedInduction, TLAPS

Slot == Items \cup {Null, Tombstone}
Capacities == {Power[k] : k \in Nat \ 0 .. 2}
Tables == UNION {[0 .. c - 1 -> Slot] : c \in Capacities}
Record == [text : Strings, quoted : BOOLEAN, hash : Nat, index : Nat]
Answers == [req : Requests, atom : Items]

TypeOK ==
  /\ DOMAIN map = {} \/ map \in Tables
  /\ size \in Nat
  /\ tombstones \in Nat
  /\ IsFiniteSet(DOMAIN atoms) /\ DOMAIN atoms \subseteq Items
  /\ atoms \in [DOMAIN atoms -> Record]
  /\ missed \in [Threads -> Requests \cup {None}]
  /\ found \in [Threads -> Answers \cup {None}]

(* Each atom of S has one slot, and only they are in the table.             *)
Holds(table, S) ==
  /\ \A a \in S : \E i \in DOMAIN table : table[i] = a
  /\ \A i \in DOMAIN table : Alive(table[i]) => table[i] \in S
  /\ \A i, j \in DOMAIN table : Alive(table[i]) /\ table[i] = table[j] => i = j

(* A search for the hash passes only slots in use before it is at index.    *)
Busy(table, hash, n) == \A m \in 0 .. n - 1 : table[Probe(table, hash, m)] # Null
Reached(table, hash, index) ==
  \E n \in DOMAIN table : Probe(table, hash, n) = index /\ Busy(table, hash, n)
Reaches(table, as, S) ==
  \A i \in DOMAIN table : table[i] \in S => Reached(table, as[table[i]].hash, i)

(* The atoms that their own text finds.                                     *)
Findable(as) == {a \in DOMAIN as : as[a].quoted => Unescaped(as[a].text)}

(* No two of them are the same.                                             *)
Distinct(as) ==
  \A a, b \in Findable(as) :
    as[a].text = as[b].text /\ as[a].quoted = as[b].quoted => a = b

Hashed(as) == \A a \in DOMAIN as : as[a].hash = Hash[as[a].text]
Indexed(table, as) ==
  \A a \in DOMAIN as : as[a].index \in DOMAIN table /\ table[as[a].index] = a

Tombs(table) == {i \in DOMAIN table : table[i] = Tombstone}
Room(table) == DOMAIN table # {} => \E i \in DOMAIN table : table[i] = Null

(* What the map, its counters and the atoms are to each other.              *)
Fits(table, as, alive, buried) ==
  /\ Holds(table, DOMAIN as)
  /\ Indexed(table, as)
  /\ Reaches(table, as, Findable(as))
  /\ Hashed(as)
  /\ Distinct(as)
  /\ Room(table)
  /\ alive = Cardinality(DOMAIN as)
  /\ Cardinality(Tombs(table)) <= buried

(* The inductive invariant.                                                 *)
IndInv == TypeOK /\ Fits(map, atoms, size, tombstones)

-----------------------------------------------------------------------------
(* Every nonempty set of natural numbers has a least element.               *)
LEMMA Least ==
  ASSUME NEW T \in SUBSET Nat, T # {}
  PROVE  \E x \in T : \A y \in T : x <= y
<1> DEFINE below == {0 .. n : n \in T}
<1>1. below \subseteq FiniteSubsetsOf(Nat) /\ below # {}
  <2>1. ASSUME NEW n \in T PROVE 0 .. n \in FiniteSubsetsOf(Nat)
    <3>1. IsFiniteSet(0 .. n)
      BY FS_Interval
    <3>2. 0 .. n \in SUBSET Nat
      OBVIOUS
    <3> QED
      BY <3>1, <3>2 DEF FiniteSubsetsOf
  <2>2. PICK n \in T : TRUE
    OBVIOUS
  <2>3. 0 .. n \in below
    OBVIOUS
  <2> QED
    BY <2>1, <2>3
<1>2. PICK s \in below : \A r \in below : ~ (<<r, s>> \in StrictSubsetOrdering(Nat))
  <2> HIDE DEF below
  <2> QED
    BY <1>1, WFMin, FS_StrictSubsetOrderingWellFounded
<1>3. PICK x \in T : s = 0 .. x
  BY <1>2
<1>4. ASSUME NEW y \in T PROVE x <= y
  <2>1. 0 .. y \in below
    OBVIOUS
  <2>2. ~ (<<0 .. y, s>> \in StrictSubsetOrdering(Nat))
    BY <1>2, <2>1
  <2>3. SUFFICES ASSUME y < x PROVE FALSE
    OBVIOUS
  <2>4. 0 .. y \subseteq 0 .. x /\ x \in 0 .. x /\ x \notin 0 .. y
    BY <2>3
  <2>5. 0 .. y \subseteq Nat /\ 0 .. x \subseteq Nat
    OBVIOUS
  <2> QED
    BY <1>3, <2>2, <2>4, <2>5 DEF StrictSubsetOrdering
<1> QED
  BY <1>4

(* Induction over a set of natural numbers.                                 *)
LEMMA SetInduction ==
  ASSUME NEW T \in SUBSET Nat, 0 \in T, \A n \in T : n + 1 \in T
  PROVE  T = Nat
<1>1. SUFFICES ASSUME Nat \ T # {} PROVE FALSE
  OBVIOUS
<1>2. PICK x \in Nat \ T : \A y \in Nat \ T : x <= y
  BY <1>1, Least
<1>3. x - 1 \in Nat /\ x - 1 \notin T
  BY <1>2
<1> QED
  BY <1>2, <1>3

-----------------------------------------------------------------------------
(* Power is defined by its equation: for every n there is just one such     *)
(* function on 0 .. n, and together they are one on the natural numbers.    *)
Powers(g, n) ==
  /\ g \in [0 .. n -> Nat \ {0}]
  /\ \A k \in 0 .. n : g[k] = IF k = 0 THEN 1 ELSE 2 * g[k - 1]

(* Such a function exists on every 0 .. n.                                  *)
LEMMA PowersExist ==
  ASSUME NEW n \in Nat
  PROVE  \E g : Powers(g, n)
<1> DEFINE T == {m \in Nat : \E g : Powers(g, m)}
<1>1. 0 \in T
  <2>1. Powers([k \in 0 .. 0 |-> 1], 0)
    BY DEF Powers
  <2> QED
    BY <2>1
<1>2. ASSUME NEW m \in T PROVE m + 1 \in T
  <2>1. PICK g : Powers(g, m)
    OBVIOUS
  <2> DEFINE h == [k \in 0 .. m + 1 |-> IF k = m + 1 THEN 2 * g[m] ELSE g[k]]
  <2>2. Powers(h, m + 1)
    <3>1. h \in [0 .. m + 1 -> Nat \ {0}]
      BY <2>1 DEF Powers
    <3>2. ASSUME NEW k \in 0 .. m + 1
          PROVE h[k] = IF k = 0 THEN 1 ELSE 2 * h[k - 1]
      <4>1. CASE k = m + 1
        BY <4>1, <2>1 DEF Powers
      <4>2. CASE k # m + 1
        <5>1. k \in 0 .. m /\ (k # 0 => k - 1 \in 0 .. m /\ k - 1 # m + 1 /\ k - 1 \in 0 .. m + 1)
          BY <4>2
        <5> QED
          BY <5>1, <4>2, <2>1 DEF Powers
      <4> QED
        BY <4>1, <4>2
    <3> QED
      BY <3>1, <3>2 DEF Powers
  <2> QED
    BY <2>2
<1>3. T = Nat
  <2> HIDE DEF T
  <2>1. T \in SUBSET Nat
    BY DEF T
  <2> QED
    BY <1>1, <1>2, <2>1, SetInduction
<1> QED
  BY <1>3

(* Two of them agree where both are defined.                                *)
LEMMA PowersUnique ==
  ASSUME NEW n \in Nat, NEW m \in Nat, NEW g, NEW h, Powers(g, n), Powers(h, m),
         NEW k \in Nat, k <= n, k <= m
  PROVE  g[k] = h[k]
<1> DEFINE T == {l \in Nat : l <= n /\ l <= m => g[l] = h[l]}
<1>1. 0 \in T
  BY DEF Powers
<1>2. ASSUME NEW l \in T PROVE l + 1 \in T
  <2>1. SUFFICES ASSUME l + 1 <= n, l + 1 <= m PROVE g[l + 1] = h[l + 1]
    OBVIOUS
  <2>2. l + 1 \in 0 .. n /\ l + 1 \in 0 .. m /\ l + 1 # 0 /\ (l + 1) - 1 = l
    BY <2>1
  <2>3. g[l] = h[l]
    BY <2>1
  <2> QED
    BY <2>2, <2>3 DEF Powers
<1>3. T = Nat
  <2> HIDE DEF T
  <2>1. T \in SUBSET Nat
    BY DEF T
  <2> QED
    BY <1>1, <1>2, <2>1, SetInduction
<1> QED
  BY <1>3

(* So the functions on 0 .. n together satisfy the equation of Power.       *)
LEMMA PowerEquation ==
  Power = [k \in Nat |-> IF k = 0 THEN 1 ELSE 2 * Power[k - 1]]
<1> DEFINE pick(n) == CHOOSE g : Powers(g, n)
           F == [k \in Nat |-> pick(k)[k]]
<1>1. \A n \in Nat : Powers(pick(n), n)
  BY PowersExist
<1> HIDE DEF pick
<1>2. F = [k \in Nat |-> IF k = 0 THEN 1 ELSE 2 * F[k - 1]]
  <2>1. ASSUME NEW k \in Nat
        PROVE F[k] = IF k = 0 THEN 1 ELSE 2 * F[k - 1]
    <3>1. k \in 0 .. k
      OBVIOUS
    <3>2. pick(k)[k] = IF k = 0 THEN 1 ELSE 2 * pick(k)[k - 1]
      BY <1>1, <3>1 DEF Powers
    <3>3. k # 0 => pick(k)[k - 1] = pick(k - 1)[k - 1]
      BY <1>1, PowersUnique
    <3> QED
      BY <3>2, <3>3
  <2> QED
    BY <2>1
<1> HIDE DEF F
<1>3. \E f : f = [k \in Nat |-> IF k = 0 THEN 1 ELSE 2 * f[k - 1]]
  BY <1>2
<1> QED
  BY <1>3 DEF Power

(* The powers of two are positive, and each is twice the one before.        *)
LEMMA PowerFacts ==
  /\ Power[0] = 1
  /\ \A k \in Nat : Power[k + 1] = 2 * Power[k]
  /\ \A k \in Nat : Power[k] \in Nat /\ Power[k] >= 1
<1>1. Power[0] = 1
  BY PowerEquation
<1>2. \A k \in Nat : Power[k + 1] = 2 * Power[k]
  BY PowerEquation
<1> DEFINE T == {k \in Nat : Power[k] \in Nat /\ Power[k] >= 1}
<1>3. 0 \in T
  BY <1>1
<1>4. ASSUME NEW k \in T PROVE k + 1 \in T
  BY <1>2
<1>5. T = Nat
  <2> HIDE DEF T
  <2>1. T \in SUBSET Nat
    BY DEF T
  <2> QED
    BY <1>3, <1>4, <2>1, SetInduction
<1> QED
  BY <1>1, <1>2, <1>5

(* From the third on they are at least eight.                               *)
LEMMA CapacityFacts ==
  ASSUME NEW c \in Capacities
  PROVE  /\ c \in Nat /\ c >= 8
         /\ 2 * c \in Capacities
         /\ \E k \in Nat : c = Power[k]
<1>1. PICK k \in Nat \ 0 .. 2 : c = Power[k]
  BY DEF Capacities
<1> DEFINE T == {j \in Nat : Power[j + 3] >= 8}
<1>2. 0 \in T
  <2>1. Power[1] = 2 /\ Power[2] = 4 /\ Power[3] = 8
    <3>1. Power[0 + 1] = 2 * Power[0] /\ Power[1 + 1] = 2 * Power[1] /\ Power[2 + 1] = 2 * Power[2]
      BY PowerFacts
    <3> QED
      BY <3>1, PowerFacts
  <2> QED
    BY <2>1
<1>3. ASSUME NEW j \in T PROVE j + 1 \in T
  <2>1. Power[(j + 3) + 1] = 2 * Power[j + 3] /\ Power[j + 3] \in Nat
    BY PowerFacts
  <2>2. (j + 3) + 1 = (j + 1) + 3
    OBVIOUS
  <2> QED
    BY <2>1, <2>2
<1>4. T = Nat
  <2> HIDE DEF T
  <2>1. T \in SUBSET Nat
    BY DEF T
  <2> QED
    BY <1>2, <1>3, <2>1, SetInduction
<1>5. k - 3 \in Nat /\ (k - 3) + 3 = k
  OBVIOUS
<1>6. Power[k] >= 8
  BY <1>4, <1>5
<1>7. k + 1 \in Nat \ 0 .. 2 /\ Power[k + 1] = 2 * Power[k] /\ Power[k] \in Nat
  BY PowerFacts
<1> QED
  BY <1>1, <1>6, <1>7 DEF Capacities

-----------------------------------------------------------------------------
(* What divides a product with an odd factor divides the other factor, if   *)
(* it is a power of two.                                                    *)
LEMMA OddFactor ==
  ASSUME NEW k \in Nat
  PROVE  \A a, b, q \in Int :
           (a * b = Power[k] * q /\ \E r \in Int : a = 2 * r + 1)
             => \E s \in Int : b = Power[k] * s
<1> DEFINE P(l) == \A a, b, q \in Int :
             (a * b = Power[l] * q /\ \E r \in Int : a = 2 * r + 1)
               => \E s \in Int : b = Power[l] * s
           T == {l \in Nat : P(l)}
<1>1. 0 \in T
  BY PowerFacts
<1>2. ASSUME NEW l \in T PROVE l + 1 \in T
  <2>a. l \in Nat /\ (P(l + 1) => l + 1 \in T)
    OBVIOUS
  <2> SUFFICES P(l + 1)
    BY <2>a
  <2>0. SUFFICES ASSUME NEW a \in Int, NEW b \in Int, NEW q \in Int,
                        a * b = Power[l + 1] * q /\ \E r \in Int : a = 2 * r + 1
                 PROVE  \E s \in Int : b = Power[l + 1] * s
    BY Zenon
  <2>1. PICK r \in Int : a = 2 * r + 1
    BY <2>0
  <2> DEFINE p == Power[l]
  <2>2. p \in Int /\ Power[l + 1] = 2 * p
    BY PowerFacts
  <2>3. P(l)
    OBVIOUS
  <2> HIDE DEF P, p, T
  <2>4. (2 * r + 1) * b = (2 * p) * q
    BY <2>0, <2>1, <2>2
  <2>5. (2 * r + 1) * b = 2 * (r * b) + b /\ (2 * p) * q = 2 * (p * q)
    BY <2>2
  <2>6. r * b \in Int /\ p * q \in Int
    BY <2>2
  <2> DEFINE e == p * q - r * b
  <2>7. b = 2 * e /\ e \in Int
    <3>1. ASSUME NEW x \in Int, NEW y \in Int, 2 * x + b = 2 * y
          PROVE  b = 2 * (y - x)
      BY <3>1
    <3> DEFINE x == r * b
               y == p * q
    <3>2. x \in Int /\ y \in Int /\ 2 * x + b = 2 * y
      BY <2>4, <2>5, <2>6
    <3>3. e = y - x
      BY DEF e
    <3> HIDE DEF x, y, e
    <3> QED
      BY <3>1, <3>2, <3>3
  <2> HIDE DEF e
  <2>8. a * e = p * q
    <3>1. a * b = 2 * (a * e) /\ a * e \in Int
      BY <2>7
    <3> QED
      BY <3>1, <2>0, <2>2, <2>5, <2>6
  <2>9. PICK s \in Int : e = p * s
    BY <2>3, <2>7, <2>8, <2>1 DEF P, p
  <2>10. b = (2 * p) * s
    BY <2>7, <2>9, <2>2
  <2> QED
    BY <2>10, <2>2
<1>3. T = Nat
  <2> HIDE DEF T
  <2>1. T \in SUBSET Nat
    BY DEF T
  <2> QED
    BY <1>1, <1>2, <2>1, SetInduction
<1> QED
  BY <1>3

(* Half the product of a number and the next is a natural number.           *)
LEMMA Triangle ==
  ASSUME NEW n \in Nat
  PROVE  /\ (n * (n + 1)) \div 2 \in Nat
         /\ 2 * ((n * (n + 1)) \div 2) = n * (n + 1)
<1>1. PICK m \in Nat : n = 2 * m \/ n = 2 * m + 1
  <2>1. n = 2 * (n \div 2) \/ n = 2 * (n \div 2) + 1
    OBVIOUS
  <2>2. n \div 2 \in Nat
    OBVIOUS
  <2> QED
    BY <2>1, <2>2
<1>2. \E h \in Nat : n * (n + 1) = 2 * h
  <2>1. CASE n = 2 * m
    <3>1. n * (n + 1) = 2 * (m * (n + 1)) /\ m * (n + 1) \in Nat
      BY <2>1
    <3> QED
      BY <3>1
  <2>2. CASE n = 2 * m + 1
    <3>1. n * (n + 1) = 2 * (n * (m + 1)) /\ n * (m + 1) \in Nat
      BY <2>2
    <3> QED
      BY <3>1
  <2> QED
    BY <1>1, <2>1, <2>2
<1>3. PICK h \in Nat : n * (n + 1) = 2 * h
  BY <1>2
<1>4. \A x \in Nat : (2 * x) \div 2 = x
  OBVIOUS
<1> QED
  BY <1>3, <1>4

(* Remainders are below the divisor; equal ones differ by a multiple.       *)
LEMMA Remainders ==
  ASSUME NEW c \in Nat, c >= 1, NEW x \in Nat, NEW y \in Nat
  PROVE  /\ x % c \in 0 .. c - 1
         /\ x % c = y % c => \E q \in Int : y - x = c * q
<1>1. x % c \in 0 .. c - 1
  OBVIOUS
<1>2. x = (c * (x \div c)) + (x % c) /\ x \div c \in Int
  OBVIOUS
<1>3. y = (c * (y \div c)) + (y % c) /\ y \div c \in Int
  OBVIOUS
<1>4. ASSUME x % c = y % c PROVE \E q \in Int : y - x = c * q
  <2> DEFINE u == x \div c
             v == y \div c
             d == x % c
  <2>1. u \in Int /\ v \in Int /\ d \in Int /\ x = c * u + d /\ y = c * v + d
    BY <1>1, <1>2, <1>3, <1>4
  <2> HIDE DEF u, v, d
  <2>2. y - x = c * (v - u) /\ v - u \in Int
    BY <2>1
  <2> QED
    BY <2>2
<1> QED
  BY <1>1, <1>4

-----------------------------------------------------------------------------
(* The probe of a table with c slots.                                       *)
Step(c, hash, n) == (hash + ((n * (n + 1)) \div 2)) % c

(* Two probes of one search, before it has made as many as there are slots, *)
(* visit different slots.                                                   *)
LEMMA ProbesDiffer ==
  ASSUME NEW c \in Capacities, NEW hash \in Nat,
         NEW i \in 0 .. c - 1, NEW j \in 0 .. c - 1, i < j
  PROVE  Step(c, hash, i) # Step(c, hash, j)
<1>1. SUFFICES ASSUME Step(c, hash, i) = Step(c, hash, j) PROVE FALSE
  OBVIOUS
<1>2. PICK k \in Nat : c = Power[k]
  BY CapacityFacts
<1>3. c \in Nat /\ c >= 8
  BY CapacityFacts
<1> DEFINE x == (i * (i + 1)) \div 2
           y == (j * (j + 1)) \div 2
<1>4. x \in Nat /\ y \in Nat /\ 2 * x = i * (i + 1) /\ 2 * y = j * (j + 1)
  BY Triangle
<1>5. (hash + x) % c = (hash + y) % c
  BY <1>1 DEF Step
<1> HIDE DEF x, y
<1>6. PICK q \in Int : (hash + y) - (hash + x) = c * q
  <2>1. hash + x \in Nat /\ hash + y \in Nat /\ c >= 1
    BY <1>3, <1>4
  <2> QED
    BY <1>3, <1>5, <2>1, Remainders
<1> DEFINE a == j - i
           b == j + i + 1
<1>7. a * b = Power[k + 1] * q
  <2>1. a * b = j * (j + 1) - i * (i + 1)
    OBVIOUS
  <2>2. a * b = 2 * (y - x)
    BY <2>1, <1>4
  <2>3. y - x = c * q
    BY <1>4, <1>6, <1>3
  <2>4. Power[k + 1] = 2 * c
    BY <1>2, PowerFacts
  <2>5. 2 * (c * q) = (2 * c) * q
    BY <1>3
  <2> QED
    BY <2>2, <2>3, <2>4, <2>5
<1>8. a \in Int /\ b \in Int /\ 0 < a /\ a < 2 * c /\ 0 < b /\ b < 2 * c /\ a + b = 2 * j + 1
  BY <1>3
<1> HIDE DEF a, b
<1>9. Power[k + 1] = 2 * c /\ k + 1 \in Nat
  BY <1>2, PowerFacts
<1>10. ASSUME NEW z \in Int, 0 < z, z < 2 * c, NEW s \in Int, z = (2 * c) * s PROVE FALSE
  <2>1. CASE s <= 0
    <3>1. c * s <= 0
      BY <2>1, <1>3
    <3> QED
      BY <3>1, <1>10, <1>3
  <2>2. CASE s >= 1
    <3>1. c * s >= c
      BY <2>2, <1>3
    <3> QED
      BY <3>1, <1>10, <1>3
  <2> QED
    BY <2>1, <2>2
<1>11. CASE \E r \in Int : a = 2 * r + 1
  <2>1. \E s \in Int : b = Power[k + 1] * s
    BY <1>7, <1>8, <1>9, <1>11, OddFactor
  <2> QED
    BY <2>1, <1>8, <1>9, <1>10
<1>12. CASE \E r \in Int : b = 2 * r + 1
  <2>1. b * a = Power[k + 1] * q
    BY <1>7, <1>8
  <2>2. \E s \in Int : a = Power[k + 1] * s
    BY <2>1, <1>8, <1>9, <1>12, OddFactor
  <2> QED
    BY <2>2, <1>8, <1>9, <1>10
<1>13. (\E r \in Int : a = 2 * r + 1) \/ (\E r \in Int : b = 2 * r + 1)
  <2>1. PICK m \in Int : a = 2 * m \/ a = 2 * m + 1
    <3>1. a \div 2 \in Int /\ (a = 2 * (a \div 2) \/ a = 2 * (a \div 2) + 1)
      BY <1>8
    <3> QED
      BY <3>1
  <2>2. a = 2 * m => b = 2 * (j - m) + 1 /\ j - m \in Int
    BY <1>8
  <2> QED
    BY <2>1, <2>2
<1> QED
  BY <1>11, <1>12, <1>13

(* So a search visits every slot, whatever the hash.                        *)
THEOREM ProbesCover ==
  ASSUME NEW c \in Capacities, NEW hash \in Nat, NEW i \in 0 .. c - 1
  PROVE  \E n \in 0 .. c - 1 : Step(c, hash, n) = i
<1> DEFINE S == 0 .. c - 1
           f == [n \in S |-> Step(c, hash, n)]
<1>1. c \in Nat /\ c >= 8
  BY CapacityFacts
<1>2. IsFiniteSet(S) /\ Cardinality(S) = c
  BY <1>1, FS_Interval
<1>3. \A n \in S : Step(c, hash, n) \in S
  <2>1. ASSUME NEW n \in S PROVE Step(c, hash, n) \in S
    <3>1. (n * (n + 1)) \div 2 \in Nat
      BY Triangle
    <3> DEFINE z == hash + ((n * (n + 1)) \div 2)
    <3>2. z \in Nat
      BY <3>1
    <3> HIDE DEF z
    <3>3. z % c \in S
      BY <3>2, <1>1, Remainders
    <3> QED
      BY <3>3 DEF Step, z
  <2> QED
    BY <2>1
<1>4. f \in [S -> S]
  BY <1>3
<1>5. \A n, m \in S : f[n] = f[m] => n = m
  <2>1. SUFFICES ASSUME NEW n \in S, NEW m \in S, n # m PROVE f[n] # f[m]
    OBVIOUS
  <2>2. n < m \/ m < n
    BY <2>1, <1>1
  <2> QED
    BY <2>2, ProbesDiffer
<1> HIDE DEF f
<1>6. f \in Injection(S, S)
  BY <1>4, <1>5 DEF Injection, IsInjective
<1>7. f \in Surjection(S, S)
  BY <1>2, <1>6, FS_Injection
<1>8. PICK n \in S : f[n] = i
  BY <1>7 DEF Surjection
<1> QED
  BY <1>8 DEF f

-----------------------------------------------------------------------------
(* The size of a table, and where its probes lie.                           *)
LEMMA TableFacts ==
  ASSUME NEW table \in Tables
  PROVE  \E c \in Capacities :
           /\ c \in Nat /\ c >= 8
           /\ DOMAIN table = 0 .. c - 1
           /\ Cardinality(DOMAIN table) = c
           /\ IsFiniteSet(DOMAIN table)
           /\ table \in [0 .. c - 1 -> Slot]
           /\ \A hash \in Nat : \A n \in DOMAIN table :
                /\ Probe(table, hash, n) = Step(c, hash, n)
                /\ Probe(table, hash, n) \in DOMAIN table
<1>1. PICK c \in Capacities : table \in [0 .. c - 1 -> Slot]
  BY DEF Tables
<1>2. c \in Nat /\ c >= 8
  BY CapacityFacts
<1>3. DOMAIN table = 0 .. c - 1
  BY <1>1
<1>4. IsFiniteSet(0 .. c - 1) /\ Cardinality(0 .. c - 1) = c
  BY <1>2, FS_Interval
<1>5. ASSUME NEW hash \in Nat, NEW n \in DOMAIN table
      PROVE  /\ Probe(table, hash, n) = Step(c, hash, n)
             /\ Probe(table, hash, n) \in DOMAIN table
  <2>1. n \in Nat
    BY <1>3
  <2> DEFINE z == hash + ((n * (n + 1)) \div 2)
  <2>2. z \in Nat
    BY <2>1, Triangle
  <2>3. Probe(table, hash, n) = z % c
    BY <1>3, <1>4 DEF Probe
  <2>4. Step(c, hash, n) = z % c
    BY DEF Step
  <2> HIDE DEF z
  <2>5. z % c \in 0 .. c - 1
    BY <2>2, <1>2, Remainders
  <2> QED
    BY <2>3, <2>4, <2>5, <1>3
<1> QED
  BY <1>1, <1>2, <1>3, <1>4, <1>5

(* The same of a table, without its size.                                   *)
LEMMA InTable ==
  ASSUME NEW table \in Tables
  PROVE  /\ DOMAIN table \in SUBSET Nat
         /\ DOMAIN table # {}
         /\ IsFiniteSet(DOMAIN table)
         /\ \A i \in DOMAIN table : \A j \in 0 .. i : j \in DOMAIN table
         /\ \A i \in DOMAIN table : table[i] \in Slot
         /\ \A hash \in Nat : \A n \in DOMAIN table : Probe(table, hash, n) \in DOMAIN table
<1>1. PICK c \in Capacities :
           /\ c \in Nat /\ c >= 8
           /\ DOMAIN table = 0 .. c - 1
           /\ IsFiniteSet(DOMAIN table)
           /\ table \in [0 .. c - 1 -> Slot]
           /\ \A hash \in Nat : \A n \in DOMAIN table : Probe(table, hash, n) \in DOMAIN table
  BY TableFacts
<1>2. 0 \in DOMAIN table /\ DOMAIN table \in SUBSET Nat
  BY <1>1
<1>3. \A i \in DOMAIN table : \A j \in 0 .. i : j \in DOMAIN table
  BY <1>1
<1>4. \A i \in DOMAIN table : table[i] \in Slot
  BY <1>1
<1> QED
  BY <1>1, <1>2, <1>3, <1>4

(* A search visits every slot of a table.                                   *)
LEMMA SearchVisits ==
  ASSUME NEW table \in Tables, NEW hash \in Nat, NEW i \in DOMAIN table
  PROVE  \E n \in DOMAIN table : Probe(table, hash, n) = i
<1>1. PICK c \in Capacities :
           /\ c \in Nat /\ c >= 8
           /\ DOMAIN table = 0 .. c - 1
           /\ \A h \in Nat : \A n \in DOMAIN table : Probe(table, h, n) = Step(c, h, n)
  BY TableFacts
<1>2. PICK n \in 0 .. c - 1 : Step(c, hash, n) = i
  BY <1>1, ProbesCover
<1> QED
  BY <1>1, <1>2

(* The least of some natural numbers is one of them and below the others.   *)
LEMMA MinFacts ==
  ASSUME NEW T \in SUBSET Nat, T # {}
  PROVE  Min(T) \in T /\ \A y \in T : Min(T) <= y
BY Least DEF Min

(* The slot that growth and insertion take for a hash.                      *)
LEMMA GapFacts ==
  ASSUME NEW table \in Tables, Room(table), NEW hash \in Nat
  PROVE  /\ Gap(table, hash) \in DOMAIN table
         /\ table[Probe(table, hash, Gap(table, hash))] = Null
         /\ Busy(table, hash, Gap(table, hash))
<1> DEFINE G == {n \in DOMAIN table : table[Probe(table, hash, n)] = Null}
<1>1. PICK i \in DOMAIN table : table[i] = Null
  BY InTable DEF Room
<1>2. PICK n \in DOMAIN table : Probe(table, hash, n) = i
  BY SearchVisits
<1>3. G \in SUBSET Nat /\ G # {}
  BY <1>1, <1>2, InTable
<1>4. Min(G) \in G /\ \A m \in G : Min(G) <= m
  <2> HIDE DEF G
  <2> QED
    BY <1>3, MinFacts
<1>5. Gap(table, hash) = Min(G)
  BY DEF Gap
<1>6. ASSUME NEW m \in 0 .. Min(G) - 1 PROVE table[Probe(table, hash, m)] # Null
  <2>1. Min(G) \in Nat
    BY <1>3, <1>4
  <2>2. m < Min(G) /\ m \in 0 .. Min(G)
    BY <2>1
  <2>3. m \in DOMAIN table
    BY <1>4, <2>2, InTable
  <2>4. m \notin G
    BY <1>4, <2>1, <2>2
  <2> QED
    BY <2>3, <2>4
<1> QED
  BY <1>4, <1>5, <1>6 DEF Busy

(* A search for a string ends on a slot that no empty one comes before; it  *)
(* is the slot of a matching atom, or none is alive there and no atom on    *)
(* the way matches.                                                         *)
LEMMA FindFacts ==
  ASSUME NEW table \in Tables, Room(table), AtomMapAssumption,
         NEW str \in Strings, NEW quoted \in BOOLEAN
  PROVE  \E n \in DOMAIN table :
           /\ Find(table, str, quoted) = Probe(table, Hash[str], n)
           /\ Busy(table, Hash[str], n)
           /\ ~ Alive(table[Find(table, str, quoted)]) =>
                \A m \in DOMAIN table :
                  Busy(table, Hash[str], m + 1)
                    => ~ Matches(table[Probe(table, Hash[str], m)], str, quoted)
           /\ Alive(table[Find(table, str, quoted)]) =>
                Matches(table[Find(table, str, quoted)], str, quoted)
<1> DEFINE hash == Hash[str]
           slot(n) == table[Probe(table, hash, n)]
           gap == Gap(table, hash)
           hits == {n \in 0 .. gap : Matches(slot(n), str, quoted)}
           holes == {n \in 0 .. gap : slot(n) = Tombstone}
           n == CASE hits # {} -> Min(hits)
                  [] hits = {} /\ holes # {} -> Min(holes)
                  [] OTHER -> gap
<1>1. hash \in Nat
  BY DEF AtomMapAssumption
<1>2. Find(table, str, quoted) = Probe(table, hash, n)
  BY DEF Find
<1>3. gap \in DOMAIN table /\ gap \in Nat /\ slot(gap) = Null /\ Busy(table, hash, gap)
  BY <1>1, GapFacts, InTable
<1> HIDE DEF gap, hash
<1>4. hits \in SUBSET Nat /\ holes \in SUBSET Nat
  BY <1>3
<1>5. hits # {} => Min(hits) \in hits
  <2> HIDE DEF hits
  <2> QED
    BY <1>4, MinFacts
<1>6. holes # {} => Min(holes) \in holes
  <2> HIDE DEF holes
  <2> QED
    BY <1>4, MinFacts
<1>7. n \in 0 .. gap
  <2>1. hits # {} => Min(hits) \in 0 .. gap
    BY <1>5
  <2>2. holes # {} => Min(holes) \in 0 .. gap
    BY <1>6
  <2>3. gap \in 0 .. gap
    BY <1>3
  <2> HIDE DEF hits, holes
  <2> QED
    BY <2>1, <2>2, <2>3
<1>8. hits # {} => Matches(slot(n), str, quoted)
  <2>1. hits # {} => n = Min(hits)
    <3> HIDE DEF hits, holes
    <3> QED
      OBVIOUS
  <2>2. hits # {} => Matches(slot(Min(hits)), str, quoted)
    BY <1>5
  <2> HIDE DEF n, hits, slot
  <2> QED
    BY <2>1, <2>2
<1>81. hits = {} => ~ Alive(slot(n))
  <2>1. hits = {} => (holes # {} => n = Min(holes)) /\ (holes = {} => n = gap)
    <3> HIDE DEF hits, holes
    <3> QED
      OBVIOUS
  <2>2. holes # {} => slot(Min(holes)) = Tombstone
    BY <1>6
  <2>3. ~ Alive(Tombstone) /\ ~ Alive(Null)
    BY DEF Alive
  <2> HIDE DEF n, hits, holes, slot
  <2> QED
    BY <2>1, <2>2, <2>3, <1>3
<1> HIDE DEF n
<1>9. n \in DOMAIN table
  BY <1>3, <1>7, InTable
<1>10. Busy(table, hash, n)
  BY <1>3, <1>7 DEF Busy
<1>11. ASSUME ~ Alive(slot(n)), NEW m \in DOMAIN table, Busy(table, hash, m + 1)
       PROVE  ~ Matches(slot(m), str, quoted)
  <2>1. hits = {}
    BY <1>8, <1>11 DEF Matches
  <2>2. m \in Nat
    BY InTable
  <2>3. m <= gap
    <3>1. SUFFICES ASSUME gap < m PROVE FALSE
      BY <1>3, <2>2
    <3>2. gap \in 0 .. (m + 1) - 1
      BY <1>3, <2>2, <3>1
    <3> QED
      BY <1>3, <1>11, <3>2 DEF Busy
  <2>4. m \in 0 .. gap
    BY <1>3, <2>2, <2>3
  <2> QED
    BY <2>1, <2>4
<1> QED
  BY <1>2, <1>8, <1>81, <1>9, <1>10, <1>11 DEF hash

-----------------------------------------------------------------------------
Used(table) == {i \in DOMAIN table : table[i] # Null}
Spare(table) == Cardinality(Used(table)) + 1 < Cardinality(DOMAIN table)
Put(table, i, a) == [table EXCEPT ![i] = a]

(* Items are alive, and the marks of a table are not.                       *)
LEMMA AliveFacts ==
  ASSUME AtomMapAssumption
  PROVE  /\ \A a \in Items : Alive(a) /\ a # Null /\ a # Tombstone
         /\ ~ Alive(Null) /\ ~ Alive(Tombstone) /\ Null # Tombstone
         /\ \A s \in Slot : Alive(s) => s \in Items
BY DEF AtomMapAssumption, Alive, Slot

(* An atom put in a slot that none has is in the table, and all others are  *)
(* where they were.                                                         *)
LEMMA PutFacts ==
  ASSUME NEW table \in Tables, NEW i \in DOMAIN table, NEW a \in Items
  PROVE  /\ Put(table, i, a) \in Tables
         /\ DOMAIN Put(table, i, a) = DOMAIN table
         /\ Put(table, i, a)[i] = a
         /\ \A j \in DOMAIN table : j # i => Put(table, i, a)[j] = table[j]
         /\ AtomMapAssumption => Used(Put(table, i, a)) = Used(table) \cup {i}
<1>1. PICK c \in Capacities : table \in [0 .. c - 1 -> Slot]
  BY DEF Tables
<1>2. a \in Slot
  BY DEF Slot
<1>3. Put(table, i, a) \in [0 .. c - 1 -> Slot]
  BY <1>1, <1>2 DEF Put
<1>4. Put(table, i, a) \in Tables
  BY <1>3 DEF Tables
<1>5. DOMAIN Put(table, i, a) = DOMAIN table
  BY DEF Put
<1>6. Put(table, i, a)[i] = a /\ \A j \in DOMAIN table : j # i => Put(table, i, a)[j] = table[j]
  BY DEF Put
<1>7. AtomMapAssumption => Used(Put(table, i, a)) = Used(table) \cup {i}
  <2>1. AtomMapAssumption => a # Null
    BY AliveFacts
  <2> QED
    BY <2>1, <1>5, <1>6 DEF Used
<1> QED
  BY <1>4, <1>5, <1>6, <1>7

(* That makes it one of the atoms which the table holds.                    *)
LEMMA PutHolds ==
  ASSUME AtomMapAssumption,
         NEW table \in Tables, NEW S, S \subseteq Items, Holds(table, S),
         NEW i \in DOMAIN table, ~ Alive(table[i]), NEW a \in Items, a \notin S
  PROVE  Holds(Put(table, i, a), S \cup {a})
<1> DEFINE new == Put(table, i, a)
<1>1. /\ DOMAIN new = DOMAIN table
      /\ new[i] = a
      /\ \A j \in DOMAIN table : j # i => new[j] = table[j]
  BY PutFacts
<1> HIDE DEF new
<1>2. ASSUME NEW b \in S \cup {a} PROVE \E j \in DOMAIN new : new[j] = b
  <2>1. CASE b = a
    BY <2>1, <1>1
  <2>2. CASE b # a
    <3>1. PICK j \in DOMAIN table : table[j] = b
      BY <2>2 DEF Holds
    <3>2. Alive(b)
      BY <2>2, AliveFacts
    <3>3. j # i
      BY <3>1, <3>2
    <3> QED
      BY <3>1, <3>3, <1>1
  <2> QED
    BY <2>1, <2>2
<1>3. ASSUME NEW j \in DOMAIN new, Alive(new[j]) PROVE new[j] \in S \cup {a}
  BY <1>1, <1>3 DEF Holds
<1>4. ASSUME NEW j \in DOMAIN new, NEW k \in DOMAIN new, Alive(new[j]), new[j] = new[k]
      PROVE  j = k
  <2>1. j # i => table[j] \in S /\ new[j] = table[j]
    BY <1>1, <1>4 DEF Holds
  <2>2. k # i => table[k] \in S /\ new[k] = table[k]
    BY <1>1, <1>4 DEF Holds
  <2>3. CASE j = i \/ k = i
    BY <2>1, <2>2, <2>3, <1>1, <1>4
  <2>4. CASE j # i /\ k # i
    BY <2>1, <2>2, <2>4, <1>1, <1>4 DEF Holds
  <2> QED
    BY <2>3, <2>4
<1>5. Holds(new, S \cup {a})
  BY <1>2, <1>3, <1>4 DEF Holds
<1> QED
  BY <1>5 DEF new

(* Who has been reached stays so, as long as no slot becomes empty.         *)
LEMMA StillReached ==
  ASSUME NEW table \in Tables, NEW new, DOMAIN new = DOMAIN table,
         \A j \in DOMAIN table : table[j] # Null => new[j] # Null,
         NEW hash \in Nat, NEW n \in DOMAIN table, Busy(table, hash, n)
  PROVE  Busy(new, hash, n) /\ Probe(new, hash, n) = Probe(table, hash, n)
<1>1. \A m \in DOMAIN table : Probe(new, hash, m) = Probe(table, hash, m)
  BY DEF Probe
<1>2. ASSUME NEW m \in 0 .. n - 1 PROVE new[Probe(new, hash, m)] # Null
  <2>1. n \in Nat
    BY InTable
  <2>2. m \in 0 .. n
    BY <2>1
  <2>3. m \in DOMAIN table
    BY <2>2, InTable
  <2>4. Probe(table, hash, m) \in DOMAIN table
    BY <2>3, InTable
  <2>5. table[Probe(table, hash, m)] # Null
    BY DEF Busy
  <2> QED
    BY <2>3, <2>4, <2>5, <1>1
<1> QED
  BY <1>1, <1>2 DEF Busy

(* So who has been reached is reached still.                                *)
LEMMA StillReaches ==
  ASSUME NEW table \in Tables, NEW new, DOMAIN new = DOMAIN table,
         \A j \in DOMAIN table : table[j] # Null => new[j] # Null,
         NEW hash \in Nat, NEW i, Reached(table, hash, i)
  PROVE  Reached(new, hash, i)
<1>1. PICK n \in DOMAIN table : Probe(table, hash, n) = i /\ Busy(table, hash, n)
  BY DEF Reached
<1>2. Busy(new, hash, n) /\ Probe(new, hash, n) = Probe(table, hash, n)
  BY <1>1, StillReached
<1> QED
  BY <1>1, <1>2 DEF Reached

(* A table has as many atoms as slots in which there is one.                *)
LEMMA AliveCount ==
  ASSUME NEW table \in Tables, NEW S, Holds(table, S), AtomMapAssumption, S \subseteq Items
  PROVE  LET A == {i \in DOMAIN table : Alive(table[i])}
         IN  IsFiniteSet(A) /\ IsFiniteSet(S) /\ Cardinality(A) = Cardinality(S)
<1> DEFINE A == {i \in DOMAIN table : Alive(table[i])}
           f == [i \in A |-> table[i]]
<1>1. IsFiniteSet(A)
  BY InTable, FS_Subset
<1>2. f \in [A -> S]
  BY DEF Holds
<1>3. \A x, y \in A : f[x] = f[y] => x = y
  BY DEF Holds
<1>4. \A a \in S : \E i \in A : f[i] = a
  <2>1. ASSUME NEW a \in S PROVE \E i \in A : f[i] = a
    <3>1. PICK i \in DOMAIN table : table[i] = a
      BY DEF Holds
    <3>2. Alive(a)
      BY AliveFacts
    <3> QED
      BY <3>1, <3>2
  <2> QED
    BY <2>1
<1>5. DOMAIN f = A
  OBVIOUS
<1> HIDE DEF f, A
<1>6. f \in Bijection(A, S)
  BY <1>2, <1>3, <1>4, <1>5 DEF Bijection, Injection, Surjection, IsInjective
<1>7. ExistsBijection(A, S)
  BY <1>6 DEF ExistsBijection
<1>8. IsFiniteSet(S) /\ Cardinality(A) = Cardinality(S)
  BY <1>1, <1>7, FS_Bijection
<1> QED
  BY <1>1, <1>8 DEF A

(* A table with a slot to spare has an empty one, and has one still after   *)
(* an insertion.                                                            *)
LEMMA SpareFacts ==
  ASSUME NEW table \in Tables, Spare(table), AtomMapAssumption,
         NEW i \in DOMAIN table, NEW a \in Items
  PROVE  Room(table) /\ Room(Put(table, i, a))
<1>1. IsFiniteSet(DOMAIN table)
  BY InTable
<1>2. IsFiniteSet(Used(table)) /\ Cardinality(Used(table)) \in Nat
  BY <1>1, FS_Subset, FS_CardinalityType DEF Used
<1>3. Cardinality(DOMAIN table) \in Nat
  BY <1>1, FS_CardinalityType
<1>4. Used(table) # DOMAIN table
  BY <1>2, <1>3 DEF Spare
<1>5. Cardinality(Used(table) \cup {i}) <= Cardinality(Used(table)) + 1
  <2> DEFINE u == Cardinality(Used(table))
             v == Cardinality(Used(table) \cup {i})
  <2>1. v = (IF i \in Used(table) THEN u ELSE u + 1) /\ u \in Nat
    BY <1>2, FS_AddElement, Zenon
  <2>2. v <= u + 1
    <3> HIDE DEF u, v
    <3> QED
      BY <2>1
  <2> QED
    BY <2>2
<1>6. IsFiniteSet(Used(table) \cup {i})
  BY <1>2, FS_AddElement
<1>7. Cardinality(Used(table) \cup {i}) \in Nat
  BY <1>6, FS_CardinalityType
<1>8. Used(table) \cup {i} # DOMAIN table
  <2> DEFINE u == Cardinality(Used(table))
             v == Cardinality(Used(table) \cup {i})
             c == Cardinality(DOMAIN table)
  <2>1. u + 1 < c /\ v <= u + 1 /\ u \in Nat /\ v \in Nat /\ c \in Nat
    BY <1>2, <1>3, <1>5, <1>7 DEF Spare
  <2>2. v # c
    <3> HIDE DEF u, v, c
    <3> QED
      BY <2>1
  <2> QED
    BY <2>2
<1>9. Room(table)
  BY <1>4 DEF Room, Used
<1>10. Used(Put(table, i, a)) = Used(table) \cup {i} /\ DOMAIN Put(table, i, a) = DOMAIN table
  BY PutFacts
<1>11. Room(Put(table, i, a))
  BY <1>8, <1>10 DEF Room, Used
<1> QED
  BY <1>9, <1>11

-----------------------------------------------------------------------------
(* Growth: the slots of the old table are moved one after the other.        *)
Onward(table, n) == IF Alive(map[n]) THEN Place(table, map[n]) ELSE table
Moves(g, n) ==
  g = [k \in 0 .. n |-> IF k = 0 THEN Empty(2 * capacity) ELSE Onward(g[k - 1], k - 1)]

(* Moved satisfies its equation.                                            *)
LEMMA MovedEquation ==
  ASSUME capacity \in Nat
  PROVE  /\ Moved[0] = Empty(2 * capacity)
         /\ \A n \in Nat : n < capacity => Moved[n + 1] = Onward(Moved[n], n)
<1> DEFINE T == {m \in Nat : \E g : Moves(g, m)}
<1>1. 0 \in T
  <2>1. Moves([k \in 0 .. 0 |-> Empty(2 * capacity)], 0)
    <3>1. \A k \in 0 .. 0 : k = 0
      OBVIOUS
    <3> QED
      BY <3>1 DEF Moves
  <2> QED
    BY <2>1
<1>2. ASSUME NEW m \in T PROVE m + 1 \in T
  <2>1. PICK g : Moves(g, m)
    OBVIOUS
  <2> DEFINE next(f, k) == IF k = 0 THEN Empty(2 * capacity) ELSE Onward(f[k - 1], k - 1)
             h == [k \in 0 .. m + 1 |-> IF k = m + 1 THEN Onward(g[m], m) ELSE g[k]]
  <2>2. ASSUME NEW k \in 0 .. m + 1 PROVE h[k] = next(h, k)
    <3>1. CASE k = m + 1
      <4>1. m \in 0 .. m + 1 /\ m # m + 1 /\ k # 0 /\ k - 1 = m
        BY <3>1
      <4>2. h[m] = g[m]
        BY <4>1
      <4>3. h[k] = Onward(g[m], m)
        BY <3>1
      <4> HIDE DEF h
      <4> QED
        BY <4>1, <4>2, <4>3
    <3>2. CASE k # m + 1
      <4>1. k \in 0 .. m /\ (k # 0 => k - 1 \in 0 .. m /\ k - 1 # m + 1 /\ k - 1 \in 0 .. m + 1)
        BY <3>2
      <4>2. g[k] = next(g, k)
        BY <4>1, <2>1 DEF Moves
      <4>3. h[k] = g[k]
        BY <3>2
      <4>4. k # 0 => h[k - 1] = g[k - 1]
        BY <4>1
      <4> HIDE DEF h
      <4> QED
        BY <4>2, <4>3, <4>4
    <3> QED
      BY <3>1, <3>2
  <2>3. h = [k \in 0 .. m + 1 |-> h[k]]
    OBVIOUS
  <2> HIDE DEF h
  <2>4. h = [k \in 0 .. m + 1 |-> next(h, k)]
    BY <2>2, <2>3
  <2>5. Moves(h, m + 1)
    BY <2>4 DEF Moves
  <2> QED
    BY <2>5
<1>3. T = Nat
  <2> HIDE DEF T
  <2>1. T \in SUBSET Nat
    BY DEF T
  <2> QED
    BY <1>1, <1>2, <2>1, SetInduction
<1>4. \E g : Moves(g, capacity)
  BY <1>3
<1>5. Moved = CHOOSE g : Moves(g, capacity)
  BY Zenon DEF Moved, Moves, Onward
<1>6. Moves(Moved, capacity)
  BY <1>4, <1>5
<1>7. \A k \in 0 .. capacity :
         Moved[k] = IF k = 0 THEN Empty(2 * capacity) ELSE Onward(Moved[k - 1], k - 1)
  BY <1>6 DEF Moves
<1>8. Moved[0] = Empty(2 * capacity)
  BY <1>7
<1>9. ASSUME NEW n \in Nat, n < capacity PROVE Moved[n + 1] = Onward(Moved[n], n)
  <2>1. n + 1 \in 0 .. capacity /\ n + 1 # 0 /\ (n + 1) - 1 = n
    BY <1>9
  <2> QED
    BY <1>7, <2>1
<1> QED
  BY <1>8, <1>9

(* An atom put on the probe sequence of its hash, behind used slots only,   *)
(* is reached, and so is who was.                                           *)
LEMMA PutReaches ==
  ASSUME AtomMapAssumption,
         NEW table \in Tables, NEW S, Holds(table, S),
         NEW i \in DOMAIN table, ~ Alive(table[i]), NEW a \in Items, a \notin S,
         NEW as, NEW Q, \A b \in Q : as[b].hash \in Nat,
         Reaches(table, as, Q \ {a}),
         a \in Q => Reached(table, as[a].hash, i)
  PROVE  Reaches(Put(table, i, a), as, Q)
<1> DEFINE new == Put(table, i, a)
<1>1. /\ DOMAIN new = DOMAIN table
      /\ new[i] = a
      /\ \A j \in DOMAIN table : j # i => new[j] = table[j]
  BY PutFacts
<1>2. \A j \in DOMAIN table : table[j] # Null => new[j] # Null
  BY <1>1, AliveFacts
<1> HIDE DEF new
<1>3. ASSUME NEW j \in DOMAIN new, new[j] \in Q PROVE Reached(new, as[new[j]].hash, j)
  <2>1. as[new[j]].hash \in Nat
    BY <1>3
  <2>2. Reached(table, as[new[j]].hash, j)
    <3>1. CASE j = i
      BY <3>1, <1>1, <1>3
    <3>2. CASE j # i
      <4>1. new[j] = table[j]
        BY <3>2, <1>1
      <4>2. table[j] # a
        BY <1>1, AliveFacts DEF Holds
      <4>3. table[j] \in Q \ {a}
        BY <4>1, <4>2, <1>3
      <4>4. Reached(table, as[table[j]].hash, j)
        BY <4>3, <1>1 DEF Reaches
      <4> QED
        BY <4>1, <4>4
    <3> QED
      BY <3>1, <3>2
  <2> DEFINE hash == as[new[j]].hash
  <2> HIDE DEF hash
  <2>3. hash \in Nat /\ Reached(table, hash, j)
    BY <2>1, <2>2 DEF hash
  <2>4. Reached(new, hash, j)
    BY <2>3, <1>1, <1>2, StillReaches
  <2> QED
    BY <2>4 DEF hash
<1>4. Reaches(new, as, Q)
  BY <1>3 DEF Reaches
<1> QED
  BY <1>4 DEF new

(* The atoms in the first n slots of the map.                               *)
Before(n) == {a \in DOMAIN atoms : \E i \in 0 .. n - 1 : map[i] = a}

(* After n slots the new table has these atoms, all of them reached, and no *)
(* more slots are in use than n.                                            *)
MoveOK(n) ==
  /\ Moved[n] \in Tables /\ Cardinality(DOMAIN Moved[n]) = 2 * capacity
  /\ Tombs(Moved[n]) = {}
  /\ Holds(Moved[n], Before(n))
  /\ Reaches(Moved[n], atoms, Before(n))
  /\ Cardinality(Used(Moved[n])) <= n

(* An empty table is right for no atoms.                                    *)
LEMMA EmptyFacts ==
  ASSUME NEW c \in Capacities, AtomMapAssumption
  PROVE  /\ Empty(c) \in Tables /\ Cardinality(DOMAIN Empty(c)) = c
         /\ Tombs(Empty(c)) = {} /\ Used(Empty(c)) = {}
         /\ Holds(Empty(c), {})
         /\ \A as : Reaches(Empty(c), as, {})
         /\ Cardinality(Used(Empty(c))) = 0
<1>1. Null \in Slot /\ ~ Alive(Null) /\ Null # Tombstone
  BY AliveFacts DEF Slot
<1>2. DOMAIN Empty(c) = 0 .. c - 1 /\ \A i \in 0 .. c - 1 : Empty(c)[i] = Null
  BY DEF Empty
<1>3. Empty(c) \in [0 .. c - 1 -> Slot]
  BY <1>1 DEF Empty
<1>4. Empty(c) \in Tables
  BY <1>3 DEF Tables
<1>5. Cardinality(0 .. c - 1) = c
  <2>1. c \in Nat /\ c >= 8
    BY CapacityFacts
  <2> QED
    BY <2>1, FS_Interval
<1>6. Tombs(Empty(c)) = {} /\ Used(Empty(c)) = {}
  BY <1>1, <1>2 DEF Tombs, Used
<1>7. Holds(Empty(c), {})
  BY <1>1, <1>2 DEF Holds
<1>8. \A as : Reaches(Empty(c), as, {})
  BY DEF Reaches
<1> QED
  BY <1>2, <1>4, <1>5, <1>6, <1>7, <1>8, FS_EmptySet

(* One slot is moved.                                                       *)
LEMMA MovesOne ==
  ASSUME AtomMapAssumption, TypeOK, map \in Tables, Holds(map, DOMAIN atoms),
         NEW n \in Nat, n < capacity, MoveOK(n)
  PROVE  MoveOK(n + 1)
<1> DEFINE table == Moved[n]
           c == capacity
<1>1. c \in Nat /\ c >= 8 /\ DOMAIN map = 0 .. c - 1 /\ n < c
  BY TableFacts DEF capacity
<1>2. n \in DOMAIN map
  BY <1>1
<1>3. Moved[n + 1] = Onward(table, n)
  BY <1>1, MovedEquation
<1>4. /\ table \in Tables /\ Cardinality(DOMAIN table) = 2 * c
      /\ Tombs(table) = {}
      /\ Holds(table, Before(n))
      /\ Reaches(table, atoms, Before(n))
      /\ Cardinality(Used(table)) <= n
  BY DEF MoveOK
<1>5. DOMAIN atoms \subseteq Items /\ \A a \in DOMAIN atoms : atoms[a].hash \in Nat
  BY DEF TypeOK, Record
<1>6. IsFiniteSet(Used(table)) /\ Cardinality(Used(table)) \in Nat
  BY <1>4, InTable, FS_Subset, FS_CardinalityType DEF Used
<1>7. \A i \in 0 .. (n + 1) - 1 : i = n \/ i \in 0 .. n - 1
  OBVIOUS
<1>8. n \in 0 .. (n + 1) - 1 /\ 0 .. n - 1 \subseteq 0 .. (n + 1) - 1
  OBVIOUS
<1> HIDE DEF table, c
<1>9. CASE ~ Alive(map[n])
  <2>1. Before(n + 1) = Before(n)
    <3>1. \A a \in DOMAIN atoms : map[n] # a
      BY <1>9, <1>5, AliveFacts
    <3> QED
      BY <3>1, <1>7, <1>8 DEF Before
  <2>2. Moved[n + 1] = table
    BY <1>3, <1>9 DEF Onward
  <2>3. Cardinality(Used(table)) <= n + 1
    BY <1>4, <1>6
  <2> QED
    BY <2>1, <2>2, <2>3, <1>4 DEF MoveOK, c
<1>10. CASE Alive(map[n])
  <2> DEFINE a == map[n]
             hash == atoms[a].hash
             gap == Gap(table, hash)
             p == Probe(table, hash, gap)
  <2>1. a \in DOMAIN atoms /\ a \in Items /\ hash \in Nat
    BY <1>2, <1>5, <1>10 DEF Holds
  <2>2. a \notin Before(n)
    <3>1. SUFFICES ASSUME NEW i \in 0 .. n - 1, map[i] = a PROVE FALSE
      BY DEF Before
    <3>2. i \in DOMAIN map /\ i # n
      BY <1>1, <1>2
    <3> QED
      BY <3>1, <3>2, <1>2, <1>10 DEF Holds
  <2>3. Before(n + 1) = Before(n) \cup {a}
    BY <2>1, <1>7, <1>8 DEF Before
  <2>4. Room(table)
    <3> DEFINE u == Cardinality(Used(table))
               v == Cardinality(DOMAIN table)
    <3>1. u <= n /\ v = 2 * c /\ u \in Nat
      BY <1>4, <1>6
    <3>2. u # v
      <4> HIDE DEF u, v
      <4> QED
        BY <3>1, <1>1
    <3>3. Used(table) # DOMAIN table
      BY <3>2
    <3> QED
      BY <3>3 DEF Room, Used
  <2>5. gap \in DOMAIN table /\ table[p] = Null /\ Busy(table, hash, gap)
    BY <2>1, <2>4, <1>4, GapFacts
  <2>6. p \in DOMAIN table
    BY <2>1, <2>5, <1>4, InTable
  <2>7. ~ Alive(table[p])
    BY <2>5, AliveFacts
  <2>8. Moved[n + 1] = Put(table, p, a)
    BY <1>3, <1>10 DEF Onward, Place, Put
  <2>9. Reached(table, hash, p)
    BY <2>5 DEF Reached
  <2>10. Before(n) \subseteq Items /\ Before(n) \subseteq DOMAIN atoms
    BY <1>5 DEF Before
  <2> HIDE DEF gap, p
  <2>11. Holds(Put(table, p, a), Before(n) \cup {a})
    BY <2>1, <2>2, <2>6, <2>7, <2>10, <1>4, PutHolds
  <2>12. Reaches(Put(table, p, a), atoms, Before(n) \cup {a})
    <3> DEFINE Q == Before(n) \cup {a}
    <3>1. Q \ {a} = Before(n)
      BY <2>2
    <3>2. \A b \in Q : atoms[b].hash \in Nat
      BY <2>1, <2>10, <1>5
    <3>3. Reaches(table, atoms, Q \ {a})
      BY <3>1, <1>4
    <3> HIDE DEF Q, a, hash
    <3>4. Reached(table, atoms[a].hash, p)
      BY <2>9 DEF hash
    <3>5. Reaches(Put(table, p, a), atoms, Q)
      BY <3>2, <3>3, <3>4, <2>1, <2>2, <2>6, <2>7, <1>4, PutReaches
    <3> QED
      BY <3>5 DEF Q
  <2>13. /\ Put(table, p, a) \in Tables
         /\ DOMAIN Put(table, p, a) = DOMAIN table
         /\ Put(table, p, a)[p] = a
         /\ \A j \in DOMAIN table : j # p => Put(table, p, a)[j] = table[j]
         /\ Used(Put(table, p, a)) = Used(table) \cup {p}
    BY <2>1, <2>6, <1>4, PutFacts
  <2>14. Tombs(Put(table, p, a)) = {}
    BY <2>1, <2>13, <1>4, AliveFacts DEF Tombs
  <2>15. Cardinality(Used(table) \cup {p}) <= n + 1
    <3> DEFINE u == Cardinality(Used(table))
               v == Cardinality(Used(table) \cup {p})
    <3>1. v = (IF p \in Used(table) THEN u ELSE u + 1) /\ u \in Nat /\ u <= n
      BY <1>4, <1>6, FS_AddElement, Zenon
    <3>2. v <= n + 1
      <4> HIDE DEF u, v
      <4> QED
        BY <3>1
    <3> QED
      BY <3>2
  <2> HIDE DEF a
  <2> QED
    BY <2>3, <2>8, <2>11, <2>12, <2>13, <2>14, <2>15, <1>4 DEF MoveOK, c
<1> QED
  BY <1>9, <1>10

(* So growth makes a table with all atoms, each where its hash finds it.    *)
LEMMA RehashedFacts ==
  ASSUME AtomMapAssumption, TypeOK, map \in Tables, Holds(map, DOMAIN atoms)
  PROVE  /\ Rehashed \in Tables
         /\ Tombs(Rehashed) = {}
         /\ Holds(Rehashed, DOMAIN atoms)
         /\ Reaches(Rehashed, atoms, DOMAIN atoms)
         /\ Spare(Rehashed)
<1>1. /\ capacity \in Nat /\ capacity >= 8 /\ DOMAIN map = 0 .. capacity - 1
      /\ capacity \in Capacities
  BY TableFacts DEF capacity
<1> DEFINE T == {n \in Nat : n <= capacity => MoveOK(n)}
<1>2. 0 \in T
  <2>1. Moved[0] = Empty(2 * capacity)
    BY <1>1, MovedEquation
  <2>2. 2 * capacity \in Capacities
    BY <1>1, CapacityFacts
  <2>3. Before(0) = {}
    BY DEF Before
  <2> DEFINE c == 2 * capacity
  <2> HIDE DEF c
  <2>4. /\ Empty(c) \in Tables /\ Cardinality(DOMAIN Empty(c)) = c
        /\ Tombs(Empty(c)) = {}
        /\ Holds(Empty(c), {})
        /\ Reaches(Empty(c), atoms, {})
        /\ Cardinality(Used(Empty(c))) = 0
    BY <2>2, EmptyFacts DEF c
  <2>5. MoveOK(0)
    <3> DEFINE table == Moved[0]
    <3>1. table = Empty(c)
      BY <2>1 DEF c
    <3>2. Cardinality(Used(table)) <= 0
      <4> DEFINE u == Cardinality(Used(table))
      <4>1. u = 0
        BY <3>1, <2>4
      <4> HIDE DEF u
      <4>2. u <= 0
        BY <4>1
      <4> QED
        BY <4>2 DEF u
    <3>3. /\ table \in Tables /\ Cardinality(DOMAIN table) = c
          /\ Tombs(table) = {}
          /\ Holds(table, Before(0))
          /\ Reaches(table, atoms, Before(0))
      BY <2>3, <2>4, <3>1, Zenon
    <3> QED
      BY <3>2, <3>3 DEF MoveOK, c
  <2> QED
    BY <2>5
<1>3. ASSUME NEW n \in T PROVE n + 1 \in T
  <2>1. SUFFICES ASSUME n + 1 <= capacity PROVE MoveOK(n + 1)
    OBVIOUS
  <2>2. n \in Nat /\ n < capacity
    BY <2>1, <1>1
  <2>3. MoveOK(n)
    BY <2>2, <1>1
  <2> QED
    BY <2>2, <2>3, MovesOne
<1>4. T = Nat
  <2> HIDE DEF T
  <2>1. T \in SUBSET Nat
    BY DEF T
  <2> QED
    BY <1>2, <1>3, <2>1, SetInduction
<1>5. MoveOK(capacity)
  BY <1>1, <1>4
<1>6. Before(capacity) = DOMAIN atoms
  BY <1>1 DEF Before, Holds
<1>7. Rehashed = Moved[capacity]
  BY DEF Rehashed
<1>8. Spare(Rehashed)
  <2>1. /\ Cardinality(Used(Rehashed)) <= capacity
        /\ Cardinality(DOMAIN Rehashed) = 2 * capacity
        /\ Rehashed \in Tables
    BY <1>5, <1>7 DEF MoveOK
  <2>2. Cardinality(Used(Rehashed)) \in Nat
    BY <2>1, InTable, FS_Subset, FS_CardinalityType DEF Used
  <2> DEFINE u == Cardinality(Used(Rehashed))
             v == Cardinality(DOMAIN Rehashed)
             c == capacity
  <2>3. u <= c /\ v = 2 * c /\ u \in Nat /\ c \in Nat /\ c >= 8
    BY <1>1, <2>1, <2>2
  <2>4. u + 1 < v
    <3> HIDE DEF u, v, c
    <3> QED
      BY <2>3
  <2> QED
    BY <2>4 DEF Spare
<1> QED
  BY <1>5, <1>6, <1>7, <1>8 DEF MoveOK

-----------------------------------------------------------------------------
(* The table that an insertion works on has the same atoms, an empty slot   *)
(* to spare, and no more tombstones than are counted.                       *)
LEMMA RoomyFacts ==
  ASSUME AtomMapAssumption, IndInv
  PROVE  /\ Roomy \in Tables
         /\ Holds(Roomy, DOMAIN atoms)
         /\ Reaches(Roomy, atoms, Findable(atoms))
         /\ Spare(Roomy)
         /\ TombstonesLeft \in Nat
         /\ Cardinality(Tombs(Roomy)) <= TombstonesLeft
<1>1. /\ TypeOK
      /\ Holds(map, DOMAIN atoms) /\ Indexed(map, atoms)
      /\ Reaches(map, atoms, Findable(atoms))
      /\ size = Cardinality(DOMAIN atoms)
      /\ Cardinality(Tombs(map)) <= tombstones
  BY DEF IndInv, Fits
<1>2. DOMAIN atoms \subseteq Items /\ size \in Nat /\ tombstones \in Nat
  BY <1>1 DEF TypeOK
<1>3. DOMAIN map = {} \/ map \in Tables
  BY <1>1 DEF TypeOK
<1>4. DOMAIN map = {} => capacity = 0
  BY FS_EmptySet DEF capacity
<1>5. map \in Tables => capacity \in Nat /\ capacity >= 8
  BY TableFacts DEF capacity
<1>6. Findable(atoms) \subseteq DOMAIN atoms
  BY DEF Findable
<1>7. CASE capacity = 0
  <2>0. DOMAIN map = {}
    BY <1>3, <1>5, <1>7
  <2>1. DOMAIN atoms = {}
    BY <1>1, <2>0 DEF Indexed
  <2>2. Findable(atoms) = {}
    BY <2>1, <1>6
  <2>3. Initial \in Capacities
    BY DEF AtomMapAssumption, Capacities
  <2>4. Roomy = Empty(Initial) /\ TombstonesLeft = 0
    BY <1>7 DEF Roomy, TombstonesLeft
  <2> DEFINE c == Initial
  <2> HIDE DEF c
  <2>5. /\ Empty(c) \in Tables /\ Cardinality(DOMAIN Empty(c)) = c
        /\ Tombs(Empty(c)) = {}
        /\ Holds(Empty(c), {})
        /\ Reaches(Empty(c), atoms, {})
        /\ Cardinality(Used(Empty(c))) = 0
        /\ c \in Nat /\ c >= 8
    BY <2>3, EmptyFacts, CapacityFacts DEF c
  <2>6. Spare(Empty(c))
    BY <2>5 DEF Spare
  <2>7. Cardinality(Tombs(Empty(c))) = 0
    BY <2>5, FS_EmptySet
  <2> QED
    BY <2>1, <2>2, <2>4, <2>5, <2>6, <2>7 DEF c
<1>8. CASE capacity # 0 /\ MustGrow
  <2>1. map \in Tables
    BY <1>3, <1>4, <1>8
  <2>2. Roomy = Rehashed /\ TombstonesLeft = 0
    BY <1>8 DEF Roomy, TombstonesLeft
  <2>3. /\ Rehashed \in Tables
        /\ Tombs(Rehashed) = {}
        /\ Holds(Rehashed, DOMAIN atoms)
        /\ Reaches(Rehashed, atoms, DOMAIN atoms)
        /\ Spare(Rehashed)
    BY <1>1, <2>1, RehashedFacts
  <2>4. Cardinality(Tombs(Rehashed)) = 0
    BY <2>3, FS_EmptySet
  <2>5. Reaches(Rehashed, atoms, Findable(atoms))
    BY <2>3, <1>6 DEF Reaches
  <2> QED
    BY <2>2, <2>3, <2>4, <2>5
<1>9. CASE capacity # 0 /\ ~ MustGrow
  <2>1. map \in Tables
    BY <1>3, <1>4, <1>9
  <2>2. Roomy = map /\ TombstonesLeft = tombstones
    BY <1>9 DEF Roomy, TombstonesLeft
  <2> DEFINE A == {i \in DOMAIN map : Alive(map[i])}
  <2>3. IsFiniteSet(A) /\ Cardinality(A) = size
    BY <1>1, <1>2, <2>1, AliveCount
  <2>4. IsFiniteSet(Tombs(map)) /\ Cardinality(Tombs(map)) \in Nat
    BY <2>1, InTable, FS_Subset, FS_CardinalityType DEF Tombs
  <2>5. Used(map) = A \cup Tombs(map)
    BY AliveFacts DEF Used, Tombs, Alive
  <2>6. A \cap Tombs(map) = {}
    BY AliveFacts DEF Tombs
  <2> HIDE DEF A
  <2>7. Cardinality(A \cap Tombs(map)) = 0
    BY <2>6, FS_EmptySet
  <2>8. Cardinality(A \cup Tombs(map)) =
          Cardinality(A) + Cardinality(Tombs(map)) - Cardinality(A \cap Tombs(map))
    BY <2>3, <2>4, FS_Union
  <2>9. Cardinality(Used(map)) = size + Cardinality(Tombs(map))
    BY <2>3, <2>4, <2>5, <2>7, <2>8, <1>2
  <2>10. Spare(map)
    <3> DEFINE u == Cardinality(Used(map))
               k == Cardinality(Tombs(map))
               c == capacity
    <3>1. /\ u = size + k /\ k \in Nat /\ k <= tombstones
          /\ c \in Nat /\ c >= 8
          /\ ~ ((size + tombstones) * 4 > c * 3)
      BY <1>1, <1>5, <1>9, <2>1, <2>4, <2>9 DEF MustGrow
    <3>2. u + 1 < c
      <4> HIDE DEF u, k, c
      <4> QED
        BY <3>1, <1>2
    <3> QED
      BY <3>2 DEF Spare, capacity
  <2> QED
    BY <2>1, <2>2, <2>10, <1>1, <1>2
<1> QED
  BY <1>7, <1>8, <1>9

(* An atom after growth: only the slot that it knows has changed.           *)
LEMMA ReindexedFacts ==
  ASSUME TypeOK, NEW table \in Tables, Holds(table, DOMAIN atoms)
  PROVE  LET as == Reindexed(table)
         IN  /\ DOMAIN as = DOMAIN atoms
             /\ as \in [DOMAIN atoms -> Record]
             /\ \A a \in DOMAIN atoms :
                  /\ as[a].text = atoms[a].text
                  /\ as[a].quoted = atoms[a].quoted
                  /\ as[a].hash = atoms[a].hash
             /\ Indexed(table, as)
<1> DEFINE as == Reindexed(table)
           at(a) == CHOOSE i \in DOMAIN table : table[i] = a
<1>1. as = [a \in DOMAIN atoms |-> [atoms[a] EXCEPT !.index = at(a)]]
  BY DEF Reindexed
<1>2. \A a \in DOMAIN atoms : at(a) \in DOMAIN table /\ table[at(a)] = a
  BY DEF Holds
<1> HIDE DEF as, at
<1>3. DOMAIN as = DOMAIN atoms
  BY <1>1
<1>4. ASSUME NEW a \in DOMAIN atoms
      PROVE  /\ as[a] \in Record
             /\ as[a].text = atoms[a].text
             /\ as[a].quoted = atoms[a].quoted
             /\ as[a].hash = atoms[a].hash
             /\ as[a].index = at(a)
  <2>1. atoms[a] \in Record
    BY DEF TypeOK
  <2>2. at(a) \in Nat
    BY <1>2, InTable
  <2>3. as[a] = [atoms[a] EXCEPT !.index = at(a)]
    BY <1>1
  <2> DEFINE r == atoms[a]
             i == at(a)
  <2>4. r \in Record /\ i \in Nat /\ as[a] = [r EXCEPT !.index = i]
    BY <2>1, <2>2, <2>3
  <2> HIDE DEF r, i
  <2>5. /\ as[a] \in Record /\ as[a].text = r.text /\ as[a].quoted = r.quoted
        /\ as[a].hash = r.hash /\ as[a].index = i
    BY <2>4 DEF Record
  <2> QED
    BY <2>5 DEF r, i
<1>5. as \in [DOMAIN atoms -> Record]
  BY <1>1, <1>4
<1>6. Indexed(table, as)
  BY <1>2, <1>3, <1>4 DEF Indexed
<1> QED
  BY <1>3, <1>4, <1>5, <1>6 DEF as

(* Texts, flags and hashes say which atoms can be found and which differ.   *)
SameAtoms(as, bs) ==
  /\ DOMAIN as = DOMAIN bs
  /\ \A a \in DOMAIN as :
       as[a].text = bs[a].text /\ as[a].quoted = bs[a].quoted /\ as[a].hash = bs[a].hash

(* Nothing else matters for what is said of the atoms.                      *)
LEMMA SameFacts ==
  ASSUME NEW as, NEW bs, SameAtoms(as, bs)
  PROVE  /\ Findable(as) = Findable(bs)
         /\ Hashed(bs) => Hashed(as)
         /\ Distinct(bs) => Distinct(as)
         /\ \A table : \A S \in SUBSET DOMAIN as : Reaches(table, bs, S) => Reaches(table, as, S)
<1>1. Findable(as) = Findable(bs)
  BY DEF SameAtoms, Findable
<1>2. Hashed(bs) => Hashed(as)
  BY DEF SameAtoms, Hashed
<1>3. Distinct(bs) => Distinct(as)
  BY <1>1 DEF SameAtoms, Distinct, Findable
<1>4. \A table : \A S \in SUBSET DOMAIN as : Reaches(table, bs, S) => Reaches(table, as, S)
  BY DEF SameAtoms, Reaches
<1> QED
  BY <1>1, <1>2, <1>3, <1>4

(* The table for an insertion fits the atoms and the counters.              *)
LEMMA RoomyFits ==
  ASSUME AtomMapAssumption, IndInv
  PROVE  /\ Fits(Roomy, Reindexed(Roomy), size, TombstonesLeft)
         /\ DOMAIN Reindexed(Roomy) = DOMAIN atoms
         /\ Reindexed(Roomy) \in [DOMAIN atoms -> Record]
         /\ SameAtoms(Reindexed(Roomy), atoms)
<1> DEFINE table == Roomy
           as == Reindexed(Roomy)
<1>1. TypeOK /\ Hashed(atoms) /\ Distinct(atoms) /\ size = Cardinality(DOMAIN atoms)
  BY DEF IndInv, Fits
<1>2. /\ table \in Tables
      /\ Holds(table, DOMAIN atoms)
      /\ Reaches(table, atoms, Findable(atoms))
      /\ Spare(table)
      /\ Cardinality(Tombs(table)) <= TombstonesLeft
  BY RoomyFacts
<1>3. /\ DOMAIN as = DOMAIN atoms
      /\ as \in [DOMAIN atoms -> Record]
      /\ \A a \in DOMAIN atoms :
           as[a].text = atoms[a].text /\ as[a].quoted = atoms[a].quoted /\ as[a].hash = atoms[a].hash
      /\ Indexed(table, as)
  BY <1>1, <1>2, ReindexedFacts
<1> HIDE DEF table, as
<1>4. SameAtoms(as, atoms)
  BY <1>3 DEF SameAtoms
<1>5. Findable(as) = Findable(atoms) /\ Hashed(as) /\ Distinct(as)
  BY <1>1, <1>4, SameFacts
<1>6. Reaches(table, as, Findable(as))
  <2>1. Findable(atoms) \in SUBSET DOMAIN as
    BY <1>3 DEF Findable
  <2> QED
    BY <2>1, <1>2, <1>4, <1>5, SameFacts
<1>7. Room(table)
  <2>1. IsFiniteSet(DOMAIN table) /\ IsFiniteSet(Used(table))
    BY <1>2, InTable, FS_Subset DEF Used
  <2>2. Cardinality(Used(table)) \in Nat /\ Cardinality(DOMAIN table) \in Nat
    BY <2>1, FS_CardinalityType
  <2>3. Used(table) # DOMAIN table
    BY <2>2, <1>2 DEF Spare
  <2> QED
    BY <2>3 DEF Room, Used
<1>8. Fits(table, as, size, TombstonesLeft)
  BY <1>1, <1>2, <1>3, <1>5, <1>6, <1>7 DEF Fits
<1> QED
  BY <1>3, <1>4, <1>8 DEF table, as

-----------------------------------------------------------------------------
(* A new atom has the text that the request asks for, if it can be found.   *)
LEMMA NewAtomFacts ==
  ASSUME AtomMapAssumption, NEW str \in Strings, NEW quoted \in BOOLEAN, NEW i \in Nat
  PROVE  LET r == NewAtom(str, quoted, i)
         IN  /\ r \in Record
             /\ r.quoted = quoted /\ r.index = i
             /\ r.hash = Hash[r.text]
             /\ (r.quoted => Unescaped(r.text)) => r.text = str /\ r.hash = Hash[str]
<1> DEFINE text == IF quoted THEN Text[str] ELSE str
           r == [text |-> text, quoted |-> quoted, hash |-> Hash[text], index |-> i]
<1>1. NewAtom(str, quoted, i) = r
  BY DEF NewAtom
<1>2. text \in Strings /\ Hash[text] \in Nat
  BY DEF AtomMapAssumption
<1>3. (quoted => Unescaped(text)) => text = str
  <2>1. CASE quoted
    <3>1. SUFFICES ASSUME Unescaped(Text[str]) PROVE Text[str] = str
      BY <2>1
    <3> QED
      BY <3>1 DEF Unescaped
  <2>2. CASE ~ quoted
    BY <2>2
  <2> QED
    BY <2>1, <2>2
<1> HIDE DEF text
<1>4. r.text = text /\ r.quoted = quoted /\ r.hash = Hash[text] /\ r.index = i /\ r \in Record
  BY <1>2 DEF Record
<1> HIDE DEF r
<1> QED
  BY <1>1, <1>3, <1>4

(* An atom that its text finds is met by a search for that text, so it is   *)
(* not there if the search meets none.                                      *)
LEMMA NotThere ==
  ASSUME AtomMapAssumption, NEW table \in Tables, Room(table),
         NEW as, SameAtoms(as, atoms), Hashed(as), Indexed(table, as),
         DOMAIN as \subseteq Items, Reaches(table, as, Findable(as)),
         NEW str \in Strings, NEW quoted \in BOOLEAN,
         ~ Alive(table[Find(table, str, quoted)]),
         NEW b \in Findable(as)
  PROVE  ~ (as[b].text = str /\ as[b].quoted = quoted)
<1>1. SUFFICES ASSUME as[b].text = str, as[b].quoted = quoted PROVE FALSE
  OBVIOUS
<1>2. b \in DOMAIN as /\ b \in Items /\ as[b].hash = Hash[str]
  BY <1>1 DEF Findable, Hashed
<1> DEFINE i == as[b].index
           hash == Hash[str]
<1>3. i \in DOMAIN table /\ table[i] = b
  BY <1>2 DEF Indexed
<1>4. Reached(table, hash, i)
  BY <1>2, <1>3 DEF Reaches
<1>5. PICK n \in DOMAIN table : Probe(table, hash, n) = i /\ Busy(table, hash, n)
  BY <1>4 DEF Reached
<1>6. n \in Nat
  BY InTable
<1>7. Busy(table, hash, n + 1)
  <2>1. ASSUME NEW m \in 0 .. (n + 1) - 1 PROVE table[Probe(table, hash, m)] # Null
    <3>1. m = n \/ m \in 0 .. n - 1
      BY <1>6
    <3>2. b # Null
      BY <1>2, AliveFacts
    <3> QED
      BY <3>1, <3>2, <1>3, <1>5 DEF Busy
  <2> QED
    BY <2>1 DEF Busy
<1>8. ~ Matches(table[Probe(table, hash, n)], str, quoted)
  BY <1>7, FindFacts
<1>9. Matches(b, str, quoted)
  BY <1>1, <1>2, AliveFacts DEF Matches, SameAtoms
<1> QED
  BY <1>3, <1>5, <1>8, <1>9

(* The map, the atoms and the counters after an insertion.                  *)
InsertionRight(item, str, quoted, i) ==
  LET new == Put(Roomy, i, item)
      bs == Interned(Reindexed(Roomy), item, NewAtom(str, quoted, i))
      left == TombstonesAfter(Roomy, i, quoted)
  IN  /\ new \in Tables
      /\ DOMAIN bs = DOMAIN atoms \cup {item}
      /\ bs \in [DOMAIN bs -> Record]
      /\ left \in Nat
      /\ Fits(new, bs, size + 1, left)

(* An insertion keeps what the map and the atoms are to each other.         *)
LEMMA InsertionFits ==
  ASSUME AtomMapAssumption, IndInv,
         NEW str \in Strings, NEW quoted \in BOOLEAN,
         NEW item \in Items, item \notin DOMAIN atoms,
         NEW i, i = Find(Roomy, str, quoted), ~ Alive(Roomy[i])
  PROVE  InsertionRight(item, str, quoted, i)
<1> DEFINE table == Roomy
           as == Reindexed(Roomy)
           r == NewAtom(str, quoted, i)
           new == Put(table, i, item)
           bs == Interned(as, item, r)
           left == TombstonesAfter(table, i, quoted)
           tl == TombstonesLeft
<1>1. /\ Fits(table, as, size, tl)
      /\ DOMAIN as = DOMAIN atoms
      /\ as \in [DOMAIN atoms -> Record]
      /\ SameAtoms(as, atoms)
  BY RoomyFits
<1>2. table \in Tables /\ Spare(table) /\ tl \in Nat
  BY RoomyFacts
<1>3. DOMAIN atoms \subseteq Items /\ IsFiniteSet(DOMAIN atoms) /\ size \in Nat
  BY DEF IndInv, TypeOK
<1>4. /\ Holds(table, DOMAIN as) /\ Indexed(table, as) /\ Reaches(table, as, Findable(as))
      /\ Hashed(as) /\ Distinct(as) /\ Room(table)
      /\ size = Cardinality(DOMAIN as) /\ Cardinality(Tombs(table)) <= tl
  BY <1>1 DEF Fits
<1>5. Hash[str] \in Nat
  BY DEF AtomMapAssumption
<1>6. i = Find(table, str, quoted) /\ ~ Alive(table[i])
  OBVIOUS
<1>7. left = tl - (IF table[i] = Tombstone THEN 1 ELSE 0) + (IF quoted THEN 1 ELSE 0)
  BY DEF TombstonesAfter
<1> HIDE DEF table, as, tl, left
<1>8. i \in DOMAIN table /\ Reached(table, Hash[str], i)
  <2>1. PICK n \in DOMAIN table :
             Find(table, str, quoted) = Probe(table, Hash[str], n) /\ Busy(table, Hash[str], n)
    BY <1>2, <1>4, FindFacts
  <2>2. Probe(table, Hash[str], n) \in DOMAIN table
    BY <1>2, <1>5, InTable
  <2> QED
    BY <2>1, <2>2, <1>6 DEF Reached
<1>9. i \in Nat
  BY <1>2, <1>8, InTable
<1>10. /\ r \in Record
       /\ r.quoted = quoted /\ r.index = i
       /\ r.hash = Hash[r.text]
       /\ (r.quoted => Unescaped(r.text)) => r.text = str /\ r.hash = Hash[str]
  BY <1>9, NewAtomFacts
<1> HIDE DEF r
<1>11. item \notin DOMAIN as
  BY <1>1
<1>12. /\ DOMAIN bs = DOMAIN as \cup {item}
       /\ bs[item] = r
       /\ \A b \in DOMAIN as : bs[b] = as[b]
       /\ bs = [b \in DOMAIN as \cup {item} |-> bs[b]]
  <2> HIDE DEF bs
  <2>1. bs = Interned(as, item, r)
    BY DEF bs
  <2> QED
    BY <1>11, <2>1 DEF Interned
<1>13. /\ new \in Tables
       /\ DOMAIN new = DOMAIN table
       /\ new[i] = item
       /\ \A j \in DOMAIN table : j # i => new[j] = table[j]
  BY <1>2, <1>8, PutFacts
<1>14. Room(new)
  BY <1>2, <1>8, SpareFacts
<1>15. Holds(new, DOMAIN bs)
  BY <1>1, <1>2, <1>3, <1>4, <1>6, <1>8, <1>11, <1>12, PutHolds
<1> HIDE DEF bs
<1>16. \A b \in DOMAIN bs : bs[b] \in Record
  BY <1>1, <1>10, <1>12
<1>17. bs \in [DOMAIN bs -> Record]
  BY <1>12, <1>16
<1>18. Findable(bs) \subseteq Findable(as) \cup {item}
  BY <1>12 DEF Findable
<1>19. Reaches(new, bs, Findable(bs))
  <2> DEFINE Q == Findable(bs)
  <2>1. Q \subseteq DOMAIN bs
    BY DEF Findable
  <2>2. \A b \in Q : bs[b].hash \in Nat
    BY <2>1, <1>16 DEF Record
  <2>3. Reaches(table, bs, Q \ {item})
    <3>1. ASSUME NEW j \in DOMAIN table, table[j] \in Q \ {item}
          PROVE  Reached(table, bs[table[j]].hash, j)
      <4>1. table[j] \in Findable(as) /\ table[j] \in DOMAIN as
        BY <3>1, <1>18 DEF Findable
      <4>2. bs[table[j]] = as[table[j]]
        BY <4>1, <1>12
      <4>3. Reached(table, as[table[j]].hash, j)
        BY <4>1, <1>4 DEF Reaches
      <4> QED
        BY <4>2, <4>3
    <3> QED
      BY <3>1 DEF Reaches
  <2>4. item \in Q => Reached(table, bs[item].hash, i)
    <3>1. item \in Q => (r.quoted => Unescaped(r.text))
      BY <1>12 DEF Findable
    <3>2. item \in Q => bs[item].hash = Hash[str]
      BY <3>1, <1>10, <1>12
    <3> QED
      BY <3>2, <1>8
  <2> HIDE DEF Q, new
  <2>5. Reaches(Put(table, i, item), bs, Q)
    BY <2>2, <2>3, <2>4, <1>2, <1>4, <1>6, <1>8, <1>11, PutReaches
  <2> QED
    BY <2>5 DEF Q, new
<1> HIDE DEF new
<1>20. Hashed(bs)
  BY <1>4, <1>10, <1>12 DEF Hashed
<1>21. Indexed(new, bs)
  <2>1. ASSUME NEW b \in DOMAIN bs
        PROVE  bs[b].index \in DOMAIN new /\ new[bs[b].index] = b
    <3>1. CASE b = item
      BY <3>1, <1>8, <1>10, <1>12, <1>13
    <3>2. CASE b # item
      <4>1. b \in DOMAIN as /\ bs[b] = as[b]
        BY <3>2, <1>12
      <4>2. as[b].index \in DOMAIN table /\ table[as[b].index] = b
        BY <4>1, <1>4 DEF Indexed
      <4>3. as[b].index # i
        BY <4>1, <4>2, <1>1, <1>3, <1>6, AliveFacts
      <4> QED
        BY <4>1, <4>2, <4>3, <1>13
    <3> QED
      BY <3>1, <3>2
  <2> QED
    BY <2>1 DEF Indexed
<1>22. Distinct(bs)
  <2>1. ASSUME NEW b \in Findable(bs), b # item, item \in Findable(bs)
        PROVE  ~ (bs[b].text = bs[item].text /\ bs[b].quoted = bs[item].quoted)
    <3>1. b \in Findable(as) /\ b \in DOMAIN as /\ bs[b] = as[b]
      BY <2>1, <1>12, <1>18 DEF Findable
    <3>2. bs[item].text = str /\ bs[item].quoted = quoted
      BY <2>1, <1>10, <1>12 DEF Findable
    <3>3. ~ (as[b].text = str /\ as[b].quoted = quoted)
      BY <3>1, <1>1, <1>2, <1>3, <1>4, <1>6, NotThere
    <3> QED
      BY <3>1, <3>2, <3>3
  <2>2. ASSUME NEW a \in Findable(bs), NEW b \in Findable(bs), a # item, b # item,
               bs[a].text = bs[b].text, bs[a].quoted = bs[b].quoted
        PROVE  a = b
    <3>1. /\ a \in Findable(as) /\ a \in DOMAIN as /\ bs[a] = as[a]
          /\ b \in Findable(as) /\ b \in DOMAIN as /\ bs[b] = as[b]
      BY <2>2, <1>12, <1>18 DEF Findable
    <3> QED
      BY <2>2, <3>1, <1>4 DEF Distinct
  <2>3. ASSUME NEW a \in Findable(bs), NEW b \in Findable(bs),
               bs[a].text = bs[b].text, bs[a].quoted = bs[b].quoted
        PROVE  a = b
    <3>1. CASE a = item
      BY <3>1, <2>3, <2>1
    <3>2. CASE b = item
      BY <3>2, <2>3, <2>1
    <3>3. CASE a # item /\ b # item
      BY <3>3, <2>3, <2>2
    <3> QED
      BY <3>1, <3>2, <3>3
  <2> QED
    BY <2>3 DEF Distinct
<1>23. size + 1 = Cardinality(DOMAIN bs)
  <2>1. Cardinality(DOMAIN as \cup {item}) = Cardinality(DOMAIN as) + 1
    BY <1>1, <1>3, <1>11, FS_AddElement
  <2> QED
    BY <2>1, <1>4, <1>12
<1>24. left \in Nat /\ Cardinality(Tombs(new)) <= left
  <2>1. IsFiniteSet(Tombs(table)) /\ Cardinality(Tombs(table)) \in Nat
    BY <1>2, InTable, FS_Subset, FS_CardinalityType DEF Tombs
  <2>2. Tombs(new) = Tombs(table) \ {i}
    BY <1>13, AliveFacts DEF Tombs
  <2>3. i \in Tombs(table) <=> table[i] = Tombstone
    BY <1>8 DEF Tombs
  <2>4. Cardinality(Tombs(table) \ {i}) =
          IF i \in Tombs(table) THEN Cardinality(Tombs(table)) - 1 ELSE Cardinality(Tombs(table))
    BY <2>1, FS_RemoveElement
  <2>5. IsFiniteSet(Tombs(new))
    BY <2>1, <2>2, FS_RemoveElement
  <2>6. Cardinality(Tombs(new)) \in Nat
    BY <2>5, FS_CardinalityType
  <2> DEFINE k == Cardinality(Tombs(table))
             l == Cardinality(Tombs(new))
             gone == table[i] = Tombstone
  <2>7. /\ k \in Nat /\ l \in Nat /\ k <= tl /\ tl \in Nat
        /\ l = (IF gone THEN k - 1 ELSE k)
        /\ left = tl - (IF gone THEN 1 ELSE 0) + (IF quoted THEN 1 ELSE 0)
    BY <2>1, <2>2, <2>3, <2>4, <2>6, <1>2, <1>4, <1>7
  <2>8. left \in Nat /\ l <= left
    <3> HIDE DEF k, l, gone
    <3>1. CASE gone
      <4>1. l = k - 1 /\ (left = tl - 1 + 1 \/ left = tl - 1 + 0)
        BY <3>1, <2>7
      <4> QED
        BY <4>1, <2>7
    <3>2. CASE ~ gone
      <4>1. l = k /\ (left = tl - 0 + 1 \/ left = tl - 0 + 0)
        BY <3>2, <2>7
      <4> QED
        BY <4>1, <2>7
    <3> QED
      BY <3>1, <3>2
  <2> QED
    BY <2>8
<1>25. Fits(new, bs, size + 1, left)
  BY <1>14, <1>15, <1>19, <1>20, <1>21, <1>22, <1>23, <1>24 DEF Fits
<1> QED
  BY <1>1, <1>12, <1>13, <1>17, <1>24, <1>25 DEF InsertionRight, new, bs, left, table, as, r

-----------------------------------------------------------------------------
(* The first state has no table and no atoms.                               *)
LEMMA InitIndInv ==
  ASSUME AtomMapAssumption, Init
  PROVE  IndInv
<1>1. DOMAIN map = {} /\ DOMAIN atoms = {}
  BY DEF Init
<1>2. /\ size = 0 /\ tombstones = 0
      /\ missed = [t \in Threads |-> None] /\ found = [t \in Threads |-> None]
  BY DEF Init
<1>3. atoms = [a \in DOMAIN atoms |-> atoms[a]]
  BY DEF Init
<1>4. TypeOK
  <2>1. IsFiniteSet(DOMAIN atoms)
    BY <1>1, FS_EmptySet
  <2>2. atoms \in [DOMAIN atoms -> Record]
    BY <1>1, <1>3
  <2>3. missed \in [Threads -> Requests \cup {None}] /\ found \in [Threads -> Answers \cup {None}]
    BY <1>2
  <2> QED
    BY <1>1, <1>2, <2>1, <2>2, <2>3 DEF TypeOK
<1>5. Findable(atoms) = {}
  BY <1>1 DEF Findable
<1>6. Tombs(map) = {}
  BY <1>1 DEF Tombs
<1>7. Cardinality(DOMAIN atoms) = 0 /\ Cardinality(Tombs(map)) = 0
  BY <1>1, <1>6, FS_EmptySet
<1>8. Holds(map, DOMAIN atoms) /\ Indexed(map, atoms) /\ Hashed(atoms)
  BY <1>1 DEF Holds, Indexed, Hashed
<1>9. Reaches(map, atoms, Findable(atoms)) /\ Distinct(atoms) /\ Room(map)
  BY <1>1, <1>5 DEF Reaches, Distinct, Room
<1>10. size = Cardinality(DOMAIN atoms) /\ Cardinality(Tombs(map)) <= tombstones
  <2>1. Cardinality(Tombs(map)) = tombstones /\ tombstones \in Nat
    BY <1>2, <1>7
  <2>2. size = Cardinality(DOMAIN atoms)
    BY <1>2, <1>7
  <2> HIDE <1>2, <1>7
  <2> QED
    BY <2>1, <2>2
<1> QED
  BY <1>4, <1>8, <1>9, <1>10 DEF IndInv, Fits

(* A search under the read lock changes nothing but what its thread knows.  *)
LEMMA ReadLookupIndInv ==
  ASSUME AtomMapAssumption, IndInv, NEW t \in Threads, ReadLookup(t)
  PROVE  IndInv'
<1>1. PICK req \in Requests :
        \/ /\ capacity # 0 /\ Alive(map[Find(map, req[1], req[2])])
           /\ found' = [found EXCEPT ![t] = [req |-> req, atom |-> map[Find(map, req[1], req[2])]]]
           /\ UNCHANGED missed
        \/ missed' = [missed EXCEPT ![t] = req] /\ found' = [found EXCEPT ![t] = None]
  BY DEF ReadLookup
<1>2. UNCHANGED <<map, size, tombstones, atoms>>
  BY DEF ReadLookup
<1>3. TypeOK /\ Fits(map, atoms, size, tombstones)
  BY DEF IndInv
<1>4. missed' \in [Threads -> Requests \cup {None}]
  BY <1>1, <1>3 DEF TypeOK
<1>5. found' \in [Threads -> Answers \cup {None}]
  <2>1. CASE missed' = [missed EXCEPT ![t] = req] /\ found' = [found EXCEPT ![t] = None]
    BY <2>1, <1>3 DEF TypeOK
  <2>2. CASE /\ capacity # 0 /\ Alive(map[Find(map, req[1], req[2])])
             /\ found' = [found EXCEPT ![t] = [req |-> req, atom |-> map[Find(map, req[1], req[2])]]]
    <3> DEFINE a == map[Find(map, req[1], req[2])]
    <3>1. map \in Tables
      BY <1>3, <2>2, FS_EmptySet DEF TypeOK, capacity
    <3>2. req[1] \in Strings /\ req[2] \in BOOLEAN /\ Hash[req[1]] \in Nat
      BY DEF AtomMapAssumption
    <3>3. Room(map)
      BY <1>3 DEF Fits
    <3>4. Find(map, req[1], req[2]) \in DOMAIN map
      <4>1. \E n \in DOMAIN map : Find(map, req[1], req[2]) = Probe(map, Hash[req[1]], n)
        BY <3>1, <3>2, <3>3, FindFacts
      <4> QED
        BY <4>1, <3>1, <3>2, InTable
    <3>5. a \in Items
      BY <2>2, <3>1, <3>4, InTable, AliveFacts
    <3>6. [req |-> req, atom |-> a] \in Answers
      BY <3>5 DEF Answers
    <3> HIDE DEF a
    <3>7. found' = [found EXCEPT ![t] = [req |-> req, atom |-> a]]
      BY <2>2 DEF a
    <3> QED
      BY <1>3, <3>6, <3>7 DEF TypeOK
  <2> QED
    BY <1>1, <2>1, <2>2
<1>6. TypeOK'
  BY <1>2, <1>3, <1>4, <1>5 DEF TypeOK
<1>7. Fits(map', atoms', size', tombstones')
  BY <1>2, <1>3
<1> QED
  BY <1>6, <1>7 DEF IndInv, Fits, Holds, Indexed, Reaches, Reached, Busy, Probe, Findable,
     Unescaped, Hashed, Distinct, Room, Tombs, Alive

(* A lookup under the write lock grows the map, and may insert an atom.     *)
LEMMA WriteLookupIndInv ==
  ASSUME AtomMapAssumption, IndInv, NEW t \in Threads, WriteLookup(t)
  PROVE  IndInv'
<1> DEFINE str == missed[t][1]
           quoted == missed[t][2]
           i == Find(Roomy, str, quoted)
           as == Reindexed(Roomy)
<1>1. TypeOK
  BY DEF IndInv
<1>2. missed[t] \in Requests /\ str \in Strings /\ quoted \in BOOLEAN /\ Hash[str] \in Nat
  BY <1>1 DEF WriteLookup, TypeOK, AtomMapAssumption
<1>3. Roomy \in Tables /\ TombstonesLeft \in Nat
  BY RoomyFacts
<1>4. /\ Fits(Roomy, as, size, TombstonesLeft)
      /\ DOMAIN as = DOMAIN atoms
      /\ as \in [DOMAIN atoms -> Record]
  BY RoomyFits
<1>5. ASSUME NEW a \in Items, Answer(t, a)
      PROVE  /\ missed' \in [Threads -> Requests \cup {None}]
             /\ found' \in [Threads -> Answers \cup {None}]
  <2>1. [req |-> missed[t], atom |-> a] \in Answers
    BY <1>2 DEF Answers
  <2> QED
    BY <1>1, <1>5, <2>1 DEF Answer, TypeOK
<1>6. \/ /\ Alive(Roomy[i]) /\ Answer(t, Roomy[i])
         /\ map' = Roomy /\ atoms' = as /\ tombstones' = TombstonesLeft /\ size' = size
      \/ /\ ~ Alive(Roomy[i])
         /\ \E item \in Items \ DOMAIN atoms :
              /\ Answer(t, item)
              /\ map' = Put(Roomy, i, item)
              /\ atoms' = Interned(as, item, NewAtom(str, quoted, i))
              /\ tombstones' = TombstonesAfter(Roomy, i, quoted)
              /\ size' = size + 1
  BY DEF WriteLookup, Put
<1> HIDE DEF str, quoted, as
<1>7. CASE /\ Alive(Roomy[i]) /\ Answer(t, Roomy[i])
           /\ map' = Roomy /\ atoms' = as /\ tombstones' = TombstonesLeft /\ size' = size
  <2>1. i \in DOMAIN Roomy
    <3>1. Room(Roomy)
      BY <1>4 DEF Fits
    <3>2. \E n \in DOMAIN Roomy : i = Probe(Roomy, Hash[str], n)
      BY <1>2, <1>3, <3>1, FindFacts
    <3> QED
      BY <3>2, <1>2, <1>3, InTable
  <2>2. Roomy[i] \in Items
    BY <2>1, <1>3, <1>7, InTable, AliveFacts
  <2>3. /\ missed' \in [Threads -> Requests \cup {None}]
        /\ found' \in [Threads -> Answers \cup {None}]
    BY <1>5, <1>7, <2>2
  <2>4. TypeOK'
    BY <1>1, <1>3, <1>4, <1>7, <2>3 DEF TypeOK
  <2>5. Fits(map', atoms', size', tombstones')
    BY <1>4, <1>7
  <2> QED
    BY <2>4, <2>5 DEF IndInv, Fits, Holds, Indexed, Reaches, Reached, Busy, Probe, Findable,
       Unescaped, Hashed, Distinct, Room, Tombs, Alive
<1>8. ASSUME ~ Alive(Roomy[i]), NEW item \in Items \ DOMAIN atoms,
             Answer(t, item),
             map' = Put(Roomy, i, item),
             atoms' = Interned(as, item, NewAtom(str, quoted, i)),
             tombstones' = TombstonesAfter(Roomy, i, quoted),
             size' = size + 1
      PROVE  IndInv'
  <2>1. /\ missed' \in [Threads -> Requests \cup {None}]
        /\ found' \in [Threads -> Answers \cup {None}]
    BY <1>5, <1>8
  <2> DEFINE new == Put(Roomy, i, item)
             bs == Interned(as, item, NewAtom(str, quoted, i))
             left == TombstonesAfter(Roomy, i, quoted)
  <2>2. /\ new \in Tables
        /\ DOMAIN bs = DOMAIN atoms \cup {item}
        /\ bs \in [DOMAIN bs -> Record]
        /\ left \in Nat
        /\ Fits(new, bs, size + 1, left)
    <3>1. item \in Items /\ item \notin DOMAIN atoms
      OBVIOUS
    <3>2. InsertionRight(item, str, quoted, i)
      BY <1>2, <1>8, <3>1, InsertionFits
    <3> QED
      BY <3>2 DEF InsertionRight, as
  <2> HIDE DEF new, bs, left
  <2>3. map' = new /\ atoms' = bs /\ tombstones' = left /\ size' = size + 1
    BY <1>8 DEF new, bs, left
  <2>4. IsFiniteSet(DOMAIN atoms \cup {item}) /\ DOMAIN atoms \cup {item} \subseteq Items
    BY <1>1, FS_AddElement DEF TypeOK
  <2>5. size' \in Nat
    BY <2>3, <1>1 DEF TypeOK
  <2>6. TypeOK'
    BY <2>1, <2>2, <2>3, <2>4, <2>5 DEF TypeOK
  <2>7. Fits(map', atoms', size', tombstones')
    BY <2>2, <2>3
  <2> QED
    BY <2>6, <2>7 DEF IndInv, Fits, Holds, Indexed, Reaches, Reached, Busy, Probe, Findable,
       Unescaped, Hashed, Distinct, Room, Tombs, Alive
<1> QED
  BY <1>6, <1>7, <1>8

-----------------------------------------------------------------------------
(* The sweep: what is left of the table, and what of the atoms.             *)
Graves(dead) == {atoms[a].index : a \in dead}
Buried(dead) == [i \in DOMAIN map |-> IF i \in Graves(dead) THEN Tombstone ELSE map[i]]
Left(dead) == Restrict(atoms, DOMAIN atoms \ dead)

(* A slot becomes a grave if the atom in it is dead, and only then.         *)
LEMMA BuriedFacts ==
  ASSUME AtomMapAssumption, IndInv, NEW dead \in SUBSET DOMAIN atoms, dead # {}
  PROVE  /\ map \in Tables
         /\ Buried(dead) \in Tables /\ DOMAIN Buried(dead) = DOMAIN map
         /\ \A i \in DOMAIN map :
              /\ map[i] \in dead => i \in Graves(dead) /\ Buried(dead)[i] = Tombstone
              /\ map[i] \notin dead => i \notin Graves(dead) /\ Buried(dead)[i] = map[i]
         /\ Graves(dead) \subseteq DOMAIN map
<1>1. TypeOK /\ Holds(map, DOMAIN atoms) /\ Indexed(map, atoms)
  BY DEF IndInv, Fits
<1>2. \A a \in dead :
        a \in DOMAIN atoms /\ a \in Items /\ atoms[a].index \in DOMAIN map /\ map[atoms[a].index] = a
  BY <1>1 DEF TypeOK, Indexed
<1>3. map \in Tables
  BY <1>1, <1>2 DEF TypeOK
<1>4. ASSUME NEW i \in DOMAIN map, map[i] \in dead PROVE i \in Graves(dead)
  <2>1. Alive(map[i])
    BY <1>2, <1>4, AliveFacts
  <2>2. atoms[map[i]].index = i
    BY <2>1, <1>1, <1>2, <1>4 DEF Holds
  <2> QED
    BY <2>2, <1>4 DEF Graves
<1>5. ASSUME NEW i \in DOMAIN map, i \in Graves(dead) PROVE map[i] \in dead
  <2>1. PICK a \in dead : i = atoms[a].index
    BY <1>5 DEF Graves
  <2> QED
    BY <2>1, <1>2
<1>6. DOMAIN Buried(dead) = DOMAIN map
  BY DEF Buried
<1>7. Buried(dead) \in Tables
  <2>1. PICK c \in Capacities : map \in [0 .. c - 1 -> Slot]
    BY <1>3 DEF Tables
  <2>2. Tombstone \in Slot
    BY DEF Slot
  <2>3. Buried(dead) \in [0 .. c - 1 -> Slot]
    BY <2>1, <2>2 DEF Buried
  <2> QED
    BY <2>3 DEF Tables
<1>8. \A i \in DOMAIN map : Buried(dead)[i] = IF i \in Graves(dead) THEN Tombstone ELSE map[i]
  BY DEF Buried
<1>9. Graves(dead) \subseteq DOMAIN map
  BY <1>2 DEF Graves
<1> QED
  BY <1>3, <1>4, <1>5, <1>6, <1>7, <1>8, <1>9

(* There are at most as many new tombstones as dead atoms.                  *)
LEMMA BuriedCount ==
  ASSUME AtomMapAssumption, IndInv, NEW dead \in SUBSET DOMAIN atoms, dead # {}
  PROVE  /\ Cardinality(dead) \in Nat
         /\ Cardinality(Tombs(Buried(dead))) <= tombstones + Cardinality(dead)
         /\ IsFiniteSet(DOMAIN atoms \ dead)
         /\ size - Cardinality(dead) = Cardinality(DOMAIN atoms \ dead)
         /\ size - Cardinality(dead) \in Nat
<1>1. /\ IsFiniteSet(DOMAIN atoms) /\ size = Cardinality(DOMAIN atoms)
      /\ size \in Nat /\ tombstones \in Nat
      /\ Cardinality(Tombs(map)) <= tombstones
      /\ DOMAIN atoms \subseteq Items
  BY DEF IndInv, TypeOK, Fits
<1>2. IsFiniteSet(dead) /\ Cardinality(dead) \in Nat
  BY <1>1, FS_Subset, FS_CardinalityType
<1>3. /\ IsFiniteSet(DOMAIN atoms \ dead)
      /\ Cardinality(DOMAIN atoms \ dead) = size - Cardinality(dead)
  <2>1. DOMAIN atoms \cap dead = dead
    OBVIOUS
  <2>2. /\ IsFiniteSet(DOMAIN atoms \ dead)
        /\ Cardinality(DOMAIN atoms \ dead) = Cardinality(DOMAIN atoms) - Cardinality(DOMAIN atoms \cap dead)
    BY <1>1, FS_Difference
  <2> QED
    BY <2>1, <2>2, <1>1
<1>4. Cardinality(DOMAIN atoms \ dead) \in Nat
  BY <1>3, FS_CardinalityType
<1>5. IsFiniteSet(Graves(dead)) /\ Cardinality(Graves(dead)) <= Cardinality(dead)
  <2> DEFINE f == [a \in dead |-> atoms[a].index]
  <2>1. f \in [dead -> Graves(dead)]
    BY DEF Graves
  <2>2. \A g \in Graves(dead) : \E a \in dead : f[a] = g
    BY DEF Graves
  <2> HIDE DEF f
  <2>3. f \in Surjection(dead, Graves(dead))
    BY <2>1, <2>2 DEF Surjection
  <2> QED
    BY <2>3, <1>2, FS_Surjection
<1>6. map \in Tables
  BY BuriedFacts
<1>7. Tombs(Buried(dead)) = Tombs(map) \cup Graves(dead)
  <2>1. Tombstone \notin dead
    BY <1>1, AliveFacts
  <2> QED
    BY <2>1, BuriedFacts DEF Tombs
<1>8. IsFiniteSet(Tombs(map))
  BY <1>6, InTable, FS_Subset DEF Tombs
<1>9. /\ Cardinality(Tombs(map) \cup Graves(dead)) =
           Cardinality(Tombs(map)) + Cardinality(Graves(dead)) - Cardinality(Tombs(map) \cap Graves(dead))
      /\ IsFiniteSet(Tombs(map) \cup Graves(dead))
  BY <1>5, <1>8, FS_Union
<1>10. IsFiniteSet(Tombs(map) \cap Graves(dead))
  BY <1>5, <1>8, FS_Subset
<1>11. /\ Cardinality(Tombs(map)) \in Nat /\ Cardinality(Graves(dead)) \in Nat
       /\ Cardinality(Tombs(map) \cap Graves(dead)) \in Nat
       /\ Cardinality(Tombs(map) \cup Graves(dead)) \in Nat
  BY <1>5, <1>8, <1>9, <1>10, FS_CardinalityType
<1>12. Cardinality(Tombs(map) \cup Graves(dead)) <= tombstones + Cardinality(dead)
  <2> DEFINE u == Cardinality(Tombs(map) \cup Graves(dead))
             v == Cardinality(Tombs(map))
             w == Cardinality(Graves(dead))
             x == Cardinality(Tombs(map) \cap Graves(dead))
             d == Cardinality(dead)
  <2>1. /\ u = v + w - x /\ v <= tombstones /\ w <= d
        /\ u \in Nat /\ v \in Nat /\ w \in Nat /\ x \in Nat /\ d \in Nat /\ tombstones \in Nat
    BY <1>1, <1>2, <1>5, <1>9, <1>11
  <2>2. u <= tombstones + d
    <3> HIDE DEF u, v, w, x, d
    <3> QED
      BY <2>1
  <2> QED
    BY <2>2
<1> QED
  BY <1>2, <1>3, <1>4, <1>7, <1>12

(* The sweep keeps what the map and the atoms are to each other.            *)
LEMMA BuriedFits ==
  ASSUME AtomMapAssumption, IndInv, NEW dead \in SUBSET DOMAIN atoms, dead # {}
  PROVE  Fits(Buried(dead), Left(dead), size - Cardinality(dead), tombstones + Cardinality(dead))
<1> DEFINE new == Buried(dead)
           bs == Left(dead)
           S == DOMAIN atoms \ dead
<1>1. /\ TypeOK /\ Holds(map, DOMAIN atoms) /\ Indexed(map, atoms)
      /\ Reaches(map, atoms, Findable(atoms)) /\ Hashed(atoms) /\ Distinct(atoms) /\ Room(map)
  BY DEF IndInv, Fits
<1>2. DOMAIN atoms \subseteq Items /\ \A a \in DOMAIN atoms : atoms[a].hash \in Nat
  BY <1>1 DEF TypeOK, Record
<1>3. /\ map \in Tables
      /\ DOMAIN new = DOMAIN map
      /\ \A i \in DOMAIN map : map[i] \in dead => new[i] = Tombstone
      /\ \A i \in DOMAIN map : map[i] \notin dead => new[i] = map[i]
  BY BuriedFacts
<1>4. DOMAIN bs = S /\ \A a \in S : bs[a] = atoms[a]
  BY DEF Left, Restrict
<1> HIDE DEF new, bs
<1>5. \A i \in DOMAIN map : Alive(new[i]) => map[i] \notin dead /\ new[i] = map[i]
  BY <1>3, AliveFacts
<1>6. Holds(new, S)
  <2>1. ASSUME NEW a \in S PROVE \E i \in DOMAIN new : new[i] = a
    <3>1. PICK i \in DOMAIN map : map[i] = a
      BY <1>1 DEF Holds
    <3> QED
      BY <3>1, <1>3
  <2>2. \A i \in DOMAIN new : Alive(new[i]) => new[i] \in S
    BY <1>1, <1>3, <1>5 DEF Holds
  <2>3. \A i, j \in DOMAIN new : Alive(new[i]) /\ new[i] = new[j] => i = j
    BY <1>1, <1>3, <1>5 DEF Holds
  <2> QED
    BY <2>1, <2>2, <2>3 DEF Holds
<1>7. Indexed(new, bs)
  BY <1>1, <1>3, <1>4 DEF Indexed
<1>8. Hashed(bs)
  BY <1>1, <1>4 DEF Hashed
<1>9. Findable(bs) \subseteq Findable(atoms) /\ Findable(bs) \subseteq S
  BY <1>4 DEF Findable
<1>10. Distinct(bs)
  <2>1. \A a \in Findable(bs) : bs[a] = atoms[a]
    BY <1>4, <1>9
  <2> QED
    BY <2>1, <1>1, <1>9 DEF Distinct
<1>11. Reaches(new, bs, Findable(bs))
  <2>1. ASSUME NEW i \in DOMAIN new, new[i] \in Findable(bs)
        PROVE  Reached(new, bs[new[i]].hash, i)
    <3>1. new[i] \in S /\ new[i] \in Findable(atoms) /\ bs[new[i]] = atoms[new[i]]
      BY <2>1, <1>4, <1>9
    <3>2. new[i] = map[i]
      BY <3>1, <1>2, <1>3, <1>5, AliveFacts
    <3> DEFINE hash == atoms[map[i]].hash
    <3>3. hash \in Nat /\ Reached(map, hash, i)
      BY <3>1, <3>2, <1>1, <1>2, <1>3 DEF Reaches
    <3>4. \A j \in DOMAIN map : map[j] # Null => new[j] # Null
      BY <1>3, AliveFacts
    <3> HIDE DEF hash
    <3>5. Reached(new, hash, i)
      BY <3>3, <3>4, <1>3, StillReaches
    <3> QED
      BY <3>1, <3>2, <3>5 DEF hash
  <2> QED
    BY <2>1 DEF Reaches
<1>12. Room(new)
  <2>1. PICK i \in DOMAIN map : map[i] = Null
    BY <1>1, <1>3, InTable DEF Room
  <2>2. Null \notin dead
    BY <1>2, AliveFacts
  <2>3. new[i] = Null
    BY <2>1, <2>2, <1>3
  <2> QED
    BY <2>1, <2>3, <1>3 DEF Room
<1>13. Cardinality(Tombs(new)) <= tombstones + Cardinality(dead)
  BY BuriedCount DEF new
<1>14. size - Cardinality(dead) = Cardinality(DOMAIN bs)
  BY <1>4, BuriedCount
<1> DEFINE s == size - Cardinality(dead)
           k == tombstones + Cardinality(dead)
<1> HIDE DEF S
<1>15. Fits(new, bs, s, k)
  <2>1. s = Cardinality(DOMAIN bs) /\ Cardinality(Tombs(new)) <= k
    BY <1>13, <1>14
  <2>2. Holds(new, DOMAIN bs)
    BY <1>4, <1>6
  <2> HIDE DEF s, k
  <2> QED
    BY <2>1, <2>2, <1>7, <1>8, <1>10, <1>11, <1>12 DEF Fits
<1> QED
  BY <1>15 DEF new, bs

(* So does the whole action.                                                *)
LEMMA SweepIndInv ==
  ASSUME AtomMapAssumption, IndInv, Sweep
  PROVE  IndInv'
<1>1. PICK dead \in SUBSET Unheld :
        /\ dead # {}
        /\ map' = Buried(dead)
        /\ tombstones' = tombstones + Cardinality(dead)
        /\ size' = size - Cardinality(dead)
        /\ atoms' = Left(dead)
        /\ UNCHANGED <<missed, found>>
  BY DEF Sweep, Buried, Graves, Left
<1>2. dead \in SUBSET DOMAIN atoms
  BY DEF Unheld
<1>3. Fits(Buried(dead), Left(dead), size - Cardinality(dead), tombstones + Cardinality(dead))
  BY <1>1, <1>2, BuriedFits
<1>4. Fits(map', atoms', size', tombstones')
  BY <1>1, <1>3
<1>5. TypeOK
  BY DEF IndInv
<1>6. Buried(dead) \in Tables
  BY <1>1, <1>2, BuriedFacts
<1>7. /\ Cardinality(dead) \in Nat /\ IsFiniteSet(DOMAIN atoms \ dead)
      /\ size - Cardinality(dead) \in Nat
  BY <1>1, <1>2, BuriedCount
<1>8. DOMAIN Left(dead) = DOMAIN atoms \ dead /\ Left(dead) \in [DOMAIN atoms \ dead -> Record]
  BY <1>5 DEF Left, Restrict, TypeOK
<1>9. size' \in Nat /\ tombstones' \in Nat
  <2>1. tombstones + Cardinality(dead) \in Nat
    BY <1>5, <1>7 DEF TypeOK
  <2> QED
    BY <2>1, <1>1, <1>7
<1>10. /\ IsFiniteSet(DOMAIN atoms') /\ DOMAIN atoms' \subseteq Items
       /\ atoms' \in [DOMAIN atoms' -> Record]
  BY <1>1, <1>5, <1>7, <1>8 DEF TypeOK
<1>11. TypeOK'
  BY <1>1, <1>5, <1>6, <1>9, <1>10 DEF TypeOK
<1> QED
  BY <1>4, <1>11 DEF IndInv, Fits, Holds, Indexed, Reaches, Reached, Busy, Probe, Findable,
     Unescaped, Hashed, Distinct, Room, Tombs, Alive

(* The invariant is inductive.                                              *)
LEMMA NextIndInv ==
  ASSUME AtomMapAssumption, IndInv, [Next]_vars
  PROVE  IndInv'
<1>1. CASE UNCHANGED vars
  BY <1>1 DEF vars, IndInv, TypeOK, Fits, Holds, Indexed, Reaches, Reached, Busy, Probe,
     Findable, Unescaped, Hashed, Distinct, Room, Tombs, Alive
<1>2. CASE Sweep
  BY <1>2, SweepIndInv
<1>3. ASSUME NEW t \in Threads, ReadLookup(t) PROVE IndInv'
  BY <1>3, ReadLookupIndInv
<1>4. ASSUME NEW t \in Threads, WriteLookup(t) PROVE IndInv'
  BY <1>4, WriteLookupIndInv
<1> QED
  BY <1>1, <1>2, <1>3, <1>4 DEF Next

(* The invariant holds in every state, for any numbers of threads, items    *)
(* and strings, any hash function and any escapes.                          *)
THEOREM Invariance == Spec => []IndInv
<1>1. AtomMapAssumption => (Init => IndInv)
  BY InitIndInv
<1>2. AtomMapAssumption => (IndInv /\ [Next]_vars => IndInv')
  BY NextIndInv
<1> QED
  BY <1>1, <1>2, AtomMapAssumption, PTL DEF Spec

(* The counts that the growth limit goes by are not too small (CountsAgree). *)
LEMMA CountsFit ==
  ASSUME AtomMapAssumption, IndInv
  PROVE  CountsAgree
<1>1. /\ TypeOK /\ Holds(map, DOMAIN atoms) /\ Indexed(map, atoms)
      /\ size = Cardinality(DOMAIN atoms) /\ Cardinality(Tombs(map)) <= tombstones
  BY DEF IndInv, Fits
<1>2. DOMAIN atoms \subseteq Items /\ tombstones \in Nat
  BY <1>1 DEF TypeOK
<1> DEFINE A == {i \in DOMAIN map : Alive(map[i])}
<1>3. Cardinality(A) = size
  <2>1. CASE map \in Tables
    BY <2>1, <1>1, <1>2, AliveCount
  <2>2. CASE DOMAIN map = {}
    <3>1. A = {} /\ DOMAIN atoms = {}
      BY <2>2, <1>1 DEF Indexed
    <3> QED
      BY <3>1, <1>1
  <2> QED
    BY <2>1, <2>2, <1>1 DEF TypeOK
<1>4. IsFiniteSet(DOMAIN map)
  BY <1>1, InTable, FS_EmptySet DEF TypeOK
<1>5. Cardinality(Tombs(map)) \in Nat
  BY <1>4, FS_Subset, FS_CardinalityType DEF Tombs
<1>6. tombstones >= Cardinality(Tombs(map))
  BY <1>1, <1>2, <1>5
<1> QED
  BY <1>3, <1>6 DEF CountsAgree, Tombs

(* However the lookups of any number of threads, growth and sweeps          *)
(* interleave, slots and atoms point at each other, the counts are right,   *)
(* no two atoms have the same text that only its own spelling stands for,   *)
(* and a search for such a text finds its atom (MapConsistent).             *)
THEOREM StaysConsistent == Spec => []MapConsistent
<1>1. ASSUME AtomMapAssumption, IndInv PROVE MapConsistent
  <2>1. /\ TypeOK /\ Holds(map, DOMAIN atoms) /\ Indexed(map, atoms) /\ Distinct(atoms)
    BY <1>1 DEF IndInv, Fits
  <2>2. SlotsAgree
    <3>1. \A a \in DOMAIN atoms : map[atoms[a].index] = a
      BY <2>1 DEF Indexed
    <3>2. ASSUME NEW i \in DOMAIN map, Alive(map[i])
          PROVE  map[i] \in DOMAIN atoms /\ atoms[map[i]].index = i
      <4>1. map[i] \in DOMAIN atoms
        BY <2>1, <3>2 DEF Holds
      <4>2. atoms[map[i]].index \in DOMAIN map /\ map[atoms[map[i]].index] = map[i]
        BY <2>1, <4>1 DEF Indexed
      <4> QED
        BY <2>1, <3>2, <4>1, <4>2 DEF Holds
    <3> QED
      BY <3>1, <3>2 DEF SlotsAgree
  <2>3. CountsAgree
    BY <1>1, CountsFit
  <2>4. PlainOnce
    <3>1. ASSUME NEW a \in DOMAIN atoms, NEW b \in DOMAIN atoms,
                 atoms[a].text = atoms[b].text, atoms[a].quoted = atoms[b].quoted, a # b,
                 ~ (atoms[a].quoted /\ ~ Unescaped(atoms[a].text))
          PROVE  FALSE
      <4>1. a \in Findable(atoms) /\ b \in Findable(atoms)
        BY <3>1 DEF Findable
      <4> QED
        BY <2>1, <3>1, <4>1 DEF Distinct
    <3> QED
      BY <3>1 DEF PlainOnce
  <2>5. PlainFound
    <3>1. ASSUME NEW a \in DOMAIN atoms, atoms[a].quoted => Unescaped(atoms[a].text)
          PROVE  map[Find(map, atoms[a].text, atoms[a].quoted)] = a
      <4> DEFINE str == atoms[a].text
                 quoted == atoms[a].quoted
                 i == Find(map, str, quoted)
      <4>1. a \in Findable(atoms) /\ str \in Strings /\ quoted \in BOOLEAN
        BY <2>1, <3>1 DEF Findable, TypeOK, Record
      <4>2. map \in Tables
        BY <2>1, <3>1 DEF TypeOK, Indexed
      <4>3. /\ Room(map) /\ Hashed(atoms) /\ Reaches(map, atoms, Findable(atoms))
            /\ DOMAIN atoms \subseteq Items /\ SameAtoms(atoms, atoms)
        BY <1>1 DEF IndInv, TypeOK, Fits, SameAtoms
      <4>4. Hash[str] \in Nat
        BY <1>1, <4>1 DEF AtomMapAssumption
      <4>5. atoms[a].text = str /\ atoms[a].quoted = quoted
        OBVIOUS
      <4> HIDE DEF str, quoted
      <4>6. Alive(map[i])
        BY <1>1, <2>1, <4>1, <4>2, <4>3, <4>5, NotThere
      <4>7. Matches(map[i], str, quoted) /\ i \in DOMAIN map
        BY <1>1, <4>1, <4>2, <4>3, <4>4, <4>6, FindFacts, InTable
      <4>8. map[i] \in DOMAIN atoms /\ atoms[map[i]].text = str /\ atoms[map[i]].quoted = quoted
        BY <2>1, <4>7 DEF Holds, Matches
      <4>9. map[i] \in Findable(atoms)
        BY <3>1, <4>5, <4>8 DEF Findable
      <4>10. map[i] = a
        BY <2>1, <4>1, <4>5, <4>8, <4>9 DEF Distinct
      <4> QED
        BY <4>10 DEF str, quoted
    <3> QED
      BY <3>1 DEF PlainFound
  <2> QED
    BY <2>2, <2>3, <2>4, <2>5 DEF MapConsistent
<1> QED
  BY <1>1, Invariance, AtomMapAssumption, PTL

(* A search for any string meets an empty slot before it has made as many   *)
(* steps as the table has slots (ProbeEnds), so reduct_atom_map_find        *)
(* returns, whatever the hash function does.                                *)
THEOREM SearchesEnd == Spec => []ProbeEnds
<1>1. ASSUME AtomMapAssumption, IndInv PROVE ProbeEnds
  <2>1. SUFFICES ASSUME capacity # 0, NEW str \in Strings
                 PROVE  \E n \in DOMAIN map : map[Probe(map, Hash[str], n)] = Null
    BY DEF ProbeEnds
  <2>2. map \in Tables /\ Room(map)
    BY <1>1, <2>1, FS_EmptySet DEF IndInv, TypeOK, Fits, capacity
  <2>3. PICK i \in DOMAIN map : map[i] = Null
    BY <2>2, InTable DEF Room
  <2>4. Hash[str] \in Nat
    BY <1>1 DEF AtomMapAssumption
  <2> QED
    BY <2>2, <2>3, <2>4, SearchVisits
<1> QED
  BY <1>1, Invariance, AtomMapAssumption, PTL


-----------------------------------------------------------------------------
(* What callers see of the atoms, which does not depend on their slots.     *)
LEMMA TextsFacts ==
  ASSUME NEW as
  PROVE  /\ DOMAIN Texts(as) = DOMAIN as
         /\ \A a \in DOMAIN as :
              Texts(as)[a].text = as[a].text /\ Texts(as)[a].quoted = as[a].quoted
         /\ \A bs : SameAtoms(as, bs) => Texts(as) = Texts(bs)
<1>1. DOMAIN Texts(as) = DOMAIN as
  BY DEF Texts
<1>2. \A a \in DOMAIN as :
        Texts(as)[a].text = as[a].text /\ Texts(as)[a].quoted = as[a].quoted
  BY DEF Texts
<1>3. \A bs : SameAtoms(as, bs) => Texts(as) = Texts(bs)
  BY DEF SameAtoms, Texts
<1> QED
  BY <1>1, <1>2, <1>3

(* A search that meets the atom answers as the table does; one that does    *)
(* not has let go of the atom that its thread had.                          *)
LEMMA ReadLookupTable ==
  ASSUME AtomMapAssumption, IndInv, NEW t \in Threads, ReadLookup(t)
  PROVE  Table!Next
<1>1. PICK req \in Requests :
        \/ /\ capacity # 0 /\ Alive(map[Find(map, req[1], req[2])])
           /\ found' = [found EXCEPT ![t] = [req |-> req, atom |-> map[Find(map, req[1], req[2])]]]
        \/ found' = [found EXCEPT ![t] = None]
  BY DEF ReadLookup
<1>2. atoms' = atoms
  BY DEF ReadLookup
<1>3. Texts(atoms)' = Texts(atoms)
  BY <1>2 DEF Texts
<1>4. CASE found' = [found EXCEPT ![t] = None]
  <2>1. Table!LetGo(t)
    BY <1>3, <1>4 DEF Table!LetGo
  <2> QED
    BY <2>1 DEF Table!Next
<1>5. CASE /\ capacity # 0 /\ Alive(map[Find(map, req[1], req[2])])
           /\ found' = [found EXCEPT ![t] = [req |-> req, atom |-> map[Find(map, req[1], req[2])]]]
  <2> DEFINE i == Find(map, req[1], req[2])
  <2>1. TypeOK /\ Holds(map, DOMAIN atoms) /\ Room(map)
    BY DEF IndInv, Fits
  <2>2. map \in Tables
    BY <1>5, <2>1, FS_EmptySet DEF TypeOK, capacity
  <2>3. req[1] \in Strings /\ req[2] \in BOOLEAN /\ Hash[req[1]] \in Nat
    BY DEF AtomMapAssumption
  <2>4. Matches(map[i], req[1], req[2]) /\ i \in DOMAIN map
    BY <1>5, <2>1, <2>2, <2>3, FindFacts, InTable
  <2>5. map[i] \in DOMAIN atoms
    BY <1>5, <2>1, <2>4 DEF Holds
  <2>6. map[i] \in DOMAIN Texts(atoms) /\ Table!Is(map[i], req)
    BY <2>4, <2>5, TextsFacts DEF Table!Is, Matches
  <2>7. Table!Give(t, req, map[i])
    BY <1>5 DEF Table!Give
  <2>8. Table!Hit(t, req)
    BY <1>3, <2>6, <2>7 DEF Table!Hit
  <2> QED
    BY <2>8 DEF Table!Next
<1> QED
  BY <1>1, <1>4, <1>5

(* A lookup under the write lock finds the atom in the table, or makes one  *)
(* that a lookup of its text would not have found.                          *)
LEMMA WriteLookupTable ==
  ASSUME AtomMapAssumption, IndInv, NEW t \in Threads, WriteLookup(t)
  PROVE  Table!Next
<1> DEFINE req == missed[t]
           str == missed[t][1]
           quoted == missed[t][2]
           i == Find(Roomy, str, quoted)
           as == Reindexed(Roomy)
<1>1. TypeOK
  BY DEF IndInv
<1>2. req \in Requests /\ str \in Strings /\ quoted \in BOOLEAN /\ Hash[str] \in Nat
  BY <1>1 DEF WriteLookup, TypeOK, AtomMapAssumption
<1>3. Roomy \in Tables /\ Holds(Roomy, DOMAIN atoms)
  BY RoomyFacts
<1>4. Fits(Roomy, as, size, TombstonesLeft) /\ DOMAIN as = DOMAIN atoms /\ SameAtoms(as, atoms)
  BY RoomyFits
<1>5. Texts(as) = Texts(atoms)
  BY <1>4, TextsFacts
<1>6. \/ /\ Alive(Roomy[i]) /\ Answer(t, Roomy[i])
         /\ atoms' = as
      \/ /\ ~ Alive(Roomy[i])
         /\ \E item \in Items \ DOMAIN atoms :
              /\ Answer(t, item)
              /\ atoms' = Interned(as, item, NewAtom(str, quoted, i))
  BY DEF WriteLookup
<1>7. Room(Roomy)
  BY <1>4 DEF Fits
<1>8. ASSUME NEW a, Answer(t, a) PROVE Table!Give(t, req, a)
  BY <1>8 DEF Answer, Table!Give
<1> HIDE DEF as
<1>9. CASE Alive(Roomy[i]) /\ Answer(t, Roomy[i]) /\ atoms' = as
  <2>1. Matches(Roomy[i], str, quoted) /\ i \in DOMAIN Roomy
    BY <1>2, <1>3, <1>7, <1>9, FindFacts, InTable
  <2>2. Roomy[i] \in DOMAIN atoms
    BY <1>3, <1>9, <2>1 DEF Holds
  <2>3. Roomy[i] \in DOMAIN Texts(atoms) /\ Table!Is(Roomy[i], req)
    BY <2>1, <2>2, TextsFacts DEF Table!Is, Matches
  <2>4. Texts(atoms)' = Texts(atoms)
    <3>1. Texts(atoms)' = Texts(atoms')
      BY DEF Texts
    <3> QED
      BY <3>1, <1>5, <1>9
  <2>5. Table!Hit(t, req)
    BY <1>8, <1>9, <2>3, <2>4 DEF Table!Hit
  <2> QED
    BY <1>2, <2>5 DEF Table!Next
<1>10. ASSUME ~ Alive(Roomy[i]), NEW item \in Items \ DOMAIN atoms, Answer(t, item),
              atoms' = Interned(as, item, NewAtom(str, quoted, i))
       PROVE  Table!Next
  <2> DEFINE r == NewAtom(str, quoted, i)
             bs == Interned(as, item, r)
  <2>1. item \in Items \ DOMAIN Texts(atoms)
    BY TextsFacts
  <2>2. ASSUME Table!Plain(req), NEW other \in DOMAIN Texts(atoms)
        PROVE  ~ Table!Is(other, req)
    <3>1. SUFFICES ASSUME Table!Is(other, req) PROVE FALSE
      OBVIOUS
    <3>2. other \in DOMAIN as /\ as[other].text = str /\ as[other].quoted = quoted
      BY <1>4, <1>5, <3>1, TextsFacts DEF Table!Is
    <3>3. quoted => Unescaped(str)
      BY <1>2, <2>2 DEF Table!Plain, Table!Unescaped, Unescaped
    <3>4. other \in Findable(as)
      BY <3>2, <3>3 DEF Findable
    <3>5. /\ Hashed(as) /\ Indexed(Roomy, as) /\ Reaches(Roomy, as, Findable(as))
          /\ DOMAIN as \subseteq Items
      BY <1>1, <1>4 DEF Fits, TypeOK
    <3> QED
      BY <1>2, <1>3, <1>4, <1>7, <1>10, <3>2, <3>4, <3>5, NotThere
  <2>3. Texts(bs) = [a \in DOMAIN Texts(atoms) \cup {item} |->
                       IF a = item THEN Table!Meant(req) ELSE Texts(atoms)[a]]
    <3>1. DOMAIN bs = DOMAIN atoms \cup {item} /\ bs[item] = r
          /\ \A a \in DOMAIN atoms : a # item => bs[a] = as[a]
      BY <1>4 DEF Interned
    <3>2. [text |-> r.text, quoted |-> r.quoted] = Table!Meant(req)
      BY DEF NewAtom, Table!Meant
    <3> HIDE DEF bs, r
    <3>3. \A a \in DOMAIN atoms : a # item => [text |-> bs[a].text, quoted |-> bs[a].quoted] = Texts(as)[a]
      BY <1>4, <3>1 DEF Texts
    <3>4. Texts(bs) = [a \in DOMAIN bs |-> [text |-> bs[a].text, quoted |-> bs[a].quoted]]
      BY DEF Texts
    <3>5. DOMAIN Texts(atoms) = DOMAIN atoms
      BY TextsFacts
    <3> QED
      BY <1>5, <3>1, <3>2, <3>3, <3>4, <3>5
  <2> HIDE DEF bs
  <2>4. Texts(atoms)' = Texts(bs)
    <3>1. Texts(atoms)' = Texts(atoms')
      BY DEF Texts
    <3> QED
      BY <3>1, <1>10 DEF bs
  <2>5. Table!Give(t, req, item)
    BY <1>8, <1>10
  <2>6. Table!Make(t, req)
    BY <2>1, <2>2, <2>3, <2>4, <2>5 DEF Table!Make
  <2> QED
    BY <1>2, <2>6 DEF Table!Next
<1> QED
  BY <1>6, <1>9, <1>10

(* The sweep frees atoms of the table that no thread was given last.        *)
LEMMA SweepTable ==
  ASSUME Sweep
  PROVE  Table!Next
<1>1. PICK dead \in SUBSET Unheld : atoms' = Left(dead) /\ found' = found
  BY DEF Sweep, Left
<1>2. Texts(atoms)' = Texts(Left(dead))
  BY <1>1 DEF Texts
<1>3. Texts(Left(dead)) = Table!Restrict(Texts(atoms), DOMAIN Texts(atoms) \ dead)
  BY DEF Texts, Left, Restrict, Table!Restrict
<1>4. dead \in SUBSET {a \in DOMAIN Texts(atoms) :
                         \A t \in Threads : found[t] # None => found[t].atom # a}
  BY TextsFacts DEF Unheld
<1>5. Table!Free
  BY <1>1, <1>2, <1>3, <1>4 DEF Table!Free
<1> QED
  BY <1>5 DEF Table!Next

(* The map implements the table: whatever lookups, growth and sweeps        *)
(* interleave, its callers see atoms that are made, found and freed in one  *)
(* step each, and none is made for a text that stands for itself while      *)
(* there is one (TableSpec).                                                *)
THEOREM Refinement == Spec => TableSpec
<1>1. ASSUME Init PROVE Table!Init
  <2>1. DOMAIN atoms = {} /\ found = [t \in Threads |-> None]
    BY <1>1 DEF Init
  <2>2. Texts(atoms) = [a \in {} |-> None]
    BY <2>1 DEF Texts
  <2> QED
    BY <2>1, <2>2 DEF Table!Init
<1>2. ASSUME AtomMapAssumption, IndInv, [Next]_vars PROVE [Table!Next]_(Table!tableVars)
  <2>1. CASE UNCHANGED vars
    BY <2>1 DEF vars, Table!tableVars, Texts
  <2>2. CASE Sweep
    BY <2>2, SweepTable
  <2>3. ASSUME NEW t \in Threads, ReadLookup(t) PROVE Table!Next
    BY <1>2, <2>3, ReadLookupTable
  <2>4. ASSUME NEW t \in Threads, WriteLookup(t) PROVE Table!Next
    BY <1>2, <2>4, WriteLookupTable
  <2> QED
    BY <1>2, <2>1, <2>2, <2>3, <2>4 DEF Next
<1> QED
  BY <1>1, <1>2, Invariance, AtomMapAssumption, PTL DEF Spec, TableSpec, Table!Spec
=============================================================================
