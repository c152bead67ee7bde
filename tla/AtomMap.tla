------------------------------ MODULE AtomMap ------------------------------
(***************************************************************************)
(* The map of interned atoms: an open-addressed table with triangular      *)
(* probing, tombstones and growth (src/atom.c), looked up by all threads   *)
(* and thinned out by the sweep of the collector (src/item.c).             *)
(*                                                                         *)
(* A lookup searches under the read lock and, when it finds nothing, again *)
(* under the write lock, where it inserts: two actions, between which      *)
(* other threads may do theirs. The lock itself is RwMutex. A quoted       *)
(* atom is inserted under the spelling it has in the source and then       *)
(* renamed to the text the spelling stands for.                            *)
(***************************************************************************)
EXTENDS Integers, Sequences, SequencesExt

CONSTANTS
  Threads,
  Items,        (* the items atoms are allocated from                      *)
  Strings,      (* byte strings: spellings and texts                       *)
  Requests,     (* the lookups made: <<string, quoted>>                    *)
  Text,         (* per string, what reduct_atom_normalize_escape makes of it *)
  Hash,         (* per string, reduct_hash                                 *)
  Initial,      (* REDUCT_ATOM_MAP_INITIAL                                 *)
  MaxCapacity,  (* bound: a lookup that would grow the map further waits   *)
  Null,         (* an empty slot                                           *)
  Tombstone,    (* REDUCT_ATOM_TOMBSTONE                                   *)
  None          (* no request, no atom                                     *)

(* The powers of two.                                                       *)
Power[k \in Nat] == IF k = 0 THEN 1 ELSE 2 * Power[k - 1]

ASSUME AtomMapAssumption ==
  /\ Requests \subseteq Strings \X BOOLEAN
  /\ Text \in [Strings -> Strings]
  /\ Hash \in [Strings -> Nat]
  /\ \E k \in 3 .. 32 : Initial = Power[k]
  /\ Null \notin Items /\ Tombstone \notin Items /\ Null # Tombstone
  /\ None \notin Requests \cup Items

VARIABLES
  map,         (* atom.map, indexed from 0                                 *)
  size,        (* atom.size                                                *)
  tombstones,  (* atom.tombstones                                          *)
  atoms,       (* the interned atoms: text, quoted, hash and index         *)
  missed,      (* per thread, the request its read-locked search missed    *)
  found        (* per thread, its last request and the atom it was given   *)

vars == <<map, size, tombstones, atoms, missed, found>>

capacity == Cardinality(DOMAIN map)

Init ==
  /\ map = <<>>
  /\ size = 0
  /\ tombstones = 0
  /\ atoms = <<>>
  /\ missed = [t \in Threads |-> None]
  /\ found = [t \in Threads |-> None]

Alive(slot) == slot \notin {Null, Tombstone}

(* The n-th slot that a search for a hash visits in a table.                *)
Probe(table, hash, n) == (hash + (n * (n + 1)) \div 2) % Cardinality(DOMAIN table)

(* The first probe of a hash that meets an empty slot.                      *)
Gap(table, hash) ==
  Min({n \in DOMAIN table : table[Probe(table, hash, n)] = Null})

Matches(slot, str, quoted) ==
  /\ Alive(slot)
  /\ atoms[slot].hash = Hash[str]
  /\ atoms[slot].quoted = quoted
  /\ atoms[slot].text = str

(* Mutant: the search stops at the first tombstone.                         *)
FindHasty(table, str, quoted) ==
  LET slot(n) == table[Probe(table, Hash[str], n)]
      stop == Min({n \in DOMAIN table : ~ Alive(slot(n))})
      hits == {n \in 0 .. stop : Matches(slot(n), str, quoted)}
  IN  Probe(table, Hash[str], IF hits # {} THEN Min(hits) ELSE stop)

(* The slot of the atom, or else the first tombstone on the way to the      *)
(* first empty slot, or else that.                                          *)
Find(table, str, quoted) ==
  LET slot(n) == table[Probe(table, Hash[str], n)]
      gap == Gap(table, Hash[str])
      hits == {n \in 0 .. gap : Matches(slot(n), str, quoted)}
      holes == {n \in 0 .. gap : slot(n) = Tombstone}
  IN  Probe(table, Hash[str],
            CASE hits # {} -> Min(hits)
              [] hits = {} /\ holes # {} -> Min(holes)
              [] OTHER -> gap)

Empty(slots) == [i \in 0 .. slots - 1 |-> Null]

Place(table, atom) ==
  LET hash == atoms[atom].hash
  IN  [table EXCEPT ![Probe(table, hash, Gap(table, hash))] = atom]

(* The alive slots move to a table of twice the size, in slot order: that   *)
(* table after the first n slots of the old one.                            *)
Moved[n \in 0 .. capacity] ==
  IF n = 0 THEN Empty(2 * capacity)
  ELSE IF Alive(map[n - 1]) THEN Place(Moved[n - 1], map[n - 1])
  ELSE Moved[n - 1]

Rehashed == Moved[capacity]

(* Mutant: the limit counts the atoms only.                                 *)
MustGrowBySize == size * 4 > capacity * 3

MustGrow == (size + tombstones) * 4 > capacity * 3

(* The table an insertion works on.                                         *)
Roomy == CASE capacity = 0 -> Empty(Initial)
           [] capacity # 0 /\ MustGrow -> Rehashed
           [] OTHER -> map

TombstonesLeft == IF capacity = 0 \/ MustGrow THEN 0 ELSE tombstones

(* Mutant: growth leaves the old index in the atoms.                        *)
ReindexedNever(table) == atoms

(* Growth stores each atom's new index in it.                               *)
Reindexed(table) ==
  [a \in DOMAIN atoms |->
     [atoms[a] EXCEPT !.index = CHOOSE i \in DOMAIN table : table[i] = a]]

(* reduct_atom_lookup up to the unlock of the read lock.                    *)
ReadLookup(t) ==
  \E req \in Requests :
    /\ missed[t] = None
    /\ LET hit == capacity # 0 /\ Alive(map[Find(map, req[1], req[2])])
       IN  IF hit
           THEN /\ found' = [found EXCEPT ![t] =
                               [req |-> req, atom |-> map[Find(map, req[1], req[2])]]]
                /\ UNCHANGED missed
           ELSE /\ missed' = [missed EXCEPT ![t] = req]
                /\ found' = [found EXCEPT ![t] = None]
    /\ UNCHANGED <<map, size, tombstones, atoms>>

(* The record of a new atom; a quoted one has been renamed by               *)
(* reduct_atom_normalize_escape and reduct_atom_map_update.                 *)
NewAtom(str, quoted, index) ==
  LET text == IF quoted THEN Text[str] ELSE str
  IN  [text |-> text, quoted |-> quoted, hash |-> Hash[text], index |-> index]

(* The atoms with one more.                                                 *)
Interned(as, atom, record) ==
  [a \in DOMAIN as \cup {atom} |-> IF a = atom THEN record ELSE as[a]]

(* An insertion into a tombstone takes it off the count; the rename of a    *)
(* quoted atom, which stays in its slot, puts one more on it.               *)
TombstonesAfter(table, index, quoted) ==
  TombstonesLeft
    - (IF table[index] = Tombstone THEN 1 ELSE 0)
    + (IF quoted THEN 1 ELSE 0)

Answer(t, atom) ==
  /\ found' = [found EXCEPT ![t] = [req |-> missed[t], atom |-> atom]]
  /\ missed' = [missed EXCEPT ![t] = None]

(* reduct_atom_lookup under the write lock: search again, insert.           *)
WriteLookup(t) ==
  /\ missed[t] # None
  /\ Cardinality(DOMAIN Roomy) <= MaxCapacity
  /\ LET str == missed[t][1]
         quoted == missed[t][2]
         table == Roomy
         index == Find(table, str, quoted)
     IN  IF Alive(table[index])
         THEN /\ Answer(t, table[index])
              /\ map' = table
              /\ atoms' = Reindexed(table)
              /\ tombstones' = TombstonesLeft
              /\ UNCHANGED size
         ELSE \E item \in Items \ DOMAIN atoms :
                /\ Answer(t, item)
                /\ map' = [table EXCEPT ![index] = item]
                /\ atoms' = Interned(Reindexed(table), item, NewAtom(str, quoted, index))
                /\ tombstones' = TombstonesAfter(table, index, quoted)
                /\ size' = size + 1

Unheld == DOMAIN atoms \ {found[t].atom : t \in {u \in Threads : found[u] # None}}

(* The sweep, which runs when no thread is inside a lookup, frees any of    *)
(* the atoms that no thread was given last.                                 *)
Sweep ==
  \E dead \in SUBSET Unheld :
    /\ dead # {}
    /\ \A t \in Threads : missed[t] = None
    /\ map' = [i \in DOMAIN map |->
                 IF i \in {atoms[a].index : a \in dead} THEN Tombstone ELSE map[i]]
    /\ tombstones' = tombstones + Cardinality(dead)
    /\ size' = size - Cardinality(dead)
    /\ atoms' = Restrict(atoms, DOMAIN atoms \ dead)
    /\ UNCHANGED <<missed, found>>

Next == (\E t \in Threads : ReadLookup(t) \/ WriteLookup(t)) \/ Sweep

Spec == Init /\ [][Next]_vars
-----------------------------------------------------------------------------
(* Each interned atom knows its slot, and each slot's atom is interned: the *)
(* sweep, which goes from the atom to its slot (src/item.c:163-165), never  *)
(* buries another atom and never leaves a freed one in the map.             *)
SlotsAgree ==
  /\ \A a \in DOMAIN atoms : map[atoms[a].index] = a
  /\ \A i \in DOMAIN map : Alive(map[i]) => map[i] \in DOMAIN atoms /\ atoms[map[i]].index = i

(* size counts the atoms of the map, and tombstones is never below the      *)
(* number of tombstones: the rename of a quoted atom makes it larger, but   *)
(* nothing that reads, inserts, grows or sweeps makes it smaller.           *)
CountsAgree ==
  /\ size = Cardinality({i \in DOMAIN map : Alive(map[i])})
  /\ tombstones >= Cardinality({i \in DOMAIN map : map[i] = Tombstone})

(* The same string has one atom, if no spelling but its own stands for it.  *)
Unescaped(str) == \A s \in Strings : Text[s] = str => s = str

PlainOnce ==
  \A a, b \in DOMAIN atoms :
    /\ atoms[a].text = atoms[b].text
    /\ atoms[a].quoted = atoms[b].quoted
    /\ a # b
    => atoms[a].quoted /\ ~ Unescaped(atoms[a].text)

(* A string that stands for itself is found, although others have been      *)
(* buried on the way to it, whatever slot it moved to.                      *)
PlainFound ==
  \A a \in DOMAIN atoms :
    (atoms[a].quoted => Unescaped(atoms[a].text))
      => map[Find(map, atoms[a].text, atoms[a].quoted)] = a

(* However lookups, growth and sweeps of the intern map interleave, slots   *)
(* and atoms point at each other, the counts that growth goes by are right, *)
(* and interning makes equal strings one atom, which a search finds         *)
(* (src/atom.c:49-198).                                                     *)
MapConsistent == SlotsAgree /\ CountsAgree /\ PlainOnce /\ PlainFound

(* A search for any string ends, whatever its hash (src/atom.c:65): the     *)
(* growth limit leaves an empty slot although tombstones fill up the map,   *)
(* and before it has taken as many steps as there are slots the search is   *)
(* at an empty one.                                                         *)
ProbeEnds ==
  capacity # 0 =>
    \A str \in Strings : \E n \in DOMAIN map : map[Probe(map, Hash[str], n)] = Null

(* What the callers of reduct_atom_lookup see of atoms.                     *)
Texts(as) == [a \in DOMAIN as |-> [text |-> as[a].text, quoted |-> as[a].quoted]]

Table == INSTANCE InternTable WITH interned <- Texts(atoms), given <- found

(* To its callers the map is a table that a lookup accesses at once         *)
(* (src/atom.c:295-344): the atom is given to them by one of the two        *)
(* searches, and what others do between these does not show, nor do         *)
(* growth, tombstones and the rename.                                       *)
TableSpec == Table!Spec

(* A lookup returns an atom with the text that the spelling stands for, as  *)
(* the README's table of escape sequences says.                             *)
LookupReadsText ==
  \A t \in Threads :
    found[t] # None =>
      LET req == found[t].req
      IN  atoms[found[t].atom].text = IF req[2] THEN Text[req[1]] ELSE req[1]
=============================================================================
