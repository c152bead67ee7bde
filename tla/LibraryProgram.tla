--------------------------- MODULE LibraryProgram ---------------------------
(***************************************************************************)
(* A program over the natives of Library: it holds one value and replaces  *)
(* it by what a native makes of it; or it holds an association list and    *)
(* changes it at paths, next to the map from paths to leaves that the list *)
(* stands for. What the natives promise is stated about every value such a *)
(* program reaches and every operand.                                      *)
(***************************************************************************)
EXTENDS Library, FiniteSets

CONSTANTS
  Numbers,      (* the numbers in lists                                    *)
  Letters,      (* the characters in strings                               *)
  Separators,   (* texts to search for                                     *)
  MaxItems,     (* bound: items of a list and characters of a string       *)
  Paths,        (* paths of keys in association lists                      *)
  MaxChanges    (* bound: changes of the association list                  *)

ASSUME LibraryProgramAssumption ==
  /\ Numbers \subseteq 0 .. 9 /\ Letters \subseteq ToSet(Ascii)
  /\ Separators \subseteq Seq(ToSet(Ascii)) /\ Paths \subseteq Seq({Atom(<<c>>) : c \in Letters})
  /\ {MaxItems, MaxChanges} \subseteq Nat

VARIABLES
  value,     (* the value, or the association list                         *)
  leaf,      (* per path of the association list, what is found there      *)
  changes    (* how often the association list has been changed            *)

vars == <<value, leaf, changes>>

Absent == -1           (* no value at the path                             *)
Inner == -2            (* a list with values further down                  *)
NoAlist == <<>>        (* "leaf" of a program that has no association list *)
Default == Atom(<<"B">>)

Elements == {Number(n) : n \in Numbers} \cup {List(<<Number(n)>>) : n \in Numbers}
Chars == {Atom(<<c>>) : c \in Letters}
Texts == {Atom(t) : t \in Separators}

Init ==
  \/ /\ value \in {Nil, Atom(<<>>)}
     /\ leaf = NoAlist /\ changes = 0
  \/ /\ value = Nil
     /\ leaf = [p \in Paths |-> Absent] /\ changes = 0

IsAlist == leaf # NoAlist

-----------------------------------------------------------------------------
Becomes(new) ==
  /\ ~IsAlist
  /\ new \notin {Error, Undefined}
  /\ HandleLen(new) <= MaxItems
  /\ value' = new
  /\ UNCHANGED <<leaf, changes>>

Grow ==
  \/ /\ IsList(value) /\ ToSet(value[2]) \subseteq Elements
     /\ \E e \in Elements : Becomes(AppendItems(value, <<e>>)) \/ Becomes(PrependItems(value, <<e>>))
  \/ IsAtom(value) /\ \E c \in Chars : Becomes(Concat(<<c, value>>))

Rearrange ==
  \/ Becomes(Reversed(value))
  \/ Becomes(Rest(value))
  \/ Becomes(Trim(value)) /\ IsAtom(value)

Convert ==
  \/ IsAtom(value) /\ \E sep \in Texts : Becomes(Split(value, sep))
  \/ IsList(value) /\ value # Nil /\ IsAtom(First(value)) /\ \E sep \in Texts : Becomes(Join(value, sep))

-----------------------------------------------------------------------------
(* A path as the natives take it: a list, or for one key its atom.          *)
Forms(p) == {List(p)} \cup (IF Len(p) = 1 THEN {p[1]} ELSE {})

(* What a write at p makes of what is found at q.                           *)
Written(p, v) ==
  [q \in Paths |-> CASE q = p -> v
                     [] IsStrictPrefix(q, p) -> Inner
                     [] IsStrictPrefix(p, q) -> Absent
                     [] OTHER -> leaf[q]]
Erased(p) == [q \in Paths |-> IF IsPrefix(p, q) THEN Absent ELSE leaf[q]]

Changes(new) ==
  /\ IsAlist /\ changes < MaxChanges
  /\ value' = new
  /\ changes' = changes + 1

AssocAt == \E p \in Paths, n \in Numbers : \E form \in Forms(p) :
  Changes(AssocIn(value, form, Number(n))) /\ leaf' = Written(p, n)

DissocAt == \E p \in Paths : \E form \in Forms(p) :
  Changes(DissocIn(value, form)) /\ leaf' = Erased(p)

UpdateAt == \E p \in Paths : \E form \in Forms(p) :
  /\ Changes(UpdateIn(value, form, "next"))
  /\ leaf' = Written(p, IF leaf[p] \in {Absent, Inner} THEN 0 ELSE (leaf[p] + 1) % 3)

(* Merging with a list of two pairs: their keys lose what they had.         *)
MergeWith == \E c, d \in {Head(p) : p \in Paths}, n \in Numbers :
  /\ Changes(Merge(<<value, List(<<List(<<c, Number(n)>>), List(<<d, Nil>>)>>)>>))
  /\ leaf' = [q \in Paths |-> CASE Head(q) = d -> Absent
                                [] Head(q) = c /\ c # d /\ Len(q) = 1 -> n
                                [] Head(q) = c /\ c # d /\ Len(q) > 1 -> Absent
                                [] OTHER -> leaf[q]]

Next == Grow \/ Rearrange \/ Convert \/ AssocAt \/ DissocAt \/ UpdateAt \/ MergeWith

Spec == Init /\ [][Next]_vars

-----------------------------------------------------------------------------
(* Sorting keeps every item, orders them, and leaves items that the order   *)
(* does not tell apart as they were; for a callable that holds for equal    *)
(* items, or none (with one that does not, equal items change places).      *)
Numbered == List([k \in DOMAIN value[2] |-> List(<<value[2][k], Number(k)>>)])
SortsStably ==
  IsList(value) =>
    LET stable == Sort(Numbered, "not_after")[2]
        plain == Sort(value, "none")[2]
    IN /\ ToSet(stable) = ToSet(Numbered[2]) /\ Len(stable) = Len(value[2])
       /\ \A k \in 1 .. Len(stable) - 1 :
            LET c == Compare(Key(stable[k]), Key(stable[k + 1]))
            IN c < 0 \/ (c = 0 /\ stable[k][2][2][2] < stable[k + 1][2][2][2])
       /\ plain = [k \in DOMAIN stable |-> Key(stable[k])]

(* Natives that take a position agree on the item it means, counted from    *)
(* either end and past the last one: nth finds it, assoc replaces it and    *)
(* fills up to it, dissoc takes it out, update applies the callable to it,  *)
(* a slice has those from its start to its end. Nothing is said of a        *)
(* position before the first item: the code throws there, src/README.md     *)
(* 1238 and 1284 promise the default, nil or an extension.                  *)
Reach == -MaxItems - 1 .. MaxItems + 1
PositionsAgree ==
  LET len == HandleLen(value)
      items == Items(value)
      fill == Atom(<<"B">>)
      mark == Atom(<<"A">>)
      Shown(h) == IF IsList(value) THEN h ELSE h[2][1]
      Place(i) == IF i >= 0 THEN i ELSE i + len
  IN \A i \in {m \in Reach : Place(m) >= 0} :
       LET at == Place(i)
       IN /\ Nth(value, i, Default) = IF at < len THEN Item(value, at) ELSE Default
          /\ Items(Assoc(value, i, mark, fill)) =
               [k \in 1 .. Greater(len, at + 1) |->
                 CASE k = at + 1 -> Shown(mark)
                   [] k # at + 1 /\ k <= len -> items[k]
                   [] OTHER -> Shown(fill)]
          /\ Update(value, i, "capital", fill) = Assoc(value, i, mark, fill)
          /\ Items(Dissoc(value, i)) =
               [k \in 1 .. (IF at < len THEN len - 1 ELSE len) |->
                 items[IF k <= at THEN k ELSE k + 1]]
          /\ \A j \in {m \in Reach : Place(m) >= 0} :
               Items(Slice(value, i, Number(j))) =
                 [k \in 1 .. Greater(Lesser(Place(j), len) - at, 0) |-> items[at + k]]
          /\ at < len => Nth(Reversed(value), -1 - i, Nil) = Nth(value, i, Nil)

(* Taking apart and putting together are each other's inverse: first and    *)
(* rest, init and last, chunk and concat, of whatever sizes; flattening     *)
(* leaves no list, keeps the items of the parts and has nothing left to do  *)
(* the second time; unique keeps the first of every kind; a reduction       *)
(* without an initial value begins with the first item. How far flatten     *)
(* goes with a depth is not stated: the code takes one level less off than  *)
(* src/README.md:1308 says.                                                 *)
PartsMakeTheWhole ==
  /\ HandleLen(value) > 0 =>
       /\ Concat(<<Of(value, <<>>), IF IsList(value) THEN List(<<First(value)>>) ELSE First(value)>>)[2]
            \o Items(Rest(value)) = Items(value)
       /\ Items(InitItems(value)) \o Items(Of(value, IF IsList(value) THEN <<LastItem(value)>>
                                                     ELSE Text(LastItem(value)))) = Items(value)
       /\ IsTruthy(StartsWith(value, First(value))) /\ IsTruthy(EndsWith(value, LastItem(value)))
  /\ IsList(value) =>
       /\ \A n \in 1 .. MaxItems + 1 :
            LET chunks == Chunk(value, n)
            IN /\ value # Nil => Concat(chunks[2]) = value
               /\ Flatten(chunks, -1) = Flatten(value, -1)
               /\ \A k \in DOMAIN chunks[2] :
                    HandleLen(chunks[2][k]) \in IF k = Len(chunks[2]) THEN 1 .. n ELSE {n}
       /\ Flatten(Flatten(value, -1), -1) = Flatten(value, -1)
       /\ \A e \in ToSet(Flatten(value, -1)[2]) : ~IsList(e)
       /\ LET kept == Unique(value)[2]
          IN /\ ToSet(kept) = ToSet(value[2]) /\ Len(kept) = Cardinality(ToSet(kept))
             /\ \A k \in 1 .. Len(kept) - 1 :
                  Compare(IndexOf(value, kept[k]), IndexOf(value, kept[k + 1])) < 0
       /\ ToSet(value[2]) \subseteq Elements /\ (\A e \in ToSet(value[2]) : IsNumber(e)) =>
            /\ Reduce(value, Nil, "add") = Reduce(Rest(value), First(value), "add")
            /\ AllTrue(value, "small") = FromBool(HasItem(value, Number(2)) = Nil)
            /\ Len(value[2]) = 2 => Apply(value, "add") = Reduce(value, Nil, "add")
            /\ AnyTrue(value, "none") = FromBool(value # Nil)

(* A range from the length of the sequence has the numbers from there on, a *)
(* step apart, that lie before its end, in both directions; taken as        *)
(* positions, every second item of the sequence and none beyond it.         *)
RangesEnd ==
  LET start == HandleLen(value)
  IN /\ \A end \in Reach : \A step \in Reach \ {0} :
          LET items == RangeOf(start, end, step)[2]
              Before(n) == IF step > 0 THEN n < end ELSE n > end
          IN /\ \A k \in DOMAIN items : items[k] = Number(start + (k - 1) * step) /\ Before(items[k][2])
             /\ ~Before(start + Len(items) * step)
     /\ LET downwards == RangeOf(start - 1, -1, -2)[2]
        IN [k \in DOMAIN downwards |-> Nth(value, downwards[k][2], Error)]
             = [k \in 1 .. (start + 1) \div 2 |-> Item(Reversed(value), 2 * (k - 1))]

(* Searching, splitting, joining and replacing see the same occurrences of  *)
(* a text, from the left and without overlap, also at the end of the string *)
(* and next to each other. (A text longer than the string is outside what   *)
(* split and replace define.)                                               *)
OccurrencesAgree ==
  IsAtom(value) =>
    /\ \A sep \in {t \in Texts : HandleLen(t) \in 1 .. HandleLen(value)} :
         LET parts == Split(value, sep)
         IN /\ Join(parts, sep) = value
            /\ \A k \in DOMAIN parts[2] : HasItem(parts[2][k], sep) = Nil
            /\ \A other \in Texts : Replace(value, sep, other) = Join(parts, other)
            /\ IndexOf(value, sep) = IF Len(parts[2]) = 1 THEN Nil ELSE Number(HandleLen(parts[2][1]))
            /\ EndsWith(value, sep) = StartsWith(Reversed(value), Reversed(sep))
    /\ Implode(<<Explode(<<value>>)>>) = value
    /\ LET inner == Trim(value)
       IN /\ \A side \in {First(inner), LastItem(inner)} : side # Atom(<<" ">>)
          /\ Trim(Concat(<<Atom(<<" ">>), value, Atom(<<" ">>)>>)) = inner
          /\ HasItem(value, inner) = FromBool(HandleLen(inner) > 0)
          /\ Lower(Upper(value)) = Lower(value)

(* What get-in finds in an association list is what was put last at that    *)
(* path, by whichever of assoc-in, update-in and merge, and the default or  *)
(* nil where nothing was, or where it was removed; a write at one path      *)
(* leaves all paths alone that do not begin with it.                        *)
PathsAreAMap ==
  IsAlist =>
    /\ \A p \in Paths : \A form \in Forms(p) :
         LET found == GetIn(value, form, Default)
         IN CASE leaf[p] = Absent -> found \in {Default, Nil}
              [] leaf[p] = Inner -> IsList(found)
              [] OTHER -> found = Number(leaf[p])
    /\ Len(KeysOf(value)[2]) = Cardinality(ToSet(KeysOf(value)[2]))
    /\ \A k \in DOMAIN value[2] :
         /\ ValuesOf(value)[2][k] = GetIn(value, KeysOf(value)[2][k], Default)
         /\ FindEntry(value, KeysOf(value)[2][k]) = value[2][k]
=============================================================================
