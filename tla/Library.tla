------------------------------- MODULE Library -------------------------------
(***************************************************************************)
(* The natives of src/standard.c over lists and strings: one operator per  *)
(* native, which answers a handle, Error if the native throws, or          *)
(* Undefined. Loops that go over an index are quantified, loops whose      *)
(* steps depend on what they find are recursive operators.                 *)
(*                                                                         *)
(* A callable is a name; Calling says what the lambda of that name does.   *)
(***************************************************************************)
EXTENDS Values, FiniteSetsExt

Key(h) == IF IsList(h) THEN h[2][1] ELSE h
Calling(callable, args) ==
  CASE callable = "before"     -> FromBool(Compare(Key(args[1]), Key(args[2])) < 0)
    [] callable = "not_after"  -> FromBool(Compare(Key(args[1]), Key(args[2])) <= 0)
    [] callable = "add"        -> Number(args[1][2] + args[2][2])
    [] callable = "small"      -> FromBool(Compare(args[1], Number(2)) < 0)
    [] callable = "next"       -> IF IsNumber(args[1]) THEN Number((args[1][2] + 1) % 3)
                                  ELSE Number(0)
    [] callable = "capital"    -> Atom(<<"A">>)

Lesser(m, n) == IF m < n THEN m ELSE n
Greater(m, n) == IF m < n THEN n ELSE m
Of(h, items) == IF IsList(h) THEN List(items) ELSE Atom(items)
Items(h) == IF IsList(h) THEN h[2] ELSE Text(h)
Item(h, n) == IF IsList(h) THEN h[2][n + 1] ELSE Atom(<<Text(h)[n + 1]>>)
Cut(s, start, end) == SubSeq(s, start + 1, end)

-----------------------------------------------------------------------------
(* Sorting: reduct_sort and reduct_sort_merge.                              *)

(* Mutant: the right run goes first when the two are equal.                 *)
UseLeftStrict(callable, x, y) ==
  IF callable = "none" THEN Compare(x, y) < 0 ELSE ~IsTruthy(Calling(callable, <<y, x>>))

UseLeft(callable, x, y) ==
  IF callable = "none" THEN Compare(x, y) <= 0 ELSE IsTruthy(Calling(callable, <<x, y>>))

RECURSIVE SortMerge(_, _, _)
SortMerge(callable, left, right) ==
  IF left = <<>> THEN right
  ELSE IF right = <<>> THEN left
  ELSE IF UseLeft(callable, Head(left), Head(right))
  THEN <<Head(left)>> \o SortMerge(callable, Tail(left), right)
  ELSE <<Head(right)>> \o SortMerge(callable, left, Tail(right))

(* One round merges neighbouring runs of the width; the last may be short   *)
(* or alone.                                                                *)
Round(callable, a, width) ==
  FlattenSeq([k \in 1 .. (Len(a) + 2 * width - 1) \div (2 * width) |->
    LET i == (k - 1) * 2 * width
        right == Lesser(i + width, Len(a))
        end == Lesser(i + 2 * width, Len(a))
    IN SortMerge(callable, Cut(a, i, right), Cut(a, right, end))])

RECURSIVE Rounds(_, _, _)
Rounds(callable, a, width) ==
  IF width >= Len(a) THEN a ELSE Rounds(callable, Round(callable, a, width), width * 2)

Sort(list, callable) == IF IsList(list) THEN List(Rounds(callable, list[2], 1)) ELSE Error

-----------------------------------------------------------------------------
(* Folding: reduct_reduce, reduct_apply, reduct_any, reduct_all.            *)

(* An accumulator that is nil, at the start or by a call, is replaced by    *)
(* the next item.                                                           *)
Reduce(list, initial, callable) ==
  IF ~IsList(list) THEN Error
  ELSE FoldLeft(LAMBDA acc, item : IF IsNil(acc) THEN item ELSE Calling(callable, <<acc, item>>),
                initial, list[2])

Apply(list, callable) == IF IsList(list) THEN Calling(callable, list[2]) ELSE Error

MaybeCall(callable, item) == IF callable = "none" THEN item ELSE Calling(callable, <<item>>)
AnyTrue(list, callable) ==
  FromBool(\E k \in DOMAIN list[2] : IsTruthy(MaybeCall(callable, list[2][k])))
AllTrue(list, callable) ==
  FromBool(\A k \in DOMAIN list[2] : IsTruthy(MaybeCall(callable, list[2][k])))

-----------------------------------------------------------------------------
(* Positions.                                                               *)

(* Mutant: the first item cannot be reached from the end.                   *)
NormalizeIndexShort(index, length) ==
  CASE index >= 0 -> index
    [] index < 0 /\ index + length > 0 -> index + length
    [] OTHER -> -1

(* reduct_handle_normalize_index: OutOfRange if it throws.                  *)
OutOfRange == -1
NormalizeIndex(index, length) ==
  CASE index >= 0 -> index
    [] index < 0 /\ index + length >= 0 -> index + length
    [] OTHER -> OutOfRange

(* reduct_sequence_normalize_range; an end that is nil is the length.       *)
NormalizeEnd(end, length) == IF IsNil(end) THEN length ELSE NormalizeIndex(end[2], length)

Slice(h, start, end) ==
  LET length == HandleLen(h)
      s == NormalizeIndex(start, length)
      e == NormalizeEnd(end, length)
      from == Lesser(s, length)
      upto == Lesser(e, length)
  IN CASE s = OutOfRange \/ e = OutOfRange -> Error
       [] from >= upto /\ s # OutOfRange /\ e # OutOfRange -> Nil
       [] OTHER -> Of(h, Cut(Items(h), from, upto))

Nth(h, index, default) ==
  LET n == NormalizeIndex(index, HandleLen(h))
  IN CASE n = OutOfRange -> Error
       [] n >= HandleLen(h) -> default
       [] OTHER -> Item(h, n)

(* reduct_assoc: a list grows with the fill value, and without one neither  *)
(* to the index of its length; a string may grow by one without.            *)
Assoc(h, index, value, fill) ==
  LET length == HandleLen(h)
      n == NormalizeIndex(index, length)
      pad == [k \in 1 .. Greater(n - length, 0) |-> fill]
      padText == FlattenSeq([k \in DOMAIN pad |-> Text(fill)])
  IN IF n = OutOfRange THEN Error
     ELSE IF IsList(h)
     THEN IF n >= length /\ IsNil(fill) THEN Error
          ELSE List(Cut(h[2], 0, Lesser(n, length)) \o pad \o <<value>>
                    \o Cut(h[2], n + 1, length))
     ELSE IF IsList(value) \/ (n > length /\ IsList(fill)) THEN Error
          ELSE Atom(Cut(Text(h), 0, Lesser(n, length)) \o padText \o Text(value)
                    \o Cut(Text(h), n + 1, length))

Dissoc(h, index) ==
  LET n == NormalizeIndex(index, HandleLen(h))
  IN CASE n = OutOfRange -> Error
       [] n >= HandleLen(h) -> h
       [] OTHER -> Of(h, RemoveAt(Items(h), n + 1))

Update(h, index, callable, fill) ==
  LET current == Nth(h, index, fill)
  IN IF current = Error THEN Error ELSE Assoc(h, index, Calling(callable, <<current>>), fill)

SequenceEdge(h, first) ==
  IF HandleLen(h) = 0 THEN Nil ELSE Item(h, IF first THEN 0 ELSE HandleLen(h) - 1)
First(h) == SequenceEdge(h, TRUE)
LastItem(h) == SequenceEdge(h, FALSE)

SequenceTrim(h, rest) ==
  CASE HandleLen(h) <= 1 -> Nil
    [] HandleLen(h) > 1 /\ rest -> Of(h, Tail(Items(h)))
    [] OTHER -> Of(h, Front(Items(h)))
Rest(h) == SequenceTrim(h, TRUE)
InitItems(h) == SequenceTrim(h, FALSE)

(* Mutant: the number of steps is rounded down.                             *)
RangeOfDown(start, end, step) ==
  LET count == CASE step > 0 /\ end > start -> (end - start) \div step
                 [] step < 0 /\ start > end -> (start - end) \div (-step)
                 [] OTHER -> 0
  IN IF step = 0 THEN Error ELSE List([k \in 1 .. count |-> Number(start + (k - 1) * step)])

(* reduct_range: the number of steps is rounded up.                         *)
RangeOf(start, end, step) ==
  LET count == CASE step > 0 /\ end > start -> (end - start + step - 1) \div step
                 [] step < 0 /\ start > end -> (start - end - step - 1) \div (-step)
                 [] OTHER -> 0
  IN IF step = 0 THEN Error ELSE List([k \in 1 .. count |-> Number(start + (k - 1) * step)])

Repeat(h, n) == IF n < 0 THEN Error ELSE List([k \in 1 .. n |-> h])

(* Mutant: the number of chunks is rounded down.                            *)
ChunkDown(list, size) ==
  LET length == Len(list[2])
  IN IF size <= 0 THEN Error
     ELSE List([k \in 1 .. length \div size |->
                 List(Cut(list[2], (k - 1) * size, Lesser(k * size, length)))])

(* reduct_chunk divides by a size of zero.                                  *)
Chunk(list, size) ==
  LET length == Len(list[2])
  IN CASE ~IsList(list) -> list
       [] IsList(list) /\ size < 0 -> Error
       [] IsList(list) /\ size = 0 -> Undefined
       [] OTHER -> List([k \in 1 .. (length + size - 1) \div size |->
                          List(Cut(list[2], (k - 1) * size, Lesser(k * size, length)))])

-----------------------------------------------------------------------------
(* Whole sequences.                                                         *)

Reversed(h) == Of(h, Reverse(Items(h)))

(* reduct_append and reduct_prepend take any number of items.               *)
AppendItems(list, extra) == IF IsList(list) THEN List(list[2] \o extra) ELSE Error
PrependItems(list, extra) == IF IsList(list) THEN List(extra \o list[2]) ELSE Error

(* reduct_concat: with a list among the operands the others are items.      *)
Concat(args) ==
  IF Len(args) = 1 THEN args[1]
  ELSE IF \E k \in DOMAIN args : IsList(args[k])
  THEN List(FlattenSeq([k \in DOMAIN args |-> IF IsList(args[k]) THEN args[k][2] ELSE <<args[k]>>]))
  ELSE Atom(FlattenSeq([k \in DOMAIN args |-> Text(args[k])]))

(* reduct_flatten_impl; a negative depth is never used up.                  *)
RECURSIVE FlattenImpl(_, _)
FlattenImpl(h, depth) ==
  IF depth = 0 \/ ~IsList(h) THEN <<h>>
  ELSE FlattenSeq([k \in DOMAIN h[2] |-> FlattenImpl(h[2][k], depth - 1)])

Flatten(h, depth) == IF ~IsList(h) \/ depth = 0 THEN h ELSE List(FlattenImpl(h, depth))

Unique(h) ==
  IF ~IsList(h) THEN h
  ELSE List(FoldLeft(LAMBDA buf, item :
                       IF \E k \in DOMAIN buf : Compare(item, buf[k]) = 0 THEN buf
                       ELSE Append(buf, item),
                     <<>>, h[2]))

-----------------------------------------------------------------------------
(* Strings.                                                                 *)

MatchesAt(s, t, i) == i + Len(t) <= Len(s) /\ Cut(s, i, i + Len(t)) = t

IndexOf(h, target) ==
  LET s == Text(h)
      t == Text(target)
      hits == IF IsList(h) THEN {i \in 0 .. Len(h[2]) - 1 : Compare(h[2][i + 1], target) = 0}
              ELSE IF Len(t) = 0 THEN {}
              ELSE {i \in 0 .. Len(s) - Len(t) : MatchesAt(s, t, i)}
  IN IF hits = {} THEN Nil ELSE Number(Min(hits))
HasItem(h, target) == FromBool(~IsNil(IndexOf(h, target)))

(* The second loop of reduct_replace; the first counts the same matches for *)
(* the length of the result. For an old text longer than the string the     *)
(* bound of both, a difference of unsigned lengths, is beyond the string.   *)
RECURSIVE ReplaceFrom(_, _, _, _, _)
ReplaceFrom(s, old, new, i, lastPos) ==
  IF i > Len(s) - Len(old) THEN Cut(s, lastPos, Len(s))
  ELSE IF MatchesAt(s, old, i)
  THEN Cut(s, lastPos, i) \o new \o ReplaceFrom(s, old, new, i + Len(old), i + Len(old))
  ELSE ReplaceFrom(s, old, new, i + 1, lastPos)

Replace(h, old, new) ==
  IF IsList(h)
  THEN List([k \in DOMAIN h[2] |-> IF Compare(h[2][k], old) = 0 THEN new ELSE h[2][k]])
  ELSE CASE IsList(old) \/ IsList(new) -> Error
         [] IsAtomLike(old) /\ IsAtomLike(new) /\ Len(Text(old)) = 0 -> h
         [] IsAtomLike(old) /\ IsAtomLike(new) /\ Len(Text(old)) > Len(Text(h)) -> Undefined
         [] OTHER -> Atom(ReplaceFrom(Text(h), Text(old), Text(new), 0, 0))

(* Mutant: after a separator the loop goes on one character too far.        *)
RECURSIVE SplitFromFar(_, _, _, _)
SplitFromFar(s, sep, i, lastPos) ==
  IF i > Len(s) - Len(sep) THEN <<Atom(Cut(s, lastPos, Len(s)))>>
  ELSE IF MatchesAt(s, sep, i)
  THEN <<Atom(Cut(s, lastPos, i))>> \o SplitFromFar(s, sep, i + Len(sep) + 1, i + Len(sep))
  ELSE SplitFromFar(s, sep, i + 1, lastPos)

RECURSIVE SplitFrom(_, _, _, _)
SplitFrom(s, sep, i, lastPos) ==
  IF i > Len(s) - Len(sep) THEN <<Atom(Cut(s, lastPos, Len(s)))>>
  ELSE IF MatchesAt(s, sep, i)
  THEN <<Atom(Cut(s, lastPos, i))>> \o SplitFrom(s, sep, i + Len(sep), i + Len(sep))
  ELSE SplitFrom(s, sep, i + 1, lastPos)

(* reduct_split, with the same difference of unsigned lengths.              *)
Split(h, sep) ==
  CASE Len(Text(sep)) = 0 -> List([k \in DOMAIN Text(h) |-> Atom(<<Text(h)[k]>>)])
    [] Len(Text(sep)) > Len(Text(h)) -> Undefined
    [] OTHER -> List(SplitFrom(Text(h), Text(sep), 0, 0))

Join(list, sep) ==
  IF ~IsList(list) \/ \E k \in DOMAIN list[2] : IsList(list[2][k]) THEN Error
  ELSE Atom(FlattenSeq([k \in DOMAIN list[2] |->
              Text(list[2][k]) \o (IF k < Len(list[2]) THEN Text(sep) ELSE <<>>)]))

CheckEdge(h, target, start) ==
  IF IsList(h)
  THEN FromBool(HandleLen(h) > 0 /\ Compare(SequenceEdge(h, start), target) = 0)
  ELSE LET s == Text(h)
           t == Text(target)
       IN FromBool(Len(t) <= Len(s) /\ MatchesAt(s, t, IF start THEN 0 ELSE Len(s) - Len(t)))
StartsWith(h, prefix) == CheckEdge(h, prefix, TRUE)
EndsWith(h, suffix) == CheckEdge(h, suffix, FALSE)

Transform(h, from, to) ==
  Atom([k \in DOMAIN Text(h) |->
    IF \E m \in DOMAIN from : from[m] = Text(h)[k]
    THEN to[CHOOSE m \in DOMAIN from : from[m] = Text(h)[k]] ELSE Text(h)[k]])
Upper(h) == Transform(h, <<"a", "b">>, <<"A", "B">>)
Lower(h) == Transform(h, <<"A", "B">>, <<"a", "b">>)

Trim(h) ==
  LET s == Text(h)
      inner == {k \in DOMAIN s : s[k] # " "}
  IN IF inner = {} THEN Atom(<<>>) ELSE Atom(SubSeq(s, Min(inner), Max(inner)))

(* reduct_explode and reduct_implode, which cuts a number to eight bits:    *)
(* the codes are the places in Ascii, and there are Len(Ascii) of them.     *)
Explode(args) ==
  List(FlattenSeq([k \in DOMAIN args |-> [m \in DOMAIN Text(args[k]) |->
                                           Number(CharCode[Text(args[k])[m]])]]))
Implode(args) ==
  Atom(FlattenSeq([k \in DOMAIN args |->
         IF ~IsList(args[k]) THEN <<>>
         ELSE [m \in DOMAIN args[k][2] |-> Ascii[((args[k][2][m][2] - 1) % Len(Ascii)) + 1]]]))

-----------------------------------------------------------------------------
(* Association lists.                                                       *)

IsEntry(entry, key, atLeast) ==
  IsList(entry) /\ Len(entry[2]) >= atLeast /\ IsAtom(entry[2][1]) /\ entry[2][1] = key
NoEntry == 0
EntryOf(list, key, atLeast) ==
  LET found == {k \in DOMAIN list[2] : IsEntry(list[2][k], key, atLeast)}
  IN IF found = {} THEN NoEntry ELSE Min(found)

(* reduct_find_pair, which passes over entries without a value, and         *)
(* reduct_list_find_entry and reduct_alist_assoc, which do not.             *)
FindPair(list, key) == EntryOf(list, key, 2)
FindEntry(list, key) ==
  LET k == EntryOf(list, key, 1) IN IF k = NoEntry THEN Nil ELSE list[2][k]

AlistAssoc(h, key, val) ==
  LET pair == List(<<key, val>>)
      k == IF IsList(h) THEN EntryOf(h, key, 1) ELSE NoEntry
  IN CASE ~IsList(h) -> List(<<pair>>)
       [] IsList(h) /\ k = NoEntry -> List(Append(h[2], pair))
       [] OTHER -> List([h[2] EXCEPT ![k] = pair])

(* A path is an atom or a list of atoms.                                    *)
Keys(path) == IF IsList(path) THEN path[2] ELSE <<path>>

RECURSIVE GetAlong(_, _, _)
GetAlong(current, keys, default) ==
  IF keys = <<>> THEN current
  ELSE IF ~IsList(current) THEN default
  ELSE LET k == FindPair(current, Head(keys))
       IN IF k = NoEntry THEN default ELSE GetAlong(current[2][k][2][2], Tail(keys), default)
GetIn(h, path, default) == GetAlong(h, Keys(path), default)

(* Mutant: what is found under a key is replaced, not descended into.       *)
RECURSIVE AssocAlongFlat(_, _, _)
AssocAlongFlat(h, keys, val) ==
  IF keys = <<>> THEN val
  ELSE AlistAssoc(h, Head(keys), AssocAlongFlat(Nil, Tail(keys), val))

RECURSIVE AssocAlong(_, _, _)
AssocAlong(h, keys, val) ==
  IF keys = <<>> THEN val
  ELSE LET k == IF IsList(h) THEN FindPair(h, Head(keys)) ELSE NoEntry
           sub == IF k = NoEntry THEN Nil ELSE h[2][k][2][2]
       IN AlistAssoc(h, Head(keys), AssocAlong(sub, Tail(keys), val))
AssocIn(h, path, val) == AssocAlong(h, Keys(path), val)

RECURSIVE DissocAlong(_, _)
DissocAlong(h, keys) ==
  IF keys = <<>> \/ ~IsList(h) THEN h
  ELSE LET entry == EntryOf(h, Head(keys), 1)
           pair == FindPair(h, Head(keys))
       IN IF Len(keys) = 1
          THEN IF entry = NoEntry THEN h ELSE List(RemoveAt(h[2], entry))
          ELSE IF pair = NoEntry THEN h
          ELSE LET val == DissocAlong(h[2][pair][2][2], Tail(keys))
               IN IF val = h[2][pair][2][2] THEN h ELSE AlistAssoc(h, Head(keys), val)
DissocIn(h, path) == DissocAlong(h, Keys(path))

UpdateIn(h, path, callable) ==
  AssocIn(h, path, Calling(callable, <<GetIn(h, path, Nil)>>))

(* reduct_list_project; its indices are 0 and 1.                            *)
Project(list, index) ==
  LET entries == SelectSeq(list[2], LAMBDA e : IsList(e) /\ Len(e[2]) > index)
  IN List([k \in DOMAIN entries |-> entries[k][2][index + 1]])
KeysOf(list) == Project(list, 0)
ValuesOf(list) == Project(list, 1)

(* reduct_merge: a later pair takes the place of an equal key's.            *)
MergePair(buf, pair) ==
  LET same == {k \in DOMAIN buf : IsEqual(buf[k][2][1], pair[2][1])}
  IN IF same = {} THEN Append(buf, pair) ELSE [buf EXCEPT ![Min(same)] = pair]
Merge(args) ==
  LET lists == SelectSeq(args, IsList)
      entries == FlattenSeq([k \in DOMAIN lists |-> lists[k][2]])
      pairs == SelectSeq(entries, LAMBDA e : IsList(e) /\ Len(e[2]) >= 2)
  IN List(FoldLeft(MergePair, <<>>, pairs))
=============================================================================
