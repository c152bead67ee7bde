------------------------------- MODULE Values -------------------------------
(***************************************************************************)
(* Handles and what natives ask of them (src/handle.c and the macros of    *)
(* include/reduct/handle.h): numbers, atoms and lists, their order and     *)
(* their equality. An atom is the sequence of its characters. None of the  *)
(* atoms here reads as a number, so what the code calls number-shaped are  *)
(* the numbers; numbers used as text have one digit.                       *)
(***************************************************************************)
EXTENDS Integers, Sequences, SequencesExt

Number(n) == <<"number", n>>
Atom(chars) == <<"atom", chars>>
List(items) == <<"list", items>>

Nil == List(<<>>)
Error == <<"error", 0>>          (* the native threw                        *)
Undefined == <<"undefined", 0>>  (* what the build does is not determined   *)
FromBool(b) == IF b THEN Number(1) ELSE Nil

IsNumber(h) == h[1] = "number"
IsAtom(h) == h[1] = "atom"
IsList(h) == h[1] = "list"
IsAtomLike(h) == IsNumber(h) \/ IsAtom(h)
IsNil(h) == h = Nil
IsTruthy(h) == ~IsNil(h)

Digits == <<"0", "1", "2", "3", "4", "5", "6", "7", "8", "9">>

(* reduct_handle_atom_string: the text of an atom or of a number.           *)
Text(h) == IF IsNumber(h) THEN <<Digits[h[2] + 1]>> ELSE h[2]

(* reduct_handle_len, through reduct_handle_as_item.                        *)
HandleLen(h) == IF IsList(h) THEN Len(h[2]) ELSE Len(Text(h))

(* The order of characters in ASCII, of those that occur here.              *)
Ascii == <<" ", ",">> \o Digits \o <<"A", "B", "a", "b">>
CharCode == [c \in ToSet(Ascii) |-> CHOOSE k \in DOMAIN Ascii : Ascii[k] = c]
TypeRank(h) == CASE IsNumber(h) -> 0 [] IsAtom(h) -> 1 [] IsList(h) -> 2

(* reduct_handle_compare: below, at or above 0. Sequences are compared item *)
(* by item, and by their length if one is a prefix of the other.            *)
RECURSIVE Compare(_, _)
Compare(a, b) ==
  IF TypeRank(a) # TypeRank(b) THEN TypeRank(a) - TypeRank(b)
  ELSE IF IsNumber(a) THEN a[2] - b[2]
  ELSE LET shorter == IF Len(a[2]) < Len(b[2]) THEN Len(a[2]) ELSE Len(b[2])
           At(k) == IF IsAtom(a) THEN CharCode[a[2][k]] - CharCode[b[2][k]]
                    ELSE Compare(a[2][k], b[2][k])
           differ == {k \in 1 .. shorter : At(k) # 0}
       IN IF differ = {} THEN Len(a[2]) - Len(b[2]) ELSE At(Min(differ))

(* reduct_handle_is_equal.                                                  *)
RECURSIVE IsEqual(_, _)
IsEqual(a, b) ==
  \/ a = b
  \/ /\ IsList(a) /\ IsList(b) /\ Len(a[2]) = Len(b[2])
     /\ \A k \in DOMAIN a[2] : IsEqual(a[2][k], b[2][k])
=============================================================================
