------------------------------- MODULE Builder -------------------------------
(***************************************************************************)
(* The builder of src/build.c: from a program to its graph. A program is a *)
(* handle as the parser leaves it: atoms by their name, Quoted atoms,      *)
(* numbers and lists. The continuations of the C functions that go over a  *)
(* list in nested branches are forms too, so that Build is one function.   *)
(*                                                                         *)
(* A builder has the graph "g", its "scopes" from the outermost to the     *)
(* innermost, what the last operation answered ("o", "os" for several) and *)
(* whether no error was thrown ("ok"). Imports are left out.               *)
(***************************************************************************)
EXTENDS Rvsdg, Library

Quoted(name) == <<"quoted", name>>
True == Number(1)

(* A parameter *x has the names *x and x and takes all further arguments.   *)
VariadicNames == "*xs" :> "xs"

Intrinsics == {"quote", "do", "lambda", "->", "def", "if", "cond", "match", "and", "or", "not",
               "++", "--", "recur", "list"}
Variadics == {"+", "-", "*", "/", "%", "&", "|", "^", "<<", ">>"}
Comparisons == {"==", "!=", "<", "<=", ">", ">="}
IsIntrinsic(name) == name \in Intrinsics \cup Variadics \cup Comparisons \cup {"~"}

(* Natives that programs here call; those whose name ends in "!" are not    *)
(* pure.                                                                    *)
Impure == {"print!"}
Natives == Impure \cup {"nth", "len", "get-in", "assoc-in", "dissoc-in", "merge", "keys"}

Symbols == "nil" :> Nil @@ "true" :> True @@ "false" :> Nil

-----------------------------------------------------------------------------
(* Scopes. A name whose value is still being built is Unset.                *)

Unset == <<"unset", 0, 0>>
Missing == <<"missing", 0, 0>>

Fail(b) == [b EXCEPT !.ok = FALSE]
Answer(b, o) == [b EXCEPT !.o = o]
With(b, made) == [b EXCEPT !.g = made, !.o = made.o]
Scope(b) == Last(b.scopes)
Here(b) == Scope(b).region

AddLocalTo(b, k, key, o) == [b EXCEPT !.scopes[k].locals = key :> o @@ @]
AddLocal(b, key, o) == AddLocalTo(b, Len(b.scopes), key, o)

Enter(b, region, lambda) ==
  [b EXCEPT !.scopes = Append(@, [locals |-> <<>>, region |-> region, lambda |-> lambda])]
Exit(b) == [b EXCEPT !.scopes = Front(@)]

(* Lifting an origin of region "target" inwards to region r.                *)
RECURSIVE LiftAlong(_, _, _)
LiftAlong(g, r, target) ==
  LET Lift(outer) == LiftOrigin(outer, r, outer.o)
  IN IF r \in {target, Nowhere} THEN g ELSE Lift(LiftAlong(g, Home(g, Owner(g, r)), target))

(* reduct_builder_resolve_origin in scope k, from region to region.         *)
RECURSIVE ResolveIn(_, _, _)
ResolveIn(b, k, o) ==
  LET Inwards(outer) ==
        With(outer, LiftAlong([outer.g EXCEPT !.o = outer.o], b.scopes[k].region, b.scopes[k - 1].region))
  IN IF k = 1 \/ RegionOf(b.g, o) = b.scopes[k].region THEN Answer(b, o) ELSE Inwards(ResolveIn(b, k - 1, o))
Resolve(b, o) == ResolveIn(b, Len(b.scopes), o)

(* The phi node around the lambda of scope k, which gets one if it has none *)
(* (the program itself cannot: the code then goes through a null pointer).  *)
CallableOf(b, k) ==
  LET lambda == b.scopes[k].lambda
      ToPhi(wrapped) == ResolveIn(wrapped, k, Out(Owner(wrapped.g, Home(wrapped.g, lambda))))
  IN IF lambda = Root THEN Fail(b) ELSE ToPhi([b EXCEPT !.g = PhiWrap(@, lambda)])

(* reduct_builder_resolve_local: names of outer scopes are remembered in    *)
(* the inner ones; one that is being built is taken for the innermost       *)
(* lambda around its use.                                                   *)
RECURSIVE ResolveLocal(_, _, _)
ResolveLocal(b, k, key) ==
  LET Remembered(inner) == AddLocalTo(inner, k, key, inner.o)
      Inwards(outer) ==
        IF outer.o = Missing \/ ~outer.ok THEN outer
        ELSE Remembered(IF outer.o = Unset THEN CallableOf(outer, k) ELSE ResolveIn(outer, k, outer.o))
  IN IF key \in DOMAIN b.scopes[k].locals THEN Answer(b, b.scopes[k].locals[key])
     ELSE IF k = 1 THEN Answer(b, Missing) ELSE Inwards(ResolveLocal(b, k - 1, key))

-----------------------------------------------------------------------------
BuildConst(b, handle) == With(b, NewConst(b.g, Here(b), handle))
BuildOp(b, name, in) == With(b, NewOp(b.g, Here(b), name, in))

(* reduct_build_dispatch_atom.                                              *)
BuildName(b, name) ==
  LET Found(local) ==
        CASE local.o = Missing /\ name \in DOMAIN Symbols -> BuildConst(b, Symbols[name])
          [] local.o = Unset \/ (local.o = Missing /\ name \notin DOMAIN Symbols) -> Fail(local)
          [] OTHER -> local
  IN IF IsIntrinsic(name) \/ name \in Natives THEN BuildConst(b, Atom(name))
     ELSE Found(ResolveLocal(b, Len(b.scopes), name))

RECURSIVE IsData(_)
IsData(h) ==
  \/ IsNumber(h) \/ h[1] = "quoted"
  \/ IsList(h) /\ (h[2] = <<>> \/ IsData(h[2][1]))

(* reduct_build_thread.                                                     *)
RECURSIVE Threaded(_, _)
Threaded(current, steps) ==
  IF steps = <<>> THEN current
  ELSE LET step == Head(steps)
           next == IF IsList(step) THEN <<step[2][1], current>> \o Tail(step[2]) ELSE <<step, current>>
       IN Threaded(List(next), Tail(steps))

(* The forms that stand for the rest of a C function.                       *)
Constant(handle) == <<"constant", handle>>
Outer(o) == <<"outer", o>>
AndOr(isOr, items) == <<"and_or", isOr, items>>
Comparison(op, left, items) == <<"comparison", op, left, items>>
Cond(clauses) == <<"cond", clauses>>
Match(target, clauses) == <<"match", target, clauses>>

RECURSIVE Build(_, _), BuildItems(_, _, _), BuildBlock(_, _), BuildChain(_, _, _), BuildBranch(_, _, _)

Ends(inner, region) == Exit([inner EXCEPT !.g = SetResult(@, region, inner.o)])
BuildBranch(b, region, form) == Ends(Build(Enter(b, region, Scope(b).lambda), form), region)

(* A gamma node over the last answer; the branch that is not taken comes    *)
(* first.                                                                   *)
Branches(b, else, then) ==
  LET Both(falsy, n) == IF falsy.ok THEN Answer(BuildBranch(falsy, Then(falsy.g, n), then), Out(n)) ELSE falsy
      Gamma(made) == Both(BuildBranch(made, Else(made.g, made.o[2]), else), made.o[2])
  IN IF b.ok THEN Gamma(With(b, NewNode(b.g, Here(b), "gamma", Plain, <<b.o>>))) ELSE b

BuildItems(b, items, os) ==
  LET More(item) == BuildItems(item, Tail(items), Append(os, item.o))
  IN IF items = <<>> \/ ~b.ok THEN [b EXCEPT !.os = os] ELSE More(Build(b, Head(items)))

BuildBlock(b, items) ==
  LET More(item) == IF Len(items) = 1 \/ ~item.ok THEN item ELSE BuildBlock(item, Tail(items))
  IN IF items = <<>> THEN BuildConst(b, Nil) ELSE More(Build(b, items[1]))

(* reduct_build_variadic_op with two operands or more.                      *)
BuildChain(b, op, items) ==
  LET More(next) == BuildChain(BuildOp(next, op, <<b.o, next.o>>), op, Tail(items))
  IN IF items = <<>> \/ ~b.ok THEN b ELSE More(Build(b, Head(items)))

BuildVariadic(b, op, items) ==
  LET Alone(unit, o) == BuildOp(unit, op, <<unit.o, o>>)
      More(first) ==
        IF Len(items) = 1 /\ op \in {"-", "/"}
        THEN Alone(BuildConst(first, Number(IF op = "-" THEN 0 ELSE 1)), first.o)
        ELSE BuildChain(first, op, Tail(items))
  IN IF items = <<>> THEN Fail(b) ELSE More(Build(b, items[1]))

BuildAndOr(b, isOr, items) ==
  LET rest == AndOr(isOr, Tail(items))
      More(current) ==
        IF Len(items) = 1 \/ ~current.ok THEN current
        ELSE Branches(current, IF isOr THEN rest ELSE Outer(current.o), IF isOr THEN Outer(current.o) ELSE rest)
  IN More(Build(b, items[1]))

BuildComparison(b, op, left, items) ==
  LET More(compared, right) ==
        IF Len(items) = 1 \/ ~compared.ok THEN compared
        ELSE Branches(compared, Constant(Nil), Comparison(op, right, Tail(items)))
      Compare2(right, l) == More(BuildOp(right, op, <<l, right.o>>), right.o)
      Against(l) == Compare2(Build(l, items[1]), l.o)
  IN Against(Resolve(b, left))

IsClause(form) == IsList(form) /\ Len(form[2]) = 2

BuildCond(b, clauses) ==
  IF clauses = <<>> THEN BuildConst(b, Nil)
  ELSE IF ~IsClause(clauses[1]) THEN Fail(b)
  ELSE Branches(Build(b, clauses[1][2][1]), Cond(Tail(clauses)), clauses[1][2][2])

BuildMatch(b, target, clauses) ==
  LET More(value, t) ==
        Branches(BuildOp(value, "==", <<t, value.o>>), Match(t, Tail(clauses)), clauses[1][2][2])
      Against(t) == More(Build(t, clauses[1][2][1]), t.o)
  IN IF Len(clauses) = 1 THEN Build(b, clauses[1])
     ELSE IF ~IsClause(clauses[1]) THEN Fail(b) ELSE Against(Resolve(b, target))

(* Parameters come before captures, since a lambda gets those as its body   *)
(* is built.                                                                *)
AddParameter(b, lambda, name) ==
  LET Variable(both) == [both EXCEPT !.g.node[lambda].what = Variadic]
      Named(made) ==
        IF name \in DOMAIN VariadicNames
        THEN Variable(AddLocal(AddLocal(made, VariadicNames[name], made.o), name, made.o))
        ELSE AddLocal(made, name, made.o)
  IN Named(With(b, AddArgument(b.g, Body(b.g, lambda))))

RECURSIVE AddParameters(_, _, _)
AddParameters(b, lambda, names) ==
  IF names = <<>> THEN b
  ELSE AddParameters(AddParameter(b, lambda, names[1][2]), lambda, Tail(names))

BuildLambda(b, parameters, body) ==
  LET Made(done, n) ==
        Answer(done, IF InsidePhi(done.g, n) THEN Out(Owner(done.g, Home(done.g, n))) ELSE Out(n))
      Filled(made, n, r) ==
        Made(Ends(BuildBlock(AddParameters(Enter(made, r, n), n, parameters[2]), body), r), n)
      New(made) == Filled(made, made.o[2], Body(made.g, made.o[2]))
  IN IF body = <<>> \/ ~IsList(parameters) \/ \E k \in DOMAIN parameters[2] : ~IsAtom(parameters[2][k])
     THEN Fail(b)
     ELSE New(With(b, NewNode(b.g, Here(b), "lambda", Plain, <<>>)))

BuildDef(b, name, form) ==
  LET Known(value) == AddLocal(value, name, value.o) IN Known(Build(AddLocal(b, name, Unset), form))

(* A call: of what the first item is, or of the lambda around it.           *)
BuildOpOf(args, name) == BuildOp(args, name, args.os)
BuildCall(callable, items) == BuildOpOf(BuildItems(callable, items, <<callable.o>>), "call")
BuildList(b, items) == BuildOpOf(BuildItems(b, items, <<>>), "list")

(* Intrinsics that begin with their first item; "arg" is b after that one.  *)
BuildAfter(arg, name, items) ==
  LET Step1(one) == BuildOp(one, IF name = "++" THEN "+" ELSE "-", <<arg.o, one.o>>)
  IN CASE name = "if" /\ Len(items) \in 2 .. 3 ->
            Branches(arg, IF Len(items) = 3 THEN items[3] ELSE Constant(Nil), items[2])
       [] name = "match" /\ Len(items) >= 2 -> BuildMatch(arg, arg.o, Tail(items))
       [] name = "not" /\ Len(items) = 1 -> Branches(arg, Constant(True), Constant(Nil))
       [] name \in {"++", "--"} /\ Len(items) = 1 -> Step1(BuildConst(arg, Number(1)))
       [] name = "~" /\ Len(items) = 1 -> BuildOp(arg, "~", <<arg.o>>)
       [] name \in Comparisons /\ Len(items) >= 2 -> BuildComparison(arg, name, arg.o, Tail(items))
       [] OTHER -> Fail(arg)

BuildIntrinsic(b, name, items) ==
  CASE name = "do" -> BuildBlock(b, items)
    [] name = "recur" -> BuildCall(CallableOf(b, Len(b.scopes)), items)
    [] name = "list" -> BuildList(b, items)
    [] name = "cond" -> BuildCond(b, items)
    [] name \in {"and", "or"} -> IF items = <<>> THEN BuildConst(b, Nil) ELSE BuildAndOr(b, name = "or", items)
    [] name \in Variadics -> BuildVariadic(b, name, items)
    [] name = "quote" /\ Len(items) = 1 -> BuildConst(b, items[1])
    [] name = "lambda" /\ Len(items) >= 1 -> BuildLambda(b, items[1], Tail(items))
    [] name = "->" /\ Len(items) >= 1 -> Build(b, Threaded(items[1], Tail(items)))
    [] name = "def" /\ Len(items) = 2 /\ IsAtom(items[1]) -> BuildDef(b, items[1][2], items[2])
    [] name \in {"if", "match", "not", "++", "--", "~"} \cup Comparisons /\ items # <<>> ->
         BuildAfter(Build(b, items[1]), name, items)
    [] OTHER -> Fail(b)

(* reduct_build_handle and reduct_build_dispatch_list.                      *)
Build(b, form) ==
  IF ~b.ok THEN b
  ELSE CASE IsNumber(form) -> BuildConst(b, form)
         [] form[1] = "quoted" -> BuildConst(b, Atom(form[2]))
         [] IsAtom(form) -> BuildName(b, form[2])
         [] form[1] = "constant" -> BuildConst(b, form[2])
         [] form[1] = "outer" -> Resolve(b, form[2])
         [] form[1] = "and_or" -> BuildAndOr(b, form[2], form[3])
         [] form[1] = "comparison" -> BuildComparison(b, form[2], form[3], form[4])
         [] form[1] = "cond" -> BuildCond(b, form[2])
         [] form[1] = "match" -> BuildMatch(b, form[2], form[3])
         [] form = Nil -> BuildConst(b, Nil)
         [] OTHER ->
              LET head == form[2][1]
                  items == Tail(form[2])
              IN CASE IsData(head) -> BuildList(b, form[2])
                   [] IsAtom(head) /\ IsIntrinsic(head[2]) -> BuildIntrinsic(b, head[2], items)
                   [] OTHER -> BuildCall(Build(b, head), items)

(* reduct_build, of a program that is a list of expressions.                *)
Outermost == [locals |-> <<>>, region |-> Root, lambda |-> Root]
Built(program) ==
  LET Whole(b) == [b EXCEPT !.g = SetResult(@, Root, b.o)]
  IN Whole(BuildBlock([g |-> EmptyGraph, ok |-> TRUE, o |-> NoOrigin, os |-> <<>>, scopes |-> <<Outermost>>], program))
=============================================================================
