------------------------------ MODULE Optimizer ------------------------------
(***************************************************************************)
(* The passes of src/optimize.c. Each is an operator from a graph and a    *)
(* node to the graph that the pass makes of it, the same graph if it does  *)
(* not apply there; a pass that goes through the nodes or the inputs of a  *)
(* node does one of them. Parallelization is in Emit.                      *)
(***************************************************************************)
EXTENDS Builder, Bitwise

Throws == [thrown |-> TRUE]     (* in place of a graph: the pass threw      *)

-----------------------------------------------------------------------------
(* What operations and natives do, on integers as long as they stay there;  *)
(* a quotient that is none is left out as an error.                         *)

Two(args, value) == IF Len(args) = 2 THEN value ELSE Error

Comparing(op, a, b) ==
  LET c == Compare(a, b)
  IN CASE op = "==" -> c = 0 [] op = "!=" -> c # 0 [] op = "<" -> c < 0
       [] op = "<=" -> c <= 0 [] op = ">" -> c > 0 [] op = ">=" -> c >= 0

Calculate(op, a, b) ==
  CASE op = "+" -> Number(a + b)
    [] op = "-" -> Number(a - b)
    [] op = "*" -> Number(a * b)
    [] op = "&" -> Number(a & b)
    [] op = "|" -> Number(a | b)
    [] op = "^" -> Number(a ^^ b)
    [] op = "<<" -> IF b < 0 THEN Error ELSE Number(a * 2 ^ b)
    [] op = ">>" -> IF b < 0 THEN Error ELSE Number(a \div 2 ^ b)
    [] op = "/" -> IF b = 0 \/ a % b # 0 THEN Error ELSE Number(a \div b)
    [] op = "%" -> IF b = 0 THEN Error ELSE Number(a % b)

OpcodeNative(op, args) ==
  CASE op = "list" -> List(args)
    [] op \in Comparisons -> Two(args, FromBool(Comparing(op, args[1], args[2])))
    [] op = "~" -> IF IsNumber(args[1]) THEN Number(-1 - args[1][2]) ELSE Error
    [] OTHER -> IF \E k \in DOMAIN args : ~IsNumber(args[k]) THEN Error
                ELSE Two(args, Calculate(op, args[1][2], args[2][2]))

Default(args, k) == IF Len(args) < k THEN Nil ELSE args[k]
Native(name, args) ==
  CASE name = "print!" -> IF args = <<>> THEN Error ELSE args[1]
    [] name = "nth" /\ Len(args) \in 2 .. 3 ->
         IF IsNumber(args[2]) THEN Nth(args[1], args[2][2], Default(args, 3)) ELSE Error
    [] name = "len" /\ Len(args) = 1 -> Number(HandleLen(args[1]))
    [] name = "get-in" /\ Len(args) \in 2 .. 3 -> GetIn(args[1], args[2], Default(args, 3))
    [] name = "assoc-in" /\ Len(args) = 3 -> AssocIn(args[1], args[2], args[3])
    [] name = "dissoc-in" /\ Len(args) = 2 -> DissocIn(args[1], args[2])
    [] name = "merge" /\ args # <<>> -> Merge(args)
    [] name = "keys" /\ Len(args) = 1 -> KeysOf(args[1])
    [] OTHER -> Error

-----------------------------------------------------------------------------
IsOp(g, n) == Kind(g, n) = "op"
IsCall(g, n) == IsOpcode(g, n, "call")
IsPort(g, n, i) == i \in DOMAIN In(g, n)
NodeAt(g, n, i) == IF IsPort(g, n, i) /\ IsOut(In(g, n)[i]) THEN In(g, n)[i][2] ELSE Nowhere
ConstAt(g, n, i) == NodeAt(g, n, i) # Nowhere /\ Kind(g, NodeAt(g, n, i)) = "const"
Handle(g, n) == g.node[n].what
IsNative(h) == IsAtom(h) /\ h[2] \in Natives

(* Mutant: no call is taken to have effects.                                *)
IsPureAlways(g, n) == TRUE

(* reduct_optimize_node_is_pure: of calls only one of a constant can be     *)
(* known to have effects.                                                   *)
IsPure(g, n) ==
  LET impure(m) == Handle(g, m) \in {Atom(name) : name \in Impure}
  IN CASE Kind(g, n) = "const" -> ~impure(n)
       [] IsCall(g, n) /\ ConstAt(g, n, 1) -> ~impure(NodeAt(g, n, 1))
       [] OTHER -> TRUE

(* The end of most passes: users of n get another origin, n goes.           *)
Replace1(g, n, o) == DeleteNode(RedirectUsers(g, Out(n), o), n)

(* reduct_optimize_constant_folding, which leaves the node without users.   *)
ConstantFolding(g, n) ==
  LET at == [i \in DOMAIN In(g, n) |-> ResolveOrigin(g, In(g, n)[i])]
      args == [i \in DOMAIN at |-> Handle(g, at[i][2])]
      folds == /\ IsOp(g, n) /\ IsPure(g, n) /\ \A i \in DOMAIN at : IsConst(g, at[i])
               /\ IsCall(g, n) => IsNative(args[1])
      result == IF IsCall(g, n) THEN Native(args[1][2], Tail(args))
                ELSE OpcodeNative(g.node[n].what[2], args)
      made == NewConst(g, Home(g, n), result)
  IN IF ~folds THEN g ELSE IF result = Error THEN Throws ELSE RedirectUsers(made, Out(n), made.o)

-----------------------------------------------------------------------------
(* Copies of the nodes "tops" with all that is in them, into the region     *)
(* "home". "map" gives other origins in place of some that they use; what   *)
(* is not in it and not copied stays. "o" is the copy of origin "of".       *)
CopyInto(g, tops, home, map, of) ==
  LET old == UNION {Contained(g, n) : n \in tops}
      oldRegions == UNION {ToSet(g.node[n].regions) : n \in old}
      NewId(n) == Max(Nodes(g)) + Cardinality({m \in old : m <= n})
      NewRegion(r) == Max(Regions(g)) + Cardinality({q \in oldRegions : q <= r})
      New(o) == CASE o \in DOMAIN map -> map[o]
                  [] o \notin DOMAIN map /\ IsOut(o) /\ o[2] \in old -> Out(NewId(o[2]))
                  [] o \notin DOMAIN map /\ IsArg(o) /\ o[2] \in oldRegions -> Arg(NewRegion(o[2]), o[3])
                  [] OTHER -> o
      Twin(n) == CHOOSE m \in old : NewId(m) = n
      TwinRegion(r) == CHOOSE q \in oldRegions : NewRegion(q) = r
      Copy(m) == [g.node[m] EXCEPT !.in = [i \in DOMAIN @ |-> New(@[i])],
                                   !.regions = [k \in DOMAIN @ |-> NewRegion(@[k])],
                                   !.home = IF m \in tops THEN home ELSE NewRegion(@)]
      CopyRegion(q) == [g.region[q] EXCEPT !.owner = NewId(@), !.result = New(@)]
  IN [node |-> g.node @@ [n \in {NewId(m) : m \in old} |-> Copy(Twin(n))],
      region |-> g.region @@ [r \in {NewRegion(q) : q \in oldRegions} |-> CopyRegion(TwinRegion(r))],
      o |-> New(of)]

(* reduct_optimize_localize_origin: one level of lifting, however far the   *)
(* origin is.                                                               *)
Localize(g, r, o) ==
  IF RegionOf(g, o) = r THEN [g EXCEPT !.o = o]
  ELSE IF IsConst(g, o) THEN NewConst(g, r, Handle(g, o[2]))
  ELSE LiftOrigin(g, r, o)

(* The origins that stand for the captures of a lambda in region r.         *)
RECURSIVE Captured(_, _, _, _)
Captured(g, r, captures, os) ==
  IF captures = <<>> THEN <<g, os>>
  ELSE LET made == Localize(g, r, ResolveOrigin(g, Head(captures)))
       IN Captured(made, r, Tail(captures), Append(os, made.o))

(* Mutant: captures come before parameters.                                 *)
ReplacementsSwapped(params, captures) == captures \o params
Replacements(params, captures) == params \o captures

(* reduct_optimize_function_inlining.                                       *)
FunctionInlining(g, n) ==
  LET callee == ResolveOrigin(g, In(g, n)[1])
      lambda == callee[2]
      body == Body(g, lambda)
      args == Tail(In(g, n))
      captures == In(g, lambda)
      paramCount == g.region[body].args - Len(captures)
      variadic == g.node[lambda].what = Variadic
      fixed == IF variadic THEN paramCount - 1 ELSE paramCount
      rest == NewOp(g, Home(g, n), "list", SubSeq(args, fixed + 1, Len(args)))
      params == SubSeq(args, 1, fixed) \o (IF variadic THEN <<rest.o>> ELSE <<>>)
      local == Captured(IF variadic THEN rest ELSE g, Home(g, n), captures, <<>>)
      by == Replacements(params, local[2])
      map == [o \in {Arg(body, i - 1) : i \in DOMAIN by} |-> by[o[3] + 1]]
      copied == CopyInto(local[1], NodesIn(g, body), Home(g, n), map, g.region[body].result)
  IN IF ~IsCall(g, n) \/ ~IsKind(g, callee, "lambda") THEN g
     ELSE IF variadic /\ Len(args) < fixed THEN Throws
     ELSE IF ~variadic /\ Len(args) # paramCount THEN g
     ELSE Replace1(copied, n, copied.o)

-----------------------------------------------------------------------------
(* Association lists of which the keys are known at compile time: a list of *)
(* handles in which an origin stands for a value that is not known.         *)

OriginHandle(o) == <<"origin", o>>
IsOriginHandle(h) == h[1] = "origin"

KeysConstant(g, n) ==
  \/ Kind(g, n) = "const"
  \/ /\ IsOpcode(g, n, "list")
     /\ \A i \in DOMAIN In(g, n) :
          \/ ConstAt(g, n, i)
          \/ LET pair == NodeAt(g, n, i)
             IN pair # Nowhere /\ IsOpcode(g, pair, "list") /\ ConstAt(g, pair, 1)

Partial(g, n) ==
  LET Entry(i) ==
        LET pair == NodeAt(g, n, i)
            in == In(g, pair)
        IN CASE Kind(g, pair) = "const" -> Handle(g, pair)
             [] Kind(g, pair) # "const" /\ Len(in) < 2 -> OriginHandle(Out(pair))
             [] OTHER -> List(<<Handle(g, in[1][2])>> \o [k \in DOMAIN Tail(in) |-> OriginHandle(Tail(in)[k])])
  IN IF Kind(g, n) = "const" THEN Handle(g, n) ELSE List([i \in DOMAIN In(g, n) |-> Entry(i)])

(* reduct_optimize_handle_to_origin.                                        *)
RECURSIVE HandleToOrigin(_, _, _), HandlesToOrigins(_, _, _, _)
HandlesToOrigins(g, home, handles, os) ==
  IF handles = <<>> THEN NewOp(g, home, "list", os)
  ELSE LET made == HandleToOrigin(g, home, Head(handles))
       IN HandlesToOrigins(made, home, Tail(handles), Append(os, made.o))
HandleToOrigin(g, home, h) ==
  CASE IsOriginHandle(h) -> [g EXCEPT !.o = h[2]]
    [] IsList(h) -> HandlesToOrigins(g, home, h[2], <<>>)
    [] OTHER -> NewConst(g, home, h)

(* reduct_optimize_alist_resolve_path: what is found, Absent, or Unknown.   *)
Unknown == <<"unknown", 0>>
NotThere == <<"not there", 0>>
RECURSIVE ResolvePath(_, _)
ResolvePath(current, keys) ==
  IF keys = <<>> THEN current
  ELSE IF ~IsAtom(Head(keys)) \/ ~IsList(current) THEN Unknown
  ELSE LET k == FindPair(current, Head(keys))
       IN IF k = NoEntry THEN NotThere ELSE ResolvePath(current[2][k][2][2], Tail(keys))

(* A change needs the list that it changes, which is one above the value.   *)
ParentKnown(alist, keys) ==
  LET parent == ResolvePath(alist, IF keys = <<>> THEN <<>> ELSE Front(keys))
  IN parent = NotThere \/ IsList(parent)

AlistCall(g, n) ==
  LET name == Handle(g, NodeAt(g, n, 1))[2]
      count == Len(In(g, n)) - 1
      known(i) == NodeAt(g, n, i + 1) # Nowhere /\ KeysConstant(g, NodeAt(g, n, i + 1))
      alist == Partial(g, NodeAt(g, n, 2))
      path == Handle(g, NodeAt(g, n, 3))
      found == ResolvePath(alist, Keys(path))
      default == IF count = 3 THEN Handle(g, NodeAt(g, n, 4)) ELSE Nil
      Gives(h) == HandleToOrigin(g, Home(g, n), h)
  IN CASE name = "merge" /\ count = 0 -> NewConst(g, Home(g, n), Nil)
       [] name = "merge" /\ count > 0 /\ \A i \in 1 .. count : known(i) ->
            Gives(Merge([i \in 1 .. count |-> Partial(g, NodeAt(g, n, i + 1))]))
       [] name = "get-in" /\ known(1) /\ ConstAt(g, n, 3) /\ (count = 3 => ConstAt(g, n, 4)) /\ found # Unknown ->
            Gives(IF found = NotThere THEN default ELSE found)
       [] name = "assoc-in" /\ known(1) /\ ConstAt(g, n, 3) /\ ConstAt(g, n, 4) /\ ParentKnown(alist, Keys(path)) ->
            Gives(AssocIn(alist, path, default))
       [] name = "dissoc-in" /\ known(1) /\ ConstAt(g, n, 3) /\ path # Nil /\ ParentKnown(alist, Keys(path)) ->
            Gives(DissocIn(alist, path))
       [] name = "keys" /\ known(1) -> Gives(KeysOf(alist))
       [] OTHER -> g

(* An item of a list whose index is known.                                  *)
NthCall(g, n) ==
  LET list == NodeAt(g, n, 2)
      index == Handle(g, NodeAt(g, n, 3))
      k == IF index[2] < 0 THEN Len(In(g, list)) + index[2] ELSE index[2]
  IN IF /\ list # Nowhere /\ IsOpcode(g, list, "list")
        /\ ConstAt(g, n, 3) /\ IsNumber(index) /\ NodeAt(g, list, k + 1) # Nowhere
     THEN [g EXCEPT !.o = Out(NodeAt(g, list, k + 1))] ELSE g

SimplifyCall(g, n) ==
  IF ~ConstAt(g, n, 1) \/ ~IsAtom(Handle(g, NodeAt(g, n, 1))) THEN g
  ELSE IF Handle(g, NodeAt(g, n, 1)) = Atom("nth") THEN NthCall(g, n) ELSE AlistCall(g, n)

(* reduct_optimize_algebraic_simplification: an origin, or NoOrigin.        *)
AlgebraicSimplification(g, n) ==
  LET op == g.node[n].what[2]
      left == In(g, n)[1]
      right == IF Len(In(g, n)) > 1 THEN In(g, n)[2] ELSE NoOrigin
      is(o, k) == IsConst(g, o) /\ Handle(g, o[2]) = Number(k)
      Gives(o) == [g EXCEPT !.o = o]
      new == CASE op = "call" -> SimplifyCall(g, n)
               [] op \in {"+", "|", "^"} /\ is(left, 0) -> Gives(right)
               [] op \in {"+", "|", "^", "-", "<<", ">>"} /\ is(right, 0) -> Gives(left)
               [] op = "*" /\ is(left, 1) -> Gives(right)
               [] op \in {"*", "/"} /\ is(right, 1) -> Gives(left)
               [] op = "*" /\ is(right, 2) -> NewOp(g, Home(g, n), "+", <<left, left>>)
               [] op = "*" /\ is(left, 2) -> NewOp(g, Home(g, n), "+", <<right, right>>)
               [] op = "&" /\ (is(left, 0) \/ is(right, 0)) -> NewConst(g, Home(g, n), Number(0))
               [] op \in {"|", "&"} /\ left = right -> Gives(left)
               [] op = "^" /\ left = right -> NewConst(g, Home(g, n), Number(0))
               [] op \in {"<", ">"} /\ left = right -> NewConst(g, Home(g, n), Nil)
               [] OTHER -> g
  IN IF ~IsOp(g, n) \/ new = g THEN g ELSE Replace1(new, n, new.o)
-----------------------------------------------------------------------------
Commutative == {"+", "*", "&", "|", "^", "==", "!="}

(* Mutant: also two constants change places.                                *)
CommutativeSwapAlways(g, n) ==
  LET in == In(g, n)
  IN IF IsOp(g, n) /\ g.node[n].what[2] \in Commutative /\ IsConst(g, in[1])
     THEN [g EXCEPT !.node[n].in = <<in[2], in[1]>>] ELSE g

CommutativeSwap(g, n) ==
  LET in == In(g, n)
  IN IF IsOp(g, n) /\ g.node[n].what[2] \in Commutative /\ IsConst(g, in[1]) /\ ~IsConst(g, in[2])
     THEN [g EXCEPT !.node[n].in = <<in[2], in[1]>>] ELSE g

(* An identical node that uses the same first operand, or has no operand    *)
(* and comes before.                                                        *)
CommonNodeElimination(g, n) ==
  LET twins == {m \in NodesIn(g, Home(g, n)) \ {n} : Identical(g, m, n) /\ (In(g, n) # <<>> \/ m < n)}
  IN IF twins = {} THEN g ELSE Replace1(g, n, Out(Min(twins)))

(* The nodes of the branch that is taken move out, behind those around the  *)
(* gamma.                                                                   *)
GammaFolding(g, n) ==
  LET r == IF IsTruthy(Handle(g, In(g, n)[1][2])) THEN Then(g, n) ELSE Else(g, n)
      moved == MoveNodes(g, NodesIn(g, r), Home(g, n))
      joined == MapOrigins(moved, {Arg(r, i) : i \in 0 .. g.region[r].args - 1}, LAMBDA o : In(g, n)[o[3] + 2])
  IN IF Kind(g, n) = "gamma" /\ IsConst(g, In(g, n)[1]) THEN Replace1(joined, n, joined.region[r].result) ELSE g

(* The argument of input i in region r of n, if it has one.                 *)
ArgumentOf(g, n, r, i) == Arg(r, InputToArgument(g, n, r, i))
Maps(g, n, i) == g.node[n].regions # <<>> /\ (Kind(g, n) = "gamma" => i > 0)
IsDeadPort(g, n, i) ==
  Maps(g, n, i) /\ \A r \in ToSet(g.node[n].regions) : Uses(g, ArgumentOf(g, n, r, i)) = 0

RECURSIVE RemoveArguments(_, _, _, _)
RemoveArguments(g, n, regions, i) ==
  IF regions = <<>> THEN g
  ELSE RemoveArguments(RemoveArgument(g, Head(regions), InputToArgument(g, n, Head(regions), i)),
                       n, Tail(regions), i)
RemovePort(g, n, i) == RemoveInput(RemoveArguments(g, n, g.node[n].regions, i), n, i)

DeadPortElimination(g, n) ==
  LET dead == {i \in 0 .. Len(In(g, n)) - 1 : IsDeadPort(g, n, i)}
  IN IF dead = {} THEN g ELSE RemovePort(g, n, Max(dead))

-----------------------------------------------------------------------------
(* Code motion. A node of a region whose operands all come from outside is  *)
(* copied to where they are, and comes back in as an argument.              *)
OuterOrigin(g, n, r, o) ==
  IF IsArg(o) /\ o[2] = r /\ ArgumentToInput(g, r, o[3]) # Unmapped
  THEN In(g, n)[ArgumentToInput(g, r, o[3]) + 1] ELSE NoOrigin

MotionPush(g, n) ==
  LET invariant == {c \in Nodes(g) : /\ c # Root /\ Home(g, c) \in ToSet(g.node[n].regions) /\ IsPure(g, c)
                                      /\ \A i \in DOMAIN In(g, c) : OuterOrigin(g, n, Home(g, c), In(g, c)[i]) # NoOrigin}
      r == Min({Home(g, c) : c \in invariant})
      c == Min(invariant \cap NodesIn(g, r))
      map == [o \in ToSet(In(g, c)) |-> OuterOrigin(g, n, r, o)]
      copied == CopyInto(g, {c}, Home(g, n), map, Out(c))
      lifted == LiftOrigin(copied, r, copied.o)
  IN IF invariant = {} THEN g ELSE Replace1(lifted, c, lifted.o)

(* Operands that are lifted into region r.                                  *)
RECURSIVE Lifted(_, _, _, _)
Lifted(g, r, in, os) ==
  IF in = <<>> THEN <<g, os>>
  ELSE LET made == LiftOrigin(g, r, Head(in)) IN Lifted(made, r, Tail(in), Append(os, made.o))

(* An input is copied into every region that uses it.                       *)
RECURSIVE SinkInto(_, _, _, _)
SinkInto(g, n, regions, i) ==
  IF regions = <<>> THEN g
  ELSE LET r == Head(regions)
           from == In(g, n)[i + 1][2]
           arg == ArgumentOf(g, n, r, i)
           local == Lifted(g, r, In(g, from), <<>>)
           copied == CopyInto(local[1], {from}, r, <<>>, Out(from))
           placed == [copied EXCEPT !.node[copied.o[2]].in = local[2]]
           argNow == ArgumentOf(placed, n, r, i)
       IN SinkInto(IF Uses(g, arg) = 0 THEN g ELSE RedirectUsers(placed, argNow, copied.o), n, Tail(regions), i)

(* A constant, or what only n uses.                                         *)
CanSink(g, n, i) ==
  LET o == In(g, n)[i + 1]
      others == [g EXCEPT !.node[n].in = <<>>]
  IN /\ Maps(g, n, i) /\ ~IsDeadPort(g, n, i) /\ IsOut(o)
     /\ \/ IsConst(g, o)
        \/ IsPure(g, o[2]) /\ Uses(others, o) = 0

(* Unless the predicate is the same value, the node that was copied goes.   *)
MotionPull(g, n) ==
  LET sinks == {i \in 0 .. Len(In(g, n)) - 1 : CanSink(g, n, i)}
      i == Min(sinks)
      from == In(g, n)[i + 1][2]
      sunk == RemovePort(SinkInto(g, n, g.node[n].regions, i), n, i)
  IN IF sinks = {} THEN g
     ELSE IF Uses(sunk, Out(from)) = 0 THEN DeleteNode(sunk, from) ELSE sunk
=============================================================================
