-------------------------------- MODULE Rvsdg --------------------------------
(***************************************************************************)
(* The intermediate representation of src/rvsdg.c: nodes in regions, and   *)
(* the regions of structural nodes. An origin is the output of a node or   *)
(* an argument of a region; every input of a node and the result of every  *)
(* region has one. Edges are not kept apart from the inputs and results    *)
(* that they end in. The nodes of a region come in the order of their      *)
(* numbers: each of them was the last one when it was put there.           *)
(*                                                                         *)
(* An operator that adds something answers the graph and its origin "o".   *)
(***************************************************************************)
EXTENDS Integers, Sequences, FiniteSets, SequencesExt, FiniteSetsExt, Functions

Out(n) == <<"out", n, 0>>
Arg(r, i) == <<"arg", r, i>>
NoOrigin == <<"none", 0, 0>>
IsOut(o) == o[1] = "out"
IsArg(o) == o[1] = "arg"

Root == 1          (* the lambda node of the program and its region         *)
Nowhere == 0       (* where the root is                                     *)

(* What a node is: the handle of a constant, an opcode, for a lambda        *)
(* whether it is variadic.                                                  *)
Opcode(name) == <<"opcode", name>>
Variadic == <<"flag", "variadic">>
Plain == <<"flag", "none">>

EmptyGraph ==
  [node |-> Root :> [kind |-> "lambda", what |-> Plain, in |-> <<>>, regions |-> <<Root>>, home |-> Nowhere],
   region |-> Root :> [owner |-> Root, args |-> 0, result |-> NoOrigin],
   o |-> NoOrigin]

Nodes(g) == DOMAIN g.node
Regions(g) == DOMAIN g.region
Kind(g, n) == g.node[n].kind
In(g, n) == g.node[n].in
Home(g, n) == g.node[n].home
Owner(g, r) == g.region[r].owner
NodesIn(g, r) == {n \in Nodes(g) : Home(g, n) = r}
RegionOf(g, o) == IF IsOut(o) THEN Home(g, o[2]) ELSE o[2]
IsKind(g, o, kind) == IsOut(o) /\ Kind(g, o[2]) = kind
IsConst(g, o) == IsKind(g, o, "const")
IsOpcode(g, n, name) == Kind(g, n) = "op" /\ g.node[n].what = Opcode(name)

(* edgeCount of an origin.                                                  *)
Uses(g, o) ==
  Cardinality(UNION {{n} \X {i \in DOMAIN In(g, n) : In(g, n)[i] = o} : n \in Nodes(g)})
  + Cardinality({r \in Regions(g) : g.region[r].result = o})

-----------------------------------------------------------------------------
(* Making nodes.                                                            *)

Fresh(f) == Max(DOMAIN f) + 1

RegionCount(kind) == CASE kind = "gamma" -> 2 [] kind \in {"lambda", "phi"} -> 1 [] OTHER -> 0

NewNode(g, home, kind, what, in) ==
  LET n == Fresh(g.node)
      first == Fresh(g.region)
      regions == [k \in 1 .. RegionCount(kind) |-> first + k - 1]
      empty == [owner |-> n, args |-> 0, result |-> NoOrigin]
  IN [node |-> g.node @@ n :> [kind |-> kind, what |-> what, in |-> in, regions |-> regions, home |-> home],
      region |-> g.region @@ [r \in ToSet(regions) |-> empty],
      o |-> Out(n)]

NewConst(g, home, handle) == NewNode(g, home, "const", handle, <<>>)
NewOp(g, home, name, in) == NewNode(g, home, "op", Opcode(name), in)

SubRegion(g, n, k) == g.node[n].regions[k]
Else(g, n) == SubRegion(g, n, 1)
Then(g, n) == SubRegion(g, n, 2)
Body(g, n) == SubRegion(g, n, 1)

AddInput(g, n, o) == [g EXCEPT !.node[n].in = Append(@, o)]
AddArgument(g, r) == [g EXCEPT !.region[r].args = @ + 1, !.o = Arg(r, g.region[r].args)]
SetResult(g, r, o) == [g EXCEPT !.region[r].result = o]

-----------------------------------------------------------------------------
(* Changing edges and ports.                                                *)

(* Every user of an origin in "of" gets another.                            *)
MapOrigins(g, of, New(_)) ==
  LET Moved(o) == IF o \in of THEN New(o) ELSE o
  IN [g EXCEPT !.node = [n \in DOMAIN @ |-> [@[n] EXCEPT !.in = [i \in DOMAIN @ |-> Moved(@[i])]]],
               !.region = [r \in DOMAIN @ |-> [@[r] EXCEPT !.result = Moved(@)]]]

RedirectUsers(g, o, new) == MapOrigins(g, {o}, LAMBDA p : new)

(* Nodes that move to the end of a region get new numbers.                  *)
MoveNodes(g, ns, home) ==
  LET NewId(n) == IF n \in ns THEN Max(Nodes(g)) + Cardinality({m \in ns : m <= n}) ELSE n
      moved == [n \in {NewId(m) : m \in ns} |->
                 [g.node[CHOOSE m \in ns : NewId(m) = n] EXCEPT !.home = home]]
  IN MapOrigins([g EXCEPT !.node = Restrict(@, DOMAIN @ \ ns) @@ moved,
                          !.region = [r \in DOMAIN @ |-> [@[r] EXCEPT !.owner = NewId(@)]]],
                {Out(n) : n \in ns}, LAMBDA o : Out(NewId(o[2])))

(* Mutant: the arguments behind keep their index.                           *)
RemoveArgumentShort(g, r, i) == [g EXCEPT !.region[r].args = @ - 1]

(* An argument without users goes, those behind it move up.                 *)
RemoveArgument(g, r, i) ==
  MapOrigins([g EXCEPT !.region[r].args = @ - 1],
             {Arg(r, j) : j \in i + 1 .. g.region[r].args - 1}, LAMBDA p : Arg(r, p[3] - 1))

RemoveInput(g, n, i) == [g EXCEPT !.node[n].in = RemoveAt(@, i + 1)]

(* The nodes in a node, itself among them.                                  *)
RECURSIVE Contained(_, _)
Contained(g, n) ==
  {n} \cup UNION {Contained(g, m) : m \in {k \in Nodes(g) : Home(g, k) \in ToSet(g.node[n].regions)}}

(* reduct_rvsdg_node_delete: with a node go the operands that it leaves     *)
(* without users, and theirs.                                               *)
RECURSIVE DeleteNodes(_, _)
DeleteNodes(g, ns) ==
  LET gone == UNION {Contained(g, n) : n \in ns}
      operands == UNION {ToSet(In(g, n)) : n \in gone}
      h == [g EXCEPT !.node = Restrict(@, DOMAIN @ \ gone),
                     !.region = Restrict(@, {r \in DOMAIN @ : @[r].owner \notin gone})]
      unused == {n \in Nodes(h) : Out(n) \in operands /\ Uses(h, Out(n)) = 0}
  IN IF gone = {} THEN g ELSE DeleteNodes(h, unused)
DeleteNode(g, n) == DeleteNodes(g, {n})

(* reduct_rvsdg_node_is_identical.                                          *)
Identical(g, m, n) ==
  /\ Kind(g, m) \in {"op", "const"} /\ Kind(g, m) = Kind(g, n)
  /\ g.node[m].what = g.node[n].what /\ In(g, m) = In(g, n)

-----------------------------------------------------------------------------
(* Inputs of a structural node and arguments of its regions; indices start  *)
(* at 0, and Unmapped is that there is none.                                *)

Unmapped == -1
DataInputOffset(kind) == IF kind = "gamma" THEN 1 ELSE 0

InputToArgument(g, n, r, i) ==
  IF Kind(g, n) = "gamma" THEN i - 1
  ELSE g.region[r].args - Len(In(g, n)) + i

ArgumentToInput(g, r, a) ==
  LET n == Owner(g, r)
      base == g.region[r].args - Len(In(g, n))
  IN CASE Kind(g, n) = "gamma" -> a + 1
       [] Kind(g, n) # "gamma" /\ a >= base -> a - base
       [] OTHER -> Unmapped

(* A phi node gets the argument for itself; another origin the argument of  *)
(* the input that has it, which is added to the node and to all its regions *)
(* if there is none.                                                        *)
LiftNew(g, n, r, o) ==
  [g EXCEPT !.region = [q \in DOMAIN @ |-> IF @[q].owner = n THEN [@[q] EXCEPT !.args = @ + 1] ELSE @[q]],
            !.node[n].in = Append(@, o),
            !.o = Arg(r, g.region[r].args)]
LiftTo(g, n, r, o, inputs) ==
  CASE Kind(g, n) = "phi" /\ o = Out(n) -> [g EXCEPT !.o = Arg(r, 0)]
    [] ~(Kind(g, n) = "phi" /\ o = Out(n)) /\ inputs # {} ->
         [g EXCEPT !.o = Arg(r, InputToArgument(g, n, r, Min(inputs) - 1))]
    [] OTHER -> LiftNew(g, n, r, o)
DataInputs(g, n, o) ==
  {i \in DOMAIN In(g, n) : In(g, n)[i] = o /\ i > DataInputOffset(Kind(g, n))}
LiftOrigin(g, r, o) == LiftTo(g, Owner(g, r), r, o, DataInputs(g, Owner(g, r), o))

(* Outwards through the inputs of gamma and lambda nodes.                   *)
RECURSIVE ResolveOrigin(_, _)
ResolveOrigin(g, o) ==
  IF ~IsArg(o) THEN o
  ELSE LET n == Owner(g, o[2])
           i == ArgumentToInput(g, o[2], o[3])
       IN IF Kind(g, n) = "phi" \/ i = Unmapped THEN o ELSE ResolveOrigin(g, In(g, n)[i + 1])

RECURSIVE IsAncestorOrSame(_, _, _)
IsAncestorOrSame(g, r, ancestor) ==
  \/ r = ancestor
  \/ r # Nowhere /\ Home(g, Owner(g, r)) # Nowhere /\ IsAncestorOrSame(g, Home(g, Owner(g, r)), ancestor)

InsidePhi(g, lambda) ==
  Home(g, lambda) # Nowhere /\ Kind(g, Owner(g, Home(g, lambda))) = "phi"

(* reduct_rvsdg_node_phi_wrap_lambda: the lambda moves into a new phi node, *)
(* which takes over its inputs and its users; users in it get argument 0.   *)
WrapIn(g, lambda, phi, r, inner) ==
  LET Turned(n, o) == IF o = Out(lambda) THEN (IF n \in inner THEN Arg(r, 0) ELSE Out(phi)) ELSE o
  IN [g EXCEPT
       !.node = [n \in DOMAIN @ |-> [@[n] EXCEPT
         !.in = [i \in DOMAIN @ |-> IF n = lambda THEN Arg(r, i) ELSE Turned(n, @[i])]]],
       !.region = [q \in DOMAIN @ |->
         IF q = r THEN [owner |-> phi, args |-> 1 + Len(In(g, lambda)), result |-> Out(lambda)]
         ELSE [@[q] EXCEPT !.result = Turned(@[q].owner, @)]]]
Within(g, r) == {n \in Nodes(g) : n # Root /\ IsAncestorOrSame(g, Home(g, n), r)}
WrapBody(g, lambda, phi, r) ==
  WrapIn([g EXCEPT !.node[lambda].home = r], lambda, phi, r, Within([g EXCEPT !.node[lambda].home = r], r))
WrapNew(made, lambda) == WrapBody(made, lambda, made.o[2], Body(made, made.o[2]))
PhiWrap(g, lambda) ==
  IF Home(g, lambda) = Nowhere \/ InsidePhi(g, lambda) THEN g
  ELSE WrapNew(NewNode(g, Home(g, lambda), "phi", Plain, In(g, lambda)), lambda)
=============================================================================
