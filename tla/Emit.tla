-------------------------------- MODULE Emit --------------------------------
(***************************************************************************)
(* The code generator of src/emit.c.  A function body is a graph of nodes  *)
(* (src/rvsdg.c), here built one node at a time up to MaxNodes; emission   *)
(* walks it from its result, keeps the places of values it has emitted in  *)
(* a cache with use counts, and reuses registers when the count runs out;  *)
(* the code is then executed one instruction at a time (src/eval.c) and    *)
(* its answer compared with the meaning of the graph.  Values are terms,   *)
(* so that two values are equal only when they were computed alike.        *)
(* A body has at most one branch (a gamma node); recursion is left out.    *)
(***************************************************************************)
EXTENDS Integers, Sequences, FiniteSets, SequencesExt, FiniteSetsExt

CONSTANTS
  Arity,        (* parameters of the function                              *)
  MaxNodes,     (* bound on the nodes of a body, parameters included       *)
  RegisterMax,  (* REDUCT_REGISTER_MAX                                     *)
  Kinds,        (* the kinds of nodes the bodies may have                  *)
  Once,         (* those of which a body has at most one                   *)
  Known         (* the known defects that bodies and inputs may run into   *)

ASSUME EmitAssumption ==
  /\ {MaxNodes, RegisterMax} \subseteq Nat
  /\ Arity \in 1 .. MaxNodes
  /\ Known \subseteq {"shared", "forked", "closure", "unordered"}

VARIABLES
  phase,      (* the body is built, compiled or refused, and run           *)
  nodes,      (* the body: its nodes, operands before users                *)
  function,   (* code and registerCount, once emitted                      *)
  outcome,    (* of the predicate of the branch in this run                *)
  shouldFork, (* whether this run makes tasks of forks, or plain calls     *)
  pc,         (* the next instruction                                      *)
  regs,       (* the registers of the frame                                *)
  called,     (* how many calls the run has made                           *)
  answer      (* what the function returned                                *)

vars == <<phase, nodes, function, outcome, shouldFork, pc, regs, called, answer>>

None == <<"none">>
Garbage == <<"garbage">>

Return == -2  (* REDUCT_REGISTER_RETURN as a target                        *)
NoTarget == -1  (* REDUCT_REGISTER_INVALID as a target                     *)

-----------------------------------------------------------------------------
(* The graph.                                                              *)

Operands(n) == nodes[n].in
Region(n) == nodes[n].region
Gammas == {n \in DOMAIN nodes : nodes[n].kind = "gamma"}
Forks == {n \in DOMAIN nodes : nodes[n].kind = "fork"}
Body == Len(nodes)

(* What the branch of a gamma takes from outside comes in through inputs   *)
(* of the gamma, one for each value however often it is used.              *)
TakenBy(region) ==
  LET users == {n \in DOMAIN nodes : Region(n) = region}
      results == {Operands(g)[IF region = "then" THEN 2 ELSE 3] : g \in Gammas}
  IN  {m \in UNION {Range(Operands(n)) : n \in users} \cup results : Region(m) = "top"}

Inputs == TakenBy("then") \cup TakenBy("else")

(* The operands that users in the region of n itself have; those of a gamma *)
(* are its predicate and its inputs, its results belong to its branches.    *)
Edges(n) ==
  {e \in (DOMAIN nodes) \X (1 .. 3) :
     LET u == e[1]
         i == e[2]
     IN  /\ i \in DOMAIN Operands(u)
         /\ Operands(u)[i] = n
         /\ IF u \in Gammas THEN i = 1 \/ Region(n) # "top" ELSE Region(u) = Region(n)}
EdgeCount(n) ==
  Cardinality(Edges(n)) + (IF n \in Inputs THEN 1 ELSE 0) + (IF n = Body THEN 1 ELSE 0)

(* The meaning of node n when the predicate turns out as o.                *)
Meaning(o) ==
  LET value[n \in DOMAIN nodes] ==
        LET args == [i \in DOMAIN Operands(n) |-> value[Operands(n)[i]]]
        IN  CASE nodes[n].kind \in {"arg", "capture", "const"} -> <<nodes[n].kind, n>>
              [] nodes[n].kind = "gamma" -> IF o = "true" THEN args[2] ELSE args[3]
              [] nodes[n].kind = "fork" -> <<"call", args>>
              [] OTHER -> <<nodes[n].kind, args>>
  IN  value

-----------------------------------------------------------------------------
(* Places of values: a register, one that holds a future, a constant.      *)

Reg(r) == [type |-> "reg", at |-> r, origin |-> 0]
Fork(r) == [type |-> "fork", at |-> r, origin |-> 0]
Const(k) == [type |-> "const", at |-> k, origin |-> 0]
Nowhere == [type |-> "none", at |-> 0, origin |-> 0]

(* An emitter, with what its last operations returned: a register, a place, *)
(* the places of operands.                                                  *)
Emitter ==
  [edgeCount |-> [n \in DOMAIN nodes |-> EdgeCount(n)],
   code |-> <<>>, top |-> Arity, free |-> <<>>, count |-> 0,
   cache |-> <<>>, reg |-> 0, expr |-> Nowhere, places |-> <<>>, ok |-> TRUE]

RegAlloc(e) ==
  IF e.free # <<>>
  THEN [e EXCEPT !.free = Front(@), !.reg = Last(e.free)]
  ELSE [e EXCEPT !.top = @ + 1, !.reg = e.top, !.count = Max({@, e.top + 1}),
                 !.ok = @ /\ e.top < RegisterMax]

(* The register at the top gives way, and the free ones right below it.    *)
RegFree(e, r) ==
  LET absorbed == {q \in Range(e.free) : q < r /\ q .. (r - 1) \subseteq Range(e.free)}
  IN  CASE r \in Range(e.free) -> e
        [] r \notin Range(e.free) /\ r = e.top - 1 ->
             [e EXCEPT !.top = r - Cardinality(absorbed),
                       !.free = SelectSeq(@, LAMBDA q : q \notin absorbed)]
        [] OTHER -> [e EXCEPT !.free = Append(@, r)]

(* Mutant: the function does not learn of the registers.                    *)
RegAllocRangeUncounted(e, count) ==
  LET n == Max({count, 1})
  IN  [e EXCEPT !.top = @ + n, !.reg = e.top, !.ok = @ /\ e.top + n <= RegisterMax]

RegAllocRange(e, count) ==
  LET n == Max({count, 1})
  IN  [e EXCEPT !.top = @ + n, !.reg = e.top, !.count = Max({@, e.top + n}),
                !.ok = @ /\ e.top + n <= RegisterMax]

Hits(e, n) == {i \in DOMAIN e.cache : e.cache[i].origin = n}

CacheGet(e, n) == IF Hits(e, n) = {} THEN Nowhere ELSE e.cache[Min(Hits(e, n))].expr

(* An entry whose uses are spent is overwritten, whatever node it is for.  *)
CachePut(e, n, x) ==
  LET spent == {i \in DOMAIN e.cache : e.cache[i].uses = 0}
      entry == [origin |-> n, expr |-> x, uses |-> e.edgeCount[n]]
  IN  IF spent = {}
      THEN [e EXCEPT !.cache = Append(@, entry), !.ok = @ /\ Len(e.cache) < RegisterMax]
      ELSE [e EXCEPT !.cache[Min(spent)] = entry]

CacheUpdate(e, n, x) ==
  IF Hits(e, n) = {} THEN e ELSE [e EXCEPT !.cache[Min(Hits(e, n))].expr = x]

(* One use of n less; after the last one its register is free. The loop     *)
(* goes on behind an entry it has cleared, a closure has two of them.       *)
RECURSIVE CacheRelease(_, _)
CacheRelease(e, n) ==
  IF Hits(e, n) = {} THEN e
  ELSE LET i == Min(Hits(e, n))
           entry == e.cache[i]
       IN  CASE entry.uses = 0 -> e
             [] entry.uses = 1 /\ entry.expr.type \in {"reg", "fork"} ->
                  CacheRelease(RegFree([e EXCEPT !.cache[i] = [origin |-> 0, expr |-> Nowhere, uses |-> 0]],
                                       entry.expr.at), n)
             [] OTHER -> [e EXCEPT !.cache[i].uses = @ - 1]

(* An operand that comes in through a gamma is an argument of the branch,   *)
(* which is in no cache: releasing it does nothing.                         *)
ReleaseFor(e, user, n) == IF Region(user) = Region(n) THEN CacheRelease(e, n) ELSE e

(* Instructions; C is a register or a constant, a jump goes to position a.  *)
Inst(op, a, b, c) == [op |-> op, a |-> a, b |-> b, c |-> c]
Terminators == {"ret", "tailcall", "jmp", "jmpf"}

Put(e, inst) == [e EXCEPT !.code = Append(@, inst)]
Here(e) == Len(e.code) + 1
Patch(e, i) == [e EXCEPT !.code[i].a = Here(e)]

(* The value of x is brought to target; e.reg is where it is afterwards.    *)
Flush(e, x, target) ==
  CASE x.type = "none" -> e
    [] x.type = "fork" ->
         LET r == IF target < 0 THEN x.at ELSE target
             joined == [Put(e, Inst("join", r, 0, Reg(x.at))) EXCEPT !.reg = r]
         IN  IF target = Return THEN Put(joined, Inst("ret", 0, 0, Reg(r))) ELSE joined
    [] x.type \in {"reg", "const"} /\ target = Return -> Put(e, Inst("ret", 0, 0, x))
    [] x.type = "reg" /\ target = NoTarget -> [e EXCEPT !.reg = x.at]
    [] x.type = "reg" /\ target >= 0 ->
         LET moved == [e EXCEPT !.reg = target]
         IN  IF x.at = target THEN moved ELSE Put(moved, Inst("mov", target, 0, x))
    [] x.type = "const" /\ target >= 0 ->
         Put([e EXCEPT !.reg = target], Inst("mov", target, 0, x))
    [] x.type = "const" /\ target = NoTarget ->
         LET taken == RegAlloc(e)
         IN  CacheUpdate(Put(taken, Inst("mov", taken.reg, 0, x)), x.origin, Reg(taken.reg))

(* Every opcode with an operand C takes it from a register or a constant.   *)
EmitInst(e, op, a, b, x) ==
  IF x.type = "const" THEN Put(e, Inst(op, a, b, x))
  ELSE Put(Flush(e, x, NoTarget), Inst(op, a, b, Reg(x.at)))

At(e, x) == [e EXCEPT !.expr = x]

(* The register that is to take a result.                                   *)
Target(e, target) == IF target < 0 THEN RegAlloc(e) ELSE [e EXCEPT !.reg = target]

RECURSIVE EmitOrigin(_, _, _)

(* An operand of user. The emission of one that comes in through a gamma    *)
(* and ends in a tail call has no place, and a constant is made up for it.  *)
Supplied(e, isArgument) == IF isArgument /\ e.expr.type = "none" THEN At(e, Const(0)) ELSE e
EmitFor(e, user, n, target) == Supplied(EmitOrigin(e, n, target), Region(user) # Region(n))

(* The operands from position from on are emitted in order, and their places *)
(* collected.                                                               *)
Collect(e, done) == [done EXCEPT !.places = Append(e.places, done.expr)]
EmitOperand(e, n, i) == Collect(e, EmitFor(e, n, Operands(n)[i], NoTarget))
EmitOperands(e, n, from) ==
  LET emitted[i \in from - 1 .. Len(Operands(n))] ==
        IF i < from THEN [e EXCEPT !.places = <<>>] ELSE EmitOperand(emitted[i - 1], n, i)
  IN  emitted[Len(Operands(n))]

ReleaseOperands(e, n, from) ==
  FoldLeft(LAMBDA acc, m : ReleaseFor(acc, n, m), e, SubSeq(Operands(n), from, Len(Operands(n))))

BinaryInst(ready, n, left, right) ==
  At(EmitInst(ready, nodes[n].kind, ready.reg, left, right), Reg(ready.reg))

(* Mutant: the operands are released before the left one is in a register.  *)
BinaryOpEarly(e, n, target) ==
  LET ready == Target(ReleaseOperands(e, n, 1), target)
      left == Flush(ready, e.places[1], NoTarget)
  IN  BinaryInst([left EXCEPT !.reg = ready.reg], n, left.reg, e.places[2])

BinaryOp(e, n, target) ==
  LET left == Flush(e, e.places[1], NoTarget)
  IN  BinaryInst(Target(ReleaseOperands(left, n, 1), target), n, left.reg, e.places[2])

EmitBinary(e, n, target) == BinaryOp(EmitOperands(e, n, 1), n, target)

(* The operands are moved to a row of registers above all others; a call    *)
(* has its callee in front of them.                                         *)
First(n) == IF nodes[n].kind = "list" THEN 1 ELSE 2

MoveRow(row, base) ==
  FoldLeft(LAMBDA acc, i : Flush(acc, row.places[i], base + i - 1),
           row, [i \in DOMAIN row.places |-> i])

FreeRow(e, first, last) ==
  FoldLeft(RegFree, e, [i \in 1 .. last - first + 1 |-> first + i - 1])

RangeInst(row, n, op, base, count, callee) ==
  LET made == EmitInst(ReleaseOperands(MoveRow(row, base), n, First(n)), op, base, count, callee)
      left == IF op = "list" THEN made ELSE ReleaseFor(made, n, Operands(n)[1])
      shrunk == FreeRow(left, base + 1, base + count - 1)
  IN  CASE op = "tailcall" -> At(RegFree(shrunk, base), Nowhere)
        [] op = "fork" -> At(shrunk, Fork(base))
        [] op \in {"call", "list"} -> At(shrunk, Reg(base))

RangeRow(row, n, target, callee) ==
  RangeInst(row, n, IF nodes[n].kind = "call" /\ target = Return THEN "tailcall" ELSE nodes[n].kind,
            row.reg, Len(row.places), callee)

RangeOperands(e, n, target, callee) ==
  LET args == EmitOperands(e, n, First(n))
  IN  RangeRow(RegAllocRange(args, Len(Operands(n)) + 1 - First(n)), n, target, callee)

RangeCallee(e, n, target) == RangeOperands(e, n, target, e.expr)

EmitRange(e, n, target) ==
  IF nodes[n].kind = "list" THEN RangeOperands(e, n, target, Const(0))
  ELSE RangeCallee(EmitFor(e, n, Operands(n)[1], NoTarget), n, target)

(* A closure is in the cache before what it captures is emitted.            *)
CaptureInst(value, n, r, i) ==
  ReleaseFor(EmitInst(value, "capture", r, i, value.expr), n, Operands(n)[i])
LambdaAt(e, n, r) ==
  LET captured[i \in 0 .. Len(Operands(n))] ==
        IF i = 0 THEN Put(CachePut(e, n, Reg(r)), Inst("closure", r, 0, Const(n)))
        ELSE CaptureInst(EmitFor(captured[i - 1], n, Operands(n)[i], NoTarget), n, r, i)
  IN  At(captured[Len(Operands(n))], Reg(r))
EmitLambda(e, n) == LET target == RegAlloc(e) IN LambdaAt(target, n, target.reg)

(* Values that both branches take are emitted before the branch; those in   *)
(* registers are kept until its end.                                        *)
SharedInputs ==
  LET both == TakenBy("then") \cap TakenBy("else")
  IN  SelectSeq([i \in DOMAIN nodes |-> i], LAMBDA m : m \in both)
Keep(acc, done, m) ==
  IF done.expr.type \in {"const", "none"} THEN [acc EXCEPT !.e = done]
  ELSE [e |-> Flush(done, done.expr, NoTarget), kept |-> Append(acc.kept, m)]
PrematerialiseOne(acc, m) == Keep(acc, EmitOrigin(acc.e, m, NoTarget), m)
Prematerialise(e) ==
  LET before[i \in 0 .. Len(SharedInputs)] ==
        IF i = 0 THEN [e |-> e, kept |-> <<>>]
        ELSE PrematerialiseOne(before[i - 1], SharedInputs[i])
  IN  before[Len(SharedInputs)]

(* A comparison used by the branch alone becomes an instruction that skips  *)
(* the jump; at is where that instruction is taken to be.                   *)
FusedTest(e, p) ==
  LET left == Flush(e, e.places[1], NoTarget)
      freed == ReleaseOperands(left, p, 1)
  IN  [e |-> Put(EmitInst(freed, "skip", 0, left.reg, e.places[2]), Inst("jmp", 0, 0, Const(0))),
       at |-> Here(freed)]

PlainTest(e, p) ==
  LET test == Flush(e, e.expr, NoTarget)
  IN  [e |-> Put(CacheRelease(test, p), Inst("jmpf", 0, 0, Reg(test.reg))), at |-> 0]

EmitPredicate(e, p) ==
  IF nodes[p].kind = "cmp" /\ e.edgeCount[p] = 1
  THEN FusedTest(EmitOperands(e, p, 1), p)
  ELSE PlainTest(EmitOrigin(e, p, NoTarget), p)

(* A branch that is one terminator takes the place of the jump over it, and *)
(* the instruction at at is inverted, if it is a comparison.                *)
EndsBody(e) == Last(e.code).op \in Terminators
Fuse(e, at, jump) ==
  LET inverted == IF e.code[at].op = "skip" THEN [e.code[at] EXCEPT !.op = "skipnot"] ELSE e.code[at]
  IN  [e EXCEPT !.code = Front([@ EXCEPT ![at] = inverted, ![jump] = Last(e.code)])]

EmitBranch(e, n, i, to) ==
  LET done == EmitFor(e, n, Operands(n)[i], to) IN Flush(done, done.expr, to)

Finish(e, kept, to) ==
  At(FoldLeft(CacheRelease, e, kept), IF to = Return THEN Nowhere ELSE Reg(to))

(* over is the position of the jump over the second branch, 0 if the first  *)
(* one does not end there.                                                  *)
ElseBranch(e, n, to, over) ==
  LET done == EmitBranch(e, n, 3, to) IN IF over = 0 THEN done ELSE Patch(done, over)

(* Mutant: the jump from the end of the first branch is forgotten.          *)
CloseBranchFallThrough(e, n, to, at, jump) == ElseBranch(Patch(e, jump), n, to, 0)

CloseBranch(e, n, to, at, jump) ==
  LET fused == at # 0 /\ Len(e.code) = jump + 1 /\ EndsBody(e)
      closed == IF fused THEN Fuse(e, at, jump) ELSE e
      over == IF EndsBody(closed) THEN closed ELSE Put(closed, Inst("jmp", 0, 0, Const(0)))
      landed == IF fused THEN over ELSE Patch(over, jump)
  IN  ElseBranch(landed, n, to, IF EndsBody(closed) THEN 0 ELSE Len(over.code))

ThenBranch(tested, n, to) ==
  CloseBranch(EmitBranch(tested.e, n, 2, to), n, to, tested.at, Len(tested.e.code))

GammaTo(pre, n, to) ==
  Finish(ThenBranch(EmitPredicate(pre.e, Operands(n)[1]), n, to), pre.kept, to)

EmitGamma(e, n, target) ==
  LET ready == IF target = NoTarget THEN RegAlloc(e) ELSE [e EXCEPT !.reg = target]
  IN  GammaTo(Prematerialise(ready), n, ready.reg)

EmitNode(e, n, target) ==
  CASE nodes[n].kind = "cmp" -> EmitBinary(e, n, target)
    [] nodes[n].kind \in {"call", "fork", "list"} -> EmitRange(e, n, target)
    [] nodes[n].kind = "const" -> At(e, Const(n))
    [] nodes[n].kind = "lambda" -> EmitLambda(e, n)
    [] nodes[n].kind = "gamma" -> EmitGamma(e, n, target)

(* What is in the cache is not emitted again; parameters are put there      *)
(* first, captured values are constants of the closure. A parameter that is *)
(* not there any more is taken for a constant, too, for one that is none.   *)
Remember(e, n) ==
  LET found == [e.expr EXCEPT !.origin = n]
  IN  IF e.expr.type = "none" THEN e ELSE At(CachePut(e, n, found), found)

EmitOrigin(e, n, target) ==
  CASE CacheGet(e, n).type # "none" -> At(e, CacheGet(e, n))
    [] CacheGet(e, n).type = "none" /\ nodes[n].kind \in {"arg", "capture"} ->
         At(e, Const(IF nodes[n].kind = "arg" THEN 0 ELSE n))
    [] OTHER -> Remember(EmitNode(e, n, target), n)

EmitFunction ==
  LET Parameter(e, n) == IF e.edgeCount[n] > 0 THEN CachePut(e, n, Reg(n - 1)) ELSE RegFree(e, n - 1)
      ready == FoldLeft(Parameter, Emitter, [i \in 1 .. Arity |-> i])
      body == EmitOrigin(ready, Body, Return)
  IN  Flush(body, body.expr, Return)

-----------------------------------------------------------------------------
(* Building a body.                                                        *)

Init ==
  /\ phase = "build"
  /\ nodes = [i \in 1 .. Arity |-> [kind |-> "arg", in |-> <<>>, region |-> "top"]]
  /\ function = [code |-> <<>>, registerCount |-> 0]
  /\ outcome = "true"
  /\ shouldFork = FALSE
  /\ pc = 1
  /\ regs = [r \in 0 .. RegisterMax - 1 |-> Garbage]
  /\ called = 0
  /\ answer = None

(* Nodes of a branch are built before its gamma, which comes only once, and *)
(* after those outside, the first branch before the second; a node sees its *)
(* own region and what is outside of it.                                    *)
Built(region) == \E n \in DOMAIN nodes : Region(n) = region
Regions ==
  IF Gammas # {} \/ "gamma" \notin Kinds THEN {"top"}
  ELSE {"else"} \cup (IF Built("else") THEN {} ELSE {"then"})
                \cup (IF Built("then") \/ Built("else") THEN {} ELSE {"top"})
Visible(region) == {n \in DOMAIN nodes : Region(n) \in {"top", region}}

(* An expression is built when the one around it is: the operands that have *)
(* no other user yet are the last ones built.                               *)
Unused == Arity + 1 .. Body \ UNION {Range(Operands(u)) : u \in DOMAIN nodes}
LastBuilt(in, unused) == \A n \in unused \cap in, m \in unused : m > n => m \in in

(* The body can still be completed within MaxNodes: each further node        *)
(* leaves at most one unused node less, a gamma two.                        *)
Completable(in, unused, region) ==
  LET further == MaxNodes - Len(nodes) - 1
  IN  /\ region = "top" \/ further > 0
      /\ Cardinality(unused \ in) <= further + (IF further > 0 /\ Gammas = {} THEN 1 ELSE 0)

Addable(kind) ==
  /\ phase = "build"
  /\ Len(nodes) < MaxNodes
  /\ kind \in Kinds
  /\ kind \in Once => \A n \in DOMAIN nodes : nodes[n].kind # kind

Add(kind, in, region, unused) ==
  /\ LastBuilt(Range(in), unused)
  /\ Completable(Range(in), unused, region)
  /\ nodes' = Append(nodes, [kind |-> kind, in |-> in, region |-> region])
  /\ UNCHANGED <<phase, function, outcome, shouldFork, pc, regs, called, answer>>

AddConstant == Addable("const") /\ \E region \in Regions : Add("const", <<>>, region, Unused)
AddCapture == Addable("capture") /\ "top" \in Regions /\ Add("capture", <<>>, "top", Unused)

AddNode ==
  LET unused == Unused
  IN  \E kind \in {"cmp", "call", "list"} :
        /\ Addable(kind)
        /\ \E region \in Regions : \E b, c \in Visible(region) : Add(kind, <<b, c>>, region, unused)

AddLambda ==
  /\ Addable("lambda")
  /\ \E region \in Regions : \E m \in Visible(region) : Add("lambda", <<m>>, region, Unused)

AddGamma ==
  /\ Addable("gamma")
  /\ Gammas = {}
  /\ LET unused == Unused
     IN  \E p \in Visible("top"), t \in Visible("then"), f \in Visible("else") :
           Add("gamma", <<p, t, f>>, "top", unused)

(* The optimizer's auto-parallelization: the calls among the operands of a   *)
(* node become forks when there are two of them, and their users are all    *)
(* plain nodes.                                                             *)
Plain(n) == nodes[n].kind \in {"cmp", "call", "fork", "list"}
Candidate(u, n) ==
  /\ nodes[n].kind = "call"
  /\ n # Body
  /\ Region(u) = Region(n)
  /\ n \notin Inputs
  /\ \A v \in DOMAIN nodes : n \in Range(Operands(v)) => Plain(v)

Parallelise ==
  /\ phase = "build"
  /\ "fork" \in Kinds
  /\ Unused = {Body}
  /\ \E u \in DOMAIN nodes :
       /\ Plain(u)
       /\ Cardinality({i \in DOMAIN Operands(u) : Candidate(u, Operands(u)[i])}) > 1
       /\ nodes' = [n \in DOMAIN nodes |->
                      IF n \in Range(Operands(u)) /\ Candidate(u, n)
                      THEN [nodes[n] EXCEPT !.kind = "fork"] ELSE nodes[n]]
  /\ UNCHANGED <<phase, function, outcome, shouldFork, pc, regs, called, answer>>

(* Known "shared": parameters, the predicate and what both branches take    *)
(* are in registers before the branch; anything else is emitted inside of   *)
(* it, although the cache offers it to what comes after.                    *)
Sealed ==
  \A m \in Inputs :
    \/ nodes[m].kind \in {"arg", "capture"}
    \/ nodes[m].kind # "const" /\ m \in TakenBy("then") \cap TakenBy("else")
    \/ \E g \in Gammas : Operands(g)[1] = m

(* Known "forked": the right operand of a branch's comparison is a future,  *)
(* whose join is taken for the comparison.                                  *)
TestsNoFuture ==
  \A g \in Gammas : LET p == Operands(g)[1] IN nodes[p].kind = "cmp" => Operands(p)[2] \notin Forks

(* Known "closure": a closure is in the cache twice, and unless the operands *)
(* of a call or list lie above it its register is given back twice.         *)
ClosuresInRows ==
  \A n, u \in DOMAIN nodes :
    nodes[n].kind = "lambda" /\ n \in Range(Operands(u)) => nodes[u].kind \in {"call", "fork", "list"}

Compile ==
  /\ phase = "build"
  /\ Unused = {Body}
  /\ Region(Body) = "top"
  /\ "shared" \in Known \/ Sealed
  /\ "forked" \in Known \/ TestsNoFuture
  /\ "closure" \in Known \/ ClosuresInRows
  /\ LET e == EmitFunction
     IN  /\ function' = [code |-> e.code, registerCount |-> e.count]
         /\ phase' = IF e.ok THEN "compiled" ELSE "refused"
  /\ UNCHANGED <<nodes, outcome, shouldFork, pc, regs, called, answer>>

-----------------------------------------------------------------------------
(* Running the code.                                                       *)

Predicate == Operands(CHOOSE g \in Gammas : TRUE)[1]

Start ==
  /\ phase = "compiled"
  /\ phase' = "running"
  /\ outcome' \in IF Gammas = {} THEN {"true"}
                  ELSE {"true", "false"} \cup (IF nodes[Predicate].kind = "cmp"
                                              THEN Known \cap {"unordered"} ELSE {})
  /\ shouldFork' \in IF Forks = {} THEN {FALSE} ELSE BOOLEAN
  /\ regs' = [r \in DOMAIN regs |-> IF r < Arity THEN <<"arg", r + 1>> ELSE Garbage]
  /\ UNCHANGED <<nodes, function, pc, called, answer>>

Current == function.code[pc]
Op ==
  CASE Current.op = "fork" /\ ~shouldFork -> "call"
    [] Current.op = "join" /\ ~shouldFork -> "mov"
    [] OTHER -> Current.op
Is(op) == phase = "running" /\ Op = op
C == IF Current.c.type = "reg" THEN regs[Current.c.at]
     ELSE IF Current.c.at = 0 THEN Garbage ELSE <<nodes[Current.c.at].kind, Current.c.at>>
Row == [i \in 1 .. Current.b |-> regs[Current.a + i - 1]]

Advance(newRegs) ==
  /\ regs' = newRegs
  /\ pc' = pc + 1
  /\ UNCHANGED <<phase, nodes, function, outcome, shouldFork, called, answer>>

Write(value) == Advance([regs EXCEPT ![Current.a] = value])

Move == Is("mov") /\ Write(C)
Compute == Is("cmp") /\ Write(<<"cmp", <<regs[Current.b], C>>>>)
MakeList == Is("list") /\ Write(<<"list", Row>>)
MakeClosure == Is("closure") /\ Write(<<"lambda", <<>>>>)
Capture == Is("capture") /\ Write(IF regs[Current.a][1] = "lambda"
                                  THEN <<"lambda", Append(regs[Current.a][2], C)>> ELSE Garbage)

(* A call or a join may collect: what is in a register beyond the count of   *)
(* the function is not seen there, and gone in the worst case.              *)
Join ==
  /\ Is("join")
  /\ LET value == IF C[1] = "future" THEN C[2] ELSE C
     IN  Advance([r \in DOMAIN regs |-> IF r = Current.a THEN value
                                        ELSE IF r < function.registerCount THEN regs[r] ELSE Garbage])

(* The callee's frame begins at register a and takes what is above it.      *)
Call ==
  /\ Is("call")
  /\ regs' = [r \in DOMAIN regs |-> IF r < Current.a THEN regs[r]
                                    ELSE IF r = Current.a THEN <<"call", <<C>> \o Row>> ELSE Garbage]
  /\ pc' = pc + 1
  /\ called' = called + 1
  /\ UNCHANGED <<phase, nodes, function, outcome, shouldFork, answer>>

Spawn ==
  /\ Is("fork")
  /\ regs' = [regs EXCEPT ![Current.a] = <<"future", <<"call", <<C>> \o Row>>>>]
  /\ pc' = pc + 1
  /\ called' = called + 1
  /\ UNCHANGED <<phase, nodes, function, outcome, shouldFork, answer>>

Leave(value, calls) ==
  /\ answer' = value
  /\ phase' = "done"
  /\ called' = called + calls
  /\ UNCHANGED <<nodes, function, outcome, shouldFork, pc, regs>>

Ret == Is("ret") /\ Leave(C, 0)
TailCall == Is("tailcall") /\ Leave(<<"call", <<C>> \o Row>>, 1)

Goto(target) == pc' = target /\ UNCHANGED <<phase, nodes, function, outcome, shouldFork, regs, called, answer>>

Expected == Meaning(outcome)[Predicate]

Jump == Is("jmp") /\ Goto(Current.a)
JumpIfFalse == Is("jmpf") /\ Goto(IF C = Expected /\ outcome # "true" THEN Current.a ELSE pc + 1)

(* A comparison with a value that is not a number fails, and so does its    *)
(* opposite.                                                                *)
Skip ==
  \E op \in {"skip", "skipnot"} :
    /\ Is(op)
    /\ Goto(IF /\ <<"cmp", <<regs[Current.b], C>>>> = Expected
               /\ outcome = IF op = "skip" THEN "true" ELSE "false"
            THEN pc + 2 ELSE pc + 1)

Next ==
  \/ AddConstant \/ AddCapture \/ AddNode \/ AddLambda \/ AddGamma \/ Parallelise \/ Compile
  \/ Start
  \/ Move \/ Compute \/ MakeList \/ MakeClosure \/ Capture \/ Join
  \/ Call \/ Spawn \/ Ret \/ TailCall \/ Jump \/ JumpIfFalse \/ Skip

Spec == Init /\ [][Next]_vars

-----------------------------------------------------------------------------
(* Each call the outcome of the branch asks for is made once, and no other   *)
(* (emit.c:707, 974): a call has effects.                                   *)
CallsAsTheGraph ==
  LET needed[n \in DOMAIN nodes] ==
        \/ n = Body
        \/ \E u \in n + 1 .. Body, i \in 1 .. 3 :
             /\ needed[u]
             /\ i \in DOMAIN Operands(u)
             /\ Operands(u)[i] = n
             /\ u \in Gammas => i # (IF outcome = "true" THEN 3 ELSE 2)
  IN  phase = "done" =>
        called = Cardinality({n \in DOMAIN nodes : nodes[n].kind \in {"call", "fork"} /\ needed[n]})

(* The answer of the code is the meaning of the body (emit.c:974, eval.c:364): *)
(* no register is given to a second value while the first has a use to come, *)
(* whatever branch is taken, no jump lands anywhere else, and the calls are  *)
(* those the body asks for.                                                 *)
AnswersAsTheGraph == phase = "done" => answer = Meaning(outcome)[Body] /\ CallsAsTheGraph

(* The registers the code names are those reduct_eval_push_frame reserves    *)
(* for the function (emit.c:110, eval.c:68): others are another frame's.    *)
FitsFrame ==
  phase = "compiled" =>
    \A i \in DOMAIN function.code :
      LET inst == function.code[i]
          row == IF inst.op \in {"call", "fork", "list", "tailcall"} THEN inst.a .. inst.a + inst.b - 1 ELSE {}
          target == IF inst.op \in {"jmp", "jmpf", "ret", "skip", "skipnot"} THEN {} ELSE {inst.a}
          c == IF inst.c.type = "reg" THEN {inst.c.at} ELSE {}
      IN  \A r \in row \cup target \cup c : r < Max({function.registerCount, Arity})

=============================================================================
