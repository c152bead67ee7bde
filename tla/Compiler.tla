------------------------------ MODULE Compiler ------------------------------
(***************************************************************************)
(* From a program to its optimised graph: reduct_build, then the passes of *)
(* reduct_optimize in their schedule for a level. What a graph means is    *)
(* given here, what its program means in Language; both are lazy.          *)
(*                                                                         *)
(* A step is one rewrite of one node: the next one that the pass changes   *)
(* on its way through the regions, where the nodes of a region are in the  *)
(* order in which they came into it. The bound of 1024 rounds through a region is   *)
(* left out: Settles says that no pass needs it. As long as none does,     *)
(* reduct_optimize_region answers that nothing changed, so that a region   *)
(* is not gone through again for what changed in the regions inside, and   *)
(* reduct_optimize_simplify does each of its passes once.                  *)
(***************************************************************************)
EXTENDS Language

CONSTANTS
  Programs,     (* sequences of expressions                                *)
  Levels        (* those of the levels 0 .. 3 to compile them at           *)

ASSUME CompilerAssumption == Levels \subseteq 0 .. 3

VARIABLES
  program,   (* the program                                                *)
  means,     (* what it means                                              *)
  level,     (* the level of optimisation                                  *)
  phase,     (* "source", "graph", "done", or "refused" after an error     *)
  graph,     (* its graph                                                  *)
  stage,     (* the stage of the schedule                                  *)
  pass,      (* the pass of the stage                                      *)
  walk       (* where it is: a frame for every region that it is in; none  *)
             (* before it begins                                           *)

vars == <<program, means, level, phase, graph, stage, pass, walk>>

-----------------------------------------------------------------------------
(* reduct_optimize_flags_t, and the order of the passes.                    *)

O1 == {"algebra"}
O2 == O1 \cup {"swap", "folding", "gamma", "common", "ports"}
Flags == <<O1, O2, O2 \cup {"inlining", "motion"}>>

Simplify == <<"inlining", "swap", "folding", "algebra", "gamma", "common", "folding", "ports">>
Schedule == <<"simplify", "push", "simplify", "pull", "simplify", "pull">>
Passes(s) == IF Schedule[s] = "simplify" THEN Simplify ELSE <<Schedule[s]>>
Enabled1(name) == IF name \in {"push", "pull"} THEN "motion" \in Flags[level] ELSE name \in Flags[level]

(* A call of reduct_optimize_region. The node it is at is "open" until the  *)
(* pass has been applied to it, after the regions of the node that are      *)
(* left; the one that is next is read before that.                          *)
Following(r, n) ==
  LET later == {m \in NodesIn(graph, r) : m > n} IN IF later = {} THEN Nowhere ELSE Min(later)
Frame(r) ==
  [region |-> r, node |-> Nowhere, next |-> Following(r, Nowhere),
   left |-> <<>>, open |-> FALSE, changed |-> FALSE]
AtNode(frame, n) ==
  [frame EXCEPT !.node = n, !.next = Following(frame.region, n), !.left = graph.node[n].regions, !.open = TRUE]

Init ==
  /\ program \in Programs /\ means = MeaningOf(program)
  /\ level \in Levels
  /\ phase = "source" /\ graph = EmptyGraph
  /\ stage = 1 /\ pass = 1 /\ walk = <<>>

-----------------------------------------------------------------------------
Take(b) ==
  IF b.ok
  THEN graph' = [b.g EXCEPT !.o = NoOrigin] /\ phase' = IF level = 0 THEN "done" ELSE "graph"
  ELSE phase' = "refused" /\ UNCHANGED graph

BuildGraph ==
  /\ phase = "source" /\ Take(Built(program))
  /\ UNCHANGED <<program, means, level, stage, pass, walk>>

PassName == Passes(stage)[pass]
Inner == Nodes(graph) \ {Root}
Unused(n) == Uses(graph, Out(n)) = 0

(* The frames at the next node that the pass changes, or that it deletes    *)
(* because it has no users; none if there is no such node any more. A next  *)
(* node that has been deleted meanwhile has none behind it and counts as a  *)
(* change, so that the round ends there and another one follows.            *)
RECURSIVE Walk(_, _)
Walk(frames, results) ==
  LET top == Last(frames)
      outer == Front(frames)
  IN CASE top.left # <<>> ->
            Walk(outer \o <<[top EXCEPT !.left = Tail(@)], Frame(Head(top.left))>>, results)
       [] top.left = <<>> /\ top.open ->
            IF top.node \in Inner /\ (Unused(top.node) \/ results[top.node] # graph) THEN frames
            ELSE Walk(Append(outer, [top EXCEPT !.open = FALSE]), results)
       [] top.left = <<>> /\ ~top.open /\ top.next \in NodesIn(graph, top.region) ->
            Walk(Append(outer, AtNode(top, top.next)), results)
       [] top.left = <<>> /\ ~top.open /\ top.next \notin NodesIn(graph, top.region) \cup {Nowhere} ->
            Walk(Append(outer, [top EXCEPT !.next = Nowhere, !.changed = TRUE]), results)
       [] OTHER -> IF top.changed THEN Walk(Append(outer, Frame(top.region)), results)
                   ELSE IF outer = <<>> THEN <<>> ELSE Walk(outer, results)

NextPass ==
  LET more == pass < Len(Passes(stage))
      last == ~more /\ stage = Len(Schedule)
  IN /\ pass' = IF more THEN pass + 1 ELSE 1
     /\ stage' = IF more \/ last THEN stage ELSE stage + 1
     /\ phase' = IF last THEN "done" ELSE phase
     /\ walk' = <<>>
     /\ UNCHANGED graph

SkipPass ==
  /\ phase = "graph" /\ ~Enabled1(PassName)
  /\ NextPass
  /\ UNCHANGED <<program, means, level>>

(* At the node where the walk stops, what the pass makes of it.             *)
Change(frames, made) ==
  /\ IF made = Throws THEN phase' = "refused" /\ UNCHANGED graph
     ELSE graph' = [made EXCEPT !.o = NoOrigin] /\ UNCHANGED phase
  /\ walk' = Append(Front(frames), [Last(frames) EXCEPT !.open = FALSE, !.changed = TRUE])
  /\ UNCHANGED <<stage, pass>>

Visit(frames, results) ==
  IF frames = <<>> THEN NextPass
  ELSE LET n == Last(frames).node
       IN Change(frames, IF Unused(n) THEN DeleteNode(graph, n) ELSE results[n])

Step(name, results) ==
  /\ phase = "graph" /\ Enabled1(name) /\ PassName = name
  /\ Visit(Walk(IF walk = <<>> THEN <<Frame(Root)>> ELSE walk, results), results)
  /\ UNCHANGED <<program, means, level>>

Inlining == Step("inlining", [n \in Inner |-> FunctionInlining(graph, n)])
Swap == Step("swap", [n \in Inner |-> CommutativeSwap(graph, n)])
Folding == Step("folding", [n \in Inner |-> ConstantFolding(graph, n)])
Algebra == Step("algebra", [n \in Inner |-> AlgebraicSimplification(graph, n)])
Gamma == Step("gamma", [n \in Inner |-> GammaFolding(graph, n)])
Common == Step("common", [n \in Inner |-> CommonNodeElimination(graph, n)])
Ports == Step("ports", [n \in Inner |-> DeadPortElimination(graph, n)])
Push == Step("push", [n \in Inner |-> MotionPush(graph, n)])
Pull == Step("pull", [n \in Inner |-> MotionPull(graph, n)])

Next ==
  \/ BuildGraph \/ SkipPass
  \/ Inlining \/ Swap \/ Folding \/ Algebra \/ Gamma \/ Common \/ Ports \/ Push \/ Pull

(* Weak fairness of Next, which is enabled until the compilation ends,      *)
(* written so that ENABLED need not be computed.                            *)
Ended == phase \in {"done", "refused"}
Fairness == []<>Ended \/ []<><<Next>>_vars

Spec == Init /\ [][Next]_vars /\ Fairness

-----------------------------------------------------------------------------
(* The meaning of a graph. The arguments of a region are where they come    *)
(* from: an origin of another region with its arguments, a list of those.   *)

Later(r, args, o) == <<"later", r, args, o>>
Listed(laters) == <<"listed", laters>>

RECURSIVE Meaning(_, _, _), Force(_), Applied(_, _)

Force(t) == IF t[1] = "listed" THEN Together([k \in DOMAIN t[2] |-> Force(t[2][k])]) ELSE Meaning(t[2], t[3], t[4])

(* A function is a lambda node with what it captures.                       *)
Applied(callee, args) ==
  LET n == callee[2].node
      r == Body(graph, n)
      count == graph.region[r].args - Len(In(graph, n))
      variadic == graph.node[n].what = Variadic
      fixed == IF variadic THEN count - 1 ELSE count
      params == IF variadic THEN SubSeq(args, 1, fixed) \o <<Listed(SubSeq(args, fixed + 1, Len(args)))>> ELSE args
  IN IF Len(args) < fixed \/ (~variadic /\ Len(args) > fixed) THEN Gives(Error)
     ELSE Meaning(r, params \o callee[2].captured, graph.region[r].result)

Meaning(r, args, o) ==
  IF IsArg(o) THEN Force(args[o[3] + 1])
  ELSE LET n == o[2]
           in == In(graph, n)
           at(i) == Later(r, args, in[i])
           ins == [i \in DOMAIN in |-> at(i)]
           value(i) == Meaning(r, args, in[i])
           first == value(1)
           chosen == IF IsTruthy(first.v) THEN Then(graph, n) ELSE Else(graph, n)
           all == Together([i \in DOMAIN in |-> value(i)])
           inPhi == Body(graph, n)
       IN CASE Kind(graph, n) = "const" -> Gives(Handle(graph, n))
            [] Kind(graph, n) = "lambda" -> Gives(<<"function", [node |-> n, captured |-> ins]>>)
            [] Kind(graph, n) = "phi" -> Meaning(inPhi, <<Later(r, args, o)>> \o ins, graph.region[inPhi].result)
            [] Kind(graph, n) = "gamma" ->
                 IF first.v = Error THEN first
                 ELSE After(first.fx, Meaning(chosen, Tail(ins), graph.region[chosen].result))
            [] IsCall(graph, n) ->
                 CASE IsFunction(first.v) -> After(first.fx, Applied(first.v, Tail(ins)))
                   [] IsNative(first.v) ->
                        After(first.fx, NativeCall(first.v[2], Together([i \in DOMAIN Tail(in) |-> value(i + 1)])))
                   [] OTHER -> Gives(Error)
            [] OTHER -> Operation(graph.node[n].what[2], all)

GraphMeaning == Meaning(Root, <<>>, graph.region[Root].result)

-----------------------------------------------------------------------------
Compiled == phase \in {"graph", "done"}

(* What every origin is used for is in the region that it belongs to, and   *)
(* every argument that is used is there: "A region contains some number of  *)
(* nodes which connect to its result and may connect to its arguments".     *)
Visible(o, r) ==
  \/ IsOut(o) /\ o[2] \in Nodes(graph) /\ Home(graph, o[2]) = r
  \/ IsArg(o) /\ o[2] = r /\ o[3] \in 0 .. graph.region[r].args - 1

(* A gamma node and its regions agree on how many inputs there are, and a   *)
(* phi node has one argument more than inputs, for itself.                  *)
PortsAgree(n) ==
  LET count(r) == graph.region[r].args
      inputs == Len(In(graph, n))
  IN \A r \in ToSet(graph.node[n].regions) :
       CASE Kind(graph, n) = "gamma" -> count(r) = inputs - 1
         [] Kind(graph, n) = "phi" -> count(r) = inputs + 1
         [] OTHER -> count(r) >= inputs

(* Every step of a pass leaves a graph in which all edges stay in their     *)
(* region and all ports are paired: what is moved, copied, lifted or        *)
(* inlined takes its operands with it.                                      *)
WellScoped ==
  Compiled =>
    /\ \A n \in Nodes(graph) \ {Root} : \A i \in DOMAIN In(graph, n) : Visible(In(graph, n)[i], Home(graph, n))
    /\ \A r \in Regions(graph) : Visible(graph.region[r].result, r)
    /\ \A n \in Nodes(graph) : PortsAgree(n)

(* A program that has a value keeps it at every level, through every        *)
(* rewrite (src/optimize.c:319-1633), and is never refused. The calls of    *)
(* impure natives that its value takes are those of its graph: none is      *)
(* lost, none comes in from a branch that is not taken.                     *)
KeepsValue(value) ==
  IF IsFunction(means.v) THEN IsFunction(value) ELSE value = means.v
MeaningKept ==
  means.v # Error =>
    /\ phase # "refused"
    /\ Compiled => KeepsValue(GraphMeaning.v) /\ GraphMeaning.fx = means.fx

(* No pass goes on for ever, alone or with the others.                      *)
Settles == <>Ended
=============================================================================
