----------------------------- MODULE MCCompiler -----------------------------
(***************************************************************************)
(* The programs that Compiler is checked with. What they compute with is   *)
(* unknown to the compiler as a parameter of a function below level 3, and *)
(* at all levels as a parameter of a function that calls itself.           *)
(***************************************************************************)
EXTENDS Compiler

Call(name, args) == List(<<Atom(name)>> \o args)
X == Atom("x")
Y == Atom("y")
One == Number(1)
Def(name, form) == Call("def", <<Atom(name), form>>)
Fn(names, body) == Call("lambda", <<List([k \in DOMAIN names |-> Atom(names[k])]), body>>)
Do(forms) == Call("do", forms)
Say(form) == Call("print!", <<form>>)
If(c, t, e) == Call("if", <<c, t, e>>)

(* A body of x = 5 and y = 3; one of x = 2, 1 and y, the answer before.      *)
Once(body) == <<Def("f", Fn(<<"x", "y">>, body)), Call("f", <<Number(5), Number(3)>>)>>
Looped(body) ==
  <<Def("f", Fn(<<"x", "y">>, If(Call("<", <<X, One>>), Y, Call("f", <<Call("--", <<X>>), body>>)))),
    Call("f", <<Number(2), Number(3)>>)>>
InBoth(bodies) == {Once(b) : b \in bodies} \cup {Looped(b) : b \in bodies}

-----------------------------------------------------------------------------
(* Every operation with the operands for which there is an identity.        *)
Operands ==
  {<<X, Number(k)>> : k \in 0 .. 2} \cup {<<Number(k), X>> : k \in 0 .. 2} \cup {<<X, X>>, <<X, Y>>, <<One, Number(2)>>}
Operations == {Call(op, args) : op \in Variadics \cup Comparisons, args \in Operands}

(* Branches with effects, with what is known and what one side needs.       *)
Conditions ==
  {Call("<", <<X, Number(3)>>), Call("<", <<One, Number(2)>>), Say(X), Call("and", <<X, Say(Y)>>), Call("not", <<X>>)}
Sides == {Number(7), Say(X), Call("+", <<Y, One>>), Call("+", <<Atom("z"), Y>>), Call("g", <<Y>>)}
Branching(g) ==
  {Do(<<Def("z", Call("*", <<X, Y>>)), Def("g", Fn(<<"a">>, g)), If(c, s, t)>>)
    : c \in Conditions, s \in Sides, t \in Sides}

-----------------------------------------------------------------------------
(* Association lists of which only the keys are known.                      *)
Pair(key, value) == Call("list", <<Quoted(key), value>>)
Inner1 == Call("list", <<Pair("b", Y), Pair("c", Number(4))>>)
Alists == {Call("list", <<Pair("a", X), Pair("b", Number(2))>>), Call("list", <<Pair("a", Inner1), Pair("b", X)>>)}
Paths == {Quoted("a"), Quoted("b"), Quoted("z"), List(<<Quoted("a"), Quoted("b")>>)}
Lookups ==
  {Call("get-in", <<l, p>>) : l \in Alists, p \in Paths}
  \cup {Call("get-in", <<l, p, Number(9)>>) : l \in Alists, p \in Paths}
  \cup {Call("assoc-in", <<l, p, Number(9)>>) : l \in Alists, p \in Paths}
  \cup {Call("dissoc-in", <<l, p>>) : l \in Alists, p \in Paths}
  \cup {Call("merge", <<k, l>>) : k \in Alists, l \in Alists}
  \cup {Call("keys", <<l>>) : l \in Alists}
  \cup {Call("nth", <<Call("list", <<X, Number(7), Y>>), Number(k)>>) : k \in {-1, 0, 1}}

-----------------------------------------------------------------------------
(* The other forms, alone and in one another.                               *)
Forms ==
  {Call("cond", <<List(<<Call(">", <<X, Number(4)>>), Say(Y)>>), List(<<Atom("true"), X>>)>>),
   Call("cond", <<List(<<Call("<", <<X, Y>>), Say(Y)>>)>>),
   Call("match", <<X, List(<<Number(5), Say(One)>>), List(<<Y, Number(2)>>), Number(8)>>),
   Call("and", <<X, Say(Y), Atom("nil"), Say(X)>>), Call("or", <<Atom("nil"), Say(Y), Say(X)>>), Call("or", <<>>),
   Call("<", <<One, Say(X), Y, Say(Number(9))>>), Call("<", <<Y, X, Number(9)>>), Call("~", <<X>>),
   Call("->", <<X, Call("+", <<Y>>), Call("-", <<One>>), Atom("list")>>),
   Call("*", <<X, Number(2), Y>>), Call("-", <<X>>), Call("++", <<Call("--", <<X>>)>>),
   List(<<One, X, List(<<Quoted("a"), Y>>)>>), Call("quote", <<List(<<X, One>>)>>), Call("len", <<Call("list", <<X, Y>>)>>),
   Do(<<Def("z", Say(X)), Def("w", Call("+", <<Atom("z"), Y>>)), Call("list", <<Atom("w"), Atom("w")>>)>>)}

(* Functions: captures, any number of arguments, as arguments, recursion.   *)
Functions1 ==
  {<<Def("k", Say(Number(4))), Def("f", Fn(<<"x">>, Call("*", <<X, Atom("k")>>))), Call("f", <<Call("f", <<Number(2)>>)>>)>>,
   <<Def("f", Fn(<<"x">>, Fn(<<"y">>, Call("+", <<X, Y>>)))), List(<<Call("f", <<Number(2)>>), Number(3)>>)>>,
   <<Def("f", Fn(<<"x", "*xs">>, Call("list", <<X, Atom("xs")>>))), Call("f", <<One>>)>>,
   <<Def("f", Fn(<<"x", "*xs">>, Call("list", <<X, Atom("xs")>>))), Call("f", <<One, Say(Number(2)), Number(3)>>)>>,
   <<Def("f", Fn(<<"g", "x">>, Call("g", <<Call("g", <<X>>)>>))), Def("k", One),
     Call("f", <<Fn(<<"y">>, Call("+", <<Y, Atom("k")>>)), Number(3)>>)>>,
   <<Def("f", Fn(<<"x">>, If(Call("<", <<X, One>>), Number(0), Call("+", <<X, Call("recur", <<Call("--", <<X>>)>>)>>)))),
     Call("f", <<Number(3)>>)>>,
   <<Def("f", Fn(<<"x">>, Do(<<Def("g", Fn(<<"y">>, If(Call("<", <<Y, One>>), X, Call("g", <<Call("--", <<Y>>)>>)))),
                               Call("g", <<Number(2)>>)>>))), Call("f", <<Number(6)>>)>>,
   <<Def("f", Fn(<<"x">>, Call("+", <<X, X>>))), Atom("f")>>}

Samples ==
  InBoth(Operations \cup Branching(Call("--", <<Atom("a")>>)) \cup Lookups \cup Forms)
  \cup {Once(b) : b \in Branching(Call("-", <<Atom("a"), X>>))} \cup Functions1
=============================================================================
