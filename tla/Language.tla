------------------------------ MODULE Language ------------------------------
(***************************************************************************)
(* What a program means, from its text alone and with nothing of how it is *)
(* compiled: the reference that the compiler is held against. A name       *)
(* stands for an expression of its scope and is evaluated when it is       *)
(* needed, as the language says of itself.                                 *)
(*                                                                         *)
(* A scope is a sequence of frames: the definitions of a block, the        *)
(* arguments of a call. An answer has a value and the effects it took.     *)
(***************************************************************************)
EXTENDS Optimizer

Gives(v) == [v |-> v, fx |-> {}]
After(fx, answer) == [answer EXCEPT !.fx = @ \cup fx]

(* Values that are functions are not compared.                              *)
IsFunction(v) == v[1] = "function"

RECURSIVE Definitions(_)
Definitions(items) ==
  IF items = <<>> THEN <<>>
  ELSE LET form == items[1]
           named(name) == IsList(form) /\ form # Nil /\ form[2][1] = Atom(name)
       IN CASE named("def") -> form[2][2][2] :> form[2][3] @@ Definitions(Tail(items))
            [] named("do") -> Definitions(Tail(form[2]) \o Tail(items))
            [] OTHER -> Definitions(Tail(items))

BlockFrame(items) == [kind |-> "block", names |-> Definitions(items), at |-> <<>>]
CallFrame(names, scope) == [kind |-> "call", names |-> names, at |-> scope]
ValueFrame(names) == [kind |-> "value", names |-> names, at |-> <<>>]

RECURSIVE Evaluate(_, _), EvaluateAll(_, _), Lookup(_, _), CallFunction(_, _, _)
RECURSIVE Compared(_, _, _), Clauses(_, _), Matched(_, _, _)

Lookup(scope, name) ==
  IF scope = <<>> THEN IF name \in DOMAIN Symbols THEN Gives(Symbols[name]) ELSE Gives(Error)
  ELSE LET frame == Last(scope)
       IN IF name \notin DOMAIN frame.names THEN Lookup(Front(scope), name)
          ELSE CASE frame.kind = "block" -> Evaluate(scope, frame.names[name])
                 [] frame.kind = "call" -> Evaluate(frame.at, frame.names[name])
                 [] frame.kind = "value" -> frame.names[name]

(* What several expressions give together: a list, or Error.                *)
Together(answers) ==
  [v |-> IF \E k \in DOMAIN answers : answers[k].v = Error THEN Error
         ELSE List([k \in DOMAIN answers |-> answers[k].v]),
   fx |-> UNION {answers[k].fx : k \in DOMAIN answers}]
EvaluateAll(scope, items) == Together([k \in DOMAIN items |-> Evaluate(scope, items[k])])

Operation(op, all) == IF all.v = Error THEN all ELSE [all EXCEPT !.v = OpcodeNative(op, @[2])]
NativeCall(name, all) ==
  IF all.v = Error THEN all
  ELSE [v |-> Native(name, all.v[2]),
        fx |-> all.fx \cup (IF name \in Impure THEN {<<name, all.v[2]>>} ELSE {})]

(* A function has its parameters, its body and the scope of its lambda.     *)
Function(parameters, body, scope) == <<"function", [names |-> parameters, body |-> body, at |-> scope]>>

CallFunction(f, scope, args) ==
  LET lambda == f[2]
      names == [k \in DOMAIN lambda.names |-> lambda.names[k][2]]
      variadic == names # <<>> /\ Last(names) \in DOMAIN VariadicNames
      fixed == IF variadic THEN Len(names) - 1 ELSE Len(names)
      given == [name \in {names[k] : k \in 1 .. fixed} |-> args[CHOOSE k \in 1 .. fixed : names[k] = name]]
      rest == EvaluateAll(scope, SubSeq(args, fixed + 1, Len(args)))
      restFrame == IF variadic THEN <<ValueFrame(VariadicNames[Last(names)] :> rest @@ Last(names) :> rest)>> ELSE <<>>
      inner == lambda.at \o <<ValueFrame("recur" :> Gives(f)), CallFrame(given, scope)>> \o restFrame
  IN IF (variadic /\ Len(args) < fixed) \/ (~variadic /\ Len(args) # fixed) THEN Gives(Error)
     ELSE Evaluate(inner \o <<BlockFrame(lambda.body)>>, Last(lambda.body))

(* A chain of comparisons ends at the first that does not hold.             *)
Compared(op, left, right) ==
  LET here == Operation(op, Together(<<left, right[1]>>))
  IN IF Len(right) = 1 \/ ~IsTruthy(here.v) \/ here.v = Error THEN here
     ELSE After(here.fx, Compared(op, right[1], Tail(right)))

Choose(condition, then, else) ==
  IF condition.v = Error THEN condition
  ELSE After(condition.fx, IF IsTruthy(condition.v) THEN then ELSE else)

Clauses(scope, clauses) ==
  IF clauses = <<>> THEN Gives(Nil)
  ELSE Choose(Evaluate(scope, clauses[1][2][1]), Evaluate(scope, clauses[1][2][2]), Clauses(scope, Tail(clauses)))

Matched(scope, target, clauses) ==
  IF Len(clauses) = 1 THEN Evaluate(scope, clauses[1])
  ELSE Choose(Operation("==", Together(<<target, Evaluate(scope, clauses[1][2][1])>>)),
              Evaluate(scope, clauses[1][2][2]), Matched(scope, target, Tail(clauses)))

EvaluateForm(scope, name, items) ==
  LET value(k) == Evaluate(scope, items[k])
      all == EvaluateAll(scope, items)
      unit == Gives(Number(IF name = "-" THEN 0 ELSE 1))
  IN CASE name = "quote" -> Gives(items[1])
       [] name = "do" -> IF items = <<>> THEN Gives(Nil) ELSE Evaluate(Append(scope, BlockFrame(items)), Last(items))
       [] name = "def" -> value(2)
       [] name = "lambda" -> Gives(Function(items[1][2], Tail(items), scope))
       [] name = "->" -> Evaluate(scope, Threaded(items[1], Tail(items)))
       [] name = "if" -> Choose(value(1), value(2), IF Len(items) = 3 THEN value(3) ELSE Gives(Nil))
       [] name = "cond" -> Clauses(scope, items)
       [] name = "match" -> Matched(scope, value(1), Tail(items))
       [] name = "and" /\ items = <<>> -> Gives(Nil)
       [] name = "or" /\ items = <<>> -> Gives(Nil)
       [] name \in {"and", "or"} /\ Len(items) = 1 -> value(1)
       [] name = "and" /\ Len(items) > 1 ->
            Choose(value(1), Evaluate(scope, List(<<Atom(name)>> \o Tail(items))), value(1))
       [] name = "or" /\ Len(items) > 1 ->
            Choose(value(1), value(1), Evaluate(scope, List(<<Atom(name)>> \o Tail(items))))
       [] name = "not" -> Choose(value(1), Gives(Nil), Gives(True))
       [] name = "++" -> Operation("+", Together(<<value(1), Gives(Number(1))>>))
       [] name = "--" -> Operation("-", Together(<<value(1), Gives(Number(1))>>))
       [] name = "recur" -> CallFunction(Lookup(scope, "recur").v, scope, items)
       [] name = "list" -> all
       [] name = "~" -> Operation("~", all)
       [] name \in {"-", "/"} /\ Len(items) = 1 -> Operation(name, Together(<<unit, value(1)>>))
       [] name \in Variadics /\ Len(items) = 1 -> value(1)
       [] name \in Variadics /\ Len(items) = 2 -> Operation(name, all)
       [] name \in Variadics /\ Len(items) > 2 ->
            Evaluate(scope, List(<<Atom(name), List(<<Atom(name), items[1], items[2]>>)>> \o SubSeq(items, 3, Len(items))))
       [] name \in Comparisons -> Compared(name, value(1), [k \in DOMAIN Tail(items) |-> value(k + 1)])

Evaluate(scope, form) ==
  CASE IsNumber(form) \/ form = Nil -> Gives(form)
    [] form[1] = "quoted" -> Gives(Atom(form[2]))
    [] IsAtom(form) -> IF form[2] \in Natives \/ IsIntrinsic(form[2]) THEN Gives(form) ELSE Lookup(scope, form[2])
    [] OTHER ->
         LET head == form[2][1]
             items == Tail(form[2])
             callee == Evaluate(scope, head)
         IN CASE IsData(head) -> EvaluateAll(scope, form[2])
              [] IsAtom(head) /\ IsIntrinsic(head[2]) -> EvaluateForm(scope, head[2], items)
              [] IsFunction(callee.v) -> After(callee.fx, CallFunction(callee.v, scope, items))
              [] IsNative(callee.v) -> After(callee.fx, NativeCall(callee.v[2], EvaluateAll(scope, items)))
              [] OTHER -> Gives(Error)

MeaningOf(program) == Evaluate(<<BlockFrame(program)>>, Last(program))
=============================================================================
