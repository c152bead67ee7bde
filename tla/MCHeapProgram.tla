--------------------------- MODULE MCHeapProgram ---------------------------
EXTENDS HeapProgram, TLC

List(a, n) == [op |-> "list", a |-> a, n |-> n]
Lambda(a, fn, captures) == [op |-> "closure", a |-> a, fn |-> fn, captures |-> captures]
Capture(a, k) == [op |-> "const", a |-> a, k |-> k]
Mov(a, c) == [op |-> "mov", a |-> a, c |-> c]
Car(a) == [op |-> "first", a |-> a]
Apply(a, n, c) == [op |-> "call", a |-> a, n |-> n, c |-> c]
TailApply(a, n, c) == [op |-> "tailcall", a |-> a, n |-> n, c |-> c]
RetOf(c) == [op |-> "ret", c |-> c]
MapAt(a) == [op |-> "map", a |-> a]
ReduceAt(a) == [op |-> "reduce", a |-> a, native |-> FALSE]
ReduceMap(a) == [op |-> "reduce", a |-> a, native |-> TRUE]
ForkOf(a, n, c) == [op |-> "fork", a |-> a, n |-> n, c |-> c]
JoinOf(a, c) == [op |-> "join", a |-> a, c |-> c]

(* mapping: (first (first (map (list (list) (list)) wrap))), whose callable *)
(* allocates and reaches checks.                                            *)
(* folding: reduce over functions that give a new value, the accumulator    *)
(* itself, or drop the accumulator and allocate. Without an initial value   *)
(* the first function becomes the accumulator of emptyFold.                 *)
(* pipeline: reduce by the native map, so that accumulators are in nobody's *)
(* register.                                                                *)
(* again: one function called again and again over the same registers.      *)
(* forking: two futures, of a closure with a capture, for a queue with room *)
(* for one. nested: the above on two threads at once.                       *)
mcCode ==
  "mapping" :> <<List(0, 0), List(1, 0), List(0, 2), Lambda(1, "wrap", <<>>), MapAt(0), Car(0), Car(0), RetOf(0)>>
  @@ "folding" :> <<Lambda(0, "fresh", <<>>), Lambda(1, "same", <<>>), Lambda(2, "drop", <<>>), List(0, 3),
                    List(1, 0), Lambda(2, "apply", <<>>), ReduceAt(0), RetOf(0)>>
  @@ "emptyFold" :> <<Lambda(0, "fresh", <<>>), Lambda(1, "drop", <<>>), List(0, 2),
                      List(1, 0), Car(1), Lambda(2, "apply", <<>>), ReduceAt(0), RetOf(0)>>
  @@ "pipeline" :> <<Lambda(0, "wrap", <<>>), Lambda(1, "drop", <<>>), List(0, 2),
                     List(1, 0), List(1, 1), ReduceMap(0), Car(0), RetOf(0)>>
  @@ "forking" :> <<List(0, 0), Lambda(0, "keeper", <<0>>), List(1, 0), ForkOf(1, 1, 0), List(2, 0), ForkOf(2, 1, 0),
                    JoinOf(1, 1), JoinOf(2, 2), List(0, 3), RetOf(0)>>
  @@ "nested" :> <<Lambda(0, "emptyFold", <<>>), ForkOf(1, 0, 0), Lambda(0, "mapping", <<>>), Apply(2, 0, 0),
                   JoinOf(1, 1), RetOf(1)>>
  @@ "again" :> <<Lambda(0, "leaf", <<>>), List(1, 0), Apply(1, 1, 0), List(1, 0), List(1, 0), List(1, 0), Car(1),
                  List(1, 0), Apply(1, 1, 0), RetOf(1)>>
  @@ "leaf" :> <<Car(0), List(1, 0), List(2, 0), List(2, 0), List(1, 2), RetOf(0)>>
  @@ "wrap" :> <<List(1, 0), List(0, 1), Car(1), List(1, 1), RetOf(0)>>
  @@ "fresh" :> <<List(0, 1), RetOf(0)>>
  @@ "same" :> <<RetOf(0)>>
  @@ "drop" :> <<List(0, 0), List(1, 1), Car(1), List(1, 0), Car(0), RetOf(1)>>
  @@ "keeper" :> <<List(0, 1), Car(0), Capture(1, 1), List(0, 2), RetOf(0)>>
  @@ "apply" :> <<Mov(2, 0), TailApply(2, 1, 1)>>

mcRegisters ==
  [fn \in DOMAIN mcCode |->
     IF fn = "same" THEN 0
     ELSE IF fn \in {"apply", "folding", "emptyFold", "forking", "nested", "leaf"} THEN 3 ELSE 2]
=============================================================================
