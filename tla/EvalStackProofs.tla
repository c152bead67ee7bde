-------------------------- MODULE EvalStackProofs --------------------------
(***************************************************************************)
(* Why a nested evaluation finds its frames and registers where it left    *)
(* them, for all functions, any number of frames and any depth of the C    *)
(* stack: proofs about EvalStack, until an error spills a task's frames    *)
(* onto those of a run that joins the task.                                *)
(*                                                                         *)
(* The argument: the runs on the C stack divide the frames among them in   *)
(* order (RunsInOrder, RunsOwnFrames), whatever lies between them on the   *)
(* stack; every handler remembers a number of frames that lies between     *)
(* those of the runs below and above it (TriesBetween), so that an unwound *)
(* stack meets the frames its runs own. Registers follow the frames        *)
(* (FramesStacked).                                                        *)
(***************************************************************************)
EXTENDS EvalStack, TLAPS

Ops == {"call", "tailcall", "join", "nested"}
Phases == {"start", "body", "caught", "handler"}
Runs == [kind : {"run"}, init : Nat]
Natives == [kind : {"native"}, op : Ops]
Tries == [kind : {"try"}, op : Ops, phase : Phases, frameCount : Nat, regCount : Nat]
Workers == [kind : {"worker"}, phase : Phases]
Functions == Runs \cup Natives \cup Tries \cup Workers
Frames == [fn : Fns, base : Nat, prevRegCount : Nat, run : Nat]

(* The types of both stacks.                                                *)
TypeOK ==
  /\ frames \in Seq(Frames)
  /\ regCount \in Nat
  /\ stack \in Seq(Functions)

IsRun(d) == stack[d].kind = "run"
IsTry(d) == stack[d].kind = "try"

(* Each run has a frame of its own, above those of the runs below it.       *)
RunsInOrder ==
  \A d \in DOMAIN stack : IsRun(d) =>
    /\ stack[d].init < Len(frames)
    /\ \A e \in DOMAIN stack : IsRun(e) /\ d < e => stack[d].init < stack[e].init

(* The frames between the beginning of a run and that of the next are the   *)
(* run's own. (Frames that an uncaught error has left behind are nobody's.) *)
RunsOwnFrames ==
  \A d \in DOMAIN stack : IsRun(d) =>
    \A i \in DOMAIN frames :
      /\ stack[d].init < i
      /\ \A e \in DOMAIN stack : IsRun(e) /\ d < e => i <= stack[e].init
      => frames[i].run = d

(* A handler's frame count lies between the frames of the runs below and    *)
(* those of the runs above it, and its register count above the registers   *)
(* of the frames it would restore.                                          *)
TriesBetween ==
  \A i \in DOMAIN stack : IsTry(i) =>
    /\ stack[i].frameCount <= Len(frames)
    /\ \A d \in DOMAIN stack : IsRun(d) =>
         IF d < i THEN stack[d].init < stack[i].frameCount
                  ELSE stack[i].frameCount <= stack[d].init
    /\ \A j \in DOMAIN stack : IsTry(j) /\ i < j => stack[i].frameCount <= stack[j].frameCount
    /\ stack[i].frameCount > 0 =>
         LET top == frames[stack[i].frameCount]
         IN  top.base + Registers[top.fn] <= stack[i].regCount

(* A native function called by TAILCALL lies directly above its run.        *)
TailCallsOnRuns ==
  \A i \in DOMAIN stack :
    (stack[i].kind = "native" \/ IsTry(i)) /\ stack[i].op = "tailcall" => i > 1 /\ IsRun(i - 1)

(* Where the registers of a frame end.                                      *)
End(i) == frames[i].base + Registers[frames[i].fn]

(* Frames lie above each other, those of another run behind the end of the  *)
(* one below; popping a frame keeps the registers of the one below.         *)
FramesStacked ==
  /\ \A i, j \in DOMAIN frames : i <= j => frames[i].base <= frames[j].base
  /\ \A i \in DOMAIN frames :
       IF i = Len(frames)
       THEN End(i) <= regCount
       ELSE /\ End(i) <= frames[i + 1].prevRegCount
            /\ frames[i].run # frames[i + 1].run => End(i) <= frames[i + 1].base

(* The inductive invariant.                                                 *)
IndInv == /\ TypeOK /\ RunsInOrder /\ RunsOwnFrames /\ TriesBetween
          /\ TailCallsOnRuns /\ FramesStacked

-----------------------------------------------------------------------------
(* What the kind of a function on the C stack says of its fields.           *)
LEMMA Elements ==
  ASSUME NEW x \in Functions
  PROVE  /\ x.kind = "run" => x \in Runs /\ x.init \in Nat
         /\ x.kind = "native" => x \in Natives /\ x.op \in Ops
         /\ x.kind = "try" => /\ x \in Tries /\ x.op \in Ops /\ x.phase \in Phases
                              /\ x.frameCount \in Nat /\ x.regCount \in Nat
         /\ x.kind = "worker" => x \in Workers
         /\ x.kind \in {"run", "native", "try", "worker"}
BY DEF Functions, Runs, Natives, Tries, Workers

(* The types of the elements of both stacks.                                *)
LEMMA Types ==
  ASSUME TypeOK
  PROVE  /\ DOMAIN stack = 1 .. Len(stack) /\ Len(stack) \in Nat
         /\ \A d \in DOMAIN stack : stack[d] \in Functions
         /\ DOMAIN frames = 1 .. Len(frames) /\ Len(frames) \in Nat
         /\ \A i \in DOMAIN frames : /\ frames[i] \in Frames
                                     /\ frames[i].fn \in Fns
                                     /\ frames[i].base \in Nat
                                     /\ frames[i].prevRegCount \in Nat
                                     /\ frames[i].run \in Nat
                                     /\ Registers[frames[i].fn] \in Nat
         /\ stack # <<>> => Len(stack) \in DOMAIN stack /\ Top = stack[Len(stack)]
         /\ frames # <<>> => Len(frames) \in DOMAIN frames /\ Frame = frames[Len(frames)]
<1>1. /\ stack \in Seq(Functions) /\ frames \in Seq(Frames)
  BY DEF TypeOK
<1>2. \A f \in Frames : /\ f.fn \in Fns /\ f.base \in Nat /\ f.prevRegCount \in Nat /\ f.run \in Nat
                        /\ Registers[f.fn] \in Nat
  BY EvalAssumption DEF Frames
<1>3. \A i \in DOMAIN frames : frames[i] \in Frames
  BY <1>1
<1>4. /\ stack # <<>> => Len(stack) \in 1 .. Len(stack)
      /\ frames # <<>> => Len(frames) \in 1 .. Len(frames)
  BY <1>1
<1> QED
  BY <1>1, <1>2, <1>3, <1>4 DEF Top, Frame, Last

(* What the invariants say of an element does not depend on its phase.      *)
Same(x, y) ==
  /\ x.kind = y.kind
  /\ x.kind = "run" => x.init = y.init
  /\ x.kind = "native" => x.op = y.op
  /\ x.kind = "try" => x.op = y.op /\ x.frameCount = y.frameCount /\ x.regCount = y.regCount

(* The frames stay while functions above the n-th are left and called: no   *)
(* run is left, or none is below that could take the frames for its own.    *)
LEMMA FramesStay ==
  ASSUME IndInv, UNCHANGED frames, regCount' \in Nat, regCount <= regCount',
         stack' \in Seq(Functions),
         NEW n \in 0 .. Len(stack), n <= Len(stack'),
         \A i \in 1 .. n : Same(stack'[i], stack[i]),
         \/ \A i \in n + 1 .. Len(stack) : ~IsRun(i)
         \/ \A i \in 1 .. n : ~IsRun(i),
         \A i \in n + 1 .. Len(stack') :
           /\ stack'[i].kind # "run"
           /\ stack'[i].kind = "try" => /\ stack'[i].frameCount = Len(frames)
                                        /\ stack'[i].regCount = regCount
           /\ stack'[i].kind \in {"native", "try"} /\ stack'[i].op = "tailcall" =>
                i > 1 /\ stack'[i - 1].kind = "run"
  PROVE  IndInv'
<1>0. TypeOK /\ frames' = frames /\ regCount \in Nat /\ n \in Nat
  BY DEF IndInv, TypeOK
<1>1. TypeOK'
  BY <1>0 DEF TypeOK
<1>2. /\ DOMAIN stack = 1 .. Len(stack) /\ Len(stack) \in Nat
      /\ DOMAIN stack' = 1 .. Len(stack') /\ Len(stack') \in Nat
      /\ DOMAIN frames = 1 .. Len(frames) /\ Len(frames) \in Nat
  BY <1>0, <1>1, Types
<1>3. /\ \A i \in 1 .. n : i \in DOMAIN stack /\ i \in DOMAIN stack' /\ Same(stack'[i], stack[i])
      /\ \A i \in DOMAIN stack : i \in 1 .. n \/ i \in n + 1 .. Len(stack)
      /\ \A i \in DOMAIN stack' : i \in 1 .. n \/ i \in n + 1 .. Len(stack')
  BY <1>2
<1>4. \A d \in DOMAIN stack' : IsRun(d)' => d \in 1 .. n /\ d \in DOMAIN stack /\ IsRun(d) /\ stack'[d].init = stack[d].init
  BY <1>3 DEF IsRun, Same
<1>5. \/ \A d \in DOMAIN stack : IsRun(d) =>
           d \in 1 .. n /\ d \in DOMAIN stack' /\ IsRun(d)' /\ stack'[d].init = stack[d].init
      \/ \A d \in DOMAIN stack' : ~IsRun(d)'
  BY <1>3, <1>4 DEF IsRun, Same
<1>6. RunsInOrder'
  BY <1>0, <1>4 DEF IndInv, RunsInOrder
<1>7. RunsOwnFrames'
  <2>1. CASE \A d \in DOMAIN stack' : ~IsRun(d)'
    BY <2>1 DEF RunsOwnFrames
  <2>2. CASE \A d \in DOMAIN stack : IsRun(d) =>
               d \in 1 .. n /\ d \in DOMAIN stack' /\ IsRun(d)' /\ stack'[d].init = stack[d].init
    BY <1>0, <1>4, <2>2 DEF IndInv, RunsOwnFrames
  <2> QED
    BY <1>5, <2>1, <2>2
<1>8. \A i \in 1 .. n : IsTry(i)' => IsTry(i) /\ stack'[i].frameCount = stack[i].frameCount
                                             /\ stack'[i].regCount = stack[i].regCount
  BY <1>3 DEF IsTry, Same
<1>9. \A i \in n + 1 .. Len(stack') : IsTry(i)' => stack'[i].frameCount = Len(frames)
                                                   /\ stack'[i].regCount = regCount
  BY DEF IsTry
<1>10. ASSUME NEW i \in DOMAIN stack', IsTry(i)'
       PROVE  /\ stack'[i].frameCount <= Len(frames)
              /\ \A d \in DOMAIN stack' : IsRun(d)' =>
                   IF d < i THEN stack'[d].init < stack'[i].frameCount
                            ELSE stack'[i].frameCount <= stack'[d].init
              /\ \A j \in DOMAIN stack' : IsTry(j)' /\ i < j => stack'[i].frameCount <= stack'[j].frameCount
              /\ stack'[i].frameCount > 0 =>
                   LET top == frames[stack'[i].frameCount]
                   IN  top.base + Registers[top.fn] <= stack'[i].regCount
  <2>1. CASE i \in 1 .. n
    <3>1. /\ stack[i].frameCount <= Len(frames)
          /\ \A d \in DOMAIN stack : IsRun(d) =>
                   IF d < i THEN stack[d].init < stack[i].frameCount
                            ELSE stack[i].frameCount <= stack[d].init
          /\ \A j \in DOMAIN stack : IsTry(j) /\ i < j => stack[i].frameCount <= stack[j].frameCount
          /\ stack[i].frameCount > 0 =>
                   LET top == frames[stack[i].frameCount]
                   IN  top.base + Registers[top.fn] <= stack[i].regCount
          /\ stack'[i].frameCount = stack[i].frameCount /\ stack'[i].regCount = stack[i].regCount
      BY <1>3, <1>8, <1>10, <2>1 DEF IndInv, TriesBetween
    <3>2. \A j \in DOMAIN stack' : IsTry(j)' /\ i < j => stack'[i].frameCount <= stack'[j].frameCount
      BY <1>3, <1>8, <1>9, <3>1
    <3> QED
      BY <1>4, <3>1, <3>2
  <2>2. CASE i \in n + 1 .. Len(stack')
    <3>1. stack'[i].frameCount = Len(frames) /\ stack'[i].regCount = regCount
      BY <1>9, <1>10, <2>2
    <3>2. \A d \in DOMAIN stack' : IsRun(d)' => d < i /\ stack'[d].init < stack'[i].frameCount
      BY <1>0, <1>2, <1>4, <2>2, <3>1 DEF IndInv, RunsInOrder
    <3>3. \A j \in DOMAIN stack' : IsTry(j)' /\ i < j => stack'[i].frameCount <= stack'[j].frameCount
      BY <1>0, <1>2, <1>9, <2>2, <3>1
    <3>4. Len(frames) > 0 => /\ Len(frames) \in DOMAIN frames
                             /\ End(Len(frames)) <= regCount
      BY <1>2 DEF IndInv, FramesStacked
    <3> QED
      BY <1>2, <3>1, <3>2, <3>3, <3>4 DEF End
  <2> QED
    BY <1>3, <2>1, <2>2
<1>11. TriesBetween'
  BY <1>0, <1>10 DEF TriesBetween
<1>12. TailCallsOnRuns'
  <2> SUFFICES ASSUME NEW i \in DOMAIN stack', stack'[i].kind \in {"native", "try"}, stack'[i].op = "tailcall"
               PROVE  i > 1 /\ stack'[i - 1].kind = "run"
    BY DEF TailCallsOnRuns, IsRun, IsTry
  <2>1. CASE i \in 1 .. n
    <3>1. stack[i].kind \in {"native", "try"} /\ stack[i].op = "tailcall"
      BY <1>3, <2>1 DEF Same
    <3>2. i > 1 /\ stack[i - 1].kind = "run" /\ i - 1 \in 1 .. n
      BY <1>0, <1>3, <2>1, <3>1 DEF IndInv, TailCallsOnRuns, IsRun, IsTry
    <3> QED
      BY <1>3, <3>2 DEF Same
  <2>2. CASE i \in n + 1 .. Len(stack')
    BY <2>2
  <2> QED
    BY <1>3, <2>1, <2>2
<1>13. FramesStacked'
  <2>1. \A i \in DOMAIN frames : End(i) \in Nat /\ End(i)' = End(i)
    BY <1>0, Types DEF End
  <2> QED
    BY <1>0, <2>1 DEF IndInv, FramesStacked
<1> QED
  BY <1>1, <1>6, <1>7, <1>11, <1>12, <1>13 DEF IndInv

(* Functions are called and return that are not runs: the registers stay    *)
(* too.                                                                     *)
LEMMA NonRuns ==
  ASSUME IndInv, UNCHANGED <<frames, regCount>>,
         stack' \in Seq(Functions),
         NEW n \in 0 .. Len(stack), n <= Len(stack'),
         \A i \in 1 .. n : Same(stack'[i], stack[i]),
         \A i \in n + 1 .. Len(stack) : ~IsRun(i),
         \A i \in n + 1 .. Len(stack') :
           /\ stack'[i].kind # "run"
           /\ stack'[i].kind = "try" => /\ stack'[i].frameCount = Len(frames)
                                        /\ stack'[i].regCount = regCount
           /\ stack'[i].kind \in {"native", "try"} /\ stack'[i].op = "tailcall" =>
                i > 1 /\ stack'[i - 1].kind = "run"
  PROVE  IndInv'
<1>1. regCount \in Nat /\ regCount' \in Nat /\ regCount <= regCount' /\ frames' = frames
  BY DEF IndInv, TypeOK
<1> QED
  BY <1>1, FramesStay

(* The innermost run pops its last frame, and ends with its first one.      *)
LEMMA Pops ==
  ASSUME IndInv, NEW d \in DOMAIN stack, IsRun(d),
         \A e \in DOMAIN stack : IsRun(e) => e <= d,
         NEW below, below \in Seq(Functions), Len(below) = d,
         \A i \in 1 .. d : below[i] = stack[i],
         PopFrame(below)
  PROVE  IndInv'
<1> DEFINE F == Len(frames)
           m == Len(stack')
<1>0. TypeOK
  BY DEF IndInv
<1>1. /\ DOMAIN stack = 1 .. Len(stack) /\ Len(stack) \in Nat /\ d \in Nat /\ d >= 1
      /\ DOMAIN frames = 1 .. F /\ F \in Nat
      /\ stack[d] \in Functions /\ stack[d].init \in Nat
  BY <1>0, Types, Elements DEF IsRun
<1>2. stack[d].init < F
  BY DEF IndInv, RunsInOrder
<1>3. F \in DOMAIN frames /\ Frame = frames[F]
  BY <1>1, <1>2 DEF Frame, Last
<1>4. frames' = SubSeq(frames, 1, F - 1) /\ regCount' = frames[F].prevRegCount
  BY <1>3 DEF PopFrame, Front
<1>5. /\ frames' \in Seq(Frames) /\ Len(frames') = F - 1 /\ DOMAIN frames' = 1 .. F - 1
      /\ \A i \in 1 .. F - 1 : frames'[i] = frames[i] /\ i \in DOMAIN frames
  BY <1>0, <1>1, <1>2, <1>4 DEF TypeOK
<1>6. Last(below) = stack[d]
  BY <1>1 DEF Last
<1>7. /\ stack' \in Seq(Functions) /\ m \in Nat /\ DOMAIN stack' = 1 .. m
      /\ \A i \in 1 .. m : stack'[i] = stack[i] /\ i \in DOMAIN stack /\ i <= d
      /\ m = IF F - 1 = stack[d].init THEN d - 1 ELSE d
  <2>1. CASE F - 1 = stack[d].init
    <3>1. stack' = SubSeq(below, 1, d - 1)
      BY <1>6, <2>1 DEF PopFrame, Front
    <3> QED
      BY <1>1, <2>1, <3>1
  <2>2. CASE F - 1 # stack[d].init
    <3>1. stack' = below
      BY <1>6, <2>2 DEF PopFrame
    <3> QED
      BY <1>1, <2>2, <3>1
  <2> QED
    BY <2>1, <2>2
<1> HIDE DEF m
<1>8. TypeOK'
  BY <1>0, <1>3, <1>4, <1>5, <1>7, Types DEF TypeOK
<1>9. \A e \in DOMAIN stack' : IsRun(e)' => e \in DOMAIN stack /\ IsRun(e) /\ stack'[e].init = stack[e].init
  BY <1>7 DEF IsRun
<1>10. \A e \in DOMAIN stack' : IsRun(e)' => stack[e].init < F - 1 /\ stack[e].init \in Nat
  <2> SUFFICES ASSUME NEW e \in DOMAIN stack', IsRun(e)'
               PROVE  stack[e].init < F - 1 /\ stack[e].init \in Nat
    OBVIOUS
  <2>1. e \in DOMAIN stack /\ IsRun(e) /\ e <= d /\ e \in Nat /\ stack[e].init \in Nat
    BY <1>0, <1>1, <1>7, <1>9, Types, Elements DEF IsRun
  <2>2. CASE e < d
    <3>1. stack[e].init < stack[d].init
      BY <2>1, <2>2 DEF IndInv, RunsInOrder
    <3> QED
      BY <1>1, <1>2, <2>1, <3>1
  <2>3. CASE e = d
    <3>1. F - 1 # stack[d].init
      BY <1>1, <1>7, <2>3
    <3> QED
      BY <1>1, <1>2, <2>3, <3>1
  <2> QED
    BY <1>1, <2>1, <2>2, <2>3
<1>11. RunsInOrder'
  BY <1>5, <1>9, <1>10 DEF IndInv, RunsInOrder
<1>12. RunsOwnFrames'
  <2> SUFFICES ASSUME NEW e \in DOMAIN stack', IsRun(e)', NEW i \in DOMAIN frames', stack'[e].init < i,
                      \A c \in DOMAIN stack' : IsRun(c)' /\ e < c => i <= stack'[c].init
               PROVE  frames'[i].run = e
    BY DEF RunsOwnFrames
  <2>1. e \in DOMAIN stack /\ IsRun(e) /\ i \in DOMAIN frames /\ frames'[i] = frames[i] /\ stack[e].init < i
    BY <1>5, <1>9
  <2>2. ASSUME NEW c \in DOMAIN stack, IsRun(c), e < c PROVE i <= stack[c].init
    <3>1. CASE c \in DOMAIN stack'
      BY <1>7, <2>2, <3>1 DEF IsRun
    <3>2. CASE c \notin DOMAIN stack'
      <4>1. c = d /\ F - 1 = stack[d].init
        BY <1>1, <1>7, <2>2, <3>2
      <4> QED
        BY <1>1, <1>5, <4>1
    <3> QED
      BY <3>1, <3>2
  <2> QED
    BY <2>1, <2>2 DEF IndInv, RunsOwnFrames
<1>13. TriesBetween'
  <2> SUFFICES ASSUME NEW i \in DOMAIN stack', IsTry(i)'
               PROVE  /\ stack'[i].frameCount <= F - 1
                      /\ \A e \in DOMAIN stack' : IsRun(e)' =>
                           IF e < i THEN stack'[e].init < stack'[i].frameCount
                                    ELSE stack'[i].frameCount <= stack'[e].init
                      /\ \A j \in DOMAIN stack' : IsTry(j)' /\ i < j => stack'[i].frameCount <= stack'[j].frameCount
                      /\ stack'[i].frameCount > 0 =>
                           LET top == frames'[stack'[i].frameCount]
                           IN  top.base + Registers[top.fn] <= stack'[i].regCount
    BY <1>5 DEF TriesBetween
  <2>1. /\ i \in DOMAIN stack /\ IsTry(i) /\ stack'[i] = stack[i] /\ i < d
        /\ stack[i].frameCount \in Nat
    BY <1>0, <1>1, <1>7, Types, Elements DEF IsTry, IsRun
  <2>2. stack[i].frameCount <= stack[d].init
    BY <1>1, <2>1 DEF IndInv, TriesBetween
  <2>3. stack[i].frameCount <= F - 1
    BY <1>1, <1>2, <2>1, <2>2
  <2>4. stack[i].frameCount > 0 => frames'[stack[i].frameCount] = frames[stack[i].frameCount]
    BY <1>1, <1>5, <2>1, <2>3
  <2> QED
    BY <1>7, <1>9, <2>1, <2>3, <2>4 DEF IndInv, TriesBetween, IsTry
<1>14. TailCallsOnRuns'
  <2> SUFFICES ASSUME NEW i \in DOMAIN stack', stack'[i].kind \in {"native", "try"}, stack'[i].op = "tailcall"
               PROVE  i > 1 /\ stack'[i - 1].kind = "run"
    BY DEF TailCallsOnRuns, IsRun, IsTry
  <2>1. i > 1 /\ stack[i - 1].kind = "run" /\ i - 1 \in 1 .. m
    BY <1>7 DEF IndInv, TailCallsOnRuns, IsRun, IsTry
  <2> QED
    BY <1>7, <2>1
<1>15. FramesStacked'
  <2>1. \A i, j \in DOMAIN frames' : i <= j => frames'[i].base <= frames'[j].base
    BY <1>5 DEF IndInv, FramesStacked
  <2> SUFFICES ASSUME NEW i \in DOMAIN frames'
               PROVE  IF i = F - 1
                      THEN End(i)' <= regCount'
                      ELSE /\ End(i)' <= frames'[i + 1].prevRegCount
                           /\ frames'[i].run # frames'[i + 1].run => End(i)' <= frames'[i + 1].base
    BY <1>5, <2>1 DEF FramesStacked
  <2>2. i \in DOMAIN frames /\ i \in 1 .. F - 1 /\ i # F /\ frames'[i] = frames[i]
    BY <1>1, <1>2, <1>5
  <2>3. End(i)' = End(i)
    BY <2>2 DEF End
  <2>4. /\ End(i) <= frames[i + 1].prevRegCount
        /\ frames[i].run # frames[i + 1].run => End(i) <= frames[i + 1].base
    BY <2>2 DEF IndInv, FramesStacked
  <2>5. CASE i = F - 1
    <3>1. i + 1 = F
      BY <1>1, <2>5
    <3> QED
      BY <1>4, <2>3, <2>4, <2>5, <3>1
  <2>6. CASE i # F - 1
    <3>1. frames'[i + 1] = frames[i + 1]
      BY <1>1, <1>5, <2>2, <2>6
    <3> QED
      BY <2>2, <2>3, <2>4, <2>6, <3>1
  <2> QED
    BY <2>5, <2>6
<1> QED
  BY <1>8, <1>11, <1>12, <1>13, <1>14, <1>15 DEF IndInv

(* Nothing is on the stacks of a thread that has not evaluated anything.    *)
LEMMA InitInv == Init => IndInv
BY DEF Init, IndInv, TypeOK, RunsInOrder, RunsOwnFrames, TriesBetween, TailCallsOnRuns, FramesStacked, IsRun, IsTry

(* The stack without its innermost function.                                *)
LEMMA Fronts ==
  ASSUME TypeOK, stack # <<>>
  PROVE  /\ Front(stack) \in Seq(Functions)
         /\ Len(Front(stack)) = Len(stack) - 1
         /\ \A i \in 1 .. Len(stack) - 1 : Front(stack)[i] = stack[i]
         /\ Len(stack) \in Nat /\ Len(stack) > 0
<1>1. stack \in Seq(Functions) /\ Len(stack) \in Nat /\ Len(stack) > 0
  BY DEF TypeOK
<1>2. Front(stack) = SubSeq(stack, 1, Len(stack) - 1)
  BY DEF Front
<1>3. SubSeq(stack, 1, Len(stack) - 1) \in Seq(Functions)
  BY <1>1
<1>4. Len(SubSeq(stack, 1, Len(stack) - 1)) = Len(stack) - 1
  <2>1. \A k \in 0 .. Len(stack) : Len(SubSeq(stack, 1, k)) = k
    BY <1>1
  <2>2. Len(stack) - 1 \in 0 .. Len(stack)
    BY <1>1
  <2> QED
    BY <2>1, <2>2, Zenon
<1>5. \A i \in 1 .. Len(stack) - 1 : SubSeq(stack, 1, Len(stack) - 1)[i] = stack[i]
  BY <1>1
<1> QED
  BY <1>1, <1>2, <1>3, <1>4, <1>5

(* What reduct_eval_call leaves of the function that calls it.              *)
LEMMA CalledIsSame ==
  ASSUME TypeOK, CanCall
  PROVE  stack # <<>> /\ Called \in Functions /\ Same(Called, Top)
<1>1. stack # <<>> /\ Top \in Functions /\ Top.kind \in {"native", "try", "worker"}
  BY Types DEF CanCall, TopIs
<1>2. CASE Top.kind = "native"
  BY <1>1, <1>2 DEF Called, Same
<1>3. CASE Top.kind = "worker"
  BY <1>1, <1>3 DEF Called, Same, Worker, Functions, Workers, Phases
<1>4. CASE Top.kind = "try"
  <2>1. Called = [Top EXCEPT !.phase = IF @ = "start" THEN "body" ELSE "handler"]
    BY <1>4 DEF Called
  <2>2. Top \in Tries
    BY <1>1, <1>4, Elements
  <2> QED
    BY <1>1, <1>4, <2>1, <2>2 DEF Same, Functions, Tries, Phases
<1> QED
  BY <1>1, <1>2, <1>3, <1>4

(* An instruction, or a wait in a join, calls a function that is no run.    *)
LEMMA Enters ==
  ASSUME IndInv, UNCHANGED <<frames, regCount>>, NEW x \in Functions, stack' = Append(stack, x),
         x.kind # "run",
         x.kind = "try" => x.frameCount = Len(frames) /\ x.regCount = regCount,
         x.kind \in {"native", "try"} /\ x.op = "tailcall" => TopIs("run")
  PROVE  IndInv'
<1>1. TypeOK /\ stack \in Seq(Functions) /\ Len(stack) \in Nat
  BY DEF IndInv, TypeOK
<1>2. /\ stack' \in Seq(Functions) /\ Len(stack') = Len(stack) + 1
      /\ \A i \in 1 .. Len(stack) : stack'[i] = stack[i]
      /\ stack'[Len(stack) + 1] = x
  BY <1>1
<1>3. TopIs("run") => Len(stack) + 1 > 1 /\ stack'[Len(stack) + 1 - 1].kind = "run"
  BY <1>1, <1>2, Types DEF TopIs
<1>4. \A i \in 1 .. Len(stack) : Same(stack'[i], stack[i])
  BY <1>2 DEF Same
<1>5. \A i \in Len(stack) + 1 .. Len(stack') : i = Len(stack) + 1
  BY <1>1, <1>2
<1>6. Len(stack) \in 0 .. Len(stack) /\ Len(stack) <= Len(stack') /\ Len(stack) + 1 .. Len(stack) = {}
  BY <1>1, <1>2
<1> QED
  BY <1>2, <1>3, <1>4, <1>5, <1>6, NonRuns

(* A function that is no run returns.                                       *)
LEMMA Leaves ==
  ASSUME IndInv, UNCHANGED <<frames, regCount>>, stack # <<>>, Top.kind # "run", stack' = Front(stack)
  PROVE  IndInv'
<1>1. TypeOK
  BY DEF IndInv
<1>2. /\ stack' \in Seq(Functions) /\ Len(stack') = Len(stack) - 1
      /\ \A i \in 1 .. Len(stack) - 1 : stack'[i] = stack[i]
      /\ Len(stack) \in Nat /\ Len(stack) > 0
  BY <1>1, Fronts
<1>3. \A i \in 1 .. Len(stack) - 1 : Same(stack'[i], stack[i])
  BY <1>2 DEF Same
<1>4. \A i \in Len(stack) - 1 + 1 .. Len(stack) : ~IsRun(i)
  BY <1>1, <1>2, Types DEF IsRun
<1>5. Len(stack) - 1 \in 0 .. Len(stack) /\ Len(stack) - 1 + 1 .. Len(stack') = {}
  BY <1>2
<1> QED
  BY <1>2, <1>3, <1>4, <1>5, NonRuns

(* The innermost function, no run, goes on as another of its kind and may   *)
(* have called one.                                                         *)
LEMMA GoesOn ==
  ASSUME IndInv, UNCHANGED <<frames, regCount>>, stack # <<>>, Top.kind # "run",
         NEW x \in Functions, Same(x, Top),
         \/ stack' = Front(stack) \o <<x>>
         \/ \E y \in Functions :
              /\ stack' = Front(stack) \o <<x, y>>
              /\ y.kind # "run"
              /\ y.kind = "try" => y.frameCount = Len(frames) /\ y.regCount = regCount
              /\ y.kind \in {"native", "try"} => y.op # "tailcall"
  PROVE  IndInv'
<1>1. TypeOK
  BY DEF IndInv
<1>2. /\ Front(stack) \in Seq(Functions) /\ Len(Front(stack)) = Len(stack) - 1
      /\ \A i \in 1 .. Len(stack) - 1 : Front(stack)[i] = stack[i]
      /\ Len(stack) \in Nat /\ Len(stack) > 0 /\ Top = stack[Len(stack)]
  BY <1>1, Fronts, Types
<1>4. CASE stack' = Front(stack) \o <<x>>
  <2>1. /\ stack' \in Seq(Functions) /\ Len(stack') = Len(stack) /\ stack'[Len(stack)] = x
        /\ \A i \in 1 .. Len(stack) - 1 : stack'[i] = stack[i]
    BY <1>2, <1>4
  <2>2. \A i \in 1 .. Len(stack) : Same(stack'[i], stack[i])
    <3>1. \A i \in 1 .. Len(stack) : i \in 1 .. Len(stack) - 1 \/ i = Len(stack)
      BY <1>2
    <3>2. \A i \in 1 .. Len(stack) - 1 : Same(stack'[i], stack[i])
      BY <2>1 DEF Same
    <3> QED
      BY <1>2, <2>1, <3>1, <3>2
  <2>3. /\ Len(stack) \in 0 .. Len(stack) /\ Len(stack) <= Len(stack')
        /\ Len(stack) + 1 .. Len(stack) = {} /\ Len(stack) + 1 .. Len(stack') = {}
    BY <1>2, <2>1
  <2> QED
    BY <2>1, <2>2, <2>3, NonRuns
<1>5. ASSUME NEW y \in Functions,
             stack' = Front(stack) \o <<x, y>>,
             y.kind # "run",
             y.kind = "try" => y.frameCount = Len(frames) /\ y.regCount = regCount,
             y.kind \in {"native", "try"} => y.op # "tailcall"
      PROVE IndInv'
  <2>1. /\ stack' \in Seq(Functions) /\ Len(stack') = Len(stack) + 1
        /\ stack'[Len(stack)] = x /\ stack'[Len(stack) + 1] = y
        /\ \A i \in 1 .. Len(stack) - 1 : stack'[i] = stack[i]
    <3>1. /\ <<x, y>> \in Seq(Functions) /\ Len(<<x, y>>) = 2
          /\ <<x, y>>[1] = x /\ <<x, y>>[2] = y
      OBVIOUS
    <3>2. stack' \in Seq(Functions) /\ Len(stack') = Len(stack) + 1
      BY <1>2, <1>5, <3>1
    <3>3. \A i \in 1 .. Len(stack) - 1 : stack'[i] = stack[i]
      BY <1>2, <1>5, <3>1
    <3>4. \A i \in {1, 2} : stack'[Len(Front(stack)) + i] = <<x, y>>[i]
      BY <1>2, <1>5, <3>1
    <3>5. Len(Front(stack)) + 1 = Len(stack) /\ Len(Front(stack)) + 2 = Len(stack) + 1
      BY <1>2
    <3> QED
      BY <3>1, <3>2, <3>3, <3>4, <3>5
  <2>2. \A i \in 1 .. Len(stack) : Same(stack'[i], stack[i])
    <3>1. \A i \in 1 .. Len(stack) : i \in 1 .. Len(stack) - 1 \/ i = Len(stack)
      BY <1>2
    <3>2. \A i \in 1 .. Len(stack) - 1 : Same(stack'[i], stack[i])
      BY <2>1 DEF Same
    <3> QED
      BY <1>2, <2>1, <3>1, <3>2
  <2>3. \A i \in Len(stack) + 1 .. Len(stack') :
          /\ stack'[i].kind # "run"
          /\ stack'[i].kind = "try" => /\ stack'[i].frameCount = Len(frames)
                                       /\ stack'[i].regCount = regCount
          /\ ~(stack'[i].kind \in {"native", "try"} /\ stack'[i].op = "tailcall")
    <3>1. \A i \in Len(stack) + 1 .. Len(stack') : stack'[i] = y
      BY <1>2, <2>1
    <3> QED
      BY <1>5, <3>1
  <2>4. Len(stack) \in 0 .. Len(stack) /\ Len(stack) <= Len(stack')
    BY <1>2, <2>1
  <2>5. \A i \in Len(stack) + 1 .. Len(stack) : ~IsRun(i)
    BY <1>2
  <2> QED
    BY <2>1, <2>2, <2>3, <2>4, <2>5, NonRuns
<1> QED
  BY <1>4, <1>5

(* A frame is pushed for the run that is then innermost: one that ran       *)
(* already, or one that begins with this frame.                             *)
LEMMA Pushes ==
  ASSUME IndInv, NEW fn \in Fns, NEW target \in Nat, NEW count \in Nat, NEW depth \in Nat,
         PushFrame(fn, target, count, depth),
         stack' \in Seq(Functions), depth \in DOMAIN stack', Len(stack') <= depth,
         stack'[depth].kind = "run",
         Len(stack) <= depth, depth <= Len(stack) + 1,
         Len(stack) < depth => stack'[depth] = Run(Len(frames)),
         \A i \in 1 .. Len(stack) : Same(stack'[i], stack[i]),
         frames # <<>> => /\ frames[Len(frames)].base <= target
                          /\ End(Len(frames)) <= count
                          /\ frames[Len(frames)].run # depth => End(Len(frames)) <= target
  PROVE  IndInv'
<1> DEFINE F == Len(frames)
           f == [fn |-> fn, base |-> target, prevRegCount |-> count, run |-> depth]
<1>0. TypeOK
  BY DEF IndInv
<1>1. /\ DOMAIN stack = 1 .. Len(stack) /\ Len(stack) \in Nat
      /\ DOMAIN stack' = 1 .. depth /\ depth \in Nat
      /\ DOMAIN frames = 1 .. F /\ F \in Nat
      /\ Len(stack) <= depth
      /\ Registers[fn] \in Nat
  BY <1>0, Types, EvalAssumption
<1>2. f \in Frames
  BY <1>1 DEF Frames
<1>3. /\ frames' \in Seq(Frames) /\ Len(frames') = F + 1 /\ DOMAIN frames' = 1 .. F + 1
      /\ \A i \in 1 .. F : frames'[i] = frames[i] /\ i \in DOMAIN frames
      /\ frames'[F + 1] = f
      /\ regCount' = target + Registers[fn]
  <2>1. frames' = Append(frames, f) /\ regCount' = target + Registers[fn]
    BY DEF PushFrame
  <2> QED
    BY <1>0, <1>1, <1>2, <2>1 DEF TypeOK
<1>4. f.fn = fn /\ f.base = target /\ f.prevRegCount = count /\ f.run = depth
  OBVIOUS
<1> HIDE DEF f
<1>5. TypeOK'
  BY <1>1, <1>3 DEF TypeOK
<1>6. \A e \in DOMAIN stack' :
        \/ e \in DOMAIN stack /\ Same(stack'[e], stack[e])
        \/ e = depth /\ Len(stack) < depth /\ stack'[e].init = F
  BY <1>1 DEF Run
<1>7. \A e \in DOMAIN stack' : IsRun(e)' =>
        \/ /\ e \in DOMAIN stack /\ IsRun(e)
           /\ stack'[e].init = stack[e].init /\ stack[e].init < F /\ stack[e].init \in Nat
        \/ e = depth /\ Len(stack) < depth /\ stack'[e].init = F
  <2>1. \A e \in DOMAIN stack : IsRun(e) => stack[e].init < F /\ stack[e].init \in Nat
    BY <1>0, Types, Elements DEF IndInv, RunsInOrder, IsRun
  <2> QED
    BY <1>6, <2>1 DEF IsRun, Same
<1>8. \A e \in DOMAIN stack : e \in DOMAIN stack' /\ (IsRun(e) => IsRun(e)')
  BY <1>1 DEF IsRun, Same
<1>9. RunsInOrder'
  <2> SUFFICES ASSUME NEW d \in DOMAIN stack', IsRun(d)'
               PROVE  /\ stack'[d].init < F + 1
                      /\ \A e \in DOMAIN stack' : IsRun(e)' /\ d < e => stack'[d].init < stack'[e].init
    BY <1>3 DEF RunsInOrder
  <2>1. stack'[d].init < F + 1
    BY <1>1, <1>7
  <2>2. ASSUME NEW e \in DOMAIN stack', IsRun(e)', d < e
        PROVE  stack'[d].init < stack'[e].init
    <3>1. d \in DOMAIN stack /\ IsRun(d) /\ stack'[d].init = stack[d].init /\ stack[d].init < F
      BY <1>1, <1>7, <2>2
    <3> QED
      BY <1>7, <2>2, <3>1 DEF IndInv, RunsInOrder
  <2> QED
    BY <2>1, <2>2
<1>10. RunsOwnFrames'
  <2> SUFFICES ASSUME NEW d \in DOMAIN stack', IsRun(d)', NEW i \in DOMAIN frames', stack'[d].init < i,
                      \A e \in DOMAIN stack' : IsRun(e)' /\ d < e => i <= stack'[e].init
               PROVE  frames'[i].run = d
    BY DEF RunsOwnFrames
  <2>1. CASE i = F + 1
    <3>1. depth \in DOMAIN stack' /\ IsRun(depth)'
      BY DEF IsRun
    <3>2. stack'[depth].init <= F /\ stack'[depth].init \in Nat
      BY <1>1, <1>7, <3>1
    <3>3. d = depth
      BY <1>1, <2>1, <3>1, <3>2
    <3> QED
      BY <1>3, <1>4, <2>1, <3>3
  <2>2. CASE i # F + 1
    <3>1. i \in 1 .. F /\ frames'[i] = frames[i] /\ i \in DOMAIN frames
      BY <1>1, <1>3, <2>2
    <3>2. d \in DOMAIN stack /\ IsRun(d) /\ stack[d].init < i
      BY <1>1, <1>7, <3>1
    <3>3. \A e \in DOMAIN stack : IsRun(e) /\ d < e => i <= stack[e].init
      BY <1>1, <1>7, <1>8
    <3> QED
      BY <3>1, <3>2, <3>3 DEF IndInv, RunsOwnFrames
  <2> QED
    BY <2>1, <2>2
<1>11. TriesBetween'
  <2> SUFFICES ASSUME NEW i \in DOMAIN stack', IsTry(i)'
               PROVE  /\ stack'[i].frameCount <= F + 1
                      /\ \A d \in DOMAIN stack' : IsRun(d)' =>
                           IF d < i THEN stack'[d].init < stack'[i].frameCount
                                    ELSE stack'[i].frameCount <= stack'[d].init
                      /\ \A j \in DOMAIN stack' : IsTry(j)' /\ i < j => stack'[i].frameCount <= stack'[j].frameCount
                      /\ stack'[i].frameCount > 0 =>
                           LET top == frames'[stack'[i].frameCount]
                           IN  top.base + Registers[top.fn] <= stack'[i].regCount
    BY <1>3 DEF TriesBetween
  <2>1. \A j \in DOMAIN stack' : IsTry(j)' =>
          /\ j \in DOMAIN stack /\ IsTry(j)
          /\ stack'[j].frameCount = stack[j].frameCount /\ stack'[j].regCount = stack[j].regCount
    BY <1>6 DEF IsTry, IsRun, Same
  <2>2. i \in DOMAIN stack /\ IsTry(i) /\ stack[i].frameCount \in Nat /\ stack[i].frameCount <= F
    BY <1>0, <2>1, Types, Elements DEF IsTry, IndInv, TriesBetween
  <2>3. stack[i].frameCount > 0 => frames'[stack[i].frameCount] = frames[stack[i].frameCount]
    BY <1>1, <1>3, <2>2
  <2>4. \A d \in DOMAIN stack' : IsRun(d)' =>
          IF d < i THEN stack'[d].init < stack'[i].frameCount
                   ELSE stack'[i].frameCount <= stack'[d].init
    <3> TAKE d \in DOMAIN stack'
    <3> HAVE IsRun(d)'
    <3>1. CASE d = depth /\ Len(stack) < depth /\ stack'[d].init = F
      BY <1>1, <2>1, <2>2, <3>1
    <3>2. CASE d \in DOMAIN stack /\ IsRun(d) /\ stack'[d].init = stack[d].init
      BY <2>1, <2>2, <3>2 DEF IndInv, TriesBetween
    <3> QED
      BY <1>7, <3>1, <3>2
  <2> QED
    BY <1>1, <2>1, <2>2, <2>3, <2>4 DEF IndInv, TriesBetween
<1>12. TailCallsOnRuns'
  <2> SUFFICES ASSUME NEW i \in DOMAIN stack', stack'[i].kind \in {"native", "try"}, stack'[i].op = "tailcall"
               PROVE  i > 1 /\ IsRun(i - 1)'
    BY DEF TailCallsOnRuns, IsTry
  <2>1. i \in DOMAIN stack /\ Same(stack'[i], stack[i])
    BY <1>6 DEF IsRun
  <2>2. i > 1 /\ IsRun(i - 1) /\ i - 1 \in DOMAIN stack
    BY <1>1, <2>1 DEF Same, IndInv, TailCallsOnRuns, IsTry
  <2> QED
    BY <1>8, <2>2
<1>13. FramesStacked'
  <2>1. ASSUME NEW i \in DOMAIN frames', NEW j \in DOMAIN frames', i <= j
        PROVE  frames'[i].base <= frames'[j].base
    <3>1. CASE j \in 1 .. F
      BY <1>1, <1>3, <2>1, <3>1 DEF IndInv, FramesStacked
    <3>2. CASE j = F + 1 /\ i \in 1 .. F
      <4>1. F \in DOMAIN frames /\ frames # <<>> /\ i <= F
        BY <1>1, <3>2
      <4>2. frames[i].base <= frames[F].base /\ frames[F].base <= target
        BY <1>1, <3>2, <4>1 DEF IndInv, FramesStacked
      <4>3. frames[i].base \in Nat /\ frames[F].base \in Nat
        BY <1>0, <1>1, <3>2, <4>1, Types
      <4> QED
        BY <1>3, <1>4, <3>2, <4>2, <4>3
    <3>3. CASE j = F + 1 /\ i = F + 1
      BY <1>3, <1>4, <3>3
    <3> QED
      BY <1>1, <1>3, <2>1, <3>1, <3>2, <3>3
  <2>2. ASSUME NEW i \in DOMAIN frames'
        PROVE  IF i = F + 1
               THEN End(i)' <= regCount'
               ELSE /\ End(i)' <= frames'[i + 1].prevRegCount
                    /\ frames'[i].run # frames'[i + 1].run => End(i)' <= frames'[i + 1].base
    <3>1. CASE i = F + 1
      BY <1>1, <1>3, <1>4, <3>1 DEF End
    <3>2. CASE i # F + 1
      <4>1. i \in 1 .. F /\ i \in DOMAIN frames /\ frames'[i] = frames[i] /\ End(i)' = End(i)
        BY <1>1, <1>3, <3>2 DEF End
      <4>2. CASE i = F
        <5>1. frames # <<>> /\ i + 1 = F + 1
          BY <1>1, <4>1, <4>2
        <5> QED
          BY <1>3, <1>4, <3>2, <4>1, <4>2, <5>1
      <4>3. CASE i # F
        <5>1. i + 1 \in 1 .. F /\ frames'[i + 1] = frames[i + 1]
          BY <1>1, <1>3, <4>1, <4>3
        <5>2. /\ End(i) <= frames[i + 1].prevRegCount
              /\ frames[i].run # frames[i + 1].run => End(i) <= frames[i + 1].base
          BY <4>1, <4>3 DEF IndInv, FramesStacked
        <5> QED
          BY <3>2, <4>1, <5>1, <5>2
      <4> QED
        BY <4>2, <4>3
    <3> QED
      BY <3>1, <3>2
  <2> QED
    BY <1>3, <2>1, <2>2 DEF FramesStacked
<1> QED
  BY <1>5, <1>9, <1>10, <1>11, <1>12, <1>13 DEF IndInv

(* The innermost run replaces the function of its last frame.               *)
LEMMA TailCalls ==
  ASSUME IndInv, NEW fn \in Fns, TailCall(fn)
  PROVE  IndInv'
<1> DEFINE F == Len(frames)
           D == Len(stack)
           f == [Frame EXCEPT !.fn = fn]
<1>0. TypeOK /\ stack' = stack
  BY DEF IndInv, TailCall
<1>1. /\ DOMAIN stack = 1 .. D /\ D \in Nat /\ D \in DOMAIN stack /\ IsRun(D)
      /\ DOMAIN frames = 1 .. F /\ F \in Nat
      /\ stack[D].init \in Nat /\ stack[D].init < F
  <2>1. stack # <<>> /\ Top.kind = "run"
    BY DEF TailCall, TopIs
  <2>2. D \in DOMAIN stack /\ IsRun(D)
    BY <1>0, <2>1, Types DEF IsRun
  <2> QED
    BY <1>0, <2>2, Types, Elements DEF IndInv, RunsInOrder, IsRun
<1>2. F \in DOMAIN frames /\ frames # <<>> /\ Frame = frames[F] /\ frames[F] \in Frames
  BY <1>0, <1>1, Types
<1>3. /\ f \in Frames /\ f.fn = fn /\ f.base = frames[F].base
      /\ f.prevRegCount = frames[F].prevRegCount /\ f.run = frames[F].run
  BY <1>2 DEF Frames
<1>4. frames' = SubSeq(frames, 1, F - 1) \o <<f>> /\ regCount' = frames[F].base + Registers[fn]
  BY <1>2 DEF TailCall, Front
<1> HIDE DEF f
<1>5. /\ frames' \in Seq(Frames) /\ Len(frames') = F /\ DOMAIN frames' = 1 .. F
      /\ \A i \in 1 .. F - 1 : frames'[i] = frames[i]
      /\ frames'[F] = f
  <2>1. SubSeq(frames, 1, F - 1) \in Seq(Frames) /\ Len(SubSeq(frames, 1, F - 1)) = F - 1
    BY <1>0, <1>1, <1>2 DEF TypeOK
  <2>2. \A i \in 1 .. F - 1 : SubSeq(frames, 1, F - 1)[i] = frames[i]
    BY <1>0, <1>1, <1>2 DEF TypeOK
  <2>4. PICK g \in Seq(Frames) : g = SubSeq(frames, 1, F - 1)
    BY <2>1
  <2>5. frames' = g \o <<f>> /\ Len(g) = F - 1 /\ \A i \in 1 .. F - 1 : g[i] = frames[i]
    BY <1>4, <2>1, <2>2, <2>4
  <2>6. \A h \in Seq(Frames) : /\ h \o <<f>> \in Seq(Frames)
                               /\ Len(h \o <<f>>) = Len(h) + 1
                               /\ \A i \in 1 .. Len(h) : (h \o <<f>>)[i] = h[i]
                               /\ (h \o <<f>>)[Len(h) + 1] = f
    BY <1>3
  <2>7. Len(g) + 1 = F /\ 1 .. Len(g) = 1 .. F - 1
    BY <1>1, <2>5
  <2>8. frames' \in Seq(Frames) /\ Len(frames') = F /\ frames'[F] = f
    BY <2>4, <2>5, <2>6, <2>7
  <2>9. \A i \in 1 .. F - 1 : frames'[i] = frames[i]
    BY <2>4, <2>5, <2>6, <2>7
  <2>10. DOMAIN frames' = 1 .. F
    BY <2>8
  <2> QED
    BY <2>8, <2>9, <2>10
<1>6. \A i \in 1 .. F : /\ frames'[i].base = frames[i].base
                        /\ frames'[i].prevRegCount = frames[i].prevRegCount
                        /\ frames'[i].run = frames[i].run
  BY <1>1, <1>3, <1>5
<1>7. TypeOK'
  <2>1. frames[F].base \in Nat /\ Registers[fn] \in Nat
    BY <1>0, <1>2, Types, EvalAssumption
  <2> QED
    BY <1>0, <1>4, <1>5, <2>1 DEF TypeOK
<1>8. RunsInOrder'
  BY <1>0, <1>5 DEF IndInv, RunsInOrder, IsRun
<1>9. RunsOwnFrames'
  BY <1>0, <1>1, <1>5, <1>6 DEF IndInv, RunsOwnFrames, IsRun
<1>10. TriesBetween'
  <2>1. ASSUME NEW i \in DOMAIN stack, IsTry(i), stack[i].frameCount > 0
        PROVE  frames'[stack[i].frameCount] = frames[stack[i].frameCount]
    <3>1. stack[i].frameCount \in Nat /\ i < D
      BY <1>0, <1>1, <2>1, Types, Elements DEF IsTry, IsRun
    <3>2. stack[i].frameCount <= stack[D].init
      BY <1>1, <2>1, <3>1 DEF IndInv, TriesBetween
    <3> QED
      BY <1>1, <1>5, <2>1, <3>1, <3>2
  <2> QED
    BY <1>0, <1>5, <2>1 DEF IndInv, TriesBetween, IsTry, IsRun
<1>11. TailCallsOnRuns'
  BY <1>0 DEF IndInv, TailCallsOnRuns, IsTry, IsRun
<1>12. FramesStacked'
  <2>1. \A i, j \in DOMAIN frames' : i <= j => frames'[i].base <= frames'[j].base
    BY <1>1, <1>5, <1>6 DEF IndInv, FramesStacked
  <2>2. ASSUME NEW i \in DOMAIN frames'
        PROVE  IF i = F
               THEN End(i)' <= regCount'
               ELSE /\ End(i)' <= frames'[i + 1].prevRegCount
                    /\ frames'[i].run # frames'[i + 1].run => End(i)' <= frames'[i + 1].base
    <3>1. CASE i = F
      <4>1. End(i)' = regCount' /\ regCount' \in Nat
        BY <1>3, <1>4, <1>5, <1>7, <3>1 DEF End, TypeOK
      <4> QED
        BY <3>1, <4>1
    <3>2. CASE i # F
      <4>1. i \in 1 .. F - 1 /\ i + 1 \in 1 .. F /\ i \in DOMAIN frames
        BY <1>1, <1>5, <3>2
      <4>2. End(i)' = End(i)
        BY <1>5, <4>1 DEF End
      <4>3. /\ End(i) <= frames[i + 1].prevRegCount
            /\ frames[i].run # frames[i + 1].run => End(i) <= frames[i + 1].base
        BY <3>2, <4>1 DEF IndInv, FramesStacked
      <4> QED
        BY <1>1, <1>6, <3>2, <4>1, <4>2, <4>3
    <3> QED
      BY <3>1, <3>2
  <2> QED
    BY <1>5, <2>1, <2>2 DEF FramesStacked
<1> QED
  BY <1>7, <1>8, <1>9, <1>10, <1>11, <1>12 DEF IndInv

(* reduct_try catches the error: the frames pushed above it go.             *)
LEMMA Catches ==
  ASSUME IndInv, NEW n \in DOMAIN stack, IsTry(n), CatchAt(n)
  PROVE  IndInv'
<1> DEFINE x == [stack[n] EXCEPT !.phase = "caught"]
           c == stack[n].frameCount
<1>0. TypeOK
  BY DEF IndInv
<1>1. /\ DOMAIN stack = 1 .. Len(stack) /\ Len(stack) \in Nat /\ n \in Nat /\ n >= 1
      /\ DOMAIN frames = 1 .. Len(frames) /\ Len(frames) \in Nat
      /\ stack[n] \in Tries /\ c \in Nat /\ stack[n].regCount \in Nat /\ c <= Len(frames)
  BY <1>0, Types, Elements DEF IsTry, IndInv, TriesBetween
<1>2. x \in Functions /\ Same(x, stack[n])
  BY <1>1 DEF Tries, Functions, Phases, Same
<1> HIDE DEF x
<1>3. /\ stack' = Append(SubSeq(stack, 1, n - 1), x)
      /\ frames' = SubSeq(frames, 1, c)
      /\ regCount' = stack[n].regCount
  BY DEF CatchAt, IsTry, x
<1>4. /\ stack' \in Seq(Functions) /\ Len(stack') = n /\ DOMAIN stack' = 1 .. n
      /\ \A i \in 1 .. n : i \in DOMAIN stack /\ Same(stack'[i], stack[i])
  <2>1. SubSeq(stack, 1, n - 1) \in Seq(Functions) /\ Len(SubSeq(stack, 1, n - 1)) = n - 1
    BY <1>0, <1>1 DEF TypeOK
  <2>2. \A i \in 1 .. n - 1 : SubSeq(stack, 1, n - 1)[i] = stack[i]
    BY <1>0, <1>1 DEF TypeOK
  <2>3. /\ stack' \in Seq(Functions) /\ Len(stack') = n
        /\ \A i \in 1 .. n - 1 : stack'[i] = stack[i]
        /\ stack'[n] = x
    BY <1>1, <1>2, <1>3, <2>1, <2>2
  <2>4. \A i \in 1 .. n - 1 : i \in DOMAIN stack /\ Same(stack'[i], stack[i])
    BY <1>1, <2>3 DEF Same
  <2>5. \A i \in 1 .. n : i \in 1 .. n - 1 \/ i = n
    BY <1>1
  <2> QED
    BY <1>1, <1>2, <2>3, <2>4, <2>5
<1>5. /\ frames' \in Seq(Frames) /\ Len(frames') = c /\ DOMAIN frames' = 1 .. c
      /\ \A i \in 1 .. c : frames'[i] = frames[i] /\ i \in DOMAIN frames
  BY <1>0, <1>1, <1>3 DEF TypeOK
<1>6. TypeOK'
  BY <1>1, <1>3, <1>4, <1>5 DEF TypeOK
<1>7. \A e \in DOMAIN stack' : IsRun(e)' =>
        e \in DOMAIN stack /\ IsRun(e) /\ stack'[e].init = stack[e].init /\ e < n
  BY <1>1, <1>4 DEF IsRun, IsTry, Same
<1>8. \A e \in DOMAIN stack' : IsTry(e)' =>
        /\ e \in DOMAIN stack /\ IsTry(e) /\ e <= n
        /\ stack'[e].frameCount = stack[e].frameCount /\ stack'[e].regCount = stack[e].regCount
  BY <1>1, <1>4 DEF IsTry, Same
<1>9. RunsInOrder'
  <2>1. \A e \in DOMAIN stack' : IsRun(e)' => stack[e].init < c
    BY <1>7 DEF IndInv, TriesBetween
  <2> QED
    BY <1>5, <1>7, <2>1 DEF IndInv, RunsInOrder
<1>10. RunsOwnFrames'
  <2> SUFFICES ASSUME NEW d \in DOMAIN stack', IsRun(d)', NEW i \in DOMAIN frames', stack'[d].init < i,
                      \A e \in DOMAIN stack' : IsRun(e)' /\ d < e => i <= stack'[e].init
               PROVE  frames'[i].run = d
    BY DEF RunsOwnFrames
  <2>1. d \in DOMAIN stack /\ IsRun(d) /\ i \in DOMAIN frames /\ frames'[i] = frames[i] /\ stack[d].init < i
    BY <1>5, <1>7
  <2>2. ASSUME NEW e \in DOMAIN stack, IsRun(e), d < e PROVE i <= stack[e].init
    <3>1. CASE e < n
      <4>1. e \in DOMAIN stack' /\ IsRun(e)' /\ stack'[e].init = stack[e].init
        BY <1>1, <1>4, <2>2, <3>1 DEF IsRun, Same
      <4> QED
        BY <2>2, <4>1
    <3>2. CASE ~(e < n)
      <4>1. c <= stack[e].init /\ stack[e].init \in Nat
        BY <1>0, <2>2, <3>2, Types, Elements DEF IndInv, TriesBetween, IsRun
      <4> QED
        BY <1>1, <1>5, <4>1
    <3> QED
      BY <3>1, <3>2
  <2> QED
    BY <2>1, <2>2 DEF IndInv, RunsOwnFrames
<1>11. TriesBetween'
  <2> SUFFICES ASSUME NEW i \in DOMAIN stack', IsTry(i)'
               PROVE  /\ stack'[i].frameCount <= c
                      /\ \A d \in DOMAIN stack' : IsRun(d)' =>
                           IF d < i THEN stack'[d].init < stack'[i].frameCount
                                    ELSE stack'[i].frameCount <= stack'[d].init
                      /\ \A j \in DOMAIN stack' : IsTry(j)' /\ i < j => stack'[i].frameCount <= stack'[j].frameCount
                      /\ stack'[i].frameCount > 0 =>
                           LET top == frames'[stack'[i].frameCount]
                           IN  top.base + Registers[top.fn] <= stack'[i].regCount
    BY <1>5 DEF TriesBetween
  <2>1. /\ i \in DOMAIN stack /\ IsTry(i) /\ i <= n
        /\ stack'[i].frameCount = stack[i].frameCount /\ stack'[i].regCount = stack[i].regCount
        /\ stack[i].frameCount \in Nat
    BY <1>0, <1>8, Types, Elements DEF IsTry
  <2>2. stack[i].frameCount <= c
    BY <1>1, <2>1 DEF IndInv, TriesBetween
  <2>3. stack[i].frameCount > 0 => frames'[stack[i].frameCount] = frames[stack[i].frameCount]
    BY <1>1, <1>5, <2>1, <2>2
  <2>4. \A j \in DOMAIN stack' : IsTry(j)' /\ i < j => stack'[i].frameCount <= stack'[j].frameCount
    BY <1>8, <2>1 DEF IndInv, TriesBetween
  <2>5. \A d \in DOMAIN stack' : IsRun(d)' =>
          IF d < i THEN stack'[d].init < stack'[i].frameCount
                   ELSE stack'[i].frameCount <= stack'[d].init
    BY <1>7, <2>1 DEF IndInv, TriesBetween
  <2>6. stack[i].frameCount > 0 =>
          LET top == frames[stack[i].frameCount]
          IN  top.base + Registers[top.fn] <= stack[i].regCount
    BY <2>1 DEF IndInv, TriesBetween
  <2> QED
    BY <2>1, <2>2, <2>3, <2>4, <2>5, <2>6
<1>12. TailCallsOnRuns'
  <2> SUFFICES ASSUME NEW i \in DOMAIN stack', stack'[i].kind \in {"native", "try"}, stack'[i].op = "tailcall"
               PROVE  i > 1 /\ stack'[i - 1].kind = "run"
    BY DEF TailCallsOnRuns, IsRun, IsTry
  <2>1. i \in DOMAIN stack /\ stack[i].kind \in {"native", "try"} /\ stack[i].op = "tailcall"
    BY <1>4 DEF Same
  <2>2. i > 1 /\ stack[i - 1].kind = "run" /\ i - 1 \in 1 .. n
    BY <1>1, <1>4, <2>1 DEF IndInv, TailCallsOnRuns, IsRun, IsTry
  <2> QED
    BY <1>4, <2>2 DEF Same
<1>13. FramesStacked'
  <2>1. \A i, j \in DOMAIN frames' : i <= j => frames'[i].base <= frames'[j].base
    BY <1>5 DEF IndInv, FramesStacked
  <2>2. ASSUME NEW i \in DOMAIN frames'
        PROVE  IF i = c
               THEN End(i)' <= regCount'
               ELSE /\ End(i)' <= frames'[i + 1].prevRegCount
                    /\ frames'[i].run # frames'[i + 1].run => End(i)' <= frames'[i + 1].base
    <3>1. End(i)' = End(i) /\ i \in DOMAIN frames /\ frames'[i] = frames[i] /\ i \in 1 .. c
      BY <1>5 DEF End
    <3>2. CASE i = c
      <4>1. c > 0
        BY <3>1, <3>2
      <4>2. End(i) <= stack[n].regCount
        BY <3>2, <4>1 DEF IndInv, TriesBetween, End
      <4> QED
        BY <1>3, <3>1, <3>2, <4>2
    <3>3. CASE i # c
      <4>1. i + 1 \in 1 .. c /\ frames'[i + 1] = frames[i + 1] /\ i # Len(frames)
        BY <1>1, <1>5, <3>1, <3>3
      <4>2. /\ End(i) <= frames[i + 1].prevRegCount
            /\ frames[i].run # frames[i + 1].run => End(i) <= frames[i + 1].base
        BY <3>1, <4>1 DEF IndInv, FramesStacked
      <4> QED
        BY <3>1, <3>3, <4>1, <4>2
    <3> QED
      BY <3>2, <3>3
  <2> QED
    BY <1>5, <2>1, <2>2 DEF FramesStacked
<1> QED
  BY <1>6, <1>9, <1>10, <1>11, <1>12, <1>13 DEF IndInv

(* An error is caught by a worker function and leaves the frames: they are  *)
(* nobody's when no run waits for the task, and there are none when no run  *)
(* is left.                                                                 *)
LEMMA WorkerCatches ==
  ASSUME IndInv, NEW n \in DOMAIN stack, stack[n].kind = "worker", CatchAt(n), ~Spills(n),
         regCount' \in Nat, regCount <= regCount'
  PROVE  IndInv'
<1>1. /\ TypeOK /\ DOMAIN stack = 1 .. Len(stack) /\ Len(stack) \in Nat /\ n \in 1 .. Len(stack)
      /\ stack \in Seq(Functions)
  BY Types DEF IndInv, TypeOK
<1>2. Worker("body") \in Functions /\ Same(Worker("body"), stack[n]) /\ Worker("body").kind = "worker"
  BY DEF Worker, Functions, Workers, Phases, Same
<1>3. stack' = Append(SubSeq(stack, 1, n - 1), Worker("body")) /\ frames' = frames
  BY DEF CatchAt
<1>4. /\ stack' \in Seq(Functions) /\ Len(stack') = n
      /\ \A i \in 1 .. n - 1 : stack'[i] = stack[i]
      /\ stack'[n] = Worker("body")
  <2> HIDE DEF Worker
  <2>1. SubSeq(stack, 1, n - 1) \in Seq(Functions) /\ Len(SubSeq(stack, 1, n - 1)) = n - 1
    BY <1>1
  <2>2. \A i \in 1 .. n - 1 : SubSeq(stack, 1, n - 1)[i] = stack[i]
    BY <1>1
  <2> QED
    BY <1>1, <1>2, <1>3, <2>1, <2>2
<1>5. \A i \in 1 .. n : Same(stack'[i], stack[i])
  <2>1. \A i \in 1 .. n - 1 : Same(stack'[i], stack[i])
    BY <1>4 DEF Same
  <2>2. \A i \in 1 .. n : i \in 1 .. n - 1 \/ i = n
    BY <1>1
  <2> QED
    BY <1>2, <1>4, <2>1, <2>2
<1>6. \/ \A i \in n + 1 .. Len(stack) : ~IsRun(i)
      \/ \A i \in 1 .. n : ~IsRun(i)
  <2>1. \/ \A d \in 1 .. n - 1 : ~IsRun(d)
        \/ \A d \in n + 1 .. Len(stack) : ~IsRun(d)
    BY DEF Spills, IsRun
  <2>2. \A i \in 1 .. n : i \in 1 .. n - 1 \/ i = n
    BY <1>1
  <2>3. ~IsRun(n)
    BY DEF IsRun
  <2> QED
    BY <2>1, <2>2, <2>3
<1>7. n \in 0 .. Len(stack) /\ n <= Len(stack') /\ n + 1 .. Len(stack') = {}
  BY <1>1, <1>4
<1> QED
  BY <1>3, <1>4, <1>5, <1>6, <1>7, FramesStay

(* An error is caught by a try of the C stack, by a task or by the host     *)
(* program.                                                                 *)
LEMMA Throws ==
  ASSUME IndInv, NEW count \in Nat, regCount <= count, ThrowAt(count), ~spilled'
  PROVE  IndInv'
<1>0. TypeOK
  BY DEF IndInv
<1>2. ASSUME NEW n \in DOMAIN stack, Handles(n), CatchAt(n),
             stack[n].kind = "worker" => regCount' = count,
             spilled' = (spilled \/ Spills(n))
      PROVE  IndInv'
  <2>1. CASE IsTry(n)
    BY <1>2, <2>1, Catches
  <2>2. CASE stack[n].kind = "worker"
    BY <1>2, <2>2, WorkerCatches
  <2> QED
    BY <1>2, <2>1, <2>2 DEF Handles, IsTry
<1>3. CASE stack' = <<>> /\ regCount' = count /\ UNCHANGED frames
  <2>1. TypeOK' /\ RunsInOrder' /\ RunsOwnFrames' /\ TriesBetween' /\ TailCallsOnRuns'
    BY <1>0, <1>3 DEF TypeOK, RunsInOrder, RunsOwnFrames, TriesBetween, TailCallsOnRuns
  <2>2. FramesStacked'
    <3>1. \A i \in DOMAIN frames : End(i) \in Nat /\ End(i)' = End(i)
      BY <1>0, <1>3, Types DEF End
    <3>2. regCount \in Nat
      BY <1>0 DEF TypeOK
    <3> QED
      BY <1>3, <3>1, <3>2 DEF IndInv, FramesStacked
  <2> QED
    BY <2>1, <2>2 DEF IndInv
<1> QED
  BY <1>2, <1>3 DEF ThrowAt

(* reduct_eval_call reserves a natural number of registers.                 *)
LEMMA NeededType ==
  ASSUME NEW fn \in Fns, NEW argc \in Nat
  PROVE  Needed(fn, argc) \in Nat
BY EvalAssumption DEF Needed

(* The frame whose end bounds the registers in use.                         *)
LEMMA LastFrame ==
  ASSUME IndInv, frames # <<>>
  PROVE  /\ Len(frames) \in DOMAIN frames /\ Frame = frames[Len(frames)]
         /\ End(Len(frames)) \in Nat /\ End(Len(frames)) <= regCount
         /\ frames[Len(frames)].base \in Nat
         /\ frames[Len(frames)].base <= End(Len(frames))
         /\ regCount \in Nat
BY Types DEF IndInv, TypeOK, FramesStacked, End

(* A call of a closure by the innermost run, whose registers overlap the    *)
(* caller's from register a on (eval.c, CALL).                              *)
LEMMA CallStep ==
  ASSUME IndInv, NEW fn \in Fns, NEW a \in Nat, Call(fn, a)
  PROVE  IndInv'
<1>0. TypeOK /\ stack' = stack
  BY DEF IndInv, Call
<1>1. /\ Len(stack) \in DOMAIN stack /\ IsRun(Len(stack)) /\ DOMAIN stack = 1 .. Len(stack)
      /\ stack[Len(stack)].init \in Nat /\ stack[Len(stack)].init < Len(frames)
      /\ Len(stack) \in Nat
      /\ Len(frames) \in Nat /\ DOMAIN frames = 1 .. Len(frames)
  <2>1. Len(stack) \in DOMAIN stack /\ IsRun(Len(stack))
    BY <1>0, Types DEF Call, TopIs, IsRun
  <2> QED
    BY <1>0, <2>1, Types, Elements DEF IndInv, RunsInOrder, IsRun
<1>2. frames # <<>>
  BY <1>0, <1>1, Types
<1>3. frames[Len(frames)].run = Len(stack)
  BY <1>1 DEF IndInv, RunsOwnFrames
<1>4. Frame.base + a \in Nat /\ frames[Len(frames)].base <= Frame.base + a
  BY <1>2, LastFrame
<1>5. PushFrame(fn, Frame.base + a, regCount, Len(stack)) /\ regCount \in Nat
  BY <1>0 DEF Call, TypeOK
<1>6. /\ Len(stack) \in DOMAIN stack' /\ Len(stack') <= Len(stack)
      /\ stack' \in Seq(Functions) /\ stack'[Len(stack)].kind = "run"
  BY <1>0, <1>1 DEF TypeOK, IsRun
<1>7. \A i \in 1 .. Len(stack) : Same(stack'[i], stack[i])
  BY <1>0 DEF Same
<1>8. \A m \in Nat : m = Len(stack) => IndInv'
  <2> TAKE m \in Nat
  <2> HAVE m = Len(stack)
  <2>1. /\ PushFrame(fn, Frame.base + a, regCount, m)
        /\ m \in DOMAIN stack' /\ Len(stack') <= m /\ stack'[m].kind = "run"
        /\ Len(stack) <= m /\ m <= Len(stack) + 1 /\ ~(Len(stack) < m)
        /\ frames[Len(frames)].run = m
    BY <1>1, <1>3, <1>5, <1>6
  <2> QED
    BY <1>2, <1>4, <1>5, <1>6, <1>7, <2>1, LastFrame, Pushes
<1> QED
  BY <1>1, <1>8

(* A native function, a try or a worker calls a closure: a new run begins   *)
(* above all registers in use (reduct_eval_call).                           *)
LEMMA EvalCallStep ==
  ASSUME IndInv, NEW fn \in Fns, NEW argc \in Nat, EvalCall(fn, argc)
  PROVE  IndInv'
<1> DEFINE m == Len(stack) + 1
<1>0. TypeOK /\ regCount \in Nat /\ Len(frames) \in Nat
  BY DEF IndInv, TypeOK
<1>1. stack # <<>> /\ Called \in Functions /\ Same(Called, Top) /\ Run(Len(frames)) \in Functions
  BY <1>0, CalledIsSame DEF EvalCall, Run, Functions, Runs
<1>2. /\ Front(stack) \in Seq(Functions) /\ Len(Front(stack)) = Len(stack) - 1
      /\ \A i \in 1 .. Len(stack) - 1 : Front(stack)[i] = stack[i]
      /\ Len(stack) \in Nat /\ Len(stack) > 0 /\ Top = stack[Len(stack)]
  BY <1>0, <1>1, Fronts, Types
<1>3. /\ stack' \in Seq(Functions) /\ Len(stack') = Len(stack) + 1
      /\ \A i \in 1 .. Len(stack) - 1 : stack'[i] = stack[i]
      /\ stack'[Len(stack)] = Called /\ stack'[Len(stack) + 1] = Run(Len(frames))
  <2>1. /\ <<Called, Run(Len(frames))>> \in Seq(Functions) /\ Len(<<Called, Run(Len(frames))>>) = 2
        /\ <<Called, Run(Len(frames))>>[1] = Called
        /\ <<Called, Run(Len(frames))>>[2] = Run(Len(frames))
    BY <1>1
  <2>2. stack' = Front(stack) \o <<Called, Run(Len(frames))>>
    BY DEF EvalCall
  <2>3. stack' \in Seq(Functions) /\ Len(stack') = Len(stack) + 1
    BY <1>2, <2>1, <2>2
  <2>4. \A i \in 1 .. Len(stack) - 1 : stack'[i] = stack[i]
    BY <1>2, <2>1, <2>2
  <2>5. \A i \in {1, 2} : stack'[Len(Front(stack)) + i] = <<Called, Run(Len(frames))>>[i]
    BY <1>2, <2>1, <2>2
  <2>6. Len(Front(stack)) + 1 = Len(stack) /\ Len(Front(stack)) + 2 = Len(stack) + 1
    BY <1>2
  <2> QED
    BY <2>1, <2>3, <2>4, <2>5, <2>6
<1>4. \A i \in 1 .. Len(stack) : Same(stack'[i], stack[i])
  <2>1. \A i \in 1 .. Len(stack) : i \in 1 .. Len(stack) - 1 \/ i = Len(stack)
    BY <1>2
  <2>2. \A i \in 1 .. Len(stack) - 1 : Same(stack'[i], stack[i])
    BY <1>3 DEF Same
  <2> QED
    BY <1>1, <1>2, <1>3, <2>1, <2>2
<1>5. /\ regCount + Needed(fn, argc) \in Nat /\ regCount <= regCount + Needed(fn, argc)
      /\ PushFrame(fn, regCount, regCount + Needed(fn, argc), m)
  <2>1. \A k \in Nat : regCount + k \in Nat /\ regCount <= regCount + k
    BY <1>0
  <2>2. Needed(fn, argc) \in Nat
    BY NeededType
  <2> QED
    BY <2>1, <2>2 DEF EvalCall
<1>6. /\ m \in Nat /\ m \in DOMAIN stack' /\ Len(stack') <= m
      /\ Len(stack) <= m /\ m <= Len(stack) + 1 /\ stack'[m] = Run(Len(frames))
      /\ stack'[m].kind = "run"
  BY <1>2, <1>3 DEF Run
<1>7. frames # <<>> => /\ frames[Len(frames)].base <= regCount
                       /\ End(Len(frames)) <= regCount + Needed(fn, argc)
                       /\ End(Len(frames)) <= regCount
  <2> HAVE frames # <<>>
  <2>1. /\ frames[Len(frames)].base \in Nat /\ frames[Len(frames)].base <= End(Len(frames))
        /\ End(Len(frames)) \in Nat /\ End(Len(frames)) <= regCount
    BY LastFrame
  <2>2. \A k \in Nat : regCount <= k => End(Len(frames)) <= k
    BY <1>0, <2>1
  <2> QED
    BY <1>0, <1>5, <2>1, <2>2
<1> HIDE DEF m
<1> QED
  BY <1>0, <1>3, <1>4, <1>5, <1>6, <1>7, Pushes

(* The host program calls reduct_eval: the first run of the stack.          *)
LEMMA HostEvalStep ==
  ASSUME IndInv, NEW fn \in Fns, HostEval(fn)
  PROVE  IndInv'
<1>0. TypeOK /\ regCount \in Nat /\ Len(frames) \in Nat /\ stack = <<>>
  BY DEF IndInv, TypeOK, HostEval
<1>1. stack' = <<Run(Len(frames))>> /\ PushFrame(fn, regCount, regCount, 1)
  BY DEF HostEval
<1>2. Run(Len(frames)) \in Functions
  BY <1>0 DEF Run, Functions, Runs
<1>3. /\ stack' \in Seq(Functions) /\ 1 \in DOMAIN stack' /\ Len(stack') <= 1
      /\ stack'[1] = Run(Len(frames)) /\ stack'[1].kind = "run"
  BY <1>1, <1>2 DEF Run
<1>4. Len(stack) <= 1 /\ 1 <= Len(stack) + 1 /\ 1 .. Len(stack) = {}
  BY <1>0
<1>5. frames # <<>> => /\ frames[Len(frames)].base <= regCount
                       /\ End(Len(frames)) <= regCount
  BY <1>0, LastFrame
<1> QED
  BY <1>0, <1>1, <1>3, <1>4, <1>5, Pushes

(* The innermost run returns from its last frame.                           *)
LEMMA RetStep ==
  ASSUME IndInv, Ret
  PROVE  IndInv'
<1>1. /\ Len(stack) \in DOMAIN stack /\ IsRun(Len(stack)) /\ DOMAIN stack = 1 .. Len(stack)
      /\ Len(stack) \in Nat
  BY Types DEF IndInv, Ret, TopIs, IsRun
<1>2. stack \in Seq(Functions) /\ PopFrame(stack)
  BY DEF IndInv, TypeOK, Ret
<1>3. \A m \in Nat : m = Len(stack) => IndInv'
  <2> TAKE m \in Nat
  <2> HAVE m = Len(stack)
  <2>1. /\ m \in DOMAIN stack /\ IsRun(m) /\ \A e \in DOMAIN stack : IsRun(e) => e <= m
        /\ Len(stack) = m
    BY <1>1
  <2> QED
    BY <1>2, <2>1, Pops
<1> QED
  BY <1>1, <1>3

(* A native function returns; after a tail call the run below pops its      *)
(* frame too.                                                               *)
LEMMA NativeReturnStep ==
  ASSUME IndInv, NativeReturn
  PROVE  IndInv'
<1>0. TypeOK
  BY DEF IndInv
<1>1. stack # <<>> /\ Top.kind \in {"native", "try"}
  BY DEF NativeReturn, TopIs
<1>2. /\ Front(stack) \in Seq(Functions)
      /\ Len(Front(stack)) = Len(stack) - 1
      /\ \A i \in 1 .. Len(stack) - 1 : Front(stack)[i] = stack[i]
      /\ Len(stack) \in Nat /\ Len(stack) > 0
      /\ DOMAIN stack = 1 .. Len(stack) /\ Top = stack[Len(stack)]
  BY <1>0, <1>1, Fronts, Types
<1>3. CASE Top.op = "tailcall"
  <2>1. Len(stack) > 1 /\ IsRun(Len(stack) - 1)
    BY <1>1, <1>2, <1>3 DEF IndInv, TailCallsOnRuns, IsTry
  <2>2. PopFrame(Front(stack)) /\ ~IsRun(Len(stack))
    BY <1>1, <1>2, <1>3 DEF NativeReturn, IsRun
  <2>3. \A m \in Nat : m = Len(stack) - 1 => IndInv'
    <3> TAKE m \in Nat
    <3> HAVE m = Len(stack) - 1
    <3>1. /\ m \in DOMAIN stack /\ IsRun(m) /\ Len(Front(stack)) = m
          /\ \A i \in 1 .. m : Front(stack)[i] = stack[i]
      BY <1>2, <2>1
    <3>2. \A e \in DOMAIN stack : IsRun(e) => e <= m
      BY <1>2, <2>2
    <3> QED
      BY <1>2, <2>2, <3>1, <3>2, Pops
  <2> QED
    BY <1>2, <2>1, <2>3
<1>4. CASE Top.op # "tailcall"
  BY <1>1, <1>4, Leaves DEF NativeReturn
<1> QED
  BY <1>3, <1>4

(* A native function, a try or a worker calls a native function.            *)
LEMMA EvalCallNativeStep ==
  ASSUME IndInv, EvalCallNative
  PROVE  IndInv'
<1>0. TypeOK /\ regCount \in Nat /\ Len(frames) \in Nat
  BY DEF IndInv, TypeOK
<1>1. stack # <<>> /\ Called \in Functions /\ Same(Called, Top) /\ Top.kind # "run"
  BY <1>0, CalledIsSame DEF EvalCallNative, CanCall, TopIs
<1>2. /\ Native("nested") \in Functions /\ Native("nested").kind = "native"
      /\ Native("nested").op = "nested"
      /\ Try("nested", "start") \in Functions /\ Try("nested", "start").kind = "try"
      /\ Try("nested", "start").frameCount = Len(frames) /\ Try("nested", "start").regCount = regCount
      /\ Try("nested", "start").op = "nested"
  BY <1>0 DEF Native, Try, Functions, Natives, Tries, Ops, Phases
<1>3. /\ stack' = Front(stack) \o <<Called, Native("nested")>>
         \/ stack' = Front(stack) \o <<Called, Try("nested", "start")>>
      /\ UNCHANGED <<frames, regCount>>
  BY DEF EvalCallNative
<1>4. \E y \in Functions :
        /\ stack' = Front(stack) \o <<Called, y>>
        /\ y.kind # "run"
        /\ y.kind = "try" => y.frameCount = Len(frames) /\ y.regCount = regCount
        /\ y.kind \in {"native", "try"} => y.op # "tailcall"
  <2>1. CASE stack' = Front(stack) \o <<Called, Native("nested")>>
      BY <1>2, <2>1
  <2>2. CASE stack' = Front(stack) \o <<Called, Try("nested", "start")>>
      BY <1>2, <2>2
  <2> QED
    BY <1>3, <2>1, <2>2
<1> QED
  BY <1>1, <1>3, <1>4, GoesOn

(* A call is refused because of its arguments: the error is thrown after    *)
(* registers have been reserved, or handled by the try that makes the call. *)
LEMMA EvalCallRefusedStep ==
  ASSUME IndInv, NEW fn \in Fns, NEW argc \in Nat, EvalCallRefused(fn, argc), ~spilled'
  PROVE  IndInv'
<1>0. TypeOK /\ regCount \in Nat
  BY DEF IndInv, TypeOK
<1>1. CASE TopIs("try") /\ Top.phase = "start"
  <2>1. stack # <<>> /\ Top.kind = "try" /\ Top \in Functions
    BY <1>0, <1>1, Types DEF TopIs
  <2>2. Top \in Tries
    BY <2>1, Elements
  <2>3. [Top EXCEPT !.phase = "caught"] \in Functions /\ Same([Top EXCEPT !.phase = "caught"], Top)
    BY <2>2 DEF Tries, Functions, Phases, Same
  <2>4. /\ stack' = Front(stack) \o <<[Top EXCEPT !.phase = "caught"]>>
        /\ UNCHANGED <<frames, regCount>>
    BY <1>1 DEF EvalCallRefused
  <2> QED
    BY <2>1, <2>3, <2>4, GoesOn
<1>2. CASE ~(TopIs("try") /\ Top.phase = "start")
  <2>1. Needed(fn, argc) \in Nat
    BY NeededType
  <2>2. \A k \in Nat : regCount + k \in Nat /\ regCount <= regCount + k
    BY <1>0
  <2>3. ThrowAt(regCount + Needed(fn, argc))
    BY <1>2 DEF EvalCallRefused
  <2> QED
    BY <2>1, <2>2, <2>3, Throws
<1> QED
  BY <1>1, <1>2

(* Every step of the evaluator that spills no frames preserves the          *)
(* invariant.                                                               *)
LEMMA NextInv ==
  ASSUME IndInv, Next, ~spilled'
  PROVE  IndInv'
<1>0. TypeOK /\ regCount \in Nat /\ Len(frames) \in Nat /\ MaxRegs \in Nat /\ MaxArgs \in Nat
  BY EvalAssumption DEF IndInv, TypeOK
<1>1. ASSUME NEW fn \in Fns, HostEval(fn) PROVE IndInv'
  BY <1>1, HostEvalStep
<1>2. ASSUME NEW fn \in Fns, TailCall(fn) PROVE IndInv'
  BY <1>2, TailCalls
<1>3. ASSUME NEW fn \in Fns, NEW a \in 0 .. MaxRegs, Call(fn, a) PROVE IndInv'
  <2>1. a \in Nat
    BY <1>0
  <2> QED
    BY <1>3, <2>1, CallStep
<1>4. ASSUME NEW op \in {"call", "tailcall", "join"}, CallNative(op) PROVE IndInv'
  <2>1. Native(op) \in Functions /\ Native(op).kind = "native"
    BY DEF Native, Functions, Natives, Ops
  <2> QED
    BY <1>4, <2>1, Enters DEF CallNative
<1>5. ASSUME NEW op \in {"call", "tailcall"}, CallTry(op) PROVE IndInv'
  <2>1. /\ Try(op, "start") \in Functions /\ Try(op, "start").kind = "try"
        /\ Try(op, "start").frameCount = Len(frames) /\ Try(op, "start").regCount = regCount
    BY <1>0 DEF Try, Functions, Tries, Ops, Phases
  <2> QED
    BY <1>5, <2>1, Enters DEF CallTry
<1>6. CASE Ret
  BY <1>6, RetStep
<1>7. CASE NativeReturn
  BY <1>7, NativeReturnStep
<1>8. CASE RunTask
  <2>1. Worker("start") \in Functions /\ Worker("start").kind = "worker"
    BY DEF Worker, Functions, Workers, Phases
  <2> QED
    BY <1>8, <2>1, Enters DEF RunTask
<1>9. CASE WorkerReturn
  BY <1>9, Leaves DEF WorkerReturn, TopIs
<1>10. CASE Throw
  BY <1>0, <1>10, Throws DEF Throw
<1>11. CASE EvalCallNative
  BY <1>11, EvalCallNativeStep
<1>12. ASSUME NEW fn \in Fns, NEW argc \in 0 .. MaxArgs, EvalCall(fn, argc) PROVE IndInv'
  <2>1. argc \in Nat
    BY <1>0
  <2> QED
    BY <1>12, <2>1, EvalCallStep
<1>13. ASSUME NEW fn \in Fns, NEW argc \in 0 .. MaxArgs, EvalCallRefused(fn, argc) PROVE IndInv'
  <2>1. argc \in Nat
    BY <1>0
  <2> QED
    BY <1>13, <2>1, EvalCallRefusedStep
<1> QED
  BY <1>1, <1>2, <1>3, <1>4, <1>5, <1>6, <1>7, <1>8, <1>9, <1>10, <1>11, <1>12, <1>13 DEF Next

(* Once frames have been spilled, that is not forgotten.                     *)
LEMMA Remembers ==
  ASSUME Next, spilled
  PROVE  spilled'
<1>1. \A count : ThrowAt(count) => spilled'
  BY DEF ThrowAt
<1> QED
  BY <1>1 DEF Next, HostEval, TailCall, Call, CallNative, CallTry, Ret, NativeReturn, RunTask,
     WorkerReturn, Throw, EvalCallNative, EvalCall, EvalCallRefused

(* The inductive invariant of the evaluator holds for all functions, any    *)
(* number of frames and any depth of the C stack, whatever is called,       *)
(* thrown, caught and executed in joins, until an error spills a task's     *)
(* frames onto those of a run that joins it (eval.c, standard.c:57-87,      *)
(* future.c:18).                                                            *)
THEOREM Invariance == Spec => [](~spilled => IndInv)
<1>1. Init => IndInv
  BY InitInv
<1>2. (~spilled => IndInv) /\ [Next]_vars => (~spilled => IndInv)'
  <2> SUFFICES ASSUME ~spilled => IndInv, [Next]_vars, ~spilled' PROVE IndInv'
    OBVIOUS
  <2>1. CASE Next
    <3>1. ~spilled
      BY <2>1, Remembers
    <3> QED
      BY <2>1, <3>1, NextInv
  <2>2. CASE UNCHANGED vars
    BY <2>2 DEF vars, IndInv, TypeOK, RunsInOrder, RunsOwnFrames, TriesBetween, TailCallsOnRuns,
                FramesStacked, IsRun, IsTry, End
  <2> QED
    BY <2>1, <2>2
<1> QED
  BY <1>1, <1>2, PTL DEF Spec

(* The invariant gives every run the frame it resumes.                      *)
LEMMA OwnFramesHold == IndInv => OwnFrames
<1> SUFFICES ASSUME IndInv PROVE OwnFrames
  OBVIOUS
<1>0. TypeOK
  BY DEF IndInv
<1>1. ASSUME NEW d \in DOMAIN stack, IsRun(d)
      PROVE  stack[d].init < Len(frames) /\ frames[stack[d].init + 1].run = d
  <2>1. /\ stack[d].init \in Nat /\ stack[d].init < Len(frames)
        /\ Len(frames) \in Nat /\ DOMAIN frames = 1 .. Len(frames)
    BY <1>0, <1>1, Types, Elements DEF IndInv, RunsInOrder, IsRun
  <2>2. \A e \in DOMAIN stack : IsRun(e) /\ d < e => stack[d].init + 1 <= stack[e].init
    <3> SUFFICES ASSUME NEW e \in DOMAIN stack, IsRun(e), d < e
                 PROVE  stack[d].init + 1 <= stack[e].init
      OBVIOUS
    <3>1. stack[d].init < stack[e].init /\ stack[e].init \in Nat
      BY <1>0, <1>1, Types, Elements DEF IndInv, RunsInOrder, IsRun
    <3> QED
      BY <2>1, <3>1
  <2>3. stack[d].init + 1 \in DOMAIN frames /\ stack[d].init < stack[d].init + 1
    BY <2>1
  <2> QED
    BY <1>1, <2>1, <2>2, <2>3 DEF IndInv, RunsOwnFrames
<1>2. ASSUME TopIs("run")
      PROVE  Len(frames) > Top.init /\ Frame.run = Len(stack)
  <2>1. /\ Len(stack) \in DOMAIN stack /\ Top = stack[Len(stack)] /\ IsRun(Len(stack))
        /\ DOMAIN stack = 1 .. Len(stack) /\ Len(stack) \in Nat
    BY <1>0, <1>2, Types DEF TopIs, IsRun
  <2>2. /\ stack[Len(stack)].init \in Nat /\ stack[Len(stack)].init < Len(frames)
        /\ Len(frames) \in Nat /\ DOMAIN frames = 1 .. Len(frames)
    BY <1>0, <2>1, Types, Elements DEF IndInv, RunsInOrder, IsRun
  <2>3. Len(frames) \in DOMAIN frames /\ frames # <<>>
    BY <2>2
  <2>4. Frame = frames[Len(frames)]
    BY <1>0, <2>3, Types
  <2>5. frames[Len(frames)].run = Len(stack)
    BY <2>1, <2>2, <2>3 DEF IndInv, RunsOwnFrames
  <2> QED
    BY <2>1, <2>2, <2>4, <2>5
<1> QED
  BY <1>1, <1>2 DEF OwnFrames, IsRun

(* The invariant keeps live registers apart and below regCount.             *)
LEMMA RegistersSafeHolds == (~spilled => IndInv) => RegistersSafe
<1> SUFFICES ASSUME IndInv, NEW i \in DOMAIN frames
             PROVE  /\ LiveEnd(i) <= regCount
                    /\ \A j \in i + 1 .. Len(frames) : LiveEnd(i) <= frames[j].base
  BY DEF RegistersSafe
<1> DEFINE F == Len(frames)
<1>1. /\ DOMAIN frames = 1 .. F /\ F \in Nat /\ F \in DOMAIN frames /\ frames # <<>>
      /\ \A k \in DOMAIN frames : frames[k].base \in Nat
      /\ regCount \in Nat
  BY Types DEF IndInv, TypeOK
<1>2. frames[F].base <= End(F) /\ End(F) <= regCount /\ End(F) \in Nat
  BY <1>1, LastFrame
<1>3. \A k, j \in DOMAIN frames : k <= j => frames[k].base <= frames[j].base
  BY DEF IndInv, FramesStacked
<1>4. CASE i = F
  <2>1. LiveEnd(i) = End(i)
    BY <1>1, <1>4 DEF LiveEnd, End
  <2> QED
    BY <1>1, <1>2, <1>4, <2>1
<1>5. CASE i # F
  <2>1. i < F /\ i + 1 \in DOMAIN frames
    BY <1>1, <1>5
  <2>2. LiveEnd(i) <= frames[i + 1].base /\ LiveEnd(i) \in Nat
    <3>1. CASE frames[i + 1].run = frames[i].run
      BY <1>1, <2>1, <3>1 DEF LiveEnd
    <3>2. CASE frames[i + 1].run # frames[i].run
      <4>1. LiveEnd(i) = End(i) /\ End(i) \in Nat
        BY <3>2, Types DEF LiveEnd, End, IndInv
      <4>2. End(i) <= frames[i + 1].base
        BY <1>5, <3>2 DEF IndInv, FramesStacked
      <4> QED
        BY <4>1, <4>2
    <3> QED
      BY <3>1, <3>2
  <2>3. \A j \in i + 1 .. F : j \in DOMAIN frames /\ i + 1 <= j
    BY <1>1, <2>1
  <2>4. \A j \in i + 1 .. F : LiveEnd(i) <= frames[j].base
    <3> TAKE j \in i + 1 .. F
    <3>1. frames[i + 1].base <= frames[j].base
      BY <1>3, <2>1, <2>3
    <3>2. frames[i + 1].base \in Nat /\ frames[j].base \in Nat
      BY <1>1, <2>1, <2>3
    <3> QED
      BY <2>2, <3>1, <3>2
  <2>5. F \in i + 1 .. F
    BY <1>1, <2>1
  <2>6. frames[F].base \in Nat /\ LiveEnd(i) <= frames[F].base
    BY <1>1, <2>4, <2>5
  <2> QED
    BY <1>1, <1>2, <2>2, <2>4, <2>6
<1> QED
  BY <1>4, <1>5

(* Whenever a run goes on, after a call, a caught error or a join, the      *)
(* topmost frame is its own, and every run below still has its frames,      *)
(* unless an error has left a task with frames that lie on those of a run   *)
(* which waits for it (eval.c, reduct_eval_run; UPDATE_STATE).              *)
THEOREM CallersResume == Spec => []ResumesCaller
<1>1. (~spilled => IndInv) => ResumesCaller
  BY OwnFramesHold DEF ResumesCaller
<1> QED
  BY <1>1, Invariance, PTL

(* No function overwrites registers another one still needs, and all of     *)
(* them lie where the collector looks for roots, with the same exception    *)
(* (eval.c, push and pop of frames; gc.c:126).                              *)
THEOREM RegistersStaySafe == Spec => []RegistersSafe
BY Invariance, RegistersSafeHolds, PTL
=============================================================================
