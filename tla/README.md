# Reduct in TLA+

Reduct is a small Lisp-like language implemented in C: a parser, an intermediate
representation with an optimizer, a register bytecode, an evaluator that forks
tasks to a pool of worker threads, a stop-the-world garbage collector and a
standard library. This directory holds TLA+ modules that model the parts of it
where state is shared, interleaved, nested, unwound or rewritten, configurations
that model-check them with TLC, and proofs checked by TLAPS. Source lines are given
relative to the repository, as in `src/task.c:25`; `PROJECT.json` lists for
every definition the lines it stands for.

    tlc -config TaskRing.cfg MCTaskRing     # model-check one component
    tlapm TaskRingProofs.tla                # check its proofs

## 1. Inventory

| Component | Source | State | Operations |
|---|---|---|---|
| Task queue | `task.h`, `task.c:16-104` | `global.queue`: ring of slots with a 16-bit generation, head and tail tickets | push, pop, done |
| Worker pool | `task.c:106-248`, `core.c` | mutex, condition variable, shutdown flag, the threads | create, try_work, worker loop, join, barrier, shutdown |
| Garbage collector | `gc.h`, `gc.c` | `gcRequested`, barrier counter and generation, mark bits, free lists | request, check, mark, sweep |
| Read-write lock | `sync.h` | readers, writers waiting, writing, one mutex, one condition variable | read/write lock and unlock |
| Atoms | `atom.h`, `atom.c` | the intern map: an open-addressing table with tombstones, its counters; each atom's index, hash, shape | lookup, rename, grow, bury, substring, superstring, numbers |
| Item heap | `item.h`, `item.c` | blocks, the global and the per-thread free lists, flags | new, free, mark, retain, release |
| Evaluator | `eval.h`, `eval.c` | frames, register file and counts of one thread | call, tail call, return, run, the instructions |
| Errors | `error.h`, `error.c` | chain of `setjmp` handlers, the error in flight | try, throw, rethrow, check |
| Futures | `future.h`, `future.c` | callable, arguments, ticket, result or error | create, worker, join |
| Standard library | `standard.h`, `standard.c` | none of its own; natives over lists, strings and association lists | map, filter, find, reduce, try, sort, chunk, get-in, ... |
| Schemas | `schema.h`, `schema.c` | table of record shapes behind a read-write lock | register, get |
| Modules, natives | `module.c`, `native.c` | module table, import paths, cached native functions | import, define, lookup |
| Parser | `parse.c` | nesting and infix state over the input | parse |
| Builder | `build.c` | scopes, captures | build the intermediate representation |
| Intermediate representation | `rvsdg.h`, `rvsdg.c` | nodes, edges, nested regions with arguments and a result | make, connect, lift, copy, wrap, replace, free |
| Optimizer | `optimize.c` | the pass and where it is; rewrites of that graph | inline, swap, fold, simplify, merge, eliminate, push, pull, parallelise |
| Code generator | `emit.c` | register list, value cache with use counts, code and constants of the function | emit a node, an operand, a branch; allocate and free registers |
| Lists, closures, functions, handles | `list.c`, `closure.c`, `function.c`, `handle.c` | a list: a window on an array that others share, and flags of its ends | build, append, prepend, concatenate, slice, iterate |
| Arenas, scratch buffers | `arena.c`, `scratch.c` | chunks; a bounded set of per-thread buffers | alloc, extend the last chunk, acquire, release |
| Startup and shutdown | `core.c` | the global and the thread-local records | `reduct_new`, `reduct_free` |
| Dump, stringify, characters, opcodes | `dump.c`, `stringify.c`, `char.c`, `opcode.c` | none | text and tables |
| Command line tool | `tools/reduct-cli` | none | options and I/O |

### How they interact

`reduct_new` starts one worker thread for each other CPU. The master evaluates;
natives such as `map`, and the instruction that calls a future, push tasks on
the shared ring with `reduct_task_create` and signal a condition variable
without holding its mutex. When the ring is full the task is refused, and its
creator runs it on the spot. `reduct_task_join` does not block: it executes
whatever task it can pop until the generation of the slot says that its own has
finished, so a thread's C stack can hold runs of unrelated tasks on top of each
other, all on one array of frames, one register file and one chain of error
handlers. Allocation raises `gcRequested` when the free lists run out; every
evaluating thread looks at that flag between instructions and in joins, and goes
through three barriers with the others. Sleeping workers are woken to take part.
Atoms are shared by all threads through one intern map behind the read-write
lock; the sweep buries the atoms it frees in that map. `reduct_free` sets the
shutdown flag, which wakes the workers and opens every barrier, and joins them.

A program goes from text to handles (parser), to a graph of regions (builder),
through the passes of its level (optimizer), to code (generator), to the
evaluator. The optimizer calls the natives of the library for what is constant,
so it can throw their errors, and decides which calls become futures. Lists and
strings are immutable for the program; their arrays are not: they come from the
arena of the thread that made them, go with the value to other threads, and are
extended in place by whoever has a value that ends where its array is unused.

### What is hard, and what makes each part correct

* **Task queue.** The compare-exchange of a ticket and the filling, publication
  and reuse of its slot are separate atomic accesses; generations wrap. Correct
  when a slot belongs to one ticket at a time, every executed task is the one
  pushed, no ticket runs twice, and a join returns exactly when its task has ended.
* **Worker pool.** A signal can be missed; joins execute each other's tasks; the
  last ticket may be refused. Correct when a tree of forks and joins ends
  whatever is missed or refused, children before parents, each task once, and
  shutdown gets every worker out of its sleep.
* **Garbage collector.** Barriers are reused at once; a sleeping thread must
  come; a second request may fall into a collection; shutdown may interrupt one.
  Correct when nobody evaluates while another marks or sweeps, one thread sweeps
  per round, every request is served and every collection ends.
* **Read-write lock.** One condition variable serves readers and writers.
  Correct when writers are alone, counters are exact, no wake-up is lost and
  readers cannot starve a writer.
* **Atoms.** The probe ends only at an empty slot; growth moves atoms; quoted
  strings are stored before their escapes are processed. Correct when probes
  end, a slot and the atom in it agree, equal strings are one atom, and a lookup
  returns the text that was asked for.
* **Evaluator and errors.** The depth to which a run evaluates is a number in a
  C local; `longjmp` leaves the arrays as they are. Correct when each run
  resumes its own frame and no register that is still needed is overwritten.
* **Lists, strings, arenas.** Values share arrays that are extended in place, by
  any thread, on the word of a flag or a counter. Correct when no operation
  changes a value there already is, and chunks never overlap. The flags and counters
  are not enough for that (section 4).
* **Library.** Positions count from both ends in unsigned arithmetic, searches
  subtract lengths, association lists are rebuilt along a path. Correct when the
  natives agree with each other on every value a program can make, at every
  boundary.
* **Compiler.** Each rewrite has to take its operands into the region where it
  puts them, keep inputs and arguments paired, and neither lose nor add a call.
  Correct when the graph means what the program means, before and after every
  rewrite of every level, and the passes come to an end.
* **Parallel sequence functions.** Tasks finish in any order, may be refused and
  may fail, and point into the C frame of the function. Correct when the answer
  is about the items a loop would choose, no error is lost and no task outlives
  the frame.
* **Code generator.** Registers are handed out while the order of the code is
  the order of a recursive walk: one use count too few, or a value remembered
  past the branch that computes it, and two values share a register. Correct
  when the code of every body answers what the body means, on either side of its
  branches and with or without tasks for its futures, and makes its calls once.

The hazards are listed line by line in `PROJECT.json`, each with the properties
that watch it or the reason why none does yet.

## 2. Modules

Every module has the state of one component as variables, one action per
operation, handler or atomic step, and the properties; a
definition `XBlind`, `XEarly`, `XKeep`, ... placed before the action `X` it
varies is a plausible bug of the code, kept as a documented mutant that TLC must
be able to refute.

| Module | Models | State |
|---|---|---|
| `TaskPool` | what the queue promises: tickets are claimed in order, made ready, popped in order, started, finished | how many tickets were accepted, each one's task and status, the executed tasks; no slots |
| `TaskRing` | `task.c` push, pop and release, one action per atomic access | the ring, head and tail, each thread's program point and locals |
| `TaskRingProofs` | theorems about `TaskRing`, refinement of `TaskPool` included | |
| `Scheduler` | creation with inline fallback, `try_work`, the worker loop, joins, shutdown | per-thread stacks of task activations over `TaskPool` (`INSTANCE`) |
| `SchedulerProofs` | theorems about `Scheduler`, its use of `TaskPool` included | |
| `GcBarrier` | requests, checks, the barrier access by access, mark, exchange, sweep, sleep and wake-up, `reduct_free` | flags, barrier counter and generation, private free lists as empty or not, program points |
| `RwMutex` | `sync.h` | counters, writer flag, program points of the threads |
| `RwMutexProofs` | theorems about `RwMutex` | |
| `GcBarrierProofs` | theorems about `GcBarrier` | |
| `ItemHeap` | `item.c`, and what `gc.c` does while the world stands still: allocation, retain flag, mark, sweep | the blocks, each item's type and payload, the retained items, the free lists, the request |
| `HeapProgram` | who holds items while the collector may run: compiled code, `map`, `reduce`, futures, joins, tail calls | per thread the frames and natives on its stack, its registers and their count; the queue, the threads that wait for the collection |
| `EvalStack` | frames, registers and handlers of one thread | frames, register count, and the C stack of runs, natives, tries and workers; whether an error has spilled frames |
| `EvalStackProofs` | theorems about `EvalStack`, until an error spills a task's frames | |
| `AtomMap` | the intern map with two-phase lookup, rename, growth and burial | table, counters, atoms, each thread's position between the two locks |
| `InternTable` | what the map promises those who look atoms up: a table without slots, accessed at once | the interned atoms, the atom each thread was given last |
| `AtomMapProofs` | theorems about `AtomMap`, refinement of `InternTable` included | |
| `ParallelSeq` | `map`, `filter`, `find` with their tasks | the caller's phase, each task's progress, the answer, the error slot, retained items |
| `ParallelSeqProofs` | theorems about `ParallelSeq` | |
| `SharedArrays` | `list.c`, the strings of `atom.c`, `arena.c` | the arenas with their data, every value as a window with its flags, what each thread is in the middle of; whether an end has been contested |
| `SharedArraysProofs` | theorems about `SharedArrays`, until an end is contested | |
| `Values` | handles as the library sees them, their order and equality (`handle.c`) | |
| `Library` | the natives of `standard.c` over lists, strings, association lists, each an operator | |
| `LibraryProgram` | a program that calls them | one value; or an association list and the map it stands for |
| `Rvsdg` | `rvsdg.c`: the graph and the operations on it | |
| `Builder` | `build.c`: from a program to its graph | |
| `Optimizer` | the passes of `optimize.c`, each an operator from a graph and a node to a graph | |
| `Language` | what a program means, from its text alone | |
| `Compiler` | a compilation: build, then the passes of a level in their schedule | the program, the graph, the stage and pass, and the regions the pass is in |
| `Emit` | `emit.c` on one function body, and the instructions it emits | the body's graph, the code, the frame's registers and program counter |

`TaskPool` is the abstract specification; `TaskRing` is shown to implement it
(by TLC as a property, by TLAPS as a theorem) and `Scheduler` is built on it, so
what the runs of `Scheduler` show carries over to the ring. `InternTable` is the
abstract specification of the intern map, and `AtomMap` is shown to implement it,
by both tools. `Language` is the
abstract specification of the compiler: `Compiler` evaluates the program with it
and the graph with `GraphMeaning`, and `MeaningKept` compares the two in every
state. `HeapProgram` extends `ItemHeap` and takes from `GcBarrier` that a collection
is one step for everybody else. `Library` is used three times: by the programs of `LibraryProgram`, by the
optimizer, which calls natives while it compiles, and by `Language`.

### Correspondence

**TaskRing.** A thread pushes in the steps `PushBegin` (the call),
`PushLoad` (head), `PushCheck` (generation of the slot against the ticket: free,
full, or stale head), `PushCas` (a weak compare-exchange that may fail without
reason), `PushFill` (func and arg) and `PushPublish` (generation + 1); it pops in
`PopLoad`, `PopCheck`, `PopCas`, `PopRead`; `Release` is the end of
`reduct_task_execute`, which publishes the generation for the next round. The
tasks a thread is running form a set, because joins nest. `Gen` keeps the width
of the generation (`GenMod`), `Diff` is the signed difference the code tests.
Claims and reads are separate from the atomic access before them, so a race on
func or arg would be two threads at `push_fill`/`pop_read` of one slot.

**Scheduler.** `Create` is `reduct_task_create` up to the refused or accepted
push, then `Publish` and `Signal`, or `CallInline`; `Start`, `Join`, `TryWork`
and `Return` run the tree of tasks `Kids`. A join looks at its child (`JoinLook`),
then for work (`TryWork`, or `JoinYield` if there is none), and the child may be done
between the two; `FindNothing`, `LockAndLook`, `Wait`,
`SpuriousWake` and `WakeUp` are the loop of a worker, whose look at the queue
under the mutex and whose wait are separated from the signal, which takes no
mutex. `Shutdown` and `FreeReturns` are `reduct_free`.

**GcBarrier.** `BarrierLoad`, `BarrierAdd`, `BarrierReset`, `BarrierBump`,
`BarrierWake` and `BarrierSpin` are the accesses of `reduct_task_barrier`,
entered three times; `GcStore`, `GcMark`, `GcExchange` and `GcSweep` lie between
them. The traversal of the heap is one step; what matters here is who is in it
when.

**ItemHeap.** An item is a slot of a block. `PopFree`, `TakeGlobal` and `NewBlock` are
the three ways of `reduct_item_new`, each with the order in which the lists are
chained; `malloc` gives the lowest free address, so that memory is used again as
soon as it can be. `Collect` is everything between the first and the last barrier
of `reduct_gc`: the marks, then the sweep, block by block. A payload survives the
item's death, as in a release build, and a new list finds it (`Uninitialized`).

**HeapProgram.** The entries of `stack` are frames and, between them, the C frames
of `map`, `reduce`, a join, a task or the inline call of a refused future. An
instruction is a step; a value goes by `Deliver` to the entry that waits for it
(`ToCode`, `ToMap`, `ToReduce`, `ToFuture`, `ToHost`), and `GcCheck` is where the
code has `REDUCT_GC_CHECK`. `RaisedCount` is the count that `reduct_eval_call` lets
the frame restore. The code of the programs is in `MCHeapProgram`, written as the
generator emits it (register counts without parameters included). A future keeps
its callable and arguments, and its result behind them when it is done. `Holds`
says what each entry will use again, from its C variables and from the registers
its code has written in this call, not from what the collector takes for roots.

**RwMutex.** The mutex is held from the start of an operation to its end or to
its wait, so an operation up to a wait is one action; a wait is a program point
(`r_wait`, `w_wait`) that a broadcast or a spurious wake-up turns into a retry.

**EvalStack.** The C stack is a sequence of activations: a run with the frame
count it started at, a native with the operation it performs, a try with its
phase and saved counts, a task's worker function. `Throw` unwinds to the last
handler, `CatchAt` restores what that handler restores: `reduct_try` puts both
counts back, the worker functions do not. `spilled` is a history variable: it becomes
true when a worker that a join executes catches an error and frames of the runs above
it stay (`Spills`), because that is where the discipline ends. Instructions that only compute are
left out, they touch none of this. A function has its `Arity` and its
`Registers` separately, for `registerCount` does not count parameters
(`emit.c:113`): a frame may reserve fewer registers than it has arguments.

**AtomMap.** `ReadLookup` is the search under the read lock, `WriteLookup` the
second search, growth, insertion and rename under the write lock; between them
other threads and the sweep act. The table is a function on its slots and
probing is the code's triangular sequence. A quoted string's text is another
string (`Text`), which is all that escapes do here. Growth (`Rehashed`) moves the
slots of the old table in order, one value of the function `Moved` per slot.
`Texts` maps the atoms to those of `InternTable`: there a lookup finds (`Hit`) or
makes (`Make`) an atom in one step and a sweep frees some (`Free`), while a search
that misses under the read lock only lets go of the atom its thread had (`LetGo`).
`Make` is not allowed when an atom with the text is there and the text stands for
itself; of other texts the code makes a second atom (section 4), so the table allows
that. And `Hit` looks for the spelling, so that for a spelling with escapes it may give
an atom whose text is not what they stand for, which is what `LookupReadsText` is about.

**ParallelSeq.** `Loop` is the sequential path for short lists, `Fork` creates
the task of one item or calls it inline when refused, `Work`, `TestError`,
`CopyError` and `Finish` are the steps of a task, whose test and copy of the
shared error are separate accesses. `Join` is one round of the loop of joins, in
which `map` takes its results; `CollectBegins`, `Collect` and `CollectEnds` are the
loop of `filter` and `find` over the results, a round per step; `Leave` looks at the
error, which `find` does before its loop and `filter` behind it. A task that fails
writes no result, and its caller uses what the scratch buffer holds in its place:
its truthiness is arbitrary (`Truthiness`), its release does nothing or clears the flag
of any other result (`Released`), and any of these, or a collection that marks it in
the list of `map`, may end the program (`Fault`, phase `"crashed"`). The verdicts of
the callable are chosen once per list, so they are the inputs of the run.

**Emit.** `Init` and the `Add...` actions build the graph of a body, one node at a
time and each node after its operands, as `build.c` and `rvsdg.c` can;
`Parallelise` is the optimizer's pass that turns calls into futures. `Compile` is
`reduct_emit_function`: the operators above it are the functions of `emit.c` under
their names, each from an emitter (registers, cache, code so far) to the next one,
with what the C function returns in the fields `reg`, `expr` and `places`. The
recursion of `EmitOrigin` is that of the code. `Start` and the actions after it
execute the code on a frame, one instruction per step (`eval.c`), until `Ret` or
`TailCall`. Values are terms built from the parameters, so two different
computations never give equal values by chance; the outcome of the branch's
predicate is chosen at the start, and a skip or jump on anything but that
predicate does not follow it. `Meaning` is what the graph says, computed without
registers. A call destroys the registers from its base upwards, as the callee's
frame may. Operators are one kind of node (`cmp`, which stands for every
instruction with a target and two operands), since the generator only tells
comparisons apart, and those at a branch.

**SharedArrays.** A value is a list or a string with the items it should have
(`val`, the promise) and a window on a chunk of an arena (what it does have,
`Contents`); values of up to `SmallMax` items keep them in the item. `StartAppend`,
`StartPrepend` and `StartConcat` take the operands, `TailLook` and `HeadLook` read
the flags without synchronisation, `TailClaim` and `HeadClaim` are the
`atomic_fetch_or` that decides, with the write into the array, and `Copy` is the
path without room. `Slice` makes a window with flags of its own. `SuperLook` and
`SuperGrow` extend a string in the arena it ends, without a lock: the counter
that is written may be the one that was read (`seen`). The flags do not protect
windows that share an end, each with a flag of its own, and strings of another
thread are not protected at all. All of that is in the model; `contested` is a history
variable that becomes true when a list claims an end for which another one has an
unused flag too (`Contest`), or a thread sets out to grow a string in an arena that is
not its own, and from then on nothing is claimed. Scratch buffers and the collection of an arena's
items are left out.

**Library.** Every native is an operator of its name with a capital letter
(`Nth`, `Assoc`, `Slice`, `Split`, `AssocIn`, ...), its helpers too; `Error` is a
native that throws, `Undefined` one of which the build decides (a division by
zero). The unsigned subtractions at the edges are kept: `SplitFromFar`,
`NormalizeIndex`. Callables are a few names (`Calling`), because what matters of
them is when and on which items they are called; characters are those whose class
or order differs. `LibraryProgram` has two kinds of programs: one that grows,
rearranges and converts a value, where every property is evaluated with every
operand in every state; and one that changes an association list, next to the map
from paths to leaves that it stands for.

**Compiler.** A graph is a record of nodes and regions, an origin a tuple of its
kind, its node or region, and its index; use lists are computed (`Uses`). `Build`
follows the functions of `build.c`; those that walk a list while they nest
branches (`cond`, `and`, a chain of comparisons, `match`) appear as forms with what
is left of the list, so that building is one recursive function. `Localize`,
`LiftOrigin`, `PhiWrap`, `CopyInto` and the passes keep the names of the code. A
step of `Compiler` is one rewrite of one node: `walk` is the stack of calls of
`reduct_optimize_region`, `Walk` goes on to the next node that the pass changes,
inner regions first, and deletes those without users on the way, as the code
does; nodes of a region are visited in the order in which they came into it (a node that
gamma folding moves gets a new number, `MoveNodes`), the next one being read before the
pass is applied (`Following`): if the pass deletes that one, the round is over. `Flags` and
`Schedule` are `reduct_optimize_flags_t` and `reduct_optimize`. A pass goes through
a region until nothing changes there, and then answers that nothing did: the
region outside is not visited again, and the loop of `reduct_optimize_simplify`
(`while (changed ...)`) never goes round a second time. `GraphMeaning` is lazy, for
the graph is: an argument is where it comes from. Effects are a set of calls of
impure natives, not a sequence: the documentation promises no order, and
`MeaningKept` asks that the same calls are made. Numbers are integers, and a
division that has a rest is left out as an error. `Language` and the samples of
`MCCompiler` were compared with the program itself: the samples with a value that
can be printed, written as source and run at the levels 0 to 3, gave the value that
`MeaningOf` gives.

`Known` is a subset of four names of defects, each of which switches a restriction
off: which bodies are compiled (`Sealed`, `TestsNoFuture`, `ClosuresInRows`) or
whether a comparison may be unordered (`Start`). The passing run has `Known = {}`,
so it says that no body outside of these four goes wrong up to its bounds; the
restrictions exclude some bodies that would not go wrong either. `EmitFork.cfg` and
`EmitShared.cfg` have one name each.

## 3. Runs

A module `MCX` gives the constants of `X` values that a configuration cannot spell
out; where there are none, TLC runs `X` itself.

| Run | Configuration | Bounds | Shows |
|---|---|---|---|
| `ring` | `TaskRing.cfg` | 2 threads, 2 slots, 5 tasks, generations mod 6 | slots are never shared, executed tasks are the pushed ones, a join neither returns early nor misses the end, and the ring implements `TaskPool` |
| `gc` | `GcBarrier.cfg` | 3 threads, generation mod 3 | the world is stopped unless `reduct_free` has begun, one sweep per round, collections happen and end, `reduct_free` returns |
| `eval` | `EvalStack.cfg` | 3 functions (one with fewer registers than arguments), 4 registers, 3 frames, C depth 4; not continued beyond an error that spills frames | each run resumes its own frame; live registers are safe |
| `sched` | `Scheduler.cfg` | master, 2 workers, a tree of 7 tasks three levels deep, queue of 2 | structured, once each; evaluation and shutdown end |
| `rwmutex` | `RwMutex.cfg` | 5 threads | exclusion, exact counters, nobody forgotten, progress; no deadlock (checked) |
| `atoms` | `AtomMap.cfg` | 2 threads, 3 items, 8 slots growing to 16, 4 strings | searches end, slots and atoms agree, plain strings are unique and found, and the map implements `InternTable` |
| `seq` | `ParallelSeq.cfg` | threshold 2, lists up to 3 | the items the loop chooses, or its error; no task or retained flag outlives a call that returns or rethrows |
| `emit` | `Emit.cfg` | bodies of 1 parameter and 4 more nodes, at most one branch, list, constant, captured value and closure each | the code answers what the body means and makes its calls; registers lie in the frame |
| `arrays` | `SharedArrays.cfg` | 2 threads, a list and a string at first and up to 5 values, items in place up to 1, room for at least 8 items in a list; not continued beyond a contested end | values keep their items, chunks do not overlap, whatever two threads do at once |
| `heap` | `HeapProgram.cfg` | 2 threads, 7 programs, 12 blocks of 2 items, queue of 1, 16 registers a thread | what the program can get at is never free, whenever the collector runs; nothing stays retained by nobody; no deadlock (checked) |
| `library` | `LibraryProgram.cfg` | up to 5 items or characters, 2 numbers, 4 characters, 4 texts; 5 paths over 2 keys, 4 changes | sorting, positions, taking apart, ranges, occurrences and paths agree on every value |
| `compile` | `Compiler.cfg` | 789 programs, levels 0 to 3 | edges stay in their region and ports are paired, value and effects are kept by every rewrite, compilation ends |

**Why these bounds are enough to be worth running.** Two slots and five tasks
take every slot through more than two rounds, so that a thread delayed in a push
or pop finds its slot one and two rounds on; the generation counter is wide
enough that no two live rounds coincide, which the code gets from 65536
(`RingAssumption`: more generations than slots). Three threads at a barrier are
the least with a fast thread, a slow thread and a last one; modulo 3 the
barrier's generation wraps within two collections. Two workers, a master and
seven tasks over two slots make refusals, inline calls and joins that execute a
stranger's task all happen. Five threads on the lock are two of each kind and
one more. The smallest map has eight slots, fills to its limit of three quarters
with live atoms and tombstones, and grows once. A list of three items is longer
than the threshold by one, so that an item, an earlier and a later one can each
be refused, fail, or be the answer. Four nodes besides the parameter are
what each interaction of the generator takes: a value with two users and
another one between them; a comparison, two branches and something after them; two
futures and their user. Six registers are more than most such bodies need and
fewer than a few of them do, so the refusal at the limit happens too. All 84,075
bodies that can be built within these bounds and the restrictions above are
compiled, and run. Five values
are three operations on the two there are at first: enough for both threads to
extend one value at once and for a third operation on either result or a slice of
it, and for the first arena to fill and a second one to begin. `EvalStack` and
`SharedArrays` have a CONSTRAINT (`Orderly`): what lies beyond an error that spills
frames, or a claim that is contested, is not explored, for nothing is claimed there. Five items are an odd and an even length on both sides of the
widths 1, 2 and 4 of the merge sort, and let a text of two characters occur
twice, overlap itself and end the string. Blocks of two items are the
least that can be part alive; with them every second allocation asks for a
collection, so one falls between almost any two steps, blocks are given back and
their addresses come again. The seven programs are `map` and `reduce` with
callables that give a new value, their argument, or something else after
allocating; `reduce` by the native `map`, whose accumulators are in no register;
one function called twice over the same registers; two futures, one of them
refused, with a capture; and two of these at once on two threads. Two threads are
an evaluation and a worker; a join takes tasks as the worker does. Five paths have every relation two
paths can have: the same, one inside the other, with a common key and with none.
The 789 programs are every operator with every operand for which the optimizer
has an identity; branches with five conditions and five sides each, effects, local
functions and shared values included; lookups in association lists of which only
keys are known, along paths that are there, that are not and that go through a
leaf; every other form; captures over two levels, functions with any number of
arguments, recursion and functions as arguments. Most come twice: called once,
where level 3 knows the arguments, and in a function that calls itself, where no
level does. 14 of them throw, and only have to be compiled without breaking the
graph. The invariants proved by TLAPS hold for every value of these constants.

**Deadlock.** The check is off where the system really may stop: the finite set
of tasks has been executed, `reduct_free` has returned, the evaluation or the
function has returned, the bounded map is full, the values are made, the program
is compiled.

**Fairness.** `GcBarrier`: weak fairness of the check, of each step of a
collection and of falling asleep, because evaluating threads reach a check
between instructions; strong fairness of the exit of a worker, whose evaluation
returns to its loop again and again. `eval.c:415` (the tail call of a closure)
has no check; a thread in an endless loop of those would break the assumption,
and is listed as a hazard. `Scheduler`: weak fairness of every step of a
running thread, strong fairness of taking the pool's mutex, which becomes free
again and again, and nothing about signals: a missed one stays missed until
another comes. No fairness of spurious wake-ups anywhere. `RwMutex`: weak
fairness of retrying once woken and of unlocking (locks are held for a bounded
time), none of asking for the lock. `Compiler` is one thread: weak fairness of
`Next`, written as `[]<>Ended \/ []<><<Next>>_vars` because a step is enabled just
when the compilation has not ended and TLC need then not compute whether it is.

**Memory.** Atomic accesses are modelled as sequentially consistent; what weaker
orderings of the C11 atomics would add is outside the models. Plain accesses
are shown not to race where that is the point (`SlotExclusive`,
`LeavesNothingBehind`).

## 4. Findings

Every run passes. Six more configurations lie beside the runs, in which TLC finds
a violation; each was reproduced with the program. The runs of the same modules
claim nothing from the step on that leads there, leave it out, or do not state the
property.

* `SharedArraysFree.cfg` (`ItemsKept`) — a slice that reaches the end of
  its list has a flag of its own for that end (`src/list.c:147`), so both may be
  appended to in place, and the second one overwrites what the first one got. The
  documentation calls locals immutable "just like everything else"
  (`README.md:394`). At `-O3`, with a as
  `(append (list "1" "2" "3" "4" "5" "6") "7")`, b as `(rest a)`, c as
  `(append a "D")` and d as `(append b "E")`, c ends in `"E"`.
* `HeapProgramStale.cfg` (`CollectorStaysInside`) — the registers of a frame are
  roots before it has written them (`src/gc.c:121`). What they still hold may be in
  a block that an earlier collection gave back, and marking it writes there
  (`src/item.c:497`); an address sanitizer stops the program at this point.
* `EvalStackTasks.cfg` (`OwnFrames`) — a failed task leaves its frames behind.
  `src/future.c:18` and `src/standard.c:109` catch an error without restoring
  `frameCount` and `regCount`; executed inside another evaluation's join, the
  join's caller then resumes one of the failed task's frames.
* `AtomMapEscape.cfg` (`LookupReadsText`) — after growth a quoted string with an
  escape can be looked up as an atom whose text is the unprocessed spelling
  (`src/atom.c:80`).
* `EmitFork.cfg` (`AnswersAsTheGraph`) — the comparison a terminated branch inverts
  is looked for at the position before its operand was emitted (`src/emit.c:787`);
  a future as the right operand puts its join there, nothing is inverted, and the
  wrong branch is taken: at `-O3`,
  `(map (list (list 1 2) (list 3 3)) (lambda (x) (if (== (first x) (last x)) "eq" "ne")))`
  gives `("eq" "ne")`.
* `EmitShared.cfg` (`AnswersAsTheGraph`) — a value emitted inside one branch is
  offered by the cache to what follows (`src/emit.c:1017`), where it is missing when
  the other branch was taken:
  `(map (list 1 5) (lambda (x) (do (def y (* x 2)) (+ (if (> x 3) y 1) y))))`
  gives `(2 20)` instead of `(3 20)`.

Others were met on the way and have no configuration. In the evaluator, the atoms
and the generator, where the models make the same steps as the code:

* `src/eval.c:681`: `reduct_eval_call` raises `regCount` before the frame saves it,
  so every call from native code returns with registers still reserved, where
  `eval.h:43` has the previous count restored. `HeapProgram` shows what this is good
  for: `RET` leaves the result in the first of those registers, which is all that
  keeps the accumulator of `reduce` once its callable has returned it unchanged
  (`src/standard.c:280` retains it, the next line releases it: retained is a flag).
  With the count put back, `NothingInUseIsFree` fails.
* `src/standard.c:126`: the handles of the list of results are not initialised while
  the list is retained and the callable runs; the collector marks what it finds
  (`Uninitialized`).
* `src/standard.c:128`, `src/future.c:69`: the list of results, and a future that the
  queue refused, stay retained for ever when the callable throws.
* While a program is compiled the graph is no root; a native that the optimizer
  calls and that joins tasks lets a collection in:
  `(len (map (range 0 100000) --))` crashes at `-O2` and `-O3`.
* `src/emit.c:585`: the number of arguments is cut to eight bits; a list of 300
  constants has the length 44.
* `src/atom.c:333`: a quoted string with an escape is never found again before the
  map grows, and every lookup makes a new atom.
* `src/standard.c:1368`: `find` over 128 items or more returns the callable's result,
  where the loop for shorter lists (`:1327`) and `README.md:1224` have the item.
  `SameItemsAsTheLoop` leaves open what `find` gives for its item on a long list.
* `src/standard.c:164`, `:235`, `:239`: a failed task writes no result, and `map`
  puts what the scratch buffer holds in its place into its list and releases it,
  `filter` asks for its truthiness and releases it, before either looks at the error
  (`Released`, `Truthiness`, `Fault`). What is found there may be a handle of an item
  that is no more.
* `src/standard.c:155`: an error in a call made inline unwinds `map`, `filter` or `find`
  while their other tasks go on writing into the frame and the buffer that are gone
  (phase `"thrown"`, of which `LeavesNothingBehind` says nothing).
* `src/arena.c:87`: a string that another thread made is extended in the arena of that
  thread without a lock; the chunk is handed out twice (`SuperGrow` with a counter read
  before). `ChunksApart` does not hold after it.
* `src/task.c:81`: 65536 tickets after its own, the generation that a join waits to see
  change is there again.
* `src/emit.c:813`: inverting an ordered comparison swaps the branches for NaN
  (`"unordered"` in `Known` of `EmitShared.cfg` instead shows it).
* `src/emit.c:663`: a closure has two entries in the cache, and its register is given
  back twice (`"closure"` in `Known`, with `Kinds` `cmp`, `call`, `lambda`, `gamma`,
  shows it);
  `(map (list 5 6) (lambda (x) (do (def g (lambda (a) (* a x))) (def h (lambda (b) (+ (g b) 1))) (last (list h (- (* x x) (len (list x x))))))))`
  fails at `-O0` to `-O2`.

In the compiler, reproduced with the program; the samples of `MCCompiler` do not
contain them:

* A constant call is folded by making it, and what it throws refuses the program,
  although the call might never be made:
  `(try (lambda () (nth (list 1) -5)) (lambda (e) "caught"))` fails at `-O2` and
  `-O3` (`src/optimize.c:164`, `:90`).
* A native ending in `!` that is called by another name is folded
  (`src/optimize.c:61`); equal calls of it in one region are merged
  (`:1066`), and unused ones are deleted.
* An inlined capture is lifted by one region only (`src/optimize.c:27`); a closure
  called in a branch of a loop then uses a value of a region two levels up.
* A function applied to itself is inlined for ever at `-O3`:
  `(def f (lambda (self n) (if (< n 1) 0 (self self (- n 1))))) (f f 3)`.
* A value that common node elimination shares between branches is computed in one
  of them and reused in another.
* Entries of one item are keys for the optimizer and not for the library (`keys`,
  `assoc-in`, `dissoc-in`), `(merge)` is nil for the one and an error for the other,
  and `nth` of a list literal drops the effects of the other items.
* Identities of the algebra hold for numbers and are applied to anything: `x|0`,
  `x&x`, `x+0`; `x<x` and `x&0` drop the effects of `x`.
* While a name is being defined, its use inside a wrapped lambda means the lambda:
  `(lambda (n) (do (def y (if (< n 1) 5 y)) y))` yields the enclosing function, and
  `(def y (if 1 y 0)) y` at top level crashes.

In the library, where `Library` makes the same steps and the properties state the
operands they speak of:

* Sorting is not stable for a callable that does not hold for equal items, such as
  `<` (`src/standard.c:366`); `README.md:1216` says it is.
* `split` and `replace` subtract lengths without a sign when the text is longer than
  the string (`:1966`, `:1189`, `:1209`); a chunk size of zero divides by zero
  (`:1295`).
* `flatten` with a depth removes one level less than it says (`README.md:1308`,
  `standard.c:1098`); `PartsMakeTheWhole` flattens without a depth only.
* `nth` of an index before the first item throws (`:451`), where `README.md:1238` gives
  the default or nil, and `assoc` and `update` there throw although a fill is given,
  where `README.md:1284` extends the list; `PositionsAgree` is stated for the other
  positions.
* `reduce` takes a nil accumulator for none;
  `(concat (slice "abc" 0 0) "bc")` is a list; `dissoc-in` of a key that is there
  twice reveals the second.
* `find` does not release what it retained for its tasks (`:1362`).

## 5. Proofs

All proofs are checked to the last leaf by `tlapm`.

**TaskRingProofs** proves, for any set of threads, any number of tasks, at least
two slots and more generations than slots (`RingAssumption`), the type invariant
(`Typing`), `SlotExclusive`, `RunsWhatWasPushed`, `JoinWaits`, `JoinSeesEnd` and
that the ring implements `TaskPool` (`Refinement`). None of these is inductive.
The invariant `IndInv` adds to `TypeOK`

* `OrderInv`: tickets are taken in order, and a ticket is not claimed before
  the one a round earlier has finished;
* `OwnerInv`: a ticket has one thread;
* `SlotInv`: what a slot's generation says about the last ticket of that slot;
* `CasInv`: what a thread still knows between its test of the generation and its
  compare-exchange, provided that the counter has not moved: this is why a
  stale test is harmless;
* `DataInv`: from the fill to the read a slot holds its ticket's task, and
  executed tickets were popped.

Each action's case is split into the parts it can disturb. Generations are
compared modulo `GenMod`, so the argument needs that two tickets of one slot
less than a full turn apart differ in their generation: a lemma about `%`.

**RwMutexProofs** proves for any finite set of threads `LockSound` (`Exclusion` and
`Accounting`) and `NobodyForgotten`, from the invariant that the counters are the
cardinalities of the sets of readers and of waiting writers, that a writer
excludes readers and that there is at most one writer.

**GcBarrierProofs** proves `StopTheWorld` and `OneSweepPerRound` for any finite
set of threads and any `GenMod` of at least 2, the one fact about the generation
that the barrier needs: a thread that has been let through must see another one.
Neither property is inductive, and no statement about two threads is: what holds
them is where all threads are. The invariant `IndInv` has three parts:

* `Together`: there is one of the three barriers that every thread is on its way
  to, waits at, or, having been let through the one before, comes to next; and
  what that stage says of the request and the sweeps. Before the first barrier,
  whoever has set out for it has made the request (`Stage1`); between the first
  and the second nobody withdraws it (`Stage2`); from there on either it stands
  and nobody has swept, or it is taken, and one thread sweeps or one sweep is
  done (`Stage3`);
* `GenInv`: which remembered generation is that of the filling barrier;
* `CountInv`: the counter is the number of threads that have arrived, and a
  thread that resets it or opens the barrier does so while all others wait.

The case that carries the argument is `Bumping`: opening the barrier turns all
who have arrived into ones let through and so moves everyone to the next stage
in one step. The invariant is claimed only until `reduct_free` sets the shutdown
flag, which lets threads leave a barrier that has not filled; that is what the
two properties say as well, and a hazard of its own. TLC checked `IndInv` as an
invariant on three threads before it was proved (167 205 states).

**SchedulerProofs** proves `Structured` and `RunsOnce` for any finite or infinite
sets of threads and tasks, any calls `Kids` and any size of the ring, and that a
step of the scheduler is a step of `TaskPool` or leaves it alone (`UsesPool`, so
`Spec => Pool!Spec`). With `Refinement` of the ring that closes the gap between
the two: the scheduler needs nothing of the queue but what the ring delivers.
`SchedulerAssumption` has one part that matters, that a call is forked once: a
task is an activation, not a function, so no two calls in the tree are the same
one. Neither property is inductive. That the child a parent forks next is new
cannot be seen on the parent's stack: `IndInv` adds to `TypeOK`

* `LogInv`: tickets stand for different tasks, and none for one called inline;
* `StackInv`: an activation with a ticket is what keeps that ticket popped or
  running, one without stands for a task without a ticket, and the children it
  has joined are done;
* `PointInv`: a thread inside `reduct_task_create` has a child left to fork, one
  that starts a task took it from the queue;
* `ForkInv`: whatever is known of a task, in the log, on a stack or among those
  called inline, its parent is done or has gone past the place where it forks it.
  As a call has one such place, a parent about to fork finds its child unknown.

`TaskDone` never becomes false again, which is why children that are
joined need not be watched any more. TLC checked `IndInv` on the instance of the
run (25 326 states).

**EvalStackProofs** proves `ResumesCaller` and `RegistersSafe` for any functions,
arities and register counts, and any bounds on frames and depth. No behaviour is
assumed away: the invariant, like the two properties, is claimed until an error that a
task's worker catches leaves frames on top of those of a run that joins the task
(`~spilled => IndInv`), because from that step on it is false; `EvalStackTasks.cfg` has
the counterexample (section 4). Tasks that fail where no run lies below them, errors
caught inside a task, and errors that unwind through natives, tries and any
number of runs, are covered. A throw takes away several functions of the C stack
and several frames at once, so nothing about the innermost run alone is
inductive. `IndInv` says of the whole stack

* `RunsInOrder`: each run starts above the frames of the runs below it;
* `RunsOwnFrames`: the frames between the beginnings of two successive runs
  belong to the lower one;
* `TriesBetween`: the frame count a handler will restore lies between those of
  the runs below and above it, and its register count above the registers of the
  frames that will be left;
* `TailCallsOnRuns`: a native called by a tail call lies directly on its run, which
  goes on or returns as the code of `TAILCALL` does;
* `FramesStacked`: frames lie in order, each end covered by what the next one
  saved, ends of another run's frame by the next one's base.

TLC checked `~spilled => IndInv` on the instance of the run (1 411 272 states).

**ParallelSeqProofs** proves `SameItemsAsTheLoop` and `LeavesNothingBehind` for lists
of any length and any threshold, as far as they go: not what `find` gives for its item
on a long list, and not what an error in a call made inline leaves behind. What is hard is the error: it is written in two
parts by any number of tasks, and read when all are joined. `ErrorInv` says that
from the moment one failed task has looked at the error, each half of it has been
stored or is about to be by a task that has not finished; so once every task is
joined (`PhaseInv`) the error is whole, or no call failed. `TasksInv` derives what
is written and retained from a task's state, `AnswerInv` and `RetainedInv` say that
the caller's loops have dealt with what lies before their counter: `Kept` for
`filter` (nothing but the items with truthy results, in order), `NoneYet` for
`find`. After a failed call `filter` collects garbage; its invariant is claimed only
without one, and `Leave` throws the rest away. The release of a result that was never
written may clear the flag of another, never set one, so `RetainedInv` bounds the
retained results from above. TLC checked `IndInv` on the instance of the run (44 512
states).

**SharedArraysProofs** proves `ValuesKeepTheirItems` and `ChunksApart` for any number
of threads, values and items and any constants of the layout. No behaviour is assumed
away: the invariant and both properties are claimed until an end is contested
(`~contested => IndInv`), that is claimed while another list has an unused flag for it,
or until a thread grows a string in an arena that is not its own. The code
prevents neither, and from that step on the first property is false: `SharedArraysFree.cfg`
has the counterexample, and it can be reproduced with the program (section 4). So the
theorems say exactly how far the two flags protect. What is not inductive about the properties is that they
say nothing of the room around a window. `IndInv` says

* `AllSound`: a window lies in its chunk, the chunk in what the arena has handed
  out, and the cells of the window hold the promised items;
* `AllApart`: chunks of two values do not overlap, or they are the same array (for
  strings: begin at the same place), and then `Leads`: a list whose end is unused reaches
  as far as any window on the chunk. If no other list has an unused flag for the same
  end, whoever sets that flag writes beyond the farthest window, where none lies, and
  the list it makes reaches farthest in turn; a slice that cuts off an end has the
  flag of that end set. Two lists may both reach farthest, each with an unused flag:
  that does no harm until one of them claims the end;
* `JobsOK`: what a thread saw when it looked at its operands (the kind, the room,
  for a string that it ends the arena) still holds when it acts, because values
  never move and only its owner takes from an arena. The flag alone may be stale,
  and that is what the claim finds out.

Each step either allocates (`FreshKeeps`), grows a list (`ListGrows`), slices
(`SliceKeeps`) or grows a string (`SuperGrowKeeps`); the other threads' jobs are kept
by all of them for the same reason (`JobKept`). `contested` never becomes false again
(`Remembered`), so a step into a state where it is false begins in one where the
invariant holds. That `reduct_arena_get` ends with room
enough is an induction (`Doubled`), as is the existence of that function. The
library's induction cannot be used, so `SetInduction` derives it for sets of numbers
from the well-foundedness of inclusion between finite sets: a nonempty set of numbers
has a least element, so a set that has 0 and with n has n + 1 has all. TLC checked
`~contested => IndInv` on the instance of the run, with symmetry switched off
(1 293 646 states).

**AtomMapProofs** proves `MapConsistent`, `ProbeEnds` and that the map implements
`InternTable` (`Refinement`), for any number of threads, items and strings, any
function for the hash, any escapes (`Text`) and any power of two from 8 on as the
first size. The run has four strings, whose hashes are chosen; here nothing is assumed
of them. There are two reasons why a search succeeds.

* It ends, because triangular probing visits every slot of a table whose size is a
  power of two (`ProbesCover`) and one slot is empty. The first is number theory: two
  probes of one slot make the product of the difference of their numbers and one more
  than their sum a multiple of twice the size; one of the two factors is odd, so the
  other is a multiple by itself (`OddFactor`) and too small to be one. The probes of
  one round are therefore different, as many as the slots, and so all of them. The
  second follows from the counts by which growth decides: `size` is exact and
  `tombstones` not too small, although the rename counts tombstones that are not
  there, so that an insertion begins with two empty slots (`Spare`).
* It meets the atom, because of `Reaches`: an atom whose text stands for itself sits
  on the probe sequence of its hash behind slots that are all in use. Insertion puts
  it there, burial leaves a tombstone, which is in use, and growth builds a table for
  which it is true again: an induction over the slots of the old one (`MoveOK`),
  with `SetInduction` as above. So a search that meets an empty slot has passed
  every place where the atom could be (`NotThere`), and the insertion after it makes
  no second atom.

The invariant `IndInv` is `TypeOK` and `Fits`: `Holds` and `Indexed` (slots and atoms
point at each other, one slot per atom), `Reaches`, `Hashed` (an atom has the hash of
its text, once renamed), `Distinct` (of the atoms their own text finds, no two are the
same), `Room` and the two counts. `MapConsistent` is not inductive: it does not say
where on the sequence an atom is. Of an atom made of a spelling with escapes, nothing
but `Hashed` and its slot is claimed: it sits on the sequence of another hash until the
map grows. TLC checked `IndInv` on the instance of the run (340 901 states).

**Model-checked only.** All liveness (`CollectionHappens`, `CollectionEnds`,
`FreeReturns`, `EvaluationEnds`, `FreeEnds`, `WritersProgress`,
`ReadersProgress`, `Settles`), which is beyond the prover, and the safety
properties of `HeapProgram`: its programs are given one by one, and
`NothingInUseIsFree` is not true of every program that could be written for the
collector, so a theorem would first need a criterion for those that are safe. The type
invariants of the modules with theorems are part of what is proved there; the
other modules have none, for a value of the wrong kind stops TLC or shows in a
property. `Emit`, `LibraryProgram` and `Compiler`
are for TLC only: their operators are recursive, as the code is, and what a
recursive operator computes for every graph, list or program is an induction over
data.

## 6. Not modelled, and the plan

Left out for good: `min`, `max`, the mathematical functions, formatting, printing,
files, time and introspection of the library; imports; the encoding of handles as
NaN boxes; text output (dump, stringify, error messages, opcode names),
the command line tool, compiling and loading shared libraries, the number of
CPUs, `idleCount` (written and never read), thread creation failing.

Planned, most important first; the order is that of what the rest relies on.

1. `SchemaRegistry`: registration under the write lock, and what an error
   thrown while holding it does; composed with the contract of `RwMutex`.
2. `Parser`: nesting, infix operators and quotes over sequences of tokens, put
   before `Builder`.
3. `Emit` with recursion (phi nodes), nested branches and more than two operands,
   put behind `Compiler`: the graph of a sample, once optimised, is executed.
4. `Scratch`, `Modules`, `Natives`: bounded buffers under errors, the module
   table and import paths, the cached lookups.

Theorems worth adding: `NothingInUseIsFree` of `HeapProgram`, for all programs that
keep what they use in registers or retained.
