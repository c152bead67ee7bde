---------------------------- MODULE SharedArrays ----------------------------
(***************************************************************************)
(* Lists (src/list.c) and strings (src/atom.c) over the arenas             *)
(* (src/arena.c). A list of more than SmallMax items is a window on a      *)
(* chunk of an arena with room on either side. The first append goes to    *)
(* the room behind it and the first prepend to the room before it, without *)
(* a copy; two flags of the list record that its room is used. A slice is  *)
(* another window on the same chunk with flags of its own. A string grows  *)
(* in place if its chunk is the last one of its arena.                     *)
(*                                                                         *)
(* Every value carries the items it should have in "val"; what it does     *)
(* have is read from the arenas (Contents). The flags do not keep the two  *)
(* equal for ever: two lists may end at the same place, each with a flag   *)
(* of its own, and a string may be grown in the arena of another thread.   *)
(* "contested" remembers that one of these has happened.                   *)
(***************************************************************************)
EXTENDS Integers, Sequences

CONSTANTS
  Threads,
  SmallMax,     (* items stored in the item itself: 4 (16 characters)      *)
  LargeMin,     (* REDUCT_LIST_LARGE_MIN, 16                               *)
  ArenaMin,     (* REDUCT_ARENA_MIN                                        *)
  Align,        (* chunks begin at multiples of it: 8 bytes                *)
  FirstLength,  (* the length of the values there are at the beginning     *)
  MaxValues     (* bound: values made                                      *)

ASSUME SharedArraysAssumption ==
  {SmallMax, LargeMin, ArenaMin, Align, FirstLength, MaxValues} \subseteq Nat \ {0}

ExtraRoom == 2    (* REDUCT_LIST_EXTRA_ROOM_FACTOR and REDUCT_ARENA_GROWTH *)
None == 0
Hole == <<>>      (* calloc clears an arena                                *)
Idle == [at |-> "idle", left |-> None, right |-> None, item |-> Hole, seen |-> 0]

VARIABLES
  arenas,   (* every arena with its capacity, what is in use, and its data *)
  current,  (* the arena a thread allocates from                           *)
  values,   (* every list and string made so far                           *)
  job,      (* what each thread is in the middle of                        *)
  contested (* history: an end was claimed while another list could claim  *)
            (* it too, or a string grew in the arena of another thread     *)

vars == <<arenas, current, values, job, contested>>

Indices == DOMAIN values
Large(v) == v.arena # None    (* REDUCT_LIST_FLAG_LARGE *)
RoundUp(n) == ((n + Align - 1) \div Align) * Align
Window(v) == v.pos .. v.pos + v.len - 1
Contents(v) ==
  IF Large(v) THEN [k \in 1 .. v.len |-> arenas[v.arena].data[v.pos + k - 1]] ELSE v.items

(* reduct_list_new: room for twice the items, a quarter of the rest of it   *)
(* before them. A string (reduct_atom_new) gets what it needs.              *)
Capacity(kind, len) ==
  IF kind = "list" THEN (IF len > LargeMin THEN len ELSE LargeMin) * ExtraRoom ELSE len
Headroom(kind, len) ==
  IF kind = "list" THEN (Capacity(kind, len) - len) \div (ExtraRoom * 2) ELSE 0

(* reduct_arena_get doubles the capacity of a new arena until size fits.    *)
Doubled[k \in Nat] == IF k = 0 THEN ArenaMin ELSE Doubled[k - 1] * ExtraRoom
ArenaCapacity(size) ==
  Doubled[CHOOSE k \in 0 .. size : Doubled[k] >= size /\ \A l \in 0 .. k - 1 : Doubled[l] < size]
NewArena(t, size) ==
  [cap |-> ArenaCapacity(size), count |-> 0, owner |-> t,
   data |-> [p \in 0 .. ArenaCapacity(size) - 1 |-> Hole]]

(* reduct_arena_get: the arenas with one of t that has the room, which is   *)
(* the last one if a new one had to be made.                                *)
Room(t, size) == RoundUp(arenas[current[t]].count) + size <= arenas[current[t]].cap
ArenasWith(t, size) ==
  IF current[t] # None /\ Room(t, size) THEN arenas
  ELSE Append(arenas, NewArena(t, size))
ArenaFor(t, size) ==
  IF current[t] # None /\ Room(t, size) THEN current[t] ELSE Len(arenas) + 1

Put(data, pos, items) ==
  [p \in DOMAIN data |-> IF p \in pos .. pos + Len(items) - 1 THEN items[p - pos + 1] ELSE data[p]]

(* reduct_list_new_handles, reduct_atom_new and the copies behind them: a   *)
(* value of the items, in a chunk of its own or in the item itself. For a   *)
(* string the code keeps no offset; here it tells where the chunk begins.   *)
Fresh(t, kind, items, val) ==
  LET len == Len(items)
      cap == Capacity(kind, len)
      a == ArenaFor(t, cap)
      with == ArenasWith(t, cap)
      base == RoundUp(with[a].count)
      off == Headroom(kind, len)
      small == [kind |-> kind, len |-> len, used |-> {}, val |-> val,
                items |-> items, cap |-> SmallMax, off |-> 0, arena |-> None, pos |-> 0]
  IN IF len <= SmallMax
     THEN /\ values' = Append(values, small)
          /\ UNCHANGED <<arenas, current>>
     ELSE /\ arenas' = [with EXCEPT ![a].count = base + cap,
                                    ![a].data = Put(@, base + off, items)]
          /\ current' = [current EXCEPT ![t] = a]
          /\ values' = Append(values, [small EXCEPT !.items = Hole, !.cap = cap, !.off = off,
                                                    !.arena = a, !.pos = base + off])

(* One thread has made a list and a string.                                 *)
FirstItems(k) == [m \in 1 .. FirstLength |-> <<k, m>>]
FirstValue(k, kind, base) ==
  [kind |-> kind, len |-> FirstLength, used |-> {},
   val |-> FirstItems(k), items |-> Hole, cap |-> Capacity(kind, FirstLength),
   off |-> Headroom(kind, FirstLength), arena |-> 1, pos |-> base + Headroom(kind, FirstLength)]
FirstValues ==
  LET size == RoundUp(Capacity("list", FirstLength))
  IN <<FirstValue(1, "list", 0), FirstValue(2, "string", size)>>

Init ==
  \E t \in Threads :
    /\ FirstLength > SmallMax
    /\ values = FirstValues
    /\ LET size == RoundUp(Capacity("list", FirstLength)) + FirstLength
           a == NewArena(t, size)
       IN arenas = <<[a EXCEPT !.count = size,
                               !.data = Put(Put(@, values[1].pos, values[1].val),
                                            values[2].pos, values[2].val)]>>
    /\ current = [u \in Threads |-> IF u = t THEN 1 ELSE None]
    /\ job = [u \in Threads |-> Idle]
    /\ contested = FALSE

(* The operands of a job: a value, or the one item that is new.             *)
Operand(t, side) ==
  IF job[t][side] = None THEN <<job[t].item>> ELSE Contents(values[job[t][side]])
Promised(t, side) ==
  IF job[t][side] = None THEN <<job[t].item>> ELSE values[job[t][side]].val
Joined(t) == Promised(t, "left") \o Promised(t, "right")

MayStart(t) == job[t] = Idle /\ Len(values) < MaxValues
Lists == {i \in Indices : values[i].kind = "list"}
Strings == {i \in Indices : values[i].kind = "string"}
Go(t, at) == job' = [job EXCEPT ![t].at = at]
Start(t, at, left, right) ==
  job' = [job EXCEPT ![t] = [at |-> at, left |-> left, right |-> right,
                             item |-> <<Len(values), t>>, seen |-> 0]]

(* reduct_list_append, reduct_list_prepend and reduct_list_concat.          *)
StartAppend(t) ==
  /\ MayStart(t)
  /\ \E i \in Lists :
       Start(t, IF values[i].len + 1 <= SmallMax THEN "copy" ELSE "tail", i, None)
  /\ UNCHANGED <<arenas, current, values, contested>>

StartPrepend(t) ==
  /\ MayStart(t)
  /\ \E i \in Lists : Start(t, "head", None, i)
  /\ UNCHANGED <<arenas, current, values, contested>>

StartConcat(t) ==
  /\ MayStart(t)
  /\ \E i, j \in Lists :
       Start(t, IF values[i].len + values[j].len <= SmallMax THEN "copy" ELSE "tail", i, j)
  /\ UNCHANGED <<arenas, current, values, contested>>

(* The flags of the operand are read: is there room, and is it unused?      *)
TailLook(t) ==
  /\ job[t].at = "tail"
  /\ LET a == values[job[t].left]
         free == /\ Large(a) /\ "tail" \notin a.used
                 /\ a.off + a.len + Len(Operand(t, "right")) <= a.cap
     IN Go(t, CASE free -> "tail_claim"
                [] ~free /\ job[t].right # None -> "head"
                [] OTHER -> "copy")
  /\ UNCHANGED <<arenas, current, values, contested>>

HeadLook(t) ==
  /\ job[t].at = "head"
  /\ LET b == values[job[t].right]
     IN Go(t, IF Large(b) /\ "head" \notin b.used /\ b.off >= Len(Operand(t, "left"))
              THEN "head_claim" ELSE "copy")
  /\ UNCHANGED <<arenas, current, values, contested>>

(* Another list may claim the same end of the chunk: a slice that shares it *)
(* has taken over the flag as it was (list.c:147), and a list that has      *)
(* grown at one end that of the other end.                                  *)
Contest(i, side) ==
  \E j \in Indices \ {i} :
    LET v == values[i]
        w == values[j]
    IN /\ w.kind = "list" /\ Large(w) /\ side \notin w.used
       /\ w.arena = v.arena /\ w.pos - w.off = v.pos - v.off
       /\ IF side = "tail" THEN w.pos + w.len = v.pos + v.len ELSE w.pos = v.pos

(* Mutant: the flags that atomic_fetch_or returns are not looked at.        *)
TailClaimBlind(t) ==
  /\ job[t].at = "tail_claim"
  /\ LET a == values[job[t].left]
         items == Operand(t, "right")
     IN /\ values' = Append([values EXCEPT ![job[t].left].used = @ \cup {"tail"}],
                            [a EXCEPT !.len = @ + Len(items), !.used = @ \ {"tail"},
                                      !.val = Joined(t)])
        /\ arenas' = [arenas EXCEPT ![a.arena].data = Put(@, a.pos + a.len, items)]
        /\ job' = [job EXCEPT ![t] = Idle]
        /\ contested' = (contested \/ Contest(job[t].left, "tail"))
  /\ UNCHANGED current

(* atomic_fetch_or sets the flag; whoever finds it set already copies. The  *)
(* new list goes on in the same chunk and may use its tail in turn; of the  *)
(* head it takes over what was known of the operand.                        *)
TailClaim(t) ==
  /\ job[t].at = "tail_claim"
  /\ LET a == values[job[t].left]
         items == Operand(t, "right")
     IN IF "tail" \in a.used
        THEN /\ Go(t, IF job[t].right # None THEN "head" ELSE "copy")
             /\ UNCHANGED <<values, arenas, contested>>
        ELSE /\ values' = Append([values EXCEPT ![job[t].left].used = @ \cup {"tail"}],
                                 [a EXCEPT !.len = @ + Len(items), !.val = Joined(t)])
             /\ arenas' = [arenas EXCEPT ![a.arena].data = Put(@, a.pos + a.len, items)]
             /\ job' = [job EXCEPT ![t] = Idle]
             /\ contested' = (contested \/ Contest(job[t].left, "tail"))
  /\ UNCHANGED current

(* Mutant: the new list keeps the offset of its operand.                    *)
HeadClaimOffset(t) ==
  /\ job[t].at = "head_claim"
  /\ LET b == values[job[t].right]
         items == Operand(t, "left")
     IN IF "head" \in b.used
        THEN Go(t, "copy") /\ UNCHANGED <<values, arenas, contested>>
        ELSE /\ values' = Append([values EXCEPT ![job[t].right].used = @ \cup {"head"}],
                                 [b EXCEPT !.len = @ + Len(items), !.pos = @ - Len(items),
                                           !.val = Joined(t)])
             /\ arenas' = [arenas EXCEPT ![b.arena].data = Put(@, b.pos - Len(items), items)]
             /\ job' = [job EXCEPT ![t] = Idle]
             /\ contested' = (contested \/ Contest(job[t].right, "head"))
  /\ UNCHANGED current

HeadClaim(t) ==
  /\ job[t].at = "head_claim"
  /\ LET b == values[job[t].right]
         items == Operand(t, "left")
     IN IF "head" \in b.used
        THEN Go(t, "copy") /\ UNCHANGED <<values, arenas, contested>>
        ELSE /\ values' = Append([values EXCEPT ![job[t].right].used = @ \cup {"head"}],
                                 [b EXCEPT !.len = @ + Len(items), !.off = @ - Len(items),
                                           !.pos = @ - Len(items), !.val = Joined(t)])
             /\ arenas' = [arenas EXCEPT ![b.arena].data = Put(@, b.pos - Len(items), items)]
             /\ job' = [job EXCEPT ![t] = Idle]
             /\ contested' = (contested \/ Contest(job[t].right, "head"))
  /\ UNCHANGED current

Copy(t) ==
  /\ job[t].at = "copy"
  /\ Fresh(t, "list", Operand(t, "left") \o Operand(t, "right"), Joined(t))
  /\ job' = [job EXCEPT ![t] = Idle]
  /\ UNCHANGED contested

(* reduct_list_slice and reduct_atom_substr of a part that is not empty and *)
(* not all: a window on the same chunk. A list's window has the used flags  *)
(* of the ends it shares and sets those it cuts off.                        *)
Sliced(v, s, e) ==
  LET cut == (IF s > 0 THEN {"head"} ELSE {}) \cup (IF e < v.len THEN {"tail"} ELSE {})
      part == SubSeq(v.val, s + 1, e)
  IN IF ~Large(v)
     THEN [v EXCEPT !.len = e - s, !.items = SubSeq(@, s + 1, e), !.val = part]
     ELSE [v EXCEPT !.len = e - s, !.off = @ + s, !.pos = @ + s, !.val = part,
                    !.used = IF v.kind = "list" THEN @ \cup cut ELSE {}]

Slice(t) ==
  /\ MayStart(t)
  /\ \E i \in Indices :
       LET v == values[i]
       IN \E s \in 0 .. v.len - 1 : \E e \in s + 1 .. v.len :
            /\ e - s < v.len
            /\ values' = Append(values, Sliced(v, s, e))
  /\ UNCHANGED <<arenas, current, job, contested>>

(* reduct_concat of a string and one more character: reduct_atom_superstr.  *)
(* reduct_arena_alloc_super takes no lock and goes by the counter of the    *)
(* arena of the operand, whichever thread allocates from that.              *)
LastOfArena(v) ==
  LET a == arenas[v.arena] IN v.pos + v.len = a.count /\ a.count + 1 <= a.cap

SuperLook(t) ==
  /\ MayStart(t)
  /\ \E i \in Strings :
       LET v == values[i]
           item == <<Len(values), t>>
       IN IF Large(v) /\ LastOfArena(v)
          THEN /\ job' = [job EXCEPT ![t] = [at |-> "grow", left |-> i, right |-> None,
                                             item |-> item, seen |-> arenas[v.arena].count]]
               /\ contested' = (contested \/ arenas[v.arena].owner # t)
               /\ UNCHANGED <<arenas, current, values>>
          ELSE /\ Fresh(t, "string", Append(Contents(v), item), Append(v.val, item))
               /\ UNCHANGED <<job, contested>>

(* Mutant: the counter grows by the whole size and by one item too few.     *)
SuperGrowShort(t) ==
  /\ job[t].at = "grow"
  /\ LET v == values[job[t].left]
     IN /\ arenas' = [arenas EXCEPT ![v.arena].data = Put(@, v.pos + v.len, <<job[t].item>>)]
        /\ values' = Append(values, [v EXCEPT !.len = @ + 1, !.val = Joined(t)])
  /\ job' = [job EXCEPT ![t] = Idle]
  /\ UNCHANGED <<current, contested>>

(* The counter is read again for the sum, or the value read before is used. *)
SuperGrow(t) ==
  /\ job[t].at = "grow"
  /\ LET v == values[job[t].left]
     IN /\ \E count \in {job[t].seen, arenas[v.arena].count} :
             arenas' = [arenas EXCEPT ![v.arena].count = count + 1,
                                      ![v.arena].data = Put(@, v.pos + v.len, <<job[t].item>>)]
        /\ values' = Append(values, [v EXCEPT !.len = @ + 1, !.val = Joined(t)])
  /\ job' = [job EXCEPT ![t] = Idle]
  /\ UNCHANGED <<current, contested>>

Next ==
  \E t \in Threads :
    \/ StartAppend(t) \/ StartPrepend(t) \/ StartConcat(t)
    \/ TailLook(t) \/ TailClaim(t) \/ HeadLook(t) \/ HeadClaim(t) \/ Copy(t)
    \/ Slice(t) \/ SuperLook(t) \/ SuperGrow(t)

Spec == Init /\ [][Next]_vars

-----------------------------------------------------------------------------
(* Every list and string has the items it was made of.                      *)
ItemsKept == \A i \in Indices : Contents(values[i]) = values[i].val

(* Nothing that is done to one value changes another, whoever appends to,   *)
(* prepends to, concatenates or slices what it shares its chunk with, and   *)
(* in whatever order two threads do, until an end is contested: claimed     *)
(* while another list has an unused flag for it as well (list.c:147), or a  *)
(* string is grown in the arena of another thread (arena.c:87). From then   *)
(* on it is not so: ItemsKept by itself is refuted by SharedArraysFree.cfg. *)
ValuesKeepTheirItems == ~contested => ItemsKept

(* A window lies in its chunk and a chunk in what its arena has handed out. *)
(* Two values of one arena have chunks that do not overlap, or have the     *)
(* same chunk: of a list, its whole array; of a string, the part from the   *)
(* beginning of the array to the end of the string, for it may grow. So the *)
(* offset of every derived list still tells where its array begins, and no  *)
(* array is handed out again, in part or as a whole.                        *)
Base(v) == v.pos - v.off
Chunk(v) ==
  Base(v) .. IF v.kind = "list" THEN Base(v) + v.cap - 1 ELSE v.pos + v.len - 1
LargeOnes == {i \in Indices : Large(values[i])}
SameChunk(v, w) ==
  v.kind = w.kind /\ IF v.kind = "list" THEN Chunk(v) = Chunk(w) ELSE Base(v) = Base(w)
ChunksApart ==
  ~contested =>
    /\ \A i \in LargeOnes :
         LET v == values[i]
         IN Window(v) \subseteq Chunk(v) /\ Chunk(v) \subseteq 0 .. arenas[v.arena].count - 1
    /\ \A i, j \in LargeOnes :
         \/ values[i].arena # values[j].arena
         \/ Chunk(values[i]) \cap Chunk(values[j]) = {}
         \/ SameChunk(values[i], values[j])
=============================================================================
