------------------------------ MODULE ItemHeap ------------------------------
(***************************************************************************)
(* The heap of items: reduct_item_new with its private and global free     *)
(* lists and its blocks (src/item.c), the retained flag, and what          *)
(* reduct_gc does once the world stands still: mark from the roots, sweep, *)
(* give empty blocks back (src/gc.c). GcBarrier models how the world is    *)
(* stopped; HeapProgram the programs that use the items.                   *)
(*                                                                         *)
(* An item is a slot of a block. Its payload keeps its handles when the    *)
(* item is freed, as reduct_item_deinit leaves them in a release build; a  *)
(* block that is given back loses them (calloc clears the next one). What  *)
(* the collector writes into a block that was given back is lost.          *)
(***************************************************************************)
EXTENDS Integers, Sequences, FiniteSets, SequencesExt, FiniteSetsExt

CONSTANTS
  Threads,   (* global->threads                                            *)
  Blocks,    (* the addresses malloc has for blocks; it gives the lowest,  *)
             (* so that an address is used again as soon as possible       *)
  BlockMax,  (* REDUCT_ITEM_BLOCK_MAX                                      *)
  Nil        (* the handle nil, which every collection marks               *)

ASSUME HeapAssumption ==
  /\ IsFiniteSet(Threads) /\ IsFiniteSet(Blocks) /\ Blocks \subseteq Nat
  /\ BlockMax \in Nat \ {0}
  /\ Nil \notin Blocks \X (1 .. BlockMax)

VARIABLES
  block,       (* global->item.block, the list of blocks                   *)
  type,        (* item->type; a closure's is the function it closes over,  *)
               (* a future's tells whether it is done                      *)
  body,        (* the handles in the item's payload                        *)
  retained,    (* the items with REDUCT_ITEM_FLAG_RETAINED                 *)
  globalFree,  (* global->item.globalFreeList                              *)
  localFree,   (* per thread, reduct->item.freeList                        *)
  requested    (* gc->requested                                            *)

heapVars == <<block, type, body, retained, globalFree, localFree, requested>>

Items == Blocks \X (1 .. BlockMax)
SlotsFrom(b, n) == [m \in 1 .. BlockMax - n + 1 |-> <<b, n + m - 1>>]
Exists(i) == i[1] \in ToSet(block)
ItemsIn(handles) == ToSet(handles) \cap Items

HeapInit ==
  /\ block = <<>>
  /\ type = [i \in Items |-> "none"]
  /\ body = [i \in Items |-> <<>>]
  /\ retained = {}
  /\ globalFree = <<>>
  /\ localFree = [t \in Threads |-> <<>>]
  /\ requested = FALSE

-----------------------------------------------------------------------------
(* reduct_item_new pops the private list, or moves up to a block's worth of *)
(* the global list there, or allocates a block and asks for a collection.   *)
PopFree(t, i) ==
  /\ localFree[t] # <<>>
  /\ i = Head(localFree[t])
  /\ localFree' = [localFree EXCEPT ![t] = Tail(@)]
  /\ UNCHANGED <<block, globalFree, requested>>

TakeGlobal(t, i) ==
  /\ localFree[t] = <<>> /\ globalFree # <<>>
  /\ i = Head(globalFree)
  /\ LET count == Min({BlockMax, Len(globalFree)})
     IN  /\ localFree' = [localFree EXCEPT ![t] = SubSeq(globalFree, 2, count)]
         /\ globalFree' = SubSeq(globalFree, count + 1, Len(globalFree))
  /\ UNCHANGED <<block, requested>>

NewBlock(t, i) ==
  /\ localFree[t] = <<>> /\ globalFree = <<>>
  /\ Blocks \ ToSet(block) # {}
  /\ LET b == Min(Blocks \ ToSet(block))
     IN  /\ block' = <<b>> \o block
         /\ i = <<b, 1>>
         /\ localFree' = [localFree EXCEPT ![t] = SlotsFrom(b, 2)]
  /\ requested' = TRUE
  /\ UNCHANGED globalFree

(* The new item i gets its type and payload from its maker, which retains   *)
(* it at once or not.                                                       *)
NewItem(t, i, kind, handles, retain) ==
  /\ PopFree(t, i) \/ TakeGlobal(t, i) \/ NewBlock(t, i)
  /\ type' = [type EXCEPT ![i] = kind]
  /\ body' = [body EXCEPT ![i] = handles]
  /\ retained' = IF retain THEN retained \cup {i} ELSE retained

(* The n handles a new list finds in the payload of item i.                 *)
Uninitialized(i, n) == [m \in 1 .. n |-> IF m <= Len(body[i]) THEN body[i][m] ELSE Nil]

(* reduct_item_retain and reduct_item_release; nil is always reachable.     *)
RetainAndRelease(held, dropped) == retained' = (retained \cup (held \cap Items)) \ dropped

-----------------------------------------------------------------------------
(* Everything that handles(i) leads to from a set of items.                 *)
Reach(roots, handles(_)) ==
  LET reach[found \in SUBSET Items] ==
        LET next == found \cup UNION {handles(i) : i \in found}
        IN  IF next = found THEN found ELSE reach[next]
  IN  reach[roots]

(* reduct_item_mark looks into an item according to its type.               *)
Children(i) == IF type[i] = "none" THEN {} ELSE {j \in ItemsIn(body[i]) : Exists(j)}

Marked(roots) == Reach({i \in roots \cup retained : Exists(i)}, Children)

(* Mutant: the private lists outlive the sweep.                             *)
CollectKeepLists(roots) ==
  LET marked == Marked(roots)
      kept == SelectSeq(block, LAMBDA b : \E i \in marked : i[1] = b)
      all == FoldLeft(LAMBDA list, b : list \o SlotsFrom(b, 1), <<>>, kept)
  IN  /\ block' = kept
      /\ type' = [i \in Items |-> IF i \in marked THEN type[i] ELSE "none"]
      /\ body' = [i \in Items |-> IF i[1] \in ToSet(kept) THEN body[i] ELSE <<>>]
      /\ globalFree' = Reverse(SelectSeq(all, LAMBDA i : i \notin marked))
      /\ requested' = FALSE
      /\ UNCHANGED <<retained, localFree>>

(* reduct_gc between its first and its last barrier: blocks without a       *)
(* marked item are given back, every other unmarked item goes to the new    *)
(* global list, and the private lists are dropped.                          *)
Collect(roots) ==
  LET marked == Marked(roots)
      kept == SelectSeq(block, LAMBDA b : \E i \in marked : i[1] = b)
      all == FoldLeft(LAMBDA list, b : list \o SlotsFrom(b, 1), <<>>, kept)
  IN  /\ block' = kept
      /\ type' = [i \in Items |-> IF i \in marked THEN type[i] ELSE "none"]
      /\ body' = [i \in Items |-> IF i[1] \in ToSet(kept) THEN body[i] ELSE <<>>]
      /\ globalFree' = Reverse(SelectSeq(all, LAMBDA i : i \notin marked))
      /\ localFree' = [t \in Threads |-> <<>>]
      /\ requested' = FALSE
      /\ UNCHANGED retained

Free(i) == i \in ToSet(globalFree) \/ \E t \in Threads : i \in ToSet(localFree[t])

(* An item its user can count on: its block is there, it has its type, and  *)
(* no allocation will hand it out.                                          *)
Intact(i) == Exists(i) /\ type[i] # "none" /\ ~Free(i)
=============================================================================
