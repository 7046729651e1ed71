----------------------------- MODULE ChildTable -----------------------------
(***************************************************************************)
(* The client's table of child processes, cpa: a heap array (array.c) that *)
(* addChildProcess appends to.  addArrayItem grows it by realloc and keeps *)
(* two sizes that do not agree, memsize and what is really allocated.      *)
(***************************************************************************)
EXTENDS Integers, Sequences

CONSTANTS
  ItemSize,     \* sizeof(struct processChild)
  InitSize,     \* initial_size of initArray
  Children,     \* processes: type and pid
  MaxAdds       \* bound: how many children are forked

ASSUME ChildTableAssumption ==
  /\ ItemSize \in Nat \ {0}
  /\ InitSize \in Nat
  /\ MaxAdds \in Nat

VARIABLES
  alloc,        \* bytes behind the struct that belong to the block
  memsize,      \* what the struct says
  items,        \* the items; their number is itemcount
  extent,       \* one past the last byte ever written to the block
  held,         \* cap->cpa points to the array
  forks         \* how many children were forked

tableVars == <<alloc, memsize, items, extent, held, forks>>

itemcount == Len(items)

(* initArray with shmid -1                                                 *)
TableInit ==
  /\ alloc = InitSize
  /\ memsize = InitSize
  /\ items = <<>>
  /\ extent = 0
  /\ held = TRUE
  /\ forks = 0

(* Mutant: no room is kept for the item that is about to be added.         *)
Full_OffByTwo == memsize < ItemSize * itemcount

Full == memsize <= ItemSize * (itemcount + 1)

(* memmove behind the last item.                                           *)
Store(c) ==
  /\ items' = Append(items, c)
  /\ extent' = ItemSize * (itemcount + 1)

(* What happens to a table that its owner has lost is not defined by C.    *)
Adding == held /\ forks < MaxAdds /\ forks' = forks + 1

AddChild(c) ==
  /\ Adding
  /\ ~Full
  /\ Store(c)
  /\ UNCHANGED <<alloc, memsize, held>>

NewSize == ItemSize * (itemcount + 10)

(* Mutant: the array starts over in the new block.                         *)
AddChildGrowing_Fresh(c) ==
  /\ Adding
  /\ Full
  /\ alloc' = NewSize
  /\ memsize' = memsize + ItemSize * 10
  /\ items' = <<c>>
  /\ extent' = ItemSize
  /\ held' \in BOOLEAN

(* realloc keeps the contents, where they are or elsewhere; every caller   *)
(* of addChildProcess drops the new address.                               *)
AddChildGrowing(c) ==
  /\ Adding
  /\ Full
  /\ alloc' = NewSize
  /\ memsize' = memsize + ItemSize * 10
  /\ Store(c)
  /\ held' \in BOOLEAN

(* realloc fails: the child runs and is not in the table.                  *)
AddChildFails(c) ==
  /\ Adding
  /\ Full
  /\ UNCHANGED <<alloc, memsize, items, extent, held>>

TableNext == \E c \in Children : AddChild(c) \/ AddChildGrowing(c) \/ AddChildFails(c)

TableSpec == TableInit /\ [][TableNext]_tableVars
-----------------------------------------------------------------------------
TableTypeOK ==
  /\ alloc \in Nat /\ memsize \in Nat /\ extent \in Nat
  /\ items \in Seq(Children) /\ forks \in Nat
  /\ held \in BOOLEAN

(* No item is ever written beyond the block, although memsize may say      *)
(* there is room where nothing is allocated (addArrayItem's test leaves    *)
(* one item unused, and realloc is asked for one item less than memsize).  *)
WithinBlock == extent <= alloc

(* memsize is at most one item ahead of the block, and once the block has  *)
(* grown it holds a whole number of items.                                 *)
SizesAgree ==
  \/ memsize = alloc
  \/ \E n \in 0..alloc : alloc = ItemSize * n /\ memsize <= ItemSize * (n + 1)

TableInv == TableTypeOK /\ WithinBlock /\ SizesAgree /\ extent = ItemSize * itemcount

(* A child that is in the table stays there, at its place.                 *)
TableGrows == [][/\ Len(items') >= Len(items)
                 /\ SubSeq(items', 1, Len(items)) = items]_tableVars
=============================================================================
