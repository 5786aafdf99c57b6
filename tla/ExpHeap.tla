-------------------------------- MODULE ExpHeap --------------------------------
(***************************************************************************)
(* The expandable heap of libstratosphere (lmem_impl_exp_heap.cpp).         *)
(*                                                                          *)
(* Addresses are in units of MinimumAlignment.  A free block is the region  *)
(* [start, end) of its head and its memory; free_list is a sequence, for    *)
(* its order decides which block is taken.  A used block is its memory and  *)
(* the padding and direction in the attributes of its head.  Left out:      *)
(* group ids, magic numbers, and the patterns that fill memory for debug.   *)
(***************************************************************************)
EXTENDS Integers, Sequences, SequencesExt, FiniteSetsExt

CONSTANTS
  HeapStart, HeapEnd,
  HeadSize,                 \* sizeof(ExpHeapMemoryBlockHead), 8 units
  MinimumFreeBlockSize,     \* 1 unit
  MaximumPaddingAlignment,  \* 32 units
  Sizes, Alignments,        \* what users ask for
  NewSizes                  \* what they resize to

ASSUME HeapAssumption ==
  /\ HeapStart \in Nat /\ HeapEnd \in Nat
  /\ HeadSize \in Nat \ {0} /\ MinimumFreeBlockSize \in Nat \ {0}
  /\ HeapStart + HeadSize + MinimumFreeBlockSize <= HeapEnd
  /\ MaximumPaddingAlignment \in Nat /\ HeadSize + MinimumFreeBlockSize <= MaximumPaddingAlignment
  /\ Sizes \subseteq Nat /\ \A size \in Sizes : MinimumFreeBlockSize <= size
  /\ Alignments \subseteq Nat \ {0} /\ NewSizes \subseteq Nat

VARIABLES
  free_list,  \* regions
  used_list,  \* used blocks
  mode,       \* AllocationMode
  heap_end,
  lost        \* history: addresses that are in no list any more

vars == <<free_list, used_list, mode, heap_end, lost>>

Region(start, end) == [start |-> start, end |-> end]
Length(r) == r.end - r.start
Cells(r) == r.start .. r.end - 1   \* its addresses
HoldsBlock(r) == Length(r) >= HeadSize + MinimumFreeBlockSize

MemoryOf(r) == r.start + HeadSize
BlockSize(r) == r.end - MemoryOf(r)

\* GetMemoryBlockRegion, with the padding in front of the head.
RegionOf(b) == Region(b.block - HeadSize - b.padding, b.block + b.size)

Init ==
  /\ free_list = <<Region(HeapStart, HeapEnd)>>
  /\ used_list = {}
  /\ mode = "first_fit"
  /\ heap_end = HeapEnd
  /\ lost = {}

--------------------------------------------------------------------------------
(* AllocateFromHead, AllocateFromTail *)

AlignUp(x, alignment) == ((x + alignment - 1) \div alignment) * alignment

BlockStart(r, alignment) == AlignUp(MemoryOf(r), alignment)

Fits(r, size, alignment) == BlockSize(r) >= size + (BlockStart(r, alignment) - MemoryOf(r))

Fitting(size, alignment) == {i \in DOMAIN free_list : Fits(free_list[i], size, alignment)}

\* Any block that fits, or the smallest ones; the first in the direction of
\* the search is taken.
Candidates(size, alignment) ==
  LET fitting == Fitting(size, alignment)
  IN  IF mode = "first_fit" THEN fitting
      ELSE {i \in fitting : \A j \in fitting : BlockSize(free_list[i]) <= BlockSize(free_list[j])}

FindFreeBlock(size, alignment, direction) ==
  IF direction = "front" THEN Min(Candidates(size, alignment)) ELSE Max(Candidates(size, alignment))

\* Which of the margins before and behind a block become free blocks.
KeepsFront(front, direction) ==
  HoldsBlock(front) /\ ~(direction = "front" /\ Length(front) < MaximumPaddingAlignment)

KeepsBack(back, direction) ==
  HoldsBlock(back) /\ ~(direction = "back" /\ Length(back) < MaximumPaddingAlignment)

If(keeps, region) == IF keeps THEN <<region>> ELSE <<>>

\* The blocks from a to c are erased, others inserted in their place.
Replace(list, a, c, others) == SubSeq(list, 1, a - 1) \o others \o SubSeq(list, c + 1, Len(list))

\* Mutant: the margin in front of a block is not remembered.
UsedBlockUnpadded(block, size, padding) == [block |-> block, size |-> size, padding |-> 0]

UsedBlock(block, size, padding) == [block |-> block, size |-> size, padding |-> padding]

\* Free block i becomes a used block.  A margin in front that is not kept is
\* padding of the block; one behind it is in neither list.
ConvertFreeBlockToUsedBlock(i, block, size, direction) ==
  LET front == Region(free_list[i].start, block - HeadSize)
      back  == Region(block + size, free_list[i].end)
      kf    == KeepsFront(front, direction)
      kb    == KeepsBack(back, direction)
  IN  /\ free_list' = Replace(free_list, i, i, If(kf, front) \o If(kb, back))
      /\ used_list' = used_list \cup {UsedBlock(block, size, IF kf THEN 0 ELSE Length(front))}
      /\ lost' = lost \cup (IF kb THEN {} ELSE Cells(back))

AllocateFromExpHeap(size, alignment, direction) ==
  /\ Fitting(size, alignment) # {}
  /\ LET i == FindFreeBlock(size, alignment, direction)
     IN  ConvertFreeBlockToUsedBlock(i, BlockStart(free_list[i], alignment), size, direction)
  /\ UNCHANGED <<mode, heap_end>>

--------------------------------------------------------------------------------
(* CoalesceFreedRegion *)

\* Where a region comes in the free list.
Position(list, region) == Min({i \in DOMAIN list : list[i].start >= region.start} \cup {Len(list) + 1})

JoinsNext(list, n, region) == n <= Len(list) /\ list[n].start = region.end
JoinsPrev(list, n, region) == n > 1 /\ list[n - 1].end = region.start

\* Mutant: the block behind is not joined.
CoalesceFreedRegionAlone(list, region) ==
  LET n     == Position(list, region)
      prev  == JoinsPrev(list, n, region)
      freed == Region(IF prev THEN list[n - 1].start ELSE region.start, region.end)
  IN  Replace(list, IF prev THEN n - 1 ELSE n, n - 1, If(HoldsBlock(freed), freed))

\* The free list with a region freed, joined with the blocks before and behind;
\* without it when it is too small to be a block.
CoalesceFreedRegion(list, region) ==
  LET n     == Position(list, region)
      prev  == JoinsPrev(list, n, region)
      next  == JoinsNext(list, n, region)
      freed == Region(IF prev THEN list[n - 1].start ELSE region.start,
                      IF next THEN list[n].end ELSE region.end)
  IN  Replace(list, IF prev THEN n - 1 ELSE n, IF next THEN n ELSE n - 1,
              If(HoldsBlock(freed), freed))

\* A block that was resized to nothing.
Emptied(b) == b.size < MinimumFreeBlockSize

\* The head of an emptied block is dropped when nothing free is beside it.
FreeToExpHeap(b) ==
  LET list == CoalesceFreedRegion(free_list, RegionOf(b))
  IN  /\ used_list' = used_list \ {b}
      /\ free_list' = list
      /\ lost' = lost \cup (IF Emptied(b) /\ list = free_list THEN Cells(RegionOf(b)) ELSE {})
      /\ UNCHANGED <<mode, heap_end>>

--------------------------------------------------------------------------------
(* ResizeExpHeapMemoryBlock *)

\* Mutant: the head of the block keeps the old size.
ResizedNot(b, size) == used_list

Resized(b, size) == (used_list \ {b}) \cup {[b EXCEPT !.size = size]}

\* The free block behind b is large enough for b to grow into.
HasRoom(i, b, size) ==
  /\ free_list[i].start = b.block + b.size
  /\ size <= b.size + HeadSize + BlockSize(free_list[i])

\* b takes what it needs of that block, or all of it.
Grow(b, size) ==
  /\ size > b.size
  /\ \E i \in DOMAIN free_list :
       LET rest == Region(b.block + size, free_list[i].end)
       IN  /\ HasRoom(i, b, size)
           /\ free_list' = Replace(free_list, i, i, If(HoldsBlock(rest), rest))
           /\ used_list' = Resized(b, IF HoldsBlock(rest) THEN size ELSE rest.end - b.block)
  /\ UNCHANGED <<mode, heap_end, lost>>

\* b gives back what it no longer needs, unless that is too small.
Shrink(b, size) ==
  LET rest == Region(b.block + size, b.block + b.size)
      list == CoalesceFreedRegion(free_list, rest)
  IN  /\ size < b.size
      /\ list # free_list
      /\ used_list' = Resized(b, size)
      /\ free_list' = list
      /\ UNCHANGED <<mode, heap_end, lost>>

--------------------------------------------------------------------------------
\* AdjustExpHeap gives the memory at the end back.
AdjustExpHeap ==
  /\ free_list # <<>>
  /\ Last(free_list).end = heap_end
  /\ free_list' = Front(free_list)
  /\ heap_end' = Last(free_list).start
  /\ UNCHANGED <<used_list, mode, lost>>

SetExpHeapAllocationMode(new) ==
  /\ mode' = new
  /\ UNCHANGED <<free_list, used_list, heap_end, lost>>

Next ==
  \/ \E size \in Sizes, alignment \in Alignments, direction \in {"front", "back"} :
       AllocateFromExpHeap(size, alignment, direction)
  \/ \E b \in used_list : FreeToExpHeap(b) \/ \E size \in NewSizes : Grow(b, size) \/ Shrink(b, size)
  \/ AdjustExpHeap
  \/ \E new \in {"first_fit", "best_fit"} : SetExpHeapAllocationMode(new)

Spec == Init /\ [][Next]_vars

--------------------------------------------------------------------------------
\* Mutant: the bytes lost to the alignment are not taken off.
AllocatableSizeUnaligned(alignment) ==
  Max({0} \cup {BlockSize(r) : r \in Range(free_list)})

\* GetExpHeapAllocatableSize
AllocatableSize(alignment) ==
  Max({0} \cup {r.end - BlockStart(r, alignment) : r \in Range(free_list)})

--------------------------------------------------------------------------------
Places == [start : Nat, end : Nat]

TypeOK ==
  /\ free_list \in Seq(Places)
  /\ used_list \subseteq [block : Nat, size : Nat, padding : 0 .. MaximumPaddingAlignment - 1]
  /\ mode \in {"first_fit", "best_fit"}
  /\ heap_end \in HeapStart .. HeapEnd
  /\ lost \subseteq Nat

Apart(r, s) == r.end <= s.start \/ s.end <= r.start

InHeap(r) == HeapStart <= r.start /\ r.end <= heap_end
IsBlockOfHeap(r) == InHeap(r) /\ HoldsBlock(r)

\* In the order of addresses, with something between any two blocks.
InOrder(list) == \A i, j \in DOMAIN list : i < j => list[i].end < list[j].start

\* No sequence of calls makes regions overlap or leave the heap; the free list
\* is in order and its neighbours are joined; free blocks have memory behind
\* their head; padding fits its seven bits.  A used block may be resized to its
\* head alone.
HeapInv ==
  /\ TypeOK
  /\ InOrder(free_list)
  /\ \A i \in DOMAIN free_list : IsBlockOfHeap(free_list[i])
  /\ \A b \in used_list :
       /\ InHeap(RegionOf(b))
       /\ \A i \in DOMAIN free_list : Apart(RegionOf(b), free_list[i])
       /\ \A c \in used_list : b = c \/ Apart(RegionOf(b), RegionOf(c))

\* What is freed becomes a free block or part of one (the assertion in
\* FreeToExpHeap, line 464).  A block resized to 0 breaks it once the memory it
\* gave back is in use.
FreeSucceeds ==
  \A b \in used_list : CoalesceFreedRegion(free_list, RegionOf(b)) # free_list

Regions == {RegionOf(b) : b \in used_list} \cup Range(free_list)

Held == UNION {Cells(r) : r \in Regions}

\* The memory of the heap is free, used (with its padding), or was dropped:
\* behind a block when it was allocated, or with an emptied block that is freed
\* with nothing free beside it.  Nothing else loses memory, and what was dropped
\* never comes back.
BytesAreAccounted == Held \cup lost = HeapStart .. heap_end - 1 /\ Held \cap lost = {}

\* What GetExpHeapAllocatableSize promises is found by an allocation, in each
\* mode and direction.
AllocatableIsFound ==
  \A size \in Sizes, alignment \in Alignments :
    size <= AllocatableSize(alignment) <=> Candidates(size, alignment) # {}

\* The heap implements an allocator: what it hands out is apart from all that
\* others have, and stays where it is.
Users == INSTANCE Allocator WITH
           Memory <- HeapStart .. HeapEnd - 1,
           blocks <- {[at |-> b.block, size |-> b.size] : b \in used_list}

AllocatorSpec == Users!AllocatorSpec
================================================================================
