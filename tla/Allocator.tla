------------------------------- MODULE Allocator -------------------------------
(***************************************************************************)
(* What a heap promises to its users: blocks of its memory that nobody else *)
(* has, which stay where they are until they are given back.                *)
(***************************************************************************)
EXTENDS Integers

CONSTANT Memory   \* the addresses of the heap
VARIABLE blocks   \* what users have: where a block is and how large

Addresses(b) == b.at .. b.at + b.size - 1

\* A block resized to nothing still has its place.
Place(b) == {b.at} \cup Addresses(b)

IsBlock(b) == Addresses(b) \subseteq Memory

\* b is apart from all blocks of the set.
Apart(b, set) == \A c \in set : Place(b) \cap Place(c) = {}

AllocatorInit == blocks = {}

\* A new block is not empty.
Allocate ==
  \E b \in blocks' :
    b.size > 0 /\ IsBlock(b) /\ Apart(b, blocks) /\ blocks' = blocks \cup {b}

Free == \E b \in blocks : blocks' = blocks \ {b}

\* A block stays where it is.
Resize ==
  \E b \in blocks : \E c \in blocks' :
    /\ blocks' = (blocks \ {b}) \cup {c}
    /\ c.at = b.at /\ IsBlock(c) /\ Apart(c, blocks \ {b})

AllocatorSpec == AllocatorInit /\ [][Allocate \/ Free \/ Resize]_blocks
================================================================================
