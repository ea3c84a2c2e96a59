----------------------------- MODULE HeapBlocks -----------------------------
(***************************************************************************)
(* What allocRaw() and freeRaw() promise: the part of the pool in use is   *)
(* divided into blocks, each either given to the program or free, and the  *)
(* program gets the end of a free block that is large enough.  Headers,    *)
(* the order of the free list and the choice of the block are in Heap,     *)
(* which refines this module.  Sizes count units of one header.            *)
(***************************************************************************)
EXTENDS Integers

CONSTANT Units           \* units in the pool

VARIABLES used,          \* blocks given to the program
          free,          \* free blocks
          top            \* units taken from the pool so far

blockVars == <<used, free, top>>

(* A block is the set of its units: first .. last. *)
Block(first, size) == first .. (first + size - 1)

Init == used = {} /\ free = {} /\ top = 0

(* The last n units of a block and what is in front of them. *)
Take(first, size, n) ==
    /\ n \in 1 .. size
    /\ used' = used \cup {Block(first + size - n, n)}
    /\ free' = (free \ {Block(first, size)}) \cup (IF n = size THEN {} ELSE {Block(first, size - n)})

Alloc(first, size, n) ==
    /\ Block(first, size) \in free
    /\ Take(first, size, n)
    /\ UNCHANGED top

(* The pool is extended by size units, of which n are used. *)
Grow(size, n) ==
    /\ top + size <= Units
    /\ Take(top, size, n)
    /\ top' = top + size

Free(b) ==
    /\ b \in used
    /\ used' = used \ {b}
    /\ free' = free \cup {b}
    /\ UNCHANGED top

Next == \/ \E first \in 0 .. Units, size, n \in 1 .. Units : Alloc(first, size, n)
        \/ \E size, n \in 1 .. Units : Grow(size, n)
        \/ \E b \in used : Free(b)

Spec == Init /\ [][Next]_blockVars

-----------------------------------------------------------------------------
Blocks == used \cup free

(* No unit belongs to two blocks, whether the program has them or not. *)
BlocksDisjoint == used \cap free = {} /\ \A b, c \in Blocks : b # c => b \cap c = {}

(* No unit is lost: what was taken from the pool is in some block. *)
NothingLost == \A u \in 0 .. top - 1 : \E b \in Blocks : u \in b
=============================================================================
