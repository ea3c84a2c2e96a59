-------------------------------- MODULE Heap --------------------------------
(***************************************************************************)
(* The allocator of virtual memory in base_alloc.cpp: getMem(), allocRaw() *)
(* and freeRaw() on a circular list of free blocks that is sorted by       *)
(* address and begins at baseFreeList, which has the address Base.         *)
(*                                                                         *)
(* The headers lie in the virtual memory in front of the blocks, where     *)
(* read() and write() reach them; FlatMemory says what those do, so here   *)
(* header is a function on the addresses that have one.  The program may   *)
(* write to all of a block it has: a header inside it is gone.             *)
(* Addresses count bytes, the sizes in headers count units of one header.  *)
(***************************************************************************)
EXTENDS Integers, FiniteSets, FiniteSetsExt, Functions

CONSTANTS PoolSize,     \* bytes of virtual memory
          HeaderSize,   \* sizeof(UMemHeader)
          StartOffset,  \* START_OFFSET
          MinAlloc,     \* MIN_ALLOC_SIZE, in units
          AllocSizes,   \* a bound: the sizes the program asks for
          MaxLive       \* a bound: the blocks it has at a time

ASSUME HeapAssumption ==
    /\ PoolSize \in Nat /\ MaxLive \in Nat
    /\ HeaderSize \in Nat \ {0, 1}
    /\ StartOffset \in Nat \ {0, 1}
    /\ MinAlloc \in Nat \ {0}
    /\ AllocSizes \subseteq Nat \ {0}

Base == 1               \* BASE_INDEX
First == StartOffset + HeaderSize

VARIABLES header,       \* next and size at each address with a header
          freePointer,  \* where the next search begins; 0 before the first
          poolFreePos,  \* the pool from here on has not been used
          live,         \* the sizes asked for, of the blocks the program has
          failed        \* an ASSERT was false, or a search would never end

heapVars == <<header, freePointer, poolFreePos, live, failed>>

(* The records that the functions below take and return. *)
Record(h, fp, top, f) == [header |-> h, freePointer |-> fp, poolFreePos |-> top, failed |-> f]
State == Record(header, freePointer, poolFreePos, failed)
Becomes(s) == /\ header' = s.header
              /\ freePointer' = s.freePointer
              /\ poolFreePos' = s.poolFreePos
              /\ failed' = s.failed

Larger(m, n) == IF m > n THEN m ELSE n

(* f with the value v at a, which may be new to its domain. *)
Put(f, a, v) == [b \in DOMAIN f \cup {a} |-> IF b = a THEN v ELSE f[b]]

-----------------------------------------------------------------------------
(* The k-th header from freePointer along the list, for as many steps as   *)
(* there are headers: a search that takes more has come back to where it   *)
(* was and never ends.                                                     *)
Walk(s) ==
    LET at[k \in 0 .. Cardinality(DOMAIN s.header)] ==
            IF k = 0 THEN s.freePointer ELSE s.header[at[k - 1]].next
    IN  at

(* Mutant: the link back to the lowest address is overlooked where it      *)
(* leads from a header to itself.                                          *)
BetweenTwo(s, p, hdr) ==
    LET next == s.header[p].next
    IN  \/ p < hdr /\ hdr < next
        \/ p > next /\ (hdr > p \/ hdr < next)

(* The header at hdr belongs between p and the next one.  One link of the  *)
(* circle leads from the highest address to the lowest.                    *)
Between(s, p, hdr) ==
    LET next == s.header[p].next
    IN  \/ p < hdr /\ hdr < next
        \/ p >= next /\ (hdr > p \/ hdr < next)

(* freeRaw: puts the block with its header at hdr into the list.  It is    *)
(* combined with a neighbour where the code takes the two to be adjacent,  *)
(* for which it adds a size in units to an address in bytes.               *)
FreeRaw(s, hdr) ==
    LET walk == Walk(s)
        steps == {k \in DOMAIN walk : Between(s, walk[k], hdr)}
        p == walk[Min(steps)]
        low == s.header[p]
        high == s.header[low.next]
        block == IF hdr + s.header[hdr].size = low.next
                 THEN [next |-> high.next, size |-> s.header[hdr].size + high.size]
                 ELSE [next |-> low.next, size |-> s.header[hdr].size]
        below == IF p + low.size = hdr
                 THEN [next |-> block.next, size |-> low.size + block.size]
                 ELSE [next |-> hdr, size |-> low.size]
    IN  IF steps = {} THEN Record(s.header, s.freePointer, s.poolFreePos, TRUE)
        ELSE Record([s.header EXCEPT ![hdr] = block, ![p] = below], p, s.poolFreePos,
                    s.failed \/ below.next = 0)

(* Mutant: the limit is compared with the size asked for. *)
HasMemAsked(s, units) == s.poolFreePos + units * HeaderSize <= PoolSize
(* getMem: a new block from the pool, of MinAlloc units at least. *)
HasMem(s, units) == s.poolFreePos + Larger(units, MinAlloc) * HeaderSize <= PoolSize

(* Mutant: the header gets the size asked for. *)
GetMemAsked(s, units) ==
    LET new == [next |-> 0, size |-> units]
        extended == Record(Put(s.header, s.poolFreePos, new), s.freePointer, s.poolFreePos, s.failed)
        given == FreeRaw(extended, s.poolFreePos)
    IN  Record(given.header, given.freePointer,
               s.poolFreePos + Larger(units, MinAlloc) * HeaderSize, given.failed)
GetMem(s, units) ==
    LET size == Larger(units, MinAlloc)
        new == [next |-> 0, size |-> size]
        extended == Record(Put(s.header, s.poolFreePos, new), s.freePointer, s.poolFreePos, s.failed)
        given == FreeRaw(extended, s.poolFreePos)
    IN  Record(given.header, given.freePointer, s.poolFreePos + size * HeaderSize, given.failed)

(* Mutant: the block that is cut keeps its size. *)
CutKeepingSize(headers, p, hdr, units) == Put(headers, hdr, [next |-> 0, size |-> units])
(* The last units of the block at p become a block with its header at hdr. *)
Cut(headers, p, hdr, units) ==
    Put([headers EXCEPT ![p].size = @ - units], hdr, [next |-> 0, size |-> units])

(* The block at p, found from prevp, is taken from the list if it has the  *)
(* right size; from a larger one the end is cut off.  What the program     *)
(* gets begins behind the header at the address hdr.                       *)
TakeBlock(s, prevp, p, units) ==
    LET h == s.header[p]
        exact == h.size = units
        hdr == IF exact THEN p ELSE p + (h.size - units) * HeaderSize
        inside == hdr + 1 .. hdr + units * HeaderSize - 1
        unlinked == [s.header EXCEPT ![prevp].next = h.next]
        headers == IF exact THEN unlinked ELSE Cut(s.header, p, hdr, units)
        kept == Restrict(headers, DOMAIN headers \ inside)
    IN  [state |-> Record(kept, prevp, s.poolFreePos, s.failed), ptr |-> hdr + HeaderSize]

(* Mutant: no unit for the header. *)
UnitsForData(size) == (size + HeaderSize - 1) \div HeaderSize
(* The header and as many units as the size needs. *)
UnitsFor(size) == (size + HeaderSize - 1) \div HeaderSize + 1

(* Mutant: a block of exactly the right size is passed over. *)
BigEnoughToCut(h, units) == h.size > units
BigEnough(h, units) == h.size >= units

(* allocRaw: the first block behind freePointer, around the list, that is  *)
(* large enough, else a new one; the pointer is 0 when there is no memory. *)
AllocRaw(s, size) ==
    LET units == UnitsFor(size)
        base == [next |-> Base, size |-> 0]
        begun == IF s.freePointer # 0 THEN s
                 ELSE Record(Put(s.header, Base, base), Base, s.poolFreePos, s.failed)
        walk == Walk(begun)
        fitting == {k \in DOMAIN walk \ {0} : BigEnough(begun.header[walk[k]], units)}
        k == Min(fitting)
        grown == GetMem(begun, units)
    IN  IF fitting # {} THEN TakeBlock(begun, walk[k - 1], walk[k], units)
        ELSE IF ~HasMem(begun, units) THEN [state |-> begun, ptr |-> 0]
        ELSE IF grown.failed THEN [state |-> grown, ptr |-> 0]
        ELSE TakeBlock(grown, grown.freePointer, grown.header[grown.freePointer].next, units)

-----------------------------------------------------------------------------
Init ==
    /\ header = <<>>
    /\ freePointer = 0
    /\ poolFreePos = First
    /\ live = <<>>
    /\ failed = FALSE

(* alloc(). *)
Alloc(size) ==
    LET made == AllocRaw(State, size)
    IN  /\ ~failed /\ Cardinality(DOMAIN live) < MaxLive
        /\ Becomes(made.state)
        /\ live' = IF made.ptr = 0 THEN live ELSE Put(live, made.ptr, size)

(* free() of a block the program has. *)
Free(ptr) ==
    /\ ~failed /\ ptr \in DOMAIN live
    /\ Becomes(FreeRaw(State, ptr - HeaderSize))
    /\ live' = Restrict(live, DOMAIN live \ {ptr})

Next == \/ \E size \in AllocSizes : Alloc(size)
        \/ \E ptr \in DOMAIN live : Free(ptr)

Spec == Init /\ [][Next]_heapVars

-----------------------------------------------------------------------------
(* Properties                                                              *)

LiveHeaders == {ptr - HeaderSize : ptr \in DOMAIN live}
FreeHeaders == DOMAIN header \ (LiveHeaders \cup {Base})
Bytes(p) == p .. p + header[p].size * HeaderSize - 1

(* The pool, or what start() reserves when the pool is not even that large. *)
End == Larger(First, PoolSize)
TypeOK ==
    /\ freePointer \in 0 .. End /\ poolFreePos \in First .. End
    /\ \A p \in DOMAIN header : header[p] \in [next : 0 .. End, size : 0 .. End]
    /\ LiveHeaders \subseteq DOMAIN header

(* The free list is one circle through Base and every free block, sorted   *)
(* by address but for the link back to Base, and freePointer is on it: no  *)
(* block is lost.  No search along it has run in circles, in which case it *)
(* would never end, and no ASSERT was false.                               *)
FreeListIsSortedCircle ==
    /\ ~failed
    /\ freePointer # 0 =>
          LET list == FreeHeaders \cup {Base}
              After(p) == {q \in list : q > p}
          IN  /\ freePointer \in list
              /\ \A p \in list : header[p].next = IF After(p) = {} THEN Base ELSE Min(After(p))

(* The program can use every byte it asked for, up to the end of the pool, *)
(* without touching a header or another block.                             *)
BlocksHoldTheirSizes ==
    \A ptr \in DOMAIN live :
        LET own == ptr .. ptr + live[ptr] - 1
        IN  /\ own \subseteq Bytes(ptr - HeaderSize) /\ own \subseteq First .. poolFreePos - 1
            /\ own \cap DOMAIN header = {}
            /\ \A other \in DOMAIN live \ {ptr} : own \cap (other .. other + live[other] - 1) = {}

(* The pool is only extended when no free block is large enough. *)
GrowsOnlyWhenNothingFits ==
    [][poolFreePos' # poolFreePos =>
        \A size \in AllocSizes : Alloc(size) =>
            \A p \in FreeHeaders : header[p].size < UnitsFor(size)]_heapVars

(* "if the block being freed is adjacent to either neighbor, the adjacent  *)
(* blocks are combined" (base_alloc.cpp:654-655).                          *)
AdjacentFreeBlocksCombined ==
    \A p, q \in FreeHeaders : p + header[p].size * HeaderSize # q

(* The blocks that the headers describe, in units from the first. *)
UnitsOf(p) == {(a - First) \div HeaderSize : a \in Bytes(p)}
Abstract == INSTANCE HeapBlocks WITH
    Units <- (PoolSize - First) \div HeaderSize,
    used <- {UnitsOf(p) : p \in LiveHeaders},
    free <- {UnitsOf(p) : p \in FreeHeaders},
    top <- (poolFreePos - First) \div HeaderSize

(* The list with its headers implements the division of the pool into      *)
(* blocks: none overlap, none is lost, and a block that is freed can be    *)
(* used again.                                                             *)
ImplementsBlocks == Abstract!Spec

(* Every unit taken from the pool is in exactly one block: whatever is     *)
(* cut, taken whole, freed or added by getMem, nothing is handed out twice *)
(* and nothing is lost between the blocks.                                 *)
PoolDivided == Abstract!BlocksDisjoint /\ Abstract!NothingLost
=============================================================================
