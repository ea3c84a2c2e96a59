-------------------------- MODULE HeapBlocksProofs --------------------------
(***************************************************************************)
(* Proofs about HeapBlocks for a pool of any size.  BlocksDisjoint and     *)
(* NothingLost are inductive only together, and with Bounded: a block that *)
(* is cut leaves its two parts disjoint from the rest only because it was  *)
(* so itself, and the pool grows by units that no block has because none   *)
(* lies beyond top.                                                        *)
(***************************************************************************)
EXTENDS HeapBlocks, TLAPS

(* Blocks have units, and none beyond those taken from the pool. *)
Bounded == top \in Nat /\ \A b \in Blocks : b # {} /\ b \subseteq 0 .. top - 1

Inv == Bounded /\ BlocksDisjoint /\ NothingLost

(* The same of any division of the pool. *)
Divided(U, F, l) ==
    /\ l \in Nat
    /\ \A b \in U \cup F : b # {} /\ b \subseteq 0 .. l - 1
    /\ \A b, c \in U \cup F : b # c => b \cap c = {}
    /\ U \cap F = {}
    /\ \A u \in 0 .. l - 1 : \E b \in U \cup F : u \in b

(* The blocks after a cut: t is given to the program, r stays free. *)
Rest(first, size, n) == IF n = size THEN {} ELSE {Block(first, size - n)}

(* A block is cut into two parts that have its units and none in common. *)
LEMMA Cut ==
  ASSUME NEW first \in Nat, NEW size \in Nat, NEW n \in 1 .. size,
         NEW t, t = Block(first + size - n, n), NEW old, old = Block(first, size)
  PROVE  /\ t # {} /\ t \subseteq old
         /\ \A r \in Rest(first, size, n) : r # {} /\ r \subseteq old /\ r \cap t = {}
         /\ \A u \in old : u \in t \/ \E r \in Rest(first, size, n) : u \in r
         /\ \A r, q \in Rest(first, size, n) : r = q
  <1>1. n \in Nat /\ size - n \in Nat /\ first + size - n \in Nat /\ n >= 1
    OBVIOUS
  <1>2. t # {} /\ t \subseteq old
    <2>1. first + size - n \in t
      BY <1>1 DEF Block
    <2> QED BY <2>1, <1>1 DEF Block
  <1>3. ASSUME NEW r \in Rest(first, size, n) PROVE r # {} /\ r \subseteq old /\ r \cap t = {}
    <2>1. n # size /\ r = Block(first, size - n)
      BY DEF Rest
    <2>2. first \in r
      BY <2>1, <1>1 DEF Block
    <2>3. r \subseteq old /\ r \cap t = {}
      BY <2>1, <1>1 DEF Block
    <2> QED BY <2>2, <2>3
  <1>4. ASSUME NEW u \in old PROVE u \in t \/ \E r \in Rest(first, size, n) : u \in r
    <2>1. CASE n = size
      BY <2>1, <1>1 DEF Block
    <2>2. CASE n # size
      <3>1. u \in t \/ u \in Block(first, size - n)
        BY <1>1 DEF Block
      <3> QED BY <2>2, <3>1 DEF Rest
    <2> QED BY <2>1, <2>2
  <1>5. \A r, q \in Rest(first, size, n) : r = q
    BY DEF Rest
  <1> QED BY <1>2, <1>3, <1>4, <1>5

(* Taking a block out of old, which is free or lies beyond every block,    *)
(* keeps the blocks disjoint and loses no unit.                            *)
LEMMA TakeKeeps ==
  ASSUME NEW U, NEW F, NEW l, Divided(U, F, l), NEW k \in Nat, l <= k,
         NEW first \in Nat, NEW size \in Nat, NEW n \in 1 .. size,
         NEW old, old = Block(first, size), old \subseteq 0 .. k - 1,
         \A u \in 0 .. k - 1 : u \in 0 .. l - 1 \/ u \in old,
         \A b \in (U \cup F) \ {old} : b \cap old = {},
         old \notin U,
         NEW t, t = Block(first + size - n, n), NEW R, R = Rest(first, size, n)
  PROVE  Divided(U \cup {t}, (F \ {old}) \cup R, k)
  <1> DEFINE B == (U \cup F) \ {old}
             C == (U \cup {t}) \cup ((F \ {old}) \cup R)
  <1>1. /\ t # {} /\ t \subseteq old
        /\ \A r \in R : r # {} /\ r \subseteq old /\ r \cap t = {}
        /\ \A u \in old : u \in t \/ \E r \in R : u \in r
        /\ \A r, q \in R : r = q
    <2>1. /\ t # {} /\ t \subseteq old
          /\ \A r \in Rest(first, size, n) : r # {} /\ r \subseteq old /\ r \cap t = {}
          /\ \A u \in old : u \in t \/ \E r \in Rest(first, size, n) : u \in r
          /\ \A r, q \in Rest(first, size, n) : r = q
      BY Cut, SMTT(30)
    <2> QED BY <2>1
  <1>2. C = B \cup {t} \cup R
    OBVIOUS
  <1>3. \A b \in B : b # {} /\ b \subseteq 0 .. l - 1 /\ b \cap old = {}
    BY DEF Divided
  <1>4. 0 .. l - 1 \subseteq 0 .. k - 1
    BY DEF Divided
  <1>5. \A b, c \in B : b # c => b \cap c = {}
    BY DEF Divided
  <1>6. \A b \in U : b \in B /\ b \notin F
    BY DEF Divided
  <1>7. (U \cup {t}) \cap ((F \ {old}) \cup R) = {}
    <2>1. t \notin F \ {old}
      BY <1>1, <1>3
    <2>2. \A r \in R : r \notin U /\ r # t
      BY <1>1, <1>3, <1>6
    <2> QED BY <1>6, <2>1, <2>2
  <1>8. \A u \in 0 .. k - 1 : \E b \in C : u \in b
    <2> SUFFICES ASSUME NEW u \in 0 .. k - 1 PROVE \E b \in C : u \in b
      OBVIOUS
    <2>1. CASE u \in old
      BY <2>1, <1>1, <1>2
    <2>2. CASE u \notin old
      <3>1. PICK b \in U \cup F : u \in b
        BY <2>2 DEF Divided
      <3> QED BY <2>2, <3>1, <1>2
    <2> QED BY <2>1, <2>2
  <1> HIDE DEF B, C
  <1>9. \A b \in C : b # {} /\ b \subseteq 0 .. k - 1
    BY <1>1, <1>2, <1>3, <1>4
  <1>10. \A b, c \in C : b # c => b \cap c = {}
    <2> SUFFICES ASSUME NEW b \in C, NEW c \in C, b # c PROVE b \cap c = {}
      OBVIOUS
    <2>1. CASE b \in B /\ c \in B
      BY <2>1, <1>5
    <2>2. CASE b \in B /\ c \in {t} \cup R
      BY <2>2, <1>1, <1>3
    <2>3. CASE b \in {t} \cup R /\ c \in B
      BY <2>3, <1>1, <1>3
    <2>4. CASE b \in {t} \cup R /\ c \in {t} \cup R
      BY <2>4, <1>1
    <2> QED BY <1>2, <2>1, <2>2, <2>3, <2>4
  <1> QED BY <1>7, <1>8, <1>9, <1>10 DEF Divided, C

(* The invariant says that the pool is divided. *)
LEMMA InvIs == Inv <=> Divided(used, free, top)
  BY DEF Inv, Divided, Bounded, BlocksDisjoint, NothingLost, Blocks

(* In the beginning nothing is taken from the pool. *)
LEMMA InitInv == Init => Inv
  BY DEF Init, Inv, Bounded, BlocksDisjoint, NothingLost, Blocks

(* Every step keeps the invariant. *)
LEMMA NextInv ==
  ASSUME Units \in Int, Inv, [Next]_blockVars
  PROVE  Inv'
  <1> SUFFICES Divided(used', free', top')
    BY DEF Inv, Divided, Bounded, BlocksDisjoint, NothingLost, Blocks
  <1>0. Divided(used, free, top) /\ top \in Nat
    BY InvIs DEF Inv, Bounded
  <1>1. ASSUME NEW first \in 0 .. Units, NEW size \in 1 .. Units, NEW n \in 1 .. Units, Alloc(first, size, n)
        PROVE  Divided(used', free', top')
    <2> DEFINE old == Block(first, size)
               t == Block(first + size - n, n)
               R == Rest(first, size, n)
    <2>1. /\ old \in free /\ top' = top /\ n \in 1 .. size
          /\ used' = used \cup {t} /\ free' = (free \ {old}) \cup R
      BY <1>1 DEF Alloc, Take, Rest
    <2>2. /\ old \notin used /\ old \subseteq 0 .. top - 1
          /\ \A b \in (used \cup free) \ {old} : b \cap old = {}
      BY <1>0, <2>1 DEF Divided
    <2>3. first \in Nat /\ size \in Nat /\ top <= top
      BY <1>0
    <2>4. Divided(used \cup {t}, (free \ {old}) \cup R, top)
      BY <1>0, <2>1, <2>2, <2>3, TakeKeeps
    <2> QED BY <2>1, <2>4
  <1>2. ASSUME NEW size \in 1 .. Units, NEW n \in 1 .. Units, Grow(size, n)
        PROVE  Divided(used', free', top')
    <2> DEFINE old == Block(top, size)
               k == top + size
               t == Block(top + size - n, n)
               R == Rest(top, size, n)
    <2>1. /\ top' = k /\ k <= Units /\ n \in 1 .. size
          /\ used' = used \cup {t} /\ free' = (free \ {old}) \cup R
      BY <1>2 DEF Grow, Take, Rest
    <2>2. old \subseteq 0 .. k - 1 /\ (\A u \in 0 .. k - 1 : u \in 0 .. top - 1 \/ u \in old) /\ top \in old
      BY <1>0, <2>1 DEF Block
    <2>3. \A b \in used \cup free : b \cap old = {}
      <3>1. (0 .. top - 1) \cap old = {}
        BY <1>0 DEF Block
      <3> QED BY <3>1, <1>0 DEF Divided
    <2>4. old \notin used
      BY <2>2, <2>3
    <2>5. size \in Nat /\ k \in Nat /\ top <= k
      BY <1>0, <2>1
    <2> HIDE DEF k
    <2>6. Divided(used \cup {t}, (free \ {old}) \cup R, k)
      BY <1>0, <2>1, <2>2, <2>3, <2>4, <2>5, TakeKeeps
    <2> QED BY <2>1, <2>6
  <1>3. ASSUME NEW b \in used, Free(b) PROVE Divided(used', free', top')
    <2>1. used' \cup free' = used \cup free /\ top' = top /\ used' \cap free' = {}
      BY <1>0, <1>3 DEF Free, Divided
    <2> QED BY <1>0, <2>1 DEF Divided
  <1>4. CASE UNCHANGED blockVars
    BY <1>0, <1>4 DEF blockVars
  <1> QED BY <1>1, <1>2, <1>3, <1>4 DEF Next

(* No unit of the pool is ever in two blocks, nor is a block both free and *)
(* in use, and every unit taken from the pool is in a block: allocRaw()    *)
(* and freeRaw() hand out nothing twice and lose no memory.                *)
THEOREM BlocksTheorem ==
  ASSUME Units \in Int
  PROVE  Spec => [](BlocksDisjoint /\ NothingLost)
  <1>1. Inv /\ [Next]_blockVars => Inv'
    BY NextInv
  <1>2. Inv => BlocksDisjoint /\ NothingLost
    BY DEF Inv
  <1> QED BY InitInv, <1>1, <1>2, PTL DEF Spec
=============================================================================
