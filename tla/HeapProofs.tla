----------------------------- MODULE HeapProofs -----------------------------
(***************************************************************************)
(* Proofs about Heap, for a pool, headers and sizes of any number of bytes *)
(* and any program.  The lemmas follow the code: what a walk along the     *)
(* circular list visits, what FreeRaw, GetMem and TakeBlock do to a list   *)
(* that is in order, and then each call.                                   *)
(***************************************************************************)
EXTENDS Heap, TLAPS, FiniteSetTheorems, WellFoundedInduction

(* The free list: list are the addresses of its headers.                   *)
Linked(list, p, n) ==
    \/ n \in list /\ n > p /\ \A q \in list : q > p => q >= n
    \/ n = Base /\ \A q \in list : q <= p
Circle(h, list) ==
    /\ Base \in list /\ list \subseteq DOMAIN h
    /\ \A p \in list : Linked(list, p, h[p].next)

(* The headers lie in front of their blocks, which do not overlap and end  *)
(* at top at the latest.                                                   *)
Aligned(p) == \E u \in Nat : p = First + u * HeaderSize
Laid(h, top) ==
    /\ top \in Nat
    /\ \A p \in DOMAIN h : h[p] \in [next : 0 .. top, size : 0 .. top]
    /\ \A p \in DOMAIN h :
          \/ p = Base /\ h[p].size = 0
          \/ p \in Nat /\ p >= First /\ Aligned(p)
             /\ h[p].size >= 1 /\ p + h[p].size * HeaderSize <= top
    /\ \A p, q \in DOMAIN h : p # Base /\ p < q => p + h[p].size * HeaderSize <= q

(* The record of a state in which nothing has failed. *)
Fine(h, fp, top) == Record(h, fp, top, FALSE)

-----------------------------------------------------------------------------
(* Numbers and sets of numbers.                                            *)

(* What the assumptions say of the constants.                              *)
LEMMA Constants ==
  /\ HeaderSize \in Nat /\ HeaderSize >= 2
  /\ First \in Nat /\ First >= 4 /\ Base = 1
  /\ MinAlloc \in Nat /\ MinAlloc >= 1 /\ PoolSize \in Nat
  /\ AllocSizes \subseteq Nat \ {0}
<1>1. HeaderSize \in Nat /\ HeaderSize # 0 /\ HeaderSize # 1
    BY HeapAssumption
<1>2. StartOffset \in Nat /\ StartOffset # 0 /\ StartOffset # 1
    BY HeapAssumption
<1>3. MinAlloc \in Nat /\ MinAlloc >= 1 /\ PoolSize \in Nat /\ AllocSizes \subseteq Nat \ {0}
    BY HeapAssumption
<1> QED BY <1>1, <1>2, <1>3 DEF First, Base

(* A nonempty set of naturals has a least element, which Min finds. *)
LEMMA Least ==
  ASSUME NEW S \in SUBSET Nat, S # {}
  PROVE  Min(S) \in S /\ \A y \in S : Min(S) <= y
<1>1. PICK x \in S : \A y \in S : ~(<<y, x>> \in OpToRel(<, Nat))
    BY NatLessThanWellFounded, WFMin
<1>2. \A y \in S : ~(y < x)
    BY <1>1 DEF OpToRel
<1>3. \A y \in S : x <= y
    BY <1>2
<1> QED BY <1>3 DEF Min

(* A nonempty set of naturals that has a bound has a greatest element. *)
LEMMA Greatest ==
  ASSUME NEW S \in SUBSET Nat, S # {}, NEW b \in Nat, \A x \in S : x <= b
  PROVE  \E x \in S : \A y \in S : y <= x
<1> DEFINE T == {b - x : x \in S}
<1>1. T \in SUBSET Nat /\ T # {}
  <2>1. ASSUME NEW x \in S PROVE b - x \in Nat
      OBVIOUS
  <2>2. \A y \in T : y \in Nat
      BY <2>1
  <2>3. PICK x \in S : TRUE
      OBVIOUS
  <2>4. b - x \in T
      OBVIOUS
  <2> QED BY <2>2, <2>4
<1>2. PICK d \in T : \A e \in T : d <= e
  <2> HIDE DEF T
  <2> QED BY <1>1, Least
<1>3. PICK x \in S : d = b - x
    OBVIOUS
<1>4. ASSUME NEW y \in S PROVE y <= x
  <2>1. b - y \in T
      OBVIOUS
  <2>2. d <= b - y
      BY <1>2, <2>1
  <2> QED BY <1>3, <2>2
<1> QED BY <1>4

(* Sizes in bytes. *)
LEMMA Multiples ==
  /\ \A n \in Nat : n * HeaderSize \in Nat /\ (n >= 1 => n * HeaderSize >= n + 1)
  /\ \A m, n \in Nat : m <= n => m * HeaderSize <= n * HeaderSize
  /\ \A m, n \in Nat : m < n => m * HeaderSize + HeaderSize <= n * HeaderSize
  /\ \A m, n \in Int : (m + n) * HeaderSize = m * HeaderSize + n * HeaderSize
  /\ \A m, n \in Int : (m - n) * HeaderSize = m * HeaderSize - n * HeaderSize
<1> HeaderSize \in Nat /\ HeaderSize >= 2
    BY Constants
<1>1. \A n \in Nat : n * HeaderSize \in Nat
    OBVIOUS
<1>2. \A n \in Nat : n >= 1 => n * HeaderSize >= n + 1
    OBVIOUS
<1>3. \A m, n \in Nat : m <= n => m * HeaderSize <= n * HeaderSize
    OBVIOUS
<1>4. \A m, n \in Nat : m < n => m * HeaderSize + HeaderSize <= n * HeaderSize
    OBVIOUS
<1>5. \A m, n \in Int : (m + n) * HeaderSize = m * HeaderSize + n * HeaderSize
    OBVIOUS
<1>6. \A m, n \in Int : (m - n) * HeaderSize = m * HeaderSize - n * HeaderSize
    OBVIOUS
<1> QED BY <1>1, <1>2, <1>3, <1>4, <1>5, <1>6

-----------------------------------------------------------------------------
(* The free list.                                                          *)

(* The addresses of headers. *)
LEMMA Addresses ==
  ASSUME NEW top, NEW h, Laid(h, top)
  PROVE  /\ DOMAIN h \subseteq Nat /\ IsFiniteSet(DOMAIN h)
         /\ \A p \in DOMAIN h : p = Base \/ (p >= First /\ p < top)
         /\ \A p \in DOMAIN h : p >= Base
<1>0. top \in Nat /\ Base \in Nat
    BY DEF Laid, Base
<1>1. ASSUME NEW p \in DOMAIN h PROVE p = Base \/ (p \in Nat /\ p >= First /\ p < top)
  <2>1. CASE p # Base
    <3>1. /\ p \in Nat /\ p >= First /\ h[p].size >= 1 /\ p + h[p].size * HeaderSize <= top
          /\ h[p].size \in Nat
        BY <2>1 DEF Laid
    <3>2. h[p].size * HeaderSize \in Nat /\ h[p].size * HeaderSize >= h[p].size + 1
        BY <3>1, Multiples
    <3> QED BY <1>0, <3>1, <3>2
  <2> QED BY <2>1
<1>2. DOMAIN h \subseteq Nat
    BY <1>0, <1>1
<1>3. \A p \in DOMAIN h : p <= top + Base
    BY <1>0, <1>1
<1>4. IsFiniteSet(DOMAIN h)
    BY <1>0, <1>2, <1>3, FS_BoundedSetOfNaturals
<1> QED BY <1>1, <1>2, <1>4, Constants

(* A set of free blocks that one does not leave by following the list is   *)
(* the whole list: it holds the last block, so Base, so the next ones.     *)
LEMMA ClosedIsAll ==
  ASSUME NEW top, NEW h, Laid(h, top), NEW list, Circle(h, list),
         NEW S \in SUBSET list, S # {}, \A p \in S : h[p].next \in S
  PROVE  S = list
<1>0. list \subseteq DOMAIN h /\ top \in Nat /\ Base \in Nat /\ First \in Nat
    BY Constants DEF Circle, Laid
<1>1. /\ list \subseteq Nat /\ Base \in list
      /\ \A p \in list : Base <= p /\ p <= top + Base
    BY <1>0, Addresses DEF Circle
<1>2. Base \in S
  <2>0. S \in SUBSET Nat /\ top + Base \in Nat /\ \A p \in S : p <= top + Base
      BY <1>0, <1>1
  <2>1. PICK m \in S : \A q \in S : q <= m
      BY <2>0, Greatest
  <2>2. Linked(list, m, h[m].next) /\ h[m].next \in S
      BY DEF Circle
  <2>3. m \in Nat /\ h[m].next \in Nat /\ ~(h[m].next > m)
    <3>1. m \in Nat /\ h[m].next \in Nat /\ h[m].next <= m
        BY <2>0, <2>1, <2>2
    <3> QED BY <3>1
  <2> QED BY <2>2, <2>3 DEF Linked
<1>3. ASSUME NEW q \in list, q \notin S PROVE FALSE
  <2> DEFINE B == {p \in S : p < q}
  <2>0. Base # q /\ q \in Nat /\ Base < q
      BY <1>0, <1>1, <1>2, <1>3
  <2>1. B \in SUBSET Nat /\ B # {} /\ \A p \in B : p <= q
    <3>1. Base \in B
        BY <1>2, <2>0
    <3>2. S \in SUBSET Nat
        BY <1>1
    <3>3. \A p \in B : p \in Nat /\ p <= q
        BY <2>0, <3>2
    <3> QED BY <3>1, <3>3
  <2>2. PICK p \in B : \A r \in B : r <= p
      BY <2>0, <2>1, Greatest
  <2>3. Linked(list, p, h[p].next) /\ h[p].next \in S /\ p < q
      BY DEF Circle
  <2>4. p \in Nat /\ ~(q <= p)
      BY <2>0, <2>1, <2>3
  <2>5. h[p].next > p /\ q >= h[p].next
      BY <1>3, <2>3, <2>4 DEF Linked
  <2>6. h[p].next \in B
    <3>1. h[p].next \in Nat /\ h[p].next # q
        BY <1>1, <1>3, <2>3
    <3>2. h[p].next < q
        BY <2>0, <2>5, <3>1
    <3> QED BY <2>3, <3>2
  <2> QED BY <2>1, <2>2, <2>4, <2>5, <2>6
<1> QED BY <1>3

(* A block that is not in the list has a place in it. *)
LEMMA PlaceFound ==
  ASSUME NEW top, NEW h, Laid(h, top), NEW list, Circle(h, list),
         NEW hdr \in Nat, hdr \notin list, hdr > Base, NEW s, s.header = h
  PROVE  \E p \in list : Between(s, p, hdr)
<1> DEFINE B == {p \in list : p < hdr}
<1>0. list \subseteq DOMAIN h /\ Base \in Nat /\ Base \in list
    BY Constants DEF Circle
<1>1. list \subseteq Nat /\ \A p \in list : Base <= p
    BY <1>0, Addresses
<1>2. B \in SUBSET Nat /\ B # {} /\ \A p \in B : p <= hdr
    BY <1>0, <1>1
<1>3. PICK p \in B : \A r \in B : r <= p
    BY <1>2, Greatest
<1>4. Linked(list, p, h[p].next) /\ p < hdr /\ p \in list /\ p \in Nat
    BY <1>2 DEF Circle
<1>5. CASE h[p].next \in list /\ h[p].next > p
  <2>1. h[p].next \in Nat /\ h[p].next # hdr
      BY <1>1, <1>5
  <2>2. ~(h[p].next < hdr)
    <3>1. ASSUME h[p].next < hdr PROVE FALSE
      <4>1. h[p].next \in B
          BY <1>5, <3>1
      <4>2. h[p].next <= p
          BY <1>3, <4>1
      <4> QED BY <1>4, <1>5, <2>1, <4>2
    <3> QED BY <3>1
  <2>3. h[p].next > hdr
      BY <2>1, <2>2
  <2> QED BY <1>4, <2>3 DEF Between
<1>6. CASE h[p].next = Base
    BY <1>0, <1>1, <1>4, <1>6 DEF Between
<1> QED BY <1>4, <1>5, <1>6 DEF Linked

-----------------------------------------------------------------------------
(* Walk: the recursive function has a value at every step.                 *)
IsWalk(f, h, fp, n) == f = [k \in 0 .. n |-> IF k = 0 THEN fp ELSE h[f[k - 1]].next]

(* There is a walk of any length.                                          *)
LEMMA WalksExist ==
  ASSUME NEW h, NEW fp, NEW n \in Nat
  PROVE  \E f : IsWalk(f, h, fp, n)
<1> DEFINE None == {m \in Nat : ~ \E f : IsWalk(f, h, fp, m)}
<1> SUFFICES ASSUME None # {} PROVE FALSE
    OBVIOUS
<1>1. PICK m \in None : \A j \in None : m <= j
    BY Least
<1>2. CASE m = 0
  <2> DEFINE f == [k \in 0 .. 0 |-> fp]
  <2>1. f = [k \in 0 .. 0 |-> IF k = 0 THEN fp ELSE h[f[k - 1]].next]
      OBVIOUS
  <2> QED BY <1>2, <2>1 DEF IsWalk
<1>3. CASE m # 0
  <2>1. m - 1 \in Nat /\ m - 1 \notin None /\ m \in Nat
      BY <1>1, <1>3
  <2>2. PICK f : IsWalk(f, h, fp, m - 1)
      BY <2>1
  <2> DEFINE g == [k \in 0 .. m |-> IF k = m THEN h[f[m - 1]].next ELSE f[k]]
             e == [k \in 0 .. m |-> IF k = 0 THEN fp ELSE h[g[k - 1]].next]
  <2>3. ASSUME NEW k \in 0 .. m PROVE g[k] = e[k]
    <3>1. CASE k = m
        BY <1>3, <2>1, <3>1
    <3>2. CASE k # m
      <4>1. k \in 0 .. m - 1 /\ g[k] = f[k]
          BY <2>1, <3>2
      <4>2. f[k] = IF k = 0 THEN fp ELSE h[f[k - 1]].next
          BY <2>2, <4>1 DEF IsWalk
      <4>3. k # 0 => g[k - 1] = f[k - 1]
          BY <2>1, <4>1
      <4> QED BY <4>1, <4>2, <4>3
    <3> QED BY <3>1, <3>2
  <2>4. g = e
      BY <2>3
  <2> QED BY <2>4 DEF IsWalk
<1> QED BY <1>2, <1>3

(* The walk of the model is one.                                           *)
LEMMA WalkIs ==
  ASSUME NEW s, IsFiniteSet(DOMAIN s.header)
  PROVE  IsWalk(Walk(s), s.header, s.freePointer, Cardinality(DOMAIN s.header))
<1>1. Cardinality(DOMAIN s.header) \in Nat
    BY FS_CardinalityType
<1>2. PICK f : IsWalk(f, s.header, s.freePointer, Cardinality(DOMAIN s.header))
    BY <1>1, WalksExist
<1> QED BY <1>2 DEF Walk, IsWalk

(* A walk that begins in the list follows its links and never leaves it.   *)
LEMMA WalkInList ==
  ASSUME NEW h, NEW list, Circle(h, list), NEW fp \in list, NEW n \in Nat,
         NEW f, IsWalk(f, h, fp, n)
  PROVE  /\ DOMAIN f = 0 .. n /\ f[0] = fp
         /\ \A k \in 0 .. n : f[k] \in list
         /\ \A k \in 0 .. n : k # 0 => k - 1 \in 0 .. n /\ f[k] = h[f[k - 1]].next
<1>1. DOMAIN f = 0 .. n /\ f[0] = fp
    BY DEF IsWalk
<1>2. ASSUME NEW k \in 0 .. n, k # 0
      PROVE  k - 1 \in 0 .. n /\ f[k] = h[f[k - 1]].next
    BY <1>2 DEF IsWalk
<1>3. ASSUME NEW p \in list PROVE h[p].next \in list
    BY DEF Circle, Linked
<1> DEFINE Out == {k \in 0 .. n : f[k] \notin list}
<1>4. Out = {}
  <2> SUFFICES ASSUME Out # {} PROVE FALSE
      OBVIOUS
  <2>1. PICK k \in Out : \A j \in Out : k <= j
    <3>1. Out \in SUBSET Nat
        OBVIOUS
    <3> HIDE DEF Out
    <3>2. Min(Out) \in Out /\ \A j \in Out : Min(Out) <= j
        BY <3>1, Least
    <3> QED BY <3>2
  <2>2. k \in 0 .. n /\ k # 0
      BY <1>1, <2>1
  <2>3. k - 1 \in 0 .. n /\ k - 1 \notin Out
      BY <1>2, <2>1, <2>2
  <2>4. f[k - 1] \in list
      BY <2>3
  <2>5. f[k] \in list
      BY <1>2, <1>3, <2>2, <2>4
  <2> QED BY <2>1, <2>5
<1> QED BY <1>1, <1>2, <1>4

(* A search along the list finds every block of it before it runs out of   *)
(* steps: of so many steps two lead to the same block, and those between   *)
(* them are the whole list.                                                *)
LEMMA WalkVisits ==
  ASSUME NEW top, NEW h, Laid(h, top), NEW list, Circle(h, list), NEW fp \in list,
         NEW n, n = Cardinality(DOMAIN h), NEW f, IsWalk(f, h, fp, n)
  PROVE  \A p \in list : \E k \in 0 .. n : k # 0 /\ f[k] = p
<1>1. IsFiniteSet(DOMAIN h) /\ n \in Nat
    BY Addresses, FS_CardinalityType
<1>2. IsFiniteSet(list) /\ Cardinality(list) \in Nat /\ Cardinality(list) <= n
    BY <1>1, FS_Subset, FS_CardinalityType DEF Circle
<1>3. IsFiniteSet(0 .. n) /\ Cardinality(0 .. n) = n + 1
  <2>1. 0 \in Int /\ n \in Int /\ ~(0 > n) /\ n - 0 + 1 = n + 1
      BY <1>1
  <2> QED BY <2>1, FS_Interval
<1>4. f \in [0 .. n -> list]
  <2>1. DOMAIN f = 0 .. n /\ \A k \in 0 .. n : f[k] \in list
      BY <1>1, WalkInList
  <2>2. f = [k \in 0 .. n |-> f[k]]
      BY <2>1 DEF IsWalk
  <2> QED BY <2>1, <2>2
<1>5. Cardinality(list) < Cardinality(0 .. n)
    BY <1>1, <1>2, <1>3
<1>6. \E x, y \in 0 .. n : x # y /\ f[x] = f[y]
    BY <1>2, <1>3, <1>4, <1>5, FS_PigeonHole
<1>7. PICK i \in 0 .. n, j \in 0 .. n : i < j /\ f[i] = f[j]
  <2>1. PICK x \in 0 .. n, y \in 0 .. n : x # y /\ f[x] = f[y]
      BY <1>6
  <2>2. CASE x < y
      BY <2>1, <2>2
  <2>3. CASE y < x
      BY <2>1, <2>3
  <2> QED BY <1>1, <2>1, <2>2, <2>3
<1> DEFINE S == {f[k] : k \in i + 1 .. j}
<1>8. \A k \in 0 .. n : k # 0 => k - 1 \in 0 .. n /\ f[k] = h[f[k - 1]].next
    BY <1>1, WalkInList
<1>9. \A k \in i + 1 .. j : k \in 0 .. n /\ k # 0
    BY <1>1, <1>7
<1>10. S \in SUBSET list /\ S # {}
  <2>1. j \in i + 1 .. j
      BY <1>1, <1>7
  <2> QED BY <1>4, <1>9, <2>1
<1>11. ASSUME NEW p \in S PROVE h[p].next \in S
  <2>1. PICK k \in i + 1 .. j : p = f[k]
      OBVIOUS
  <2>2. CASE k < j
    <3>1. k + 1 \in i + 1 .. j /\ (k + 1) - 1 = k
        BY <1>1, <1>7, <2>2
    <3>2. f[k + 1] = h[p].next
        BY <1>8, <1>9, <2>1, <3>1
    <3> QED BY <3>1, <3>2
  <2>3. CASE k = j
    <3>1. i + 1 \in i + 1 .. j /\ (i + 1) - 1 = i
        BY <1>1, <1>7
    <3>2. f[i + 1] = h[f[i]].next
        BY <1>8, <1>9, <3>1
    <3> QED BY <1>7, <2>1, <2>3, <3>1, <3>2
  <2> QED BY <1>1, <1>7, <2>2, <2>3
<1> HIDE DEF S
<1>12. S = list
    BY <1>10, <1>11, ClosedIsAll
<1> QED BY <1>9, <1>12 DEF S

-----------------------------------------------------------------------------
(* freeRaw.                                                                *)

(* The block at hdr is put into the list behind the one at p. *)
Inserted(h, p, hdr) ==
    [h EXCEPT ![hdr] = [next |-> h[p].next, size |-> h[hdr].size],
              ![p] = [next |-> hdr, size |-> h[p].size]]
JustBelow(list, p, hdr) == p < hdr /\ \A q \in list : q > p => q > hdr

(* The condition of the search says that p comes before hdr and nothing of *)
(* the list between them.                                                  *)
LEMMA BetweenIsBelow ==
  ASSUME NEW top, NEW h, Laid(h, top), NEW list, Circle(h, list),
         NEW p \in list, NEW hdr \in Nat, hdr > Base, NEW s, s.header = h, Between(s, p, hdr)
  PROVE  JustBelow(list, p, hdr)
<1>0. list \subseteq DOMAIN h /\ Base \in Nat /\ Linked(list, p, h[p].next)
    BY Constants DEF Circle
<1>1. list \in SUBSET Nat /\ p \in Nat
    BY <1>0, Addresses
<1>2. CASE h[p].next \in list /\ h[p].next > p /\ \A q \in list : q > p => q >= h[p].next
  <2>1. h[p].next \in Nat
      BY <1>1, <1>2
  <2>2. p < hdr /\ hdr < h[p].next
      BY <1>1, <1>2, <2>1 DEF Between
  <2>3. ASSUME NEW q \in list, q > p PROVE q > hdr
    <3>1. q \in Nat /\ q >= h[p].next
        BY <1>1, <1>2, <2>3
    <3> QED BY <2>1, <2>2, <3>1
  <2> QED BY <2>2, <2>3 DEF JustBelow
<1>3. CASE h[p].next = Base /\ \A q \in list : q <= p
  <2>1. p < hdr
      BY <1>0, <1>1, <1>3 DEF Between
  <2>2. \A q \in list : ~(q > p)
      BY <1>1, <1>3
  <2> QED BY <2>1, <2>2 DEF JustBelow
<1> QED BY <1>0, <1>2, <1>3 DEF Linked

(* Then the list is in order again.                                        *)
LEMMA InsertedCircle ==
  ASSUME NEW top, NEW h, Laid(h, top), NEW list, Circle(h, list),
         NEW p \in list, NEW hdr \in DOMAIN h, hdr \notin list, JustBelow(list, p, hdr)
  PROVE  Circle(Inserted(h, p, hdr), list \cup {hdr})
<1> DEFINE g == Inserted(h, p, hdr)
           all == list \cup {hdr}
<1>0. list \subseteq DOMAIN h /\ Base \in list /\ Base \in Nat
    BY Constants DEF Circle
<1>1. DOMAIN h \subseteq Nat /\ all \in SUBSET Nat /\ p \in Nat /\ hdr \in Nat /\ p # hdr
    BY <1>0, Addresses
<1>2. p < hdr /\ \A q \in list : q > p => q > hdr
    BY DEF JustBelow
<1>3. /\ DOMAIN g = DOMAIN h /\ g[p].next = hdr /\ g[hdr].next = h[p].next
      /\ \A q \in list : q # p => g[q].next = h[q].next
    BY <1>0, <1>1 DEF Inserted
<1> HIDE DEF g
<1>4. Linked(all, p, hdr)
  <2>1. ASSUME NEW q \in all, q > p PROVE q >= hdr
      BY <1>1, <1>2, <2>1
  <2> QED BY <1>2, <2>1 DEF Linked
<1>5. Linked(all, hdr, h[p].next)
  <2>1. CASE h[p].next \in list /\ h[p].next > p /\ \A q \in list : q > p => q >= h[p].next
    <3>1. h[p].next > hdr /\ h[p].next \in all
        BY <1>2, <2>1
    <3>2. ASSUME NEW q \in all, q > hdr PROVE q >= h[p].next
      <4>1. q \in list /\ q > p
          BY <1>1, <1>2, <3>2
      <4> QED BY <2>1, <4>1
    <3> QED BY <3>1, <3>2 DEF Linked
  <2>2. CASE h[p].next = Base /\ \A q \in list : q <= p
    <3>1. ASSUME NEW q \in all PROVE q <= hdr
        BY <1>1, <1>2, <2>2
    <3> QED BY <2>2, <3>1 DEF Linked
  <2>3. Linked(list, p, h[p].next)
      BY DEF Circle
  <2> QED BY <2>1, <2>2, <2>3 DEF Linked
<1>6. ASSUME NEW q \in list, q # p PROVE Linked(all, q, h[q].next)
  <2>1. CASE h[q].next \in list /\ h[q].next > q /\ \A r \in list : r > q => r >= h[q].next
    <3>1. ASSUME hdr > q PROVE hdr >= h[q].next
      <4>1. p > q
          BY <1>1, <1>2, <1>6, <3>1
      <4>2. p >= h[q].next /\ h[q].next \in Nat
          BY <1>1, <2>1, <4>1
      <4> QED BY <1>1, <1>2, <4>2
    <3> QED BY <2>1, <3>1 DEF Linked
  <2>2. CASE h[q].next = Base /\ \A r \in list : r <= q
    <3>1. q > p
        BY <1>1, <1>6, <2>2
    <3>2. hdr <= q
        BY <1>1, <1>2, <3>1
    <3> QED BY <2>2, <3>2 DEF Linked
  <2>3. Linked(list, q, h[q].next)
      BY DEF Circle
  <2> QED BY <2>1, <2>2, <2>3 DEF Linked
<1>7. ASSUME NEW q \in all PROVE Linked(all, q, g[q].next)
    BY <1>3, <1>4, <1>5, <1>6
<1> QED BY <1>0, <1>3, <1>7 DEF Circle, g

(* Neighbours are never combined, since an address in bytes and a size in  *)
(* units add up to less than the next address.                             *)
LEMMA NeverAdjacent ==
  ASSUME NEW top, NEW h, Laid(h, top), NEW p \in DOMAIN h, NEW q \in DOMAIN h, p # q
  PROVE  p + h[p].size # q
<1>1. /\ p \in Nat /\ q \in Nat /\ p >= Base /\ q >= Base
    BY Addresses, Constants
<1>2. CASE p = Base
  <2>1. h[p].size = 0
      BY <1>1, <1>2, Constants DEF Laid
  <2> QED BY <1>1, <1>2, <2>1
<1>3. CASE p # Base /\ p < q
  <2>1. h[p].size \in Nat /\ h[p].size >= 1 /\ p + h[p].size * HeaderSize <= q
      BY <1>3 DEF Laid
  <2>2. h[p].size * HeaderSize >= h[p].size + 1 /\ h[p].size * HeaderSize \in Nat
      BY <2>1, Multiples
  <2> QED BY <1>1, <2>1, <2>2
<1>4. CASE q < p
  <2>1. h[p].size \in Nat
      BY DEF Laid
  <2> QED BY <1>1, <1>4, <2>1
<1> QED BY <1>1, <1>2, <1>3, <1>4

(* Links do not matter for the blocks. *)
LEMMA InsertedLaid ==
  ASSUME NEW top, NEW h, Laid(h, top), NEW p \in DOMAIN h, NEW hdr \in DOMAIN h, p # hdr
  PROVE  /\ Laid(Inserted(h, p, hdr), top)
         /\ DOMAIN Inserted(h, p, hdr) = DOMAIN h
         /\ \A q \in DOMAIN h : Inserted(h, p, hdr)[q].size = h[q].size
<1> DEFINE g == Inserted(h, p, hdr)
<1>1. /\ DOMAIN g = DOMAIN h /\ g[p] = [next |-> hdr, size |-> h[p].size]
      /\ g[hdr] = [next |-> h[p].next, size |-> h[hdr].size]
      /\ \A q \in DOMAIN h : q # p /\ q # hdr => g[q] = h[q]
    BY DEF Inserted
<1> HIDE DEF g
<1>2. \A q \in DOMAIN h : g[q].size = h[q].size
    BY <1>1
<1>3. /\ top \in Nat
      /\ \A q \in DOMAIN h : h[q] \in [next : 0 .. top, size : 0 .. top]
    BY DEF Laid
<1>4. hdr \in 0 .. top
  <2>1. top >= First /\ hdr \in Nat /\ hdr <= top
    <3>1. CASE hdr = Base
      <4>1. p \in Nat /\ p >= First /\ p < top
          BY <1>3, <3>1, Addresses
      <4> QED BY <1>3, <3>1, <4>1, Constants
    <3>2. CASE hdr # Base
      <4>1. hdr \in Nat /\ hdr >= First /\ hdr < top
          BY <1>3, <3>2, Addresses
      <4> QED BY <1>3, <4>1, Constants
    <3> QED BY <3>1, <3>2
  <2> QED BY <1>3, <2>1
<1>5. \A q \in DOMAIN g : g[q] \in [next : 0 .. top, size : 0 .. top]
    BY <1>1, <1>3, <1>4
<1>6. \A q \in DOMAIN g :
         \/ q = Base /\ g[q].size = 0
         \/ q \in Nat /\ q >= First /\ Aligned(q)
            /\ g[q].size >= 1 /\ q + g[q].size * HeaderSize <= top
    BY <1>1, <1>2 DEF Laid
<1>7. \A q, r \in DOMAIN g : q # Base /\ q < r => q + g[q].size * HeaderSize <= r
    BY <1>1, <1>2 DEF Laid
<1>8. Laid(g, top)
    BY <1>3, <1>5, <1>6, <1>7 DEF Laid
<1> QED BY <1>1, <1>2, <1>8 DEF g

(* freeRaw puts the block into the list and does nothing else.             *)
LEMMA FreeRawInserts ==
  ASSUME NEW end, NEW h, Laid(h, end), NEW list, Circle(h, list), NEW fp \in list, NEW top,
         NEW hdr \in DOMAIN h, hdr \notin list
  PROVE  \E p \in list : /\ FreeRaw(Fine(h, fp, top), hdr) = Fine(Inserted(h, p, hdr), p, top)
                         /\ JustBelow(list, p, hdr)
<1> DEFINE s == Fine(h, fp, top)
           walk == Walk(s)
           n == Cardinality(DOMAIN h)
           steps == {k \in DOMAIN walk : Between(s, walk[k], hdr)}
<1>0. s.header = h /\ s.freePointer = fp /\ s.poolFreePos = top /\ s.failed = FALSE
    BY DEF Fine, Record
<1>1. IsFiniteSet(DOMAIN h) /\ n \in Nat
    BY Addresses, FS_CardinalityType
<1>2. hdr \in Nat /\ hdr # Base /\ hdr > Base /\ Base \in list /\ list \subseteq DOMAIN h
  <2>1. Base \in list /\ list \subseteq DOMAIN h /\ hdr \in Nat /\ hdr >= Base /\ Base \in Nat
      BY Addresses, Constants DEF Circle
  <2> QED BY <2>1
<1>3. IsWalk(walk, h, fp, n)
    BY <1>0, <1>1, WalkIs
<1> HIDE DEF s, walk, n
<1>4. DOMAIN walk = 0 .. n /\ \A k \in 0 .. n : walk[k] \in list
    BY <1>1, <1>3, WalkInList
<1>5. steps \in SUBSET Nat /\ steps # {}
  <2>1. PICK q \in list : Between(s, q, hdr)
      BY <1>0, <1>2, PlaceFound
  <2>2. PICK k \in 0 .. n : walk[k] = q
      BY <1>3, <2>1, WalkVisits DEF n
  <2>3. k \in steps
      BY <1>4, <2>1, <2>2
  <2> QED BY <1>1, <1>4, <2>3
<1>6. PICK k \in steps : k = Min(steps)
  <2> HIDE DEF steps
  <2> QED BY <1>5, Least
<1> DEFINE p == walk[Min(steps)]
<1>7. p \in list /\ Between(s, p, hdr)
    BY <1>4, <1>6
<1> HIDE DEF steps
<1>8. JustBelow(list, p, hdr)
    BY <1>0, <1>2, <1>7, BetweenIsBelow
<1>9. hdr + h[hdr].size # h[p].next
  <2>1. h[p].next \in list
      BY <1>7 DEF Circle, Linked
  <2>2. h[p].next \in DOMAIN h /\ h[p].next # hdr
      BY <1>2, <2>1
  <2> QED BY <2>2, NeverAdjacent
<1>10. p + h[p].size # hdr
    BY <1>2, <1>7, NeverAdjacent
<1>11. FreeRaw(s, hdr) = Fine(Inserted(h, p, hdr), p, top)
  <2> DEFINE low == s.header[p]
             high == s.header[low.next]
             block == IF hdr + s.header[hdr].size = low.next
                      THEN [next |-> high.next, size |-> s.header[hdr].size + high.size]
                      ELSE [next |-> low.next, size |-> s.header[hdr].size]
             below == IF p + low.size = hdr
                      THEN [next |-> block.next, size |-> low.size + block.size]
                      ELSE [next |-> hdr, size |-> low.size]
  <2>1. block = [next |-> h[p].next, size |-> h[hdr].size]
      BY <1>0, <1>9
  <2>2. below = [next |-> hdr, size |-> h[p].size]
      BY <1>0, <1>10
  <2>3. below.next # 0
      BY <1>2, <2>2, Constants
  <2> HIDE DEF block, below
  <2>4. [h EXCEPT ![hdr] = block, ![p] = below] = Inserted(h, p, hdr)
      BY <2>1, <2>2 DEF Inserted
  <2>5. FreeRaw(s, hdr) = Record([s.header EXCEPT ![hdr] = block, ![p] = below], p, s.poolFreePos,
                                 s.failed \/ below.next = 0)
      BY <1>5 DEF FreeRaw, block, below, steps, walk
  <2>6. (s.failed \/ below.next = 0) = FALSE
      BY <1>0, <2>3
  <2> QED BY <1>0, <2>4, <2>5, <2>6, Zenon DEF Fine
<1> QED BY <1>7, <1>8, <1>11 DEF s

-----------------------------------------------------------------------------
(* getMem.                                                                 *)

(* A header with a size is written at hdr, which has none yet. *)
Extended(h, hdr, size) == Put(h, hdr, [next |-> 0, size |-> size])

(* The headers g after getMem: a block at top is new, behind p in the list. *)
Grown(h, list, p, top, size, g, end) ==
    /\ end = top + size * HeaderSize
    /\ DOMAIN g = DOMAIN h \cup {top} /\ top \notin DOMAIN h
    /\ g[top].size = size /\ \A q \in DOMAIN h : g[q].size = h[q].size
    /\ g[p].next = top /\ Laid(g, end) /\ Circle(g, list \cup {top})

(* A block at the end of the pool keeps the blocks apart.                  *)
LEMMA ExtendedLaid ==
  ASSUME NEW top, NEW h, Laid(h, top), NEW list, Circle(h, list), Aligned(top), top >= First,
         NEW size \in Nat, size >= 1, NEW end, end = top + size * HeaderSize
  PROVE  /\ Laid(Extended(h, top, size), end) /\ Circle(Extended(h, top, size), list)
         /\ DOMAIN Extended(h, top, size) = DOMAIN h \cup {top} /\ top \notin DOMAIN h
         /\ Extended(h, top, size)[top].size = size
         /\ \A q \in DOMAIN h : Extended(h, top, size)[q] = h[q]
<1> DEFINE e == Extended(h, top, size)
<1>1. top \in Nat /\ top # Base /\ Base < First /\ Base \in Nat /\ First \in Nat
    BY Constants DEF Laid
<1>2. size * HeaderSize \in Nat /\ size * HeaderSize >= size + 1
    BY Multiples
<1>3. end \in Nat /\ end > top /\ size <= end
    BY <1>1, <1>2
<1>4. \A q \in DOMAIN h : q \in Nat /\ q < top
    BY <1>1, Addresses
<1>5. top \notin DOMAIN h
    BY <1>1, <1>4
<1>6. /\ DOMAIN e = DOMAIN h \cup {top} /\ e[top] = [next |-> 0, size |-> size]
      /\ \A q \in DOMAIN h : e[q] = h[q]
    BY <1>5 DEF Extended, Put
<1> HIDE DEF e
<1>7. ASSUME NEW q \in DOMAIN e PROVE e[q] \in [next : 0 .. end, size : 0 .. end]
  <2>1. CASE q = top
      BY <1>3, <1>6, <2>1
  <2>2. CASE q # top
    <3>1. h[q] \in [next : 0 .. top, size : 0 .. top] /\ e[q] = h[q]
        BY <1>6, <2>2 DEF Laid
    <3> QED BY <1>1, <1>3, <3>1
  <2> QED BY <2>1, <2>2
<1>8. ASSUME NEW q \in DOMAIN e
      PROVE  \/ q = Base /\ e[q].size = 0
             \/ q \in Nat /\ q >= First /\ Aligned(q)
                /\ e[q].size >= 1 /\ q + e[q].size * HeaderSize <= end
  <2>1. CASE q = top
      BY <1>1, <1>3, <1>6, <2>1
  <2>2. CASE q # top /\ q # Base
    <3>1. /\ q \in Nat /\ q >= First /\ Aligned(q)
          /\ h[q].size >= 1 /\ q + h[q].size * HeaderSize <= top /\ e[q] = h[q]
          /\ h[q].size \in Nat
        BY <1>6, <2>2 DEF Laid
    <3>2. h[q].size * HeaderSize \in Nat
        BY <3>1, Multiples
    <3> QED BY <1>1, <1>3, <3>1, <3>2
  <2>3. CASE q # top /\ q = Base
      BY <1>1, <1>6, <2>3 DEF Laid
  <2> QED BY <2>1, <2>2, <2>3
<1>9. ASSUME NEW q \in DOMAIN e, NEW r \in DOMAIN e, q # Base, q < r
      PROVE  q + e[q].size * HeaderSize <= r
  <2>1. CASE r = top
    <3>1. q # top
        BY <1>1, <1>9, <2>1
    <3>2. q + h[q].size * HeaderSize <= top /\ e[q] = h[q]
        BY <1>6, <1>9, <3>1 DEF Laid
    <3> QED BY <2>1, <3>2
  <2>2. CASE r # top
    <3>1. r \in DOMAIN h /\ q # top
        BY <1>1, <1>4, <1>6, <1>9, <2>2
    <3>2. q + h[q].size * HeaderSize <= r /\ e[q] = h[q]
        BY <1>6, <1>9, <3>1 DEF Laid
    <3> QED BY <3>2
  <2> QED BY <2>1, <2>2
<1>10. Laid(e, end)
    BY <1>3, <1>7, <1>8, <1>9 DEF Laid
<1>11. Circle(e, list)
    BY <1>6 DEF Circle
<1> QED BY <1>5, <1>6, <1>10, <1>11 DEF e

(* getMem puts a block of the size asked for, or of MinAlloc units, behind *)
(* the others and into the list, where freePointer leads to it.            *)
LEMMA GetMemGrows ==
  ASSUME NEW top, NEW h, Laid(h, top), NEW list, Circle(h, list), NEW fp \in list,
         Aligned(top), top >= First, NEW units \in Nat, units >= 1,
         NEW size, size = Larger(units, MinAlloc), NEW end, end = top + size * HeaderSize
  PROVE  \E p \in list : \E g : /\ GetMem(Fine(h, fp, top), units) = Fine(g, p, end)
                                /\ Grown(h, list, p, top, size, g, end)
<1> DEFINE e == Extended(h, top, size)
           s == Fine(h, fp, top)
<1>1. size \in Nat /\ size >= 1
    BY Constants DEF Larger
<1> HIDE DEF e
<1>0. e = Extended(h, top, size)
    BY DEF e
<1>2. Laid(e, end) /\ Circle(e, list) /\ DOMAIN e = DOMAIN h \cup {top} /\ top \notin DOMAIN h
    BY <1>0, <1>1, ExtendedLaid
<1>12. e[top].size = size /\ \A q \in DOMAIN h : e[q] = h[q]
    BY <1>0, <1>2 DEF Extended, Put
<1>3. list \subseteq DOMAIN h /\ top \notin list
    BY <1>2 DEF Circle
<1>4. PICK p \in list : /\ FreeRaw(Fine(e, fp, top), top) = Fine(Inserted(e, p, top), p, top)
                        /\ JustBelow(list, p, top)
    BY <1>2, <1>3, FreeRawInserts
<1> DEFINE g == Inserted(e, p, top)
<1>5. p \in DOMAIN e /\ top \in DOMAIN e /\ p # top
    BY <1>2, <1>3
<1>6. Circle(g, list \cup {top})
    BY <1>2, <1>3, <1>4, <1>5, InsertedCircle
<1>7. /\ Laid(g, end) /\ DOMAIN g = DOMAIN e
      /\ \A q \in DOMAIN e : g[q].size = e[q].size
  <2>1. Laid(e, end)
      BY <1>2
  <2> QED BY <1>5, <2>1, InsertedLaid
<1>8. g[p].next = top
    BY <1>5 DEF Inserted
<1> HIDE DEF g
<1>9. s.header = h /\ s.freePointer = fp /\ s.poolFreePos = top /\ s.failed = FALSE
    BY DEF Fine, Record
<1>10. GetMem(s, units) = Fine(g, p, end)
  <2> DEFINE given == FreeRaw(Record(Put(s.header, s.poolFreePos, [next |-> 0, size |-> size]),
                                     s.freePointer, s.poolFreePos, s.failed), s.poolFreePos)
  <2>1. given = Fine(g, p, top)
      BY <1>4, <1>9 DEF e, g, Extended, Fine
  <2>2. given.header = g /\ given.freePointer = p /\ given.failed = FALSE
      BY <2>1 DEF Fine, Record
  <2>3. GetMem(s, units) = Record(given.header, given.freePointer, s.poolFreePos + size * HeaderSize, given.failed)
      BY DEF GetMem
  <2> HIDE DEF given
  <2> QED BY <1>9, <2>2, <2>3, Zenon DEF Fine
<1>11. g[top].size = size /\ \A q \in DOMAIN h : g[q].size = h[q].size
    BY <1>2, <1>7, <1>12
<1> QED BY <1>2, <1>6, <1>7, <1>8, <1>10, <1>11 DEF s, Grown

-----------------------------------------------------------------------------
(* TakeBlock.                                                              *)

(* A block of the right size leaves the list. *)
Unlinked(h, prevp, p) == [h EXCEPT ![prevp].next = h[p].next]
(* The last units of a larger one become a block of their own. *)
CutOff(h, p, hdr, units) == Put([h EXCEPT ![p].size = @ - units], hdr, [next |-> 0, size |-> units])

(* The headers g after the block at hdr was taken from the one at p.       *)
Taken(h, list, p, units, g, hdr, end) ==
    /\ hdr = p + (h[p].size - units) * HeaderSize /\ hdr # Base
    /\ \/ hdr = p /\ h[p].size = units
       \/ hdr # p /\ hdr \notin DOMAIN h /\ g[p].size = h[p].size - units
    /\ DOMAIN g = DOMAIN h \cup {hdr} /\ g[hdr].size = units
    /\ \A q \in DOMAIN h \ {p} : g[q].size = h[q].size
    /\ Laid(g, end) /\ Circle(g, list \ {hdr})

(* The link of the block before it now leads to the one behind it.         *)
LEMMA UnlinkedCircle ==
  ASSUME NEW end, NEW h, Laid(h, end), NEW list, Circle(h, list),
         NEW prevp \in list, NEW p \in list, p # Base, h[prevp].next = p
  PROVE  prevp # p /\ Circle(Unlinked(h, prevp, p), list \ {p})
<1> DEFINE g == Unlinked(h, prevp, p)
           rest == list \ {p}
<1>0. list \subseteq DOMAIN h /\ Base \in list /\ Base \in Nat
    BY Constants DEF Circle
<1>1. list \in SUBSET Nat /\ p \in Nat /\ prevp \in Nat
    BY <1>0, Addresses
<1>2. Linked(list, prevp, p) /\ Linked(list, p, h[p].next)
    BY DEF Circle
<1>3. p > prevp /\ \A q \in list : q > prevp => q >= p
    BY <1>2 DEF Linked
<1>4. prevp # p
    BY <1>1, <1>3
<1>5. /\ DOMAIN g = DOMAIN h /\ g[prevp].next = h[p].next
      /\ \A q \in list : q # prevp => g[q].next = h[q].next
    BY <1>0 DEF Unlinked
<1> HIDE DEF g
<1>6. Linked(rest, prevp, h[p].next)
  <2>1. CASE h[p].next \in list /\ h[p].next > p /\ \A q \in list : q > p => q >= h[p].next
    <3>1. h[p].next \in Nat /\ h[p].next > prevp /\ h[p].next # p
        BY <1>1, <1>3, <2>1
    <3>2. ASSUME NEW q \in rest, q > prevp PROVE q >= h[p].next
      <4>1. q \in Nat /\ q >= p /\ q # p
          BY <1>1, <1>3, <3>2
      <4>2. q > p
          BY <1>1, <4>1
      <4> QED BY <2>1, <4>2
    <3> QED BY <2>1, <3>1, <3>2 DEF Linked
  <2>2. CASE h[p].next = Base /\ \A q \in list : q <= p
    <3>1. ASSUME NEW q \in rest PROVE q <= prevp
      <4>1. q \in Nat /\ q <= p /\ q # p
          BY <1>1, <2>2
      <4>2. ~(q > prevp)
          BY <1>1, <1>3, <4>1
      <4> QED BY <1>1, <4>1, <4>2
    <3> QED BY <2>2, <3>1 DEF Linked
  <2> QED BY <1>2, <2>1, <2>2 DEF Linked
<1>7. ASSUME NEW q \in rest, q # prevp PROVE Linked(rest, q, h[q].next)
  <2>1. Linked(list, q, h[q].next)
      BY DEF Circle
  <2>2. h[q].next # p
    <3>1. ASSUME h[q].next = p PROVE FALSE
      <4>1. q \in Nat /\ p > q /\ \A r \in list : r > q => r >= p
          BY <1>1, <2>1, <3>1 DEF Linked
      <4>2. q > prevp \/ prevp > q
          BY <1>1, <1>7, <4>1
      <4>3. q >= p \/ prevp >= p
          BY <1>3, <4>1, <4>2
      <4> QED BY <1>1, <1>3, <4>1, <4>3
    <3> QED BY <3>1
  <2> QED BY <2>1, <2>2 DEF Linked
<1>8. \A q \in rest : Linked(rest, q, g[q].next)
    BY <1>5, <1>6, <1>7
<1>9. Base \in rest /\ rest \subseteq DOMAIN g
    BY <1>0, <1>5
<1> QED BY <1>4, <1>8, <1>9 DEF Circle, g

(* Taking a header off the list moves no block.                            *)
LEMMA UnlinkedLaid ==
  ASSUME NEW end, NEW h, Laid(h, end), NEW prevp \in DOMAIN h, NEW p \in DOMAIN h
  PROVE  /\ Laid(Unlinked(h, prevp, p), end) /\ DOMAIN Unlinked(h, prevp, p) = DOMAIN h
         /\ \A q \in DOMAIN h : Unlinked(h, prevp, p)[q].size = h[q].size
<1> DEFINE g == Unlinked(h, prevp, p)
<1>1. end \in Nat /\ \A q \in DOMAIN h : h[q] \in [next : 0 .. end, size : 0 .. end]
    BY DEF Laid
<1>2. DOMAIN g = DOMAIN h /\ \A q \in DOMAIN h : g[q] \in [next : 0 .. end, size : 0 .. end]
    BY <1>1 DEF Unlinked
<1>3. \A q \in DOMAIN h : g[q].size = h[q].size
    BY <1>1 DEF Unlinked
<1> HIDE DEF g
<1>4. \A q \in DOMAIN g :
         \/ q = Base /\ g[q].size = 0
         \/ q \in Nat /\ q >= First /\ Aligned(q)
            /\ g[q].size >= 1 /\ q + g[q].size * HeaderSize <= end
    BY <1>2, <1>3 DEF Laid
<1>5. \A q, r \in DOMAIN g : q # Base /\ q < r => q + g[q].size * HeaderSize <= r
    BY <1>2, <1>3 DEF Laid
<1>6. Laid(g, end)
    BY <1>1, <1>2, <1>4, <1>5 DEF Laid
<1> QED BY <1>2, <1>3, <1>6 DEF g

(* The two parts of a block that is cut lie where it lay.                  *)
LEMMA CutLaid ==
  ASSUME NEW end, NEW h, Laid(h, end), NEW list, Circle(h, list), NEW p \in DOMAIN h, p # Base,
         NEW units \in Nat, units >= 1, h[p].size > units,
         NEW hdr, hdr = p + (h[p].size - units) * HeaderSize,
         NEW g, g = CutOff(h, p, hdr, units)
  PROVE  Taken(h, list, p, units, g, hdr, end) /\ list \ {hdr} = list
<1> DEFINE rest == h[p].size - units
<1>1. /\ p \in Nat /\ p >= First /\ Aligned(p) /\ end \in Nat /\ h[p].size \in Nat
      /\ p + h[p].size * HeaderSize <= end
    BY DEF Laid
<1>2. rest \in Nat /\ rest >= 1 /\ h[p].size = rest + units
    BY <1>1
<1> HIDE DEF rest
<1>3. h[p].size * HeaderSize = rest * HeaderSize + units * HeaderSize
    BY <1>2, Multiples
<1>4. /\ rest * HeaderSize \in Nat /\ rest * HeaderSize >= 2
      /\ units * HeaderSize \in Nat /\ units * HeaderSize >= units + 1
  <2>1. /\ rest * HeaderSize \in Nat /\ rest * HeaderSize >= rest + 1
        /\ units * HeaderSize \in Nat /\ units * HeaderSize >= units + 1
      BY <1>2, Multiples
  <2> QED BY <1>2, <2>1
<1>5. hdr = p + rest * HeaderSize
    BY DEF rest
<1> DEFINE x == rest * HeaderSize
           y == units * HeaderSize
<1>6. /\ x \in Nat /\ x >= 2 /\ y \in Nat /\ y >= units + 1 /\ hdr = p + x
      /\ p + x + y <= end
      /\ \A q \in DOMAIN h : p < q => p + x + y <= q
  <2>1. \A q \in DOMAIN h : p < q => p + h[p].size * HeaderSize <= q
      BY DEF Laid
  <2> QED BY <1>1, <1>3, <1>4, <1>5, <2>1
<1> HIDE DEF x, y
<1>7. /\ hdr \in Nat /\ hdr > p /\ hdr >= First /\ hdr <= end /\ hdr # Base
      /\ hdr + y <= end /\ units <= end
    BY <1>1, <1>6, Constants
<1>8. hdr \notin DOMAIN h
  <2>1. ASSUME hdr \in DOMAIN h PROVE FALSE
    <3>1. p + x + y <= hdr
        BY <1>1, <1>6, <1>7, <2>1
    <3> QED BY <1>1, <1>6, <3>1
  <2> QED BY <2>1
<1>9. DOMAIN g = DOMAIN h \cup {hdr}
    BY DEF CutOff, Put
<1>10. /\ g[hdr].size = units /\ g[hdr].next = 0
       /\ g[hdr] \in [next : 0 .. end, size : 0 .. end]
    BY <1>1, <1>7 DEF CutOff, Put
<1>11. \A q \in DOMAIN h : q # p => g[q] = h[q]
    BY <1>8 DEF CutOff, Put
<1>12. g[p].size = rest /\ g[p].next = h[p].next /\ g[p] \in [next : 0 .. end, size : 0 .. end]
  <2>1. h[p] \in [next : 0 .. end, size : 0 .. end] /\ rest \in 0 .. end
    <3>1. h[p] \in [next : 0 .. end, size : 0 .. end]
        BY DEF Laid
    <3> QED BY <1>1, <1>2, <3>1
  <2>2. g[p] = [h EXCEPT ![p].size = @ - units][p]
      BY <1>8, <1>9 DEF CutOff, Put
  <2> QED BY <1>1, <2>1, <2>2 DEF rest
<1>13. ASSUME NEW q \in DOMAIN g PROVE g[q] \in [next : 0 .. end, size : 0 .. end]
  <2>1. CASE q \in DOMAIN h /\ q # p
      BY <1>11, <2>1 DEF Laid
  <2> QED BY <1>9, <1>10, <1>12, <2>1
<1>14. Aligned(hdr)
  <2>1. PICK u \in Nat : p = First + u * HeaderSize
      BY <1>1 DEF Aligned
  <2>2. (u + rest) * HeaderSize = u * HeaderSize + rest * HeaderSize /\ u + rest \in Nat
      BY <1>2, Multiples
  <2>3. u * HeaderSize \in Nat
      BY Multiples
  <2>4. hdr = First + (u + rest) * HeaderSize
      BY <1>4, <1>5, <2>1, <2>2, <2>3, Constants
  <2> QED BY <2>2, <2>4 DEF Aligned
<1>15. ASSUME NEW q \in DOMAIN g
       PROVE  \/ q = Base /\ g[q].size = 0
              \/ q \in Nat /\ q >= First /\ Aligned(q)
                 /\ g[q].size >= 1 /\ q + g[q].size * HeaderSize <= end
  <2>1. CASE q \in DOMAIN h /\ q # p
      BY <1>11, <2>1 DEF Laid
  <2>2. CASE q = p
    <3>1. g[p].size * HeaderSize = x
        BY <1>12 DEF x
    <3>2. g[p].size >= 1 /\ p + x <= end
        BY <1>1, <1>2, <1>6, <1>12
    <3> QED BY <1>1, <2>2, <3>1, <3>2
  <2>3. CASE q = hdr
    <3>1. g[hdr].size * HeaderSize = y
        BY <1>10 DEF y
    <3> QED BY <1>7, <1>10, <1>14, <2>3, <3>1
  <2> QED BY <1>9, <2>1, <2>2, <2>3
<1>16. ASSUME NEW q \in DOMAIN g, NEW r \in DOMAIN g, q # Base, q < r
       PROVE  q + g[q].size * HeaderSize <= r
  <2>0. /\ r \in Nat /\ q \in Nat
        /\ DOMAIN h \subseteq Nat
      BY <1>7, <1>9, Addresses
  <2>1. CASE q = p
    <3>1. g[p].size * HeaderSize = x
        BY <1>12 DEF x
    <3>2. r # hdr => p + x + y <= r
        BY <1>6, <1>9, <1>16, <2>1
    <3>3. p + x <= r
        BY <1>1, <1>6, <2>0, <3>2
    <3> QED BY <2>1, <3>1, <3>3
  <2>2. CASE q = hdr
    <3>1. g[hdr].size * HeaderSize = y
        BY <1>10 DEF y
    <3>2. r \in DOMAIN h /\ p < r
        BY <1>1, <1>7, <1>9, <1>16, <2>0, <2>2
    <3>3. p + x + y <= r
        BY <1>6, <3>2
    <3> QED BY <1>6, <2>2, <3>1, <3>3
  <2>3. CASE q \in DOMAIN h /\ q # p /\ r # hdr
      BY <1>9, <1>11, <1>16, <2>3 DEF Laid
  <2>4. CASE q \in DOMAIN h /\ q # p /\ r = hdr
    <3>1. h[q].size \in Nat /\ g[q] = h[q]
        BY <1>11, <2>4 DEF Laid
    <3>2. h[q].size * HeaderSize \in Nat
        BY <3>1, Multiples
    <3>3. q < p
      <4>1. ~(p < q)
        <5>1. ASSUME p < q PROVE FALSE
          <6>1. p + x + y <= q
              BY <1>6, <2>4, <5>1
          <6> QED BY <1>1, <1>6, <1>16, <2>0, <2>4, <6>1
        <5> QED BY <5>1
      <4> QED BY <1>1, <2>0, <2>4, <4>1
    <3>4. q + h[q].size * HeaderSize <= p
        BY <1>16, <2>4, <3>3 DEF Laid
    <3> QED BY <1>1, <1>7, <2>0, <2>4, <3>1, <3>2, <3>4
  <2> QED BY <1>9, <2>1, <2>2, <2>3, <2>4
<1>17. Laid(g, end)
    BY <1>1, <1>13, <1>15, <1>16 DEF Laid
<1>18. Circle(g, list)
  <2>1. \A q \in list : g[q].next = h[q].next
      BY <1>11, <1>12 DEF Circle
  <2> QED BY <1>9, <2>1 DEF Circle
<1>19. list \ {hdr} = list
    BY <1>8 DEF Circle
<1>20. hdr # p
    BY <1>8
<1> QED BY <1>7, <1>8, <1>9, <1>10, <1>11, <1>12, <1>17, <1>18, <1>19, <1>20 DEF Taken, rest

(* No header lies inside the block that the program gets.                  *)
LEMMA NothingInside ==
  ASSUME NEW end, NEW g, Laid(g, end), NEW hdr \in DOMAIN g, hdr # Base
  PROVE  DOMAIN g \cap (hdr + 1 .. hdr + g[hdr].size * HeaderSize - 1) = {}
<1>1. hdr \in Nat /\ DOMAIN g \subseteq Nat /\ g[hdr].size * HeaderSize \in Nat
  <2>1. g[hdr].size \in Nat
      BY DEF Laid
  <2> QED BY <2>1, Addresses, Multiples
<1>2. ASSUME NEW q \in DOMAIN g, hdr < q PROVE hdr + g[hdr].size * HeaderSize <= q
    BY <1>2 DEF Laid
<1> QED BY <1>1, <1>2

(* TakeBlock leaves the headers as Taken says and all of them in place.    *)
LEMMA TakeBlockTakes ==
  ASSUME NEW end, NEW h, Laid(h, end), NEW list, Circle(h, list), NEW fp,
         NEW prevp \in list, NEW p \in list, p # Base, h[prevp].next = p,
         NEW units \in Nat, units >= 1, h[p].size >= units
  PROVE  \E g, hdr : /\ TakeBlock(Fine(h, fp, end), prevp, p, units)
                        = [state |-> Fine(g, prevp, end), ptr |-> hdr + HeaderSize]
                     /\ Taken(h, list, p, units, g, hdr, end)
                     /\ prevp \in list \ {hdr}
<1> DEFINE s == Fine(h, fp, end)
           exact == h[p].size = units
           hdr == IF exact THEN p ELSE p + (h[p].size - units) * HeaderSize
           inside == hdr + 1 .. hdr + units * HeaderSize - 1
           g == IF exact THEN Unlinked(h, prevp, p) ELSE CutOff(h, p, hdr, units)
<1>1. s.header = h /\ s.freePointer = fp /\ s.poolFreePos = end /\ s.failed = FALSE
    BY DEF Fine, Record
<1>2. p \in DOMAIN h /\ prevp \in DOMAIN h /\ h[p].size \in Nat /\ p \in Nat
  <2>1. p \in DOMAIN h /\ prevp \in DOMAIN h
      BY DEF Circle
  <2> QED BY <2>1, Addresses DEF Laid
<1>3. prevp # p /\ Circle(Unlinked(h, prevp, p), list \ {p})
    BY UnlinkedCircle
<1>4. Taken(h, list, p, units, g, hdr, end) /\ prevp \in list \ {hdr}
  <2>1. CASE exact
    <3>1. /\ Laid(Unlinked(h, prevp, p), end) /\ DOMAIN Unlinked(h, prevp, p) = DOMAIN h
          /\ \A q \in DOMAIN h : Unlinked(h, prevp, p)[q].size = h[q].size
        BY <1>2, UnlinkedLaid
    <3>2. p = p + (h[p].size - units) * HeaderSize
      <4>1. h[p].size - units = 0 /\ HeaderSize \in Nat
          BY <1>2, <2>1, Constants
      <4> QED BY <1>2, <4>1
    <3>3. Taken(h, list, p, units, Unlinked(h, prevp, p), p, end)
        BY <1>2, <1>3, <2>1, <3>1, <3>2 DEF Taken
    <3> QED BY <1>3, <2>1, <3>3
  <2>2. CASE ~exact
    <3>1. h[p].size > units
        BY <1>2, <2>2
    <3> DEFINE at == p + (h[p].size - units) * HeaderSize
               cut == CutOff(h, p, at, units)
    <3>2. at = p + (h[p].size - units) * HeaderSize /\ cut = CutOff(h, p, at, units)
        OBVIOUS
    <3> HIDE DEF at, cut
    <3>3. Taken(h, list, p, units, cut, at, end) /\ list \ {at} = list
        BY <1>2, <3>1, <3>2, CutLaid
    <3> QED BY <2>2, <3>3 DEF at, cut
  <2> QED BY <2>1, <2>2
<1>5. Restrict(g, DOMAIN g \ inside) = g
  <2>1. g[hdr].size = units /\ hdr \in DOMAIN g /\ hdr # Base /\ Laid(g, end)
      BY <1>4 DEF Taken
  <2>2. g = [q \in DOMAIN g |-> g[q]]
    <3>1. Unlinked(h, prevp, p) = [q \in DOMAIN Unlinked(h, prevp, p) |-> Unlinked(h, prevp, p)[q]]
        BY DEF Unlinked
    <3>2. CutOff(h, p, hdr, units) = [q \in DOMAIN CutOff(h, p, hdr, units) |-> CutOff(h, p, hdr, units)[q]]
        BY DEF CutOff, Put
    <3> QED BY <3>1, <3>2
  <2> HIDE DEF g, hdr
  <2>3. DOMAIN g \cap inside = {}
      BY <2>1, NothingInside
  <2>4. DOMAIN g \ inside = DOMAIN g
      BY <2>3
  <2> HIDE DEF inside
  <2> QED BY <2>2, <2>4 DEF Restrict
<1>6. TakeBlock(s, prevp, p, units) = [state |-> Fine(g, prevp, end), ptr |-> hdr + HeaderSize]
  <2>1. TakeBlock(s, prevp, p, units)
        = [state |-> Record(Restrict(g, DOMAIN g \ inside), prevp, s.poolFreePos, s.failed),
           ptr |-> hdr + HeaderSize]
      BY <1>1 DEF TakeBlock, Cut, Unlinked, CutOff
  <2> HIDE DEF g, hdr, inside, s
  <2> QED BY <1>1, <1>5, <2>1 DEF Fine
<1> QED BY <1>4, <1>6 DEF s

-----------------------------------------------------------------------------
(* allocRaw.                                                               *)

(* The units for a size are enough, with one of them for the header.       *)
LEMMA UnitsSuffice ==
  ASSUME NEW size \in Nat \ {0}
  PROVE  /\ UnitsFor(size) \in Nat /\ UnitsFor(size) >= 2
         /\ UnitsFor(size) * HeaderSize >= size + HeaderSize
<1> DEFINE d == HeaderSize
           a == size + d - 1
           x == a \div d
<1>1. d \in Nat /\ d >= 2 /\ a \in Nat /\ a >= d /\ size \in Nat
    BY Constants
<1> HIDE DEF d
<1>2. x \in Nat /\ d * x <= a /\ a < d * x + d
  <2> HIDE DEF a
  <2> QED BY <1>1
<1> HIDE DEF x
<1>3. x >= 1
  <2>1. CASE x = 0
    <3>1. d * x = 0
        BY <1>1, <2>1
    <3> QED BY <1>1, <1>2, <3>1
  <2> QED BY <1>2, <2>1
<1>4. (x + 1) * d = d * x + d
    BY <1>1, <1>2
<1>5. d * x + d >= size + d
  <2> DEFINE y == d * x
  <2>1. y \in Nat
      BY <1>1, <1>2
  <2>2. a < y + d
      BY <1>2
  <2> HIDE DEF y
  <2>3. y + d >= size + d
      BY <1>1, <2>1, <2>2
  <2> QED BY <2>3 DEF y
<1>6. UnitsFor(size) = x + 1
    BY DEF UnitsFor, x, a, d
<1> QED BY <1>2, <1>3, <1>4, <1>5, <1>6 DEF d

(* What allocRaw does where the free list is list: it takes a free block,  *)
(* or has no memory, or takes a new block; r is its result.                *)
NothingFits(h, list, units) == \A q \in list : h[q].size < units
TakesFree(r, h, list, top, units) ==
    \E p \in list : \E prevp, g, hdr :
        /\ r = [state |-> Fine(g, prevp, top), ptr |-> hdr + HeaderSize]
        /\ p # Base /\ h[p].size >= units /\ prevp \in list \ {hdr}
        /\ Taken(h, list, p, units, g, hdr, top)
RunsOut(r, h, list, fp, top, units) ==
    NothingFits(h, list, units) /\ r = [state |-> Fine(h, fp, top), ptr |-> 0]
TakesNew(r, h, list, top, units) ==
    \E p, e, prevp, g, hdr, end, size :
        /\ r = [state |-> Fine(g, prevp, end), ptr |-> hdr + HeaderSize]
        /\ NothingFits(h, list, units) /\ end <= PoolSize
        /\ size = Larger(units, MinAlloc) /\ Grown(h, list, p, top, size, e, end)
        /\ prevp \in (list \cup {top}) \ {hdr}
        /\ Taken(e, list \cup {top}, top, units, g, hdr, end)

(* AllocRaw without memory, with a free block that fits, and with new      *)
(* memory.                                                                 *)
LEMMA AllocRawTakes ==
  ASSUME NEW s, NEW h, NEW list, NEW fp \in list, NEW top,
         (IF s.freePointer # 0 THEN s
          ELSE Record(Put(s.header, Base, [next |-> Base, size |-> 0]), Base, s.poolFreePos, s.failed))
         = Fine(h, fp, top),
         Laid(h, top), Circle(h, list), Aligned(top), top >= First,
         NEW size \in Nat \ {0}, NEW units, units = UnitsFor(size)
  PROVE  \/ TakesFree(AllocRaw(s, size), h, list, top, units)
         \/ RunsOut(AllocRaw(s, size), h, list, fp, top, units)
         \/ TakesNew(AllocRaw(s, size), h, list, top, units)
<1> DEFINE begun == Fine(h, fp, top)
           walk == Walk(begun)
           n == Cardinality(DOMAIN h)
           fitting == {k \in DOMAIN walk \ {0} : BigEnough(begun.header[walk[k]], units)}
           least == Min(fitting)
           grown == GetMem(begun, units)
           r == AllocRaw(s, size)
<1>1. r = IF fitting # {} THEN TakeBlock(begun, walk[least - 1], walk[least], units)
          ELSE IF ~HasMem(begun, units) THEN [state |-> begun, ptr |-> 0]
          ELSE IF grown.failed THEN [state |-> grown, ptr |-> 0]
          ELSE TakeBlock(grown, grown.freePointer, grown.header[grown.freePointer].next, units)
    BY DEF AllocRaw
<1>2. begun.header = h /\ begun.freePointer = fp /\ begun.poolFreePos = top
    BY DEF Fine, Record
<1>3. IsFiniteSet(DOMAIN h) /\ n \in Nat
    BY Addresses, FS_CardinalityType
<1>4. IsWalk(walk, h, fp, n)
    BY <1>2, <1>3, WalkIs
<1> HIDE DEF begun, walk, n, r
<1>5. /\ DOMAIN walk = 0 .. n /\ \A k \in 0 .. n : walk[k] \in list
      /\ \A k \in 0 .. n : k # 0 => k - 1 \in 0 .. n /\ walk[k] = h[walk[k - 1]].next
    BY <1>3, <1>4, WalkInList
<1>6. units \in Nat /\ units >= 1
    BY UnitsSuffice
<1>7. \A p \in list : h[p].size \in Nat
    BY DEF Laid, Circle
<1>8. CASE fitting # {}
  <2>1. fitting \in SUBSET Nat
      BY <1>3, <1>5
  <2> HIDE DEF fitting
  <2>2. least \in fitting
      BY <1>8, <2>1, Least
  <2> HIDE DEF least
  <2> DEFINE p == walk[least]
             prevp == walk[least - 1]
  <2>3. p \in list /\ prevp \in list /\ h[prevp].next = p /\ h[p].size >= units
      BY <1>2, <1>5, <2>2 DEF fitting, BigEnough
  <2> HIDE DEF p, prevp
  <2>4. p # Base
    <3>1. Base \in DOMAIN h => h[Base].size = 0
        BY Constants DEF Laid
    <3> QED BY <1>6, <2>3, <3>1 DEF Circle
  <2>5. PICK g, hdr : /\ TakeBlock(Fine(h, fp, top), prevp, p, units)
                         = [state |-> Fine(g, prevp, top), ptr |-> hdr + HeaderSize]
                      /\ Taken(h, list, p, units, g, hdr, top)
                      /\ prevp \in list \ {hdr}
      BY <1>6, <2>3, <2>4, TakeBlockTakes
  <2>6. r = [state |-> Fine(g, prevp, top), ptr |-> hdr + HeaderSize]
      BY <1>1, <1>8, <2>5 DEF p, prevp, begun
  <2>7. TakesFree(r, h, list, top, units)
      BY <2>3, <2>4, <2>5, <2>6 DEF TakesFree
  <2> QED BY <2>7 DEF r
<1>9. CASE fitting = {}
  <2>1. NothingFits(h, list, units)
    <3>1. ASSUME NEW q \in list PROVE h[q].size < units
      <4>1. PICK k \in 0 .. n : k # 0 /\ walk[k] = q
          BY <1>4, WalkVisits DEF n
      <4>2. ~(h[q].size >= units)
          BY <1>2, <1>5, <1>9, <4>1 DEF BigEnough
      <4> QED BY <1>6, <1>7, <4>2
    <3> QED BY <3>1 DEF NothingFits
  <2>2. CASE ~HasMem(begun, units)
    <3>1. r = [state |-> Fine(h, fp, top), ptr |-> 0]
        BY <1>1, <1>9, <2>2 DEF begun
    <3> QED BY <2>1, <3>1 DEF RunsOut, r
  <2>3. CASE HasMem(begun, units)
    <3> DEFINE most == Larger(units, MinAlloc)
               end == top + most * HeaderSize
    <3>1. end <= PoolSize
        BY <1>2, <2>3 DEF HasMem
    <3>2. most = Larger(units, MinAlloc) /\ end = top + most * HeaderSize /\ most \in Nat /\ most >= units
        BY <1>6, Constants DEF Larger
    <3> HIDE DEF most, end
    <3>g. PICK p \in list : \E e : /\ GetMem(Fine(h, fp, top), units) = Fine(e, p, end)
                                   /\ Grown(h, list, p, top, most, e, end)
        BY <1>6, <3>2, GetMemGrows
    <3>3. PICK e : /\ GetMem(Fine(h, fp, top), units) = Fine(e, p, end)
                   /\ Grown(h, list, p, top, most, e, end)
        BY <3>g
    <3>4. grown = Fine(e, p, end) /\ grown.failed = FALSE /\ grown.freePointer = p /\ grown.header = e
        BY <3>3 DEF begun, Fine, Record
    <3> HIDE DEF grown
    <3>5. r = TakeBlock(Fine(e, p, end), p, top, units)
      <4>1. e[p].next = top
          BY <3>3 DEF Grown
      <4> QED BY <1>1, <1>9, <2>3, <3>4, <4>1
    <3> DEFINE all == list \cup {top}
    <3>6. Laid(e, end) /\ Circle(e, all) /\ e[p].next = top /\ e[top].size >= units
        BY <3>2, <3>3 DEF Grown
    <3>7. p \in all /\ top \in all /\ top # Base
        BY Constants DEF Laid
    <3> HIDE DEF all
    <3>8. PICK g, hdr : /\ TakeBlock(Fine(e, p, end), p, top, units)
                           = [state |-> Fine(g, p, end), ptr |-> hdr + HeaderSize]
                        /\ Taken(e, all, top, units, g, hdr, end)
                        /\ p \in all \ {hdr}
        BY <1>6, <3>6, <3>7, TakeBlockTakes
    <3>9. TakesNew(r, h, list, top, units)
        BY <2>1, <3>1, <3>2, <3>3, <3>5, <3>8 DEF TakesNew, all
    <3> QED BY <3>9 DEF r
  <2> QED BY <2>2, <2>3
<1> QED BY <1>8, <1>9

-----------------------------------------------------------------------------
(* The invariant.  Before the first call of allocRaw there is no list.     *)
List == FreeHeaders \cup {Base}
Inv ==
    /\ failed = FALSE
    /\ Laid(header, poolFreePos) /\ Aligned(poolFreePos)
    /\ poolFreePos >= First /\ poolFreePos <= End
    /\ IF freePointer = 0 THEN DOMAIN header = {} /\ DOMAIN live = {}
       ELSE Circle(header, List) /\ freePointer \in List
    /\ DOMAIN live \subseteq Nat /\ LiveHeaders \subseteq DOMAIN header \ {Base}
    /\ \A ptr \in DOMAIN live :
          live[ptr] \in Nat \ {0} /\ header[ptr - HeaderSize].size = UnitsFor(live[ptr])

(* In the beginning there is no header.                                    *)
LEMMA InitInv == Init => Inv
<1> SUFFICES ASSUME Init PROVE Inv
    OBVIOUS
<1>1. DOMAIN header = {} /\ DOMAIN live = {} /\ freePointer = 0 /\ failed = FALSE /\ poolFreePos = First
    BY DEF Init
<1>2. First \in Nat /\ First >= First /\ First <= End
    BY Constants DEF End, Larger
<1>3. Aligned(First)
  <2>1. First = First + 0 * HeaderSize
      BY Constants
  <2> QED BY <2>1 DEF Aligned
<1>4. Laid(header, poolFreePos)
    BY <1>1, <1>2 DEF Laid
<1>5. LiveHeaders = {}
    BY <1>1 DEF LiveHeaders
<1> QED BY <1>1, <1>2, <1>3, <1>4, <1>5 DEF Inv

(* The state as the record that the functions of the model take.           *)
LEMMA StateIs == Inv => State = Fine(header, freePointer, poolFreePos)
BY DEF Inv, State, Fine

(* What the program gets and gives back changes LiveHeaders by one header. *)
LEMMA LiveGrows ==
  ASSUME Inv, NEW hdr \in Nat, NEW size, live' = Put(live, hdr + HeaderSize, size)
  PROVE  LiveHeaders' = LiveHeaders \cup {hdr}
<1>1. DOMAIN live' = DOMAIN live \cup {hdr + HeaderSize}
    BY DEF Put
<1>2. (hdr + HeaderSize) - HeaderSize = hdr
    BY Constants
<1> QED BY <1>1, <1>2 DEF LiveHeaders

(* The program has one block less.                                         *)
LEMMA LiveShrinks ==
  ASSUME Inv, NEW ptr \in DOMAIN live, live' = Restrict(live, DOMAIN live \ {ptr})
  PROVE  /\ LiveHeaders' = LiveHeaders \ {ptr - HeaderSize} /\ DOMAIN live' = DOMAIN live \ {ptr}
         /\ \A other \in DOMAIN live' : live'[other] = live[other]
<1>1. DOMAIN live' = DOMAIN live \ {ptr} /\ \A other \in DOMAIN live' : live'[other] = live[other]
    BY DEF Restrict
<1>2. \A other \in DOMAIN live : other # ptr => other - HeaderSize # ptr - HeaderSize
    BY Constants DEF Inv
<1> QED BY <1>1, <1>2 DEF LiveHeaders

-----------------------------------------------------------------------------
(* free(): the block is put into the list behind p.                        *)
Freed(ptr, p) ==
    /\ p \in List /\ JustBelow(List, p, ptr - HeaderSize)
    /\ ptr - HeaderSize \in DOMAIN header /\ ptr - HeaderSize \notin List
    /\ header' = Inserted(header, p, ptr - HeaderSize) /\ freePointer' = p
    /\ poolFreePos' = poolFreePos /\ failed' = FALSE
    /\ live' = Restrict(live, DOMAIN live \ {ptr})

(* free() puts the block in its place in the circle.                       *)
LEMMA FreeDoes ==
  ASSUME Inv, NEW ptr \in DOMAIN live, Free(ptr)
  PROVE  Circle(header, List) /\ \E p : Freed(ptr, p)
<1> DEFINE hdr == ptr - HeaderSize
<1>1. hdr \in DOMAIN header /\ hdr \notin List
  <2>1. hdr \in LiveHeaders
      BY DEF LiveHeaders
  <2> QED BY <2>1 DEF Inv, List, FreeHeaders
<1>2. Laid(header, poolFreePos) /\ Circle(header, List) /\ freePointer \in List
    BY <1>1 DEF Inv
<1>3. PICK p \in List : /\ FreeRaw(Fine(header, freePointer, poolFreePos), hdr)
                           = Fine(Inserted(header, p, hdr), p, poolFreePos)
                        /\ JustBelow(List, p, hdr)
    BY <1>1, <1>2, FreeRawInserts
<1> DEFINE s == Fine(Inserted(header, p, hdr), p, poolFreePos)
<1>4. Becomes(s) /\ live' = Restrict(live, DOMAIN live \ {ptr})
    BY <1>3, StateIs DEF Free
<1>5. /\ header' = Inserted(header, p, hdr) /\ freePointer' = p
      /\ poolFreePos' = poolFreePos /\ failed' = FALSE
    BY <1>4 DEF Becomes, Fine, Record
<1>6. Freed(ptr, p)
    BY <1>1, <1>3, <1>4, <1>5 DEF Freed
<1> QED BY <1>2, <1>6

(* After free(), the free list has one more block.                         *)
LEMMA FreedKeeps ==
  ASSUME Inv, Circle(header, List), NEW ptr \in DOMAIN live, NEW p, Freed(ptr, p)
  PROVE  /\ LiveHeaders' = LiveHeaders \ {ptr - HeaderSize}
         /\ FreeHeaders' = FreeHeaders \cup {ptr - HeaderSize}
         /\ DOMAIN header' = DOMAIN header
         /\ \A q \in DOMAIN header : header'[q].size = header[q].size
         /\ Inv'
<1> DEFINE hdr == ptr - HeaderSize
<1>1. hdr \in DOMAIN header /\ hdr \notin List /\ p \in List /\ JustBelow(List, p, hdr)
    BY DEF Freed
<1>2. Laid(header, poolFreePos) /\ p \in DOMAIN header /\ p # hdr
    BY <1>1 DEF Inv, Circle
<1>3. header' = Inserted(header, p, hdr) /\ freePointer' = p /\ poolFreePos' = poolFreePos /\ failed' = FALSE
    BY DEF Freed
<1>4. /\ LiveHeaders' = LiveHeaders \ {hdr} /\ DOMAIN live' = DOMAIN live \ {ptr}
      /\ \A other \in DOMAIN live' : live'[other] = live[other]
    BY LiveShrinks DEF Freed
<1> HIDE DEF hdr
<1>5. /\ Laid(header', poolFreePos) /\ DOMAIN header' = DOMAIN header
      /\ \A q \in DOMAIN header : header'[q].size = header[q].size
    BY <1>1, <1>2, <1>3, InsertedLaid
<1>6. Circle(header', List \cup {hdr})
    BY <1>1, <1>2, <1>3, InsertedCircle
<1>7. hdr # Base
    BY <1>1 DEF List
<1>8. FreeHeaders' = FreeHeaders \cup {hdr} /\ List' = List \cup {hdr}
    BY <1>1, <1>4, <1>5, <1>7 DEF FreeHeaders, List
<1>9. Circle(header, List)' /\ (freePointer \in List)' /\ freePointer' # 0
  <2>1. p # 0
    <3>1. p \in Nat /\ p >= Base
        BY <1>2, Addresses
    <3> QED BY <3>1 DEF Base
  <2> QED BY <1>1, <1>3, <1>6, <1>8, <2>1
<1>10. (\A other \in DOMAIN live :
           live[other] \in Nat \ {0} /\ header[other - HeaderSize].size = UnitsFor(live[other]))'
  <2>1. ASSUME NEW other \in DOMAIN live'
        PROVE  live'[other] \in Nat \ {0} /\ header'[other - HeaderSize].size = UnitsFor(live'[other])
    <3>1. other \in DOMAIN live /\ live'[other] = live[other]
        BY <1>4
    <3>2. other - HeaderSize \in DOMAIN header
        BY <3>1 DEF Inv, LiveHeaders
    <3> QED BY <1>5, <3>1, <3>2 DEF Inv
  <2> QED BY <2>1
<1>11. (LiveHeaders \subseteq DOMAIN header \ {Base})' /\ (DOMAIN live \subseteq Nat)'
    BY <1>4, <1>5 DEF Inv
<1>12. (Laid(header, poolFreePos) /\ Aligned(poolFreePos)
        /\ poolFreePos >= First /\ poolFreePos <= End /\ failed = FALSE)'
    BY <1>3, <1>5 DEF Inv, Aligned, End, First
<1>13. Inv'
    BY <1>9, <1>10, <1>11, <1>12 DEF Inv
<1> QED BY <1>4, <1>5, <1>8, <1>13 DEF hdr

-----------------------------------------------------------------------------
(* alloc().                                                                *)

(* The first call writes the header at Base.                               *)
Begun == IF freePointer # 0 THEN header ELSE Put(header, Base, [next |-> Base, size |-> 0])
BegunPointer == IF freePointer # 0 THEN freePointer ELSE Base

(* The first allocRaw makes the base of the list.                          *)
LEMMA BegunIs ==
  ASSUME Inv
  PROVE  /\ (IF State.freePointer # 0 THEN State
             ELSE Record(Put(State.header, Base, [next |-> Base, size |-> 0]), Base,
                         State.poolFreePos, State.failed))
            = Fine(Begun, BegunPointer, poolFreePos)
         /\ Laid(Begun, poolFreePos) /\ Circle(Begun, List) /\ BegunPointer \in List
         /\ DOMAIN Begun = DOMAIN header \cup {Base} /\ \A q \in DOMAIN header : Begun[q] = header[q]
<1>1. (IF State.freePointer # 0 THEN State
       ELSE Record(Put(State.header, Base, [next |-> Base, size |-> 0]), Base,
                   State.poolFreePos, State.failed))
      = Fine(Begun, BegunPointer, poolFreePos)
  <2>1. /\ State.freePointer = freePointer /\ State.header = header
        /\ State.poolFreePos = poolFreePos /\ State.failed = FALSE
      BY DEF Inv, State, Record
  <2>2. CASE freePointer # 0
      BY <2>1, <2>2, StateIs DEF Begun, BegunPointer
  <2>3. CASE freePointer = 0
      BY <2>1, <2>3, Zenon DEF Begun, BegunPointer, Fine
  <2> QED BY <2>2, <2>3
<1>2. CASE freePointer # 0
  <2>1. Circle(header, List) /\ freePointer \in List /\ Laid(header, poolFreePos)
      BY <1>2 DEF Inv
  <2>2. Begun = header /\ BegunPointer = freePointer
      BY <1>2 DEF Begun, BegunPointer
  <2> QED BY <1>1, <2>1, <2>2 DEF Circle
<1>3. CASE freePointer = 0
  <2>1. DOMAIN header = {} /\ Begun = Put(header, Base, [next |-> Base, size |-> 0]) /\ BegunPointer = Base
      BY <1>3 DEF Inv, Begun, BegunPointer
  <2>2. DOMAIN Begun = {Base} /\ Begun[Base] = [next |-> Base, size |-> 0]
      BY <2>1 DEF Put
  <2>3. List = {Base}
      BY <2>1 DEF List, FreeHeaders
  <2>4. poolFreePos \in Nat /\ poolFreePos >= Base
      BY Constants DEF Inv, Laid
  <2>5. Laid(Begun, poolFreePos)
    <3>1. Begun[Base] \in [next : 0 .. poolFreePos, size : 0 .. poolFreePos] /\ Begun[Base].size = 0
        BY <2>2, <2>4, Constants
    <3>2. \A p, q \in DOMAIN Begun : ~(p # Base /\ p < q)
        BY <2>2
    <3> HIDE DEF Begun
    <3> QED BY <2>2, <2>4, <3>1, <3>2 DEF Laid
  <2>6. Circle(Begun, List)
    <3>1. Linked({Base}, Base, Base)
        BY Constants DEF Linked
    <3>2. Begun[Base].next = Base
        BY <2>2
    <3> QED BY <2>2, <2>3, <3>1, <3>2 DEF Circle
  <2> QED BY <1>1, <2>1, <2>2, <2>3, <2>5, <2>6
<1> QED BY <1>2, <1>3

(* The three outcomes for the variables.  There is no memory; ...          *)
GotNothing(size) ==
    /\ NothingFits(Begun, List, UnitsFor(size))
    /\ header' = Begun /\ freePointer' = BegunPointer /\ poolFreePos' = poolFreePos /\ failed' = FALSE
    /\ live' = live

(* ... or the program gets the block at hdr, taken from p in the list all  *)
(* of the headers e, ...                                                   *)
Given(size, e, all, p, prevp, g, hdr, end) ==
    /\ all = DOMAIN e \ LiveHeaders /\ LiveHeaders \subseteq DOMAIN e
    /\ \A q \in LiveHeaders : e[q].size = header[q].size
    /\ p \in all /\ p # Base /\ p \in Nat /\ e[p].size \in Nat
    /\ e[p].size >= UnitsFor(size) /\ prevp \in all \ {hdr}
    /\ Taken(e, all, p, UnitsFor(size), g, hdr, end)
    /\ Aligned(end) /\ end >= First /\ end <= End
    /\ header' = g /\ freePointer' = prevp /\ poolFreePos' = end /\ failed' = FALSE
    /\ live' = Put(live, hdr + HeaderSize, size)

(* ... which was free or is new.                                           *)
GotFree(size, p, hdr) ==
    \E prevp, g : Given(size, Begun, List, p, prevp, g, hdr, poolFreePos)
GotNew(size, hdr) ==
    \E q, e, prevp, g, end, most :
        /\ most = Larger(UnitsFor(size), MinAlloc)
        /\ NothingFits(Begun, List, UnitsFor(size)) /\ end <= PoolSize
        /\ Grown(Begun, List, q, poolFreePos, most, e, end)
        /\ Given(size, e, List \cup {poolFreePos}, poolFreePos, prevp, g, hdr, end)

(* alloc() does one of three things.                                       *)
LEMMA AllocDoes ==
  ASSUME Inv, NEW size \in AllocSizes, Alloc(size)
  PROVE  GotNothing(size) \/ (\E p, hdr : GotFree(size, p, hdr)) \/ \E hdr : GotNew(size, hdr)
<1> DEFINE units == UnitsFor(size)
           r == AllocRaw(State, size)
<1>0. size \in Nat \ {0} /\ units \in Nat /\ units >= 2
  <2>1. size \in Nat \ {0}
      BY Constants
  <2> QED BY <2>1, UnitsSuffice
<1>1. /\ (IF State.freePointer # 0 THEN State
          ELSE Record(Put(State.header, Base, [next |-> Base, size |-> 0]), Base,
                      State.poolFreePos, State.failed))
         = Fine(Begun, BegunPointer, poolFreePos)
      /\ Laid(Begun, poolFreePos) /\ Circle(Begun, List) /\ BegunPointer \in List
      /\ Aligned(poolFreePos) /\ poolFreePos >= First
    BY BegunIs DEF Inv
<1>2. Becomes(r.state) /\ live' = IF r.ptr = 0 THEN live ELSE Put(live, r.ptr, size)
    BY DEF Alloc
<1>3. \/ TakesFree(r, Begun, List, poolFreePos, units)
      \/ RunsOut(r, Begun, List, BegunPointer, poolFreePos, units)
      \/ TakesNew(r, Begun, List, poolFreePos, units)
    BY <1>0, <1>1, AllocRawTakes
<1> HIDE DEF r, units
<1>4. ASSUME NEW h, NEW fp, NEW top, NEW ptr, r = [state |-> Fine(h, fp, top), ptr |-> ptr]
      PROVE  /\ header' = h /\ freePointer' = fp /\ poolFreePos' = top /\ failed' = FALSE
             /\ live' = IF ptr = 0 THEN live ELSE Put(live, ptr, size)
  <2>1. r.state = Fine(h, fp, top) /\ r.ptr = ptr
      BY <1>4
  <2> QED BY <1>2, <2>1 DEF Becomes, Fine, Record
<1>5. List = DOMAIN Begun \ LiveHeaders /\ LiveHeaders \subseteq DOMAIN Begun
  <2>1. DOMAIN Begun = DOMAIN header \cup {Base}
      BY BegunIs
  <2> HIDE DEF Begun
  <2> QED BY <2>1 DEF Inv, List, FreeHeaders
<1>6. \A q \in LiveHeaders : q \in DOMAIN Begun /\ Begun[q].size = header[q].size
  <2>1. \A q \in DOMAIN header : Begun[q] = header[q]
      BY BegunIs
  <2> QED BY <1>5, <2>1 DEF Inv
<1>7. ASSUME NEW e, NEW all, NEW p, NEW g, NEW hdr, NEW end, Taken(e, all, p, units, g, hdr, end)
      PROVE  hdr + HeaderSize # 0
  <2>1. hdr \in DOMAIN g /\ Laid(g, end)
      BY <1>7 DEF Taken
  <2>2. hdr \in Nat
      BY <2>1, Addresses
  <2> QED BY <2>2, Constants
<1>8. ASSUME TakesFree(r, Begun, List, poolFreePos, units)
      PROVE  \E p, hdr : GotFree(size, p, hdr)
  <2>p. PICK p \in List : \E prevp, g, hdr :
            /\ r = [state |-> Fine(g, prevp, poolFreePos), ptr |-> hdr + HeaderSize]
            /\ p # Base /\ Begun[p].size >= units /\ prevp \in List \ {hdr}
            /\ Taken(Begun, List, p, units, g, hdr, poolFreePos)
      BY <1>8 DEF TakesFree
  <2>1. PICK prevp, g, hdr :
            /\ r = [state |-> Fine(g, prevp, poolFreePos), ptr |-> hdr + HeaderSize]
            /\ p # Base /\ Begun[p].size >= units /\ prevp \in List \ {hdr}
            /\ Taken(Begun, List, p, units, g, hdr, poolFreePos)
      BY <2>p
  <2>2. /\ header' = g /\ freePointer' = prevp /\ poolFreePos' = poolFreePos /\ failed' = FALSE
        /\ live' = Put(live, hdr + HeaderSize, size)
      BY <1>4, <1>7, <2>1
  <2>3. p \in Nat /\ Begun[p].size \in Nat
    <3>1. p \in DOMAIN Begun /\ Laid(Begun, poolFreePos)
        BY <1>1, <1>5
    <3>2. ASSUME NEW h, NEW top, Laid(h, top), NEW x \in DOMAIN h PROVE x \in Nat /\ h[x].size \in Nat
      <4>1. h[x].size \in Nat
          BY <3>2 DEF Laid
      <4> QED BY <3>2, <4>1, Addresses
    <3> QED BY <3>1, <3>2
  <2>4. poolFreePos <= End
      BY DEF Inv
  <2>5. Given(size, Begun, List, p, prevp, g, hdr, poolFreePos)
      BY <1>1, <1>5, <1>6, <2>1, <2>2, <2>3, <2>4 DEF Given, units
  <2> QED BY <2>5 DEF GotFree
<1>9. ASSUME RunsOut(r, Begun, List, BegunPointer, poolFreePos, units)
      PROVE  GotNothing(size)
  <2>1. NothingFits(Begun, List, units) /\ r = [state |-> Fine(Begun, BegunPointer, poolFreePos), ptr |-> 0]
      BY <1>9 DEF RunsOut
  <2>2. /\ header' = Begun /\ freePointer' = BegunPointer /\ poolFreePos' = poolFreePos /\ failed' = FALSE
        /\ live' = live
      BY <1>4, <2>1
  <2> QED BY <2>1, <2>2 DEF GotNothing, units
<1>10. ASSUME TakesNew(r, Begun, List, poolFreePos, units)
       PROVE  \E hdr : GotNew(size, hdr)
  <2> DEFINE all == List \cup {poolFreePos}
  <2>1. PICK q, e, prevp, g, hdr, end, most :
            /\ r = [state |-> Fine(g, prevp, end), ptr |-> hdr + HeaderSize]
            /\ NothingFits(Begun, List, units) /\ end <= PoolSize
            /\ most = Larger(units, MinAlloc) /\ Grown(Begun, List, q, poolFreePos, most, e, end)
            /\ prevp \in all \ {hdr}
            /\ Taken(e, all, poolFreePos, units, g, hdr, end)
      BY <1>10 DEF TakesNew
  <2>2. /\ header' = g /\ freePointer' = prevp /\ poolFreePos' = end /\ failed' = FALSE
        /\ live' = Put(live, hdr + HeaderSize, size)
      BY <1>4, <1>7, <2>1
  <2>3. most \in Nat /\ most >= units /\ most * HeaderSize \in Nat
    <3>1. most \in Nat /\ most >= units
        BY <1>0, <2>1, Constants DEF Larger
    <3> QED BY <3>1, Multiples
  <2>4. /\ end = poolFreePos + most * HeaderSize
        /\ DOMAIN e = DOMAIN Begun \cup {poolFreePos} /\ poolFreePos \notin DOMAIN Begun
        /\ e[poolFreePos].size = most /\ \A x \in DOMAIN Begun : e[x].size = Begun[x].size
      BY <2>1 DEF Grown
  <2>5. poolFreePos \in Nat /\ poolFreePos # Base
      BY <1>1, Constants DEF Laid
  <2>6. all = DOMAIN e \ LiveHeaders /\ LiveHeaders \subseteq DOMAIN e
      BY <1>5, <2>4
  <2>7. \A x \in LiveHeaders : e[x].size = header[x].size
      BY <1>6, <2>4
  <2>8. end >= First /\ end <= End
    <3>1. end \in Nat /\ First \in Nat /\ PoolSize \in Nat
        BY <2>3, <2>4, <2>5, Constants
    <3>2. end >= First
        BY <1>1, <2>3, <2>4, <2>5, <3>1
    <3> QED BY <2>1, <3>1, <3>2 DEF End, Larger
  <2>9. Aligned(end)
    <3>1. PICK u \in Nat : poolFreePos = First + u * HeaderSize
        BY <1>1 DEF Aligned
    <3>2. (u + most) * HeaderSize = u * HeaderSize + most * HeaderSize /\ u + most \in Nat
        BY <2>3, Multiples
    <3>3. u * HeaderSize \in Nat /\ First \in Nat
        BY Multiples, Constants
    <3>4. end = First + (u + most) * HeaderSize
        BY <2>3, <2>4, <3>1, <3>2, <3>3
    <3> QED BY <3>2, <3>4 DEF Aligned
  <2>10. Given(size, e, all, poolFreePos, prevp, g, hdr, end)
    <3>1. poolFreePos \in all /\ e[poolFreePos].size \in Nat /\ e[poolFreePos].size >= units
        BY <2>3, <2>4
    <3> HIDE DEF all
    <3> QED BY <2>1, <2>2, <2>5, <2>6, <2>7, <2>8, <2>9, <3>1 DEF Given, units
  <2>11. GotNew(size, hdr)
      BY <2>1, <2>10 DEF GotNew, units
  <2> QED BY <2>11
<1> QED BY <1>3, <1>8, <1>9, <1>10

(* The program gets a block and the rest is as it was.                     *)
LEMMA GivenKeeps ==
  ASSUME Inv, NEW size \in Nat \ {0}, NEW e, NEW all, NEW p, NEW prevp, NEW g, NEW hdr, NEW end,
         Given(size, e, all, p, prevp, g, hdr, end)
  PROVE  /\ LiveHeaders' = LiveHeaders \cup {hdr} /\ hdr \notin LiveHeaders
         /\ FreeHeaders' = all \ {hdr, Base}
         /\ \A q \in LiveHeaders : header'[q].size = header[q].size
         /\ Inv'
<1> DEFINE units == UnitsFor(size)
<1>1. /\ all = DOMAIN e \ LiveHeaders /\ LiveHeaders \subseteq DOMAIN e
      /\ p \in all /\ prevp \in all \ {hdr}
      /\ \A q \in LiveHeaders : e[q].size = header[q].size
    BY DEF Given
<1>2. /\ header' = g /\ freePointer' = prevp /\ poolFreePos' = end /\ failed' = FALSE
      /\ live' = Put(live, hdr + HeaderSize, size)
      /\ Aligned(end) /\ end >= First /\ end <= End
    BY DEF Given
<1>3. /\ hdr # Base /\ DOMAIN g = DOMAIN e \cup {hdr} /\ g[hdr].size = units
      /\ Laid(g, end) /\ Circle(g, all \ {hdr})
      /\ \A q \in DOMAIN e \ {p} : g[q].size = e[q].size
    BY DEF Given, Taken
<1>4. hdr \notin LiveHeaders
  <2>1. hdr = p \/ hdr \notin DOMAIN e
      BY DEF Given, Taken
  <2> QED BY <1>1, <2>1
<1>5. hdr \in Nat
    BY <1>3, Addresses
<1>6. LiveHeaders' = LiveHeaders \cup {hdr}
    BY <1>2, <1>5, LiveGrows
<1>7. \A q \in LiveHeaders : g[q].size = header[q].size
    BY <1>1, <1>3
<1> HIDE DEF units
<1>8. FreeHeaders' = all \ {hdr, Base}
  <2>1. FreeHeaders' = DOMAIN g \ ((LiveHeaders \cup {hdr}) \cup {Base})
      BY <1>2, <1>6 DEF FreeHeaders
  <2> QED BY <1>1, <1>3, <2>1
<1>9. List' = all \ {hdr}
  <2>1. Base \in all \ {hdr}
      BY <1>3 DEF Circle
  <2>2. List' = FreeHeaders' \cup {Base}
      BY DEF List
  <2> QED BY <1>8, <2>1, <2>2
<1>10. prevp # 0
  <2>1. prevp \in DOMAIN g
      BY <1>1, <1>3 DEF Circle
  <2>2. prevp \in Nat /\ prevp >= Base
      BY <1>3, <2>1, Addresses
  <2> QED BY <2>2 DEF Base
<1>11. (IF freePointer = 0 THEN DOMAIN header = {} /\ DOMAIN live = {}
        ELSE Circle(header, List) /\ freePointer \in List)'
    BY <1>1, <1>2, <1>3, <1>9, <1>10
<1>12. (LiveHeaders \subseteq DOMAIN header \ {Base})'
  <2>1. LiveHeaders \subseteq DOMAIN e /\ Base \notin LiveHeaders
      BY <1>1 DEF Inv
  <2> QED BY <1>2, <1>3, <1>6, <2>1
<1>13. DOMAIN live' = DOMAIN live \cup {hdr + HeaderSize} /\ hdr + HeaderSize \in Nat
       /\ live'[hdr + HeaderSize] = size
       /\ \A ptr \in DOMAIN live : ptr # hdr + HeaderSize => live'[ptr] = live[ptr]
  <2>1. hdr + HeaderSize \in Nat
      BY <1>5, Constants
  <2> QED BY <1>2, <2>1 DEF Put
<1>14. (DOMAIN live \subseteq Nat)'
    BY <1>13 DEF Inv
<1>15. ASSUME NEW ptr \in DOMAIN live'
       PROVE  live'[ptr] \in Nat \ {0} /\ header'[ptr - HeaderSize].size = UnitsFor(live'[ptr])
  <2>1. CASE ptr = hdr + HeaderSize
    <3>1. ptr - HeaderSize = hdr
        BY <1>5, <2>1, Constants
    <3> QED BY <1>2, <1>3, <1>13, <2>1, <3>1 DEF units
  <2>2. CASE ptr # hdr + HeaderSize
    <3>1. ptr \in DOMAIN live /\ live'[ptr] = live[ptr]
        BY <1>13, <2>2
    <3>2. ptr - HeaderSize \in LiveHeaders
        BY <3>1 DEF LiveHeaders
    <3>3. header'[ptr - HeaderSize].size = header[ptr - HeaderSize].size
        BY <1>2, <1>7, <3>2
    <3> QED BY <3>1, <3>3 DEF Inv
  <2> QED BY <2>1, <2>2
<1>16. (Laid(header, poolFreePos) /\ Aligned(poolFreePos)
        /\ poolFreePos >= First /\ poolFreePos <= End /\ failed = FALSE)'
    BY <1>2, <1>3 DEF Aligned, End, First
<1>17. Inv'
    BY <1>11, <1>12, <1>14, <1>15, <1>16 DEF Inv
<1> QED BY <1>2, <1>4, <1>6, <1>7, <1>8, <1>17

(* Without memory nothing changes but that the list has its base.          *)
LEMMA NothingKeeps ==
  ASSUME Inv, NEW size, GotNothing(size)
  PROVE  LiveHeaders' = LiveHeaders /\ FreeHeaders' = FreeHeaders
         /\ (\A q \in DOMAIN header : header'[q] = header[q]) /\ Inv'
<1>1. /\ header' = Begun /\ freePointer' = BegunPointer /\ poolFreePos' = poolFreePos /\ failed' = FALSE
      /\ live' = live
    BY DEF GotNothing
<1>2. /\ Laid(Begun, poolFreePos) /\ Circle(Begun, List) /\ BegunPointer \in List
      /\ DOMAIN Begun = DOMAIN header \cup {Base} /\ \A q \in DOMAIN header : Begun[q] = header[q]
    BY BegunIs
<1>3. LiveHeaders' = LiveHeaders
    BY <1>1 DEF LiveHeaders
<1> HIDE DEF Begun
<1>4. FreeHeaders' = FreeHeaders /\ List' = List
    BY <1>1, <1>2, <1>3 DEF FreeHeaders, List
<1>5. BegunPointer # 0
  <2>1. BegunPointer \in DOMAIN Begun
      BY <1>2 DEF Circle
  <2>2. BegunPointer \in Nat /\ BegunPointer >= Base
      BY <1>2, <2>1, Addresses
  <2> QED BY <2>2 DEF Base
<1>6. (IF freePointer = 0 THEN DOMAIN header = {} /\ DOMAIN live = {}
       ELSE Circle(header, List) /\ freePointer \in List)'
    BY <1>1, <1>2, <1>4, <1>5
<1>7. (\A ptr \in DOMAIN live :
          live[ptr] \in Nat \ {0} /\ header[ptr - HeaderSize].size = UnitsFor(live[ptr]))'
  <2>1. ASSUME NEW ptr \in DOMAIN live PROVE header'[ptr - HeaderSize] = header[ptr - HeaderSize]
      BY <1>1, <1>2 DEF Inv, LiveHeaders
  <2> QED BY <1>1, <2>1 DEF Inv
<1>8. (LiveHeaders \subseteq DOMAIN header \ {Base})' /\ (DOMAIN live \subseteq Nat)'
    BY <1>1, <1>2, <1>3 DEF Inv
<1>9. (Laid(header, poolFreePos) /\ Aligned(poolFreePos)
       /\ poolFreePos >= First /\ poolFreePos <= End /\ failed = FALSE)'
    BY <1>1, <1>2 DEF Inv, Aligned, End, First
<1>10. Inv'
    BY <1>6, <1>7, <1>8, <1>9 DEF Inv
<1> QED BY <1>1, <1>2, <1>3, <1>4, <1>10

(* Every step keeps the invariant.                                         *)
LEMMA NextInv == Inv /\ [Next]_heapVars => Inv'
<1> SUFFICES ASSUME Inv, [Next]_heapVars PROVE Inv'
    OBVIOUS
<1>1. ASSUME NEW size \in AllocSizes, Alloc(size) PROVE Inv'
  <2>1. size \in Nat \ {0}
      BY Constants
  <2>2. CASE GotNothing(size)
      BY <2>2, NothingKeeps
  <2>3. ASSUME NEW p, NEW hdr, GotFree(size, p, hdr) PROVE Inv'
      BY <2>1, <2>3, GivenKeeps DEF GotFree
  <2>4. ASSUME NEW hdr, GotNew(size, hdr) PROVE Inv'
      BY <2>1, <2>4, GivenKeeps DEF GotNew
  <2> QED BY <1>1, <2>2, <2>3, <2>4, AllocDoes
<1>2. ASSUME NEW ptr \in DOMAIN live, Free(ptr) PROVE Inv'
  <2>1. Circle(header, List) /\ \E p : Freed(ptr, p)
      BY <1>2, FreeDoes
  <2> QED BY <2>1, FreedKeeps
<1>3. CASE UNCHANGED heapVars
  <2>1. /\ header' = header /\ freePointer' = freePointer /\ poolFreePos' = poolFreePos
        /\ live' = live /\ failed' = failed
      BY <1>3 DEF heapVars
  <2> QED BY <2>1 DEF Inv, List, FreeHeaders, LiveHeaders, Laid, Aligned, Circle, Linked, UnitsFor, End, First
<1> QED BY <1>1, <1>2, <1>3 DEF Next

(* And so it holds in every reachable state.                               *)
LEMMA InvAlways == Spec => []Inv
<1> QED BY InitInv, NextInv, PTL DEF Spec

-----------------------------------------------------------------------------
(* The properties.                                                         *)

(* Pointers and sizes in the headers, which are 32 bits wide in the code,  *)
(* stay within the pool, and each block that the program has has a header. *)
THEOREM TypeTheorem == Spec => []TypeOK
<1>1. ASSUME Inv PROVE TypeOK
  <2>1. /\ Laid(header, poolFreePos) /\ poolFreePos \in Nat /\ First \in Nat /\ PoolSize \in Nat
        /\ poolFreePos >= First /\ poolFreePos <= End
      BY <1>1, Constants DEF Inv, Laid
  <2>2. End \in Nat
      BY <2>1 DEF End, Larger
  <2>3. freePointer \in 0 .. End
    <3>1. CASE freePointer = 0
        BY <2>2, <3>1
    <3>2. CASE freePointer # 0
      <4>1. freePointer \in DOMAIN header
          BY <1>1, <3>2 DEF Inv, Circle
      <4>2. freePointer \in Nat /\ (freePointer = Base \/ freePointer < poolFreePos)
          BY <2>1, <4>1, Addresses
      <4> QED BY <2>1, <2>2, <4>2, Constants
    <3> QED BY <3>1, <3>2
  <2>4. ASSUME NEW p \in DOMAIN header PROVE header[p] \in [next : 0 .. End, size : 0 .. End]
    <3>1. header[p] \in [next : 0 .. poolFreePos, size : 0 .. poolFreePos]
        BY <2>1 DEF Laid
    <3> QED BY <2>1, <2>2, <3>1
  <2>5. LiveHeaders \subseteq DOMAIN header /\ poolFreePos \in First .. End
      BY <1>1, <2>1, <2>2 DEF Inv
  <2> QED BY <2>3, <2>4, <2>5 DEF TypeOK
<1> QED BY <1>1, InvAlways, PTL

(* Whatever is allocated and freed in whatever order, freeRaw and allocRaw *)
(* leave one circle through all free blocks, sorted by address: no search  *)
(* along it runs forever and no free block is lost.                        *)
THEOREM CircleTheorem == Spec => []FreeListIsSortedCircle
<1>1. ASSUME Inv PROVE FreeListIsSortedCircle
  <2> SUFFICES ASSUME freePointer # 0
               PROVE  /\ freePointer \in List
                      /\ \A p \in List : header[p].next = IF {q \in List : q > p} = {} THEN Base
                                                          ELSE Min({q \in List : q > p})
      BY <1>1 DEF Inv, FreeListIsSortedCircle, List
  <2>1. Circle(header, List) /\ freePointer \in List /\ Laid(header, poolFreePos)
      BY <1>1 DEF Inv
  <2>2. List \in SUBSET Nat
      BY <2>1, Addresses DEF Circle
  <2>3. ASSUME NEW p \in List
        PROVE  header[p].next = IF {q \in List : q > p} = {} THEN Base ELSE Min({q \in List : q > p})
    <3> DEFINE After == {q \in List : q > p}
               n == header[p].next
    <3>1. Linked(List, p, n) /\ p \in Nat
        BY <2>1, <2>2 DEF Circle
    <3>2. CASE n \in List /\ n > p /\ \A q \in List : q > p => q >= n
      <4>1. n \in After /\ After \in SUBSET Nat /\ \A q \in After : q >= n
          BY <2>2, <3>2
      <4> HIDE DEF After, n
      <4>2. Min(After) \in After /\ Min(After) <= n
          BY <4>1, Least
      <4>3. n \in Nat /\ Min(After) \in Nat /\ Min(After) >= n
          BY <4>1, <4>2
      <4>4. Min(After) = n
          BY <4>2, <4>3
      <4> QED BY <4>1, <4>4 DEF After, n
    <3>3. CASE n = Base /\ \A q \in List : q <= p
      <4>1. After = {}
        <5>1. ASSUME NEW q \in List PROVE ~(q > p)
            BY <2>2, <3>1, <3>3
        <5> QED BY <5>1
      <4> QED BY <3>3, <4>1
    <3> QED BY <3>1, <3>2, <3>3 DEF Linked
  <2> QED BY <2>1, <2>3
<1> QED BY <1>1, InvAlways, PTL

(* What allocRaw hands out has all the bytes asked for, within the pool,   *)
(* and shares none of them with a header or with another block.            *)
THEOREM SizesTheorem == Spec => []BlocksHoldTheirSizes
<1>1. ASSUME Inv PROVE BlocksHoldTheirSizes
  <2>0. Laid(header, poolFreePos)
      BY <1>1 DEF Inv
  <2>1. ASSUME NEW ptr \in DOMAIN live
        PROVE  LET hdr == ptr - HeaderSize
                   room == header[hdr].size * HeaderSize
               IN  /\ hdr \in DOMAIN header /\ hdr # Base /\ hdr \in Nat /\ hdr >= First
                   /\ ptr \in Nat /\ live[ptr] \in Nat /\ live[ptr] >= 1 /\ room \in Nat
                   /\ hdr + room <= poolFreePos /\ room >= live[ptr] + HeaderSize
    <3> DEFINE hdr == ptr - HeaderSize
    <3>1. /\ hdr \in DOMAIN header /\ hdr # Base /\ ptr \in Nat /\ live[ptr] \in Nat \ {0}
          /\ header[hdr].size = UnitsFor(live[ptr])
        BY <1>1 DEF Inv, LiveHeaders
    <3>2. UnitsFor(live[ptr]) \in Nat /\ UnitsFor(live[ptr]) * HeaderSize >= live[ptr] + HeaderSize
        BY <3>1, UnitsSuffice
    <3> HIDE DEF hdr
    <3>3. hdr \in Nat /\ hdr >= First /\ hdr + header[hdr].size * HeaderSize <= poolFreePos
        BY <2>0, <3>1 DEF Laid
    <3>4. header[hdr].size * HeaderSize \in Nat
        BY <3>1, <3>2, Multiples
    <3> QED BY <3>1, <3>2, <3>3, <3>4 DEF hdr
  <2>2. ASSUME NEW ptr \in DOMAIN live
        PROVE  LET own == ptr .. ptr + live[ptr] - 1
               IN  /\ own \subseteq Bytes(ptr - HeaderSize) /\ own \subseteq First .. poolFreePos - 1
                   /\ own \cap DOMAIN header = {}
    <3> DEFINE hdr == ptr - HeaderSize
               room == header[hdr].size * HeaderSize
               own == ptr .. ptr + live[ptr] - 1
    <3>1. /\ hdr \in DOMAIN header /\ hdr # Base /\ hdr \in Nat /\ hdr >= First
          /\ ptr \in Nat /\ live[ptr] \in Nat /\ live[ptr] >= 1 /\ room \in Nat
          /\ hdr + room <= poolFreePos /\ room >= live[ptr] + HeaderSize
        BY <2>1
    <3>2. ptr = hdr + HeaderSize /\ HeaderSize \in Nat /\ HeaderSize >= 2 /\ First \in Nat /\ poolFreePos \in Nat
        BY <2>0, <3>1, Constants DEF Laid
    <3>3. Bytes(hdr) = hdr .. hdr + room - 1
        BY DEF Bytes
    <3>4. DOMAIN header \cap (hdr + 1 .. hdr + room - 1) = {}
        BY <2>0, <3>1, NothingInside
    <3> HIDE DEF hdr, room
    <3>5. own \subseteq hdr + 1 .. hdr + room - 1
        BY <3>1, <3>2
    <3>6. own \subseteq hdr .. hdr + room - 1 /\ own \subseteq First .. poolFreePos - 1
        BY <3>1, <3>2
    <3> QED BY <3>3, <3>4, <3>5, <3>6 DEF hdr
  <2>3. ASSUME NEW ptr \in DOMAIN live, NEW other \in DOMAIN live, ptr < other
        PROVE  (ptr .. ptr + live[ptr] - 1) \cap (other .. other + live[other] - 1) = {}
    <3> DEFINE hdr == ptr - HeaderSize
               room == header[hdr].size * HeaderSize
               next == other - HeaderSize
    <3>1. /\ hdr \in DOMAIN header /\ hdr # Base /\ hdr \in Nat /\ ptr \in Nat /\ live[ptr] \in Nat
          /\ room \in Nat /\ room >= live[ptr] + HeaderSize
          /\ next \in DOMAIN header /\ next \in Nat /\ other \in Nat /\ live[other] \in Nat
        BY <2>1
    <3>2. hdr < next
        BY <2>3, <3>1, Constants
    <3>3. hdr + room <= next
        BY <2>0, <3>1, <3>2 DEF Laid
    <3>4. ptr = hdr + HeaderSize /\ other = next + HeaderSize /\ HeaderSize \in Nat
        BY <3>1, Constants
    <3> HIDE DEF hdr, room, next
    <3>5. ptr + live[ptr] <= other
        BY <3>1, <3>3, <3>4
    <3> QED BY <3>1, <3>5
  <2>4. ASSUME NEW ptr \in DOMAIN live, NEW other \in DOMAIN live \ {ptr}
        PROVE  (ptr .. ptr + live[ptr] - 1) \cap (other .. other + live[other] - 1) = {}
    <3>1. ptr \in Nat /\ other \in Nat
        BY <2>1
    <3>2. CASE ptr < other
        BY <2>3, <3>2
    <3>3. CASE other < ptr
        BY <2>3, <3>3
    <3> QED BY <3>1, <3>2, <3>3
  <2> QED BY <2>2, <2>4 DEF BlocksHoldTheirSizes
<1> QED BY <1>1, InvAlways, PTL

(* The search in allocRaw sees every free block before it calls getMem.    *)
THEOREM GrowsTheorem == Spec => GrowsOnlyWhenNothingFits
<1> DEFINE Only == poolFreePos' # poolFreePos =>
                      \A size \in AllocSizes : Alloc(size) =>
                          \A p \in FreeHeaders : header[p].size < UnitsFor(size)
<1>1. ASSUME Inv PROVE Only
  <2> SUFFICES ASSUME poolFreePos' # poolFreePos, NEW size \in AllocSizes, Alloc(size),
                      NEW p \in FreeHeaders
               PROVE  header[p].size < UnitsFor(size)
      OBVIOUS
  <2>1. NothingFits(Begun, List, UnitsFor(size))
    <3>1. CASE GotNothing(size)
        BY <3>1 DEF GotNothing
    <3>2. ASSUME NEW q, NEW hdr, GotFree(size, q, hdr) PROVE FALSE
        BY <3>2 DEF GotFree, Given
    <3>3. ASSUME NEW hdr, GotNew(size, hdr) PROVE NothingFits(Begun, List, UnitsFor(size))
        BY <3>3 DEF GotNew
    <3> QED BY <1>1, <3>1, <3>2, <3>3, AllocDoes
  <2>2. Begun[p] = header[p] /\ p \in List
    <3>1. p \in DOMAIN header /\ p \in List
        BY DEF FreeHeaders, List
    <3> QED BY <1>1, <3>1, BegunIs
  <2> QED BY <2>1, <2>2 DEF NothingFits
<1>2. Spec => [][Only]_heapVars
  <2>1. Inv /\ [Next]_heapVars => [Only]_heapVars
      BY <1>1
  <2> QED BY <2>1, InvAlways, PTL DEF Spec
<1> QED BY <1>2 DEF GrowsOnlyWhenNothingFits

-----------------------------------------------------------------------------
(* The division of the pool into blocks.                                   *)

(* A block of n units with its header at p, in units from the first. *)
Span(p, n) == {(a - First) \div HeaderSize : a \in p .. p + n * HeaderSize - 1}
Index(p) == (p - First) \div HeaderSize

(* The quotient and what is left.                                          *)
LEMMA Division ==
  ASSUME NEW x \in Nat
  PROVE  /\ x \div HeaderSize \in Nat
         /\ (x \div HeaderSize) * HeaderSize <= x
         /\ x < (x \div HeaderSize) * HeaderSize + HeaderSize
<1> DEFINE d == HeaderSize
<1>1. d \in Nat /\ d >= 2
    BY Constants
<1> HIDE DEF d
<1>2. x \div d \in Nat /\ (x \div d) * d <= x /\ x < (x \div d) * d + d
    BY <1>1
<1> QED BY <1>2 DEF d

(* What is not less than m sizes and less than n, in units. *)
LEMMA DivisionBetween ==
  ASSUME NEW x \in Nat, NEW m \in Nat, NEW n \in Nat,
         m * HeaderSize <= x, x < n * HeaderSize
  PROVE  x \div HeaderSize \in Nat /\ m <= x \div HeaderSize /\ x \div HeaderSize < n
<1> DEFINE q == x \div HeaderSize
<1>1. q \in Nat /\ q * HeaderSize <= x /\ x < q * HeaderSize + HeaderSize
    BY Division
<1> HIDE DEF q
<1>2. /\ q * HeaderSize \in Nat /\ m * HeaderSize \in Nat /\ n * HeaderSize \in Nat
      /\ HeaderSize \in Nat
    BY <1>1, Multiples, Constants
<1>3. ~(q < m)
  <2>1. ASSUME q < m PROVE FALSE
    <3>1. q * HeaderSize + HeaderSize <= m * HeaderSize
        BY <1>1, <2>1, Multiples
    <3> QED BY <1>1, <1>2, <3>1
  <2> QED BY <2>1
<1>4. ~(n <= q)
  <2>1. ASSUME n <= q PROVE FALSE
    <3>1. n * HeaderSize <= q * HeaderSize
        BY <1>1, <2>1, Multiples
    <3> QED BY <1>1, <1>2, <3>1
  <2> QED BY <2>1
<1> QED BY <1>1, <1>3, <1>4 DEF q

(* An aligned address is that of a unit. *)
LEMMA IndexIs ==
  ASSUME NEW u \in Nat
  PROVE  Index(First + u * HeaderSize) = u
<1> DEFINE x == u * HeaderSize
<1>1. x \in Nat /\ HeaderSize \in Nat /\ HeaderSize >= 2 /\ First \in Nat
    BY Multiples, Constants
<1>2. (u + 1) * HeaderSize = u * HeaderSize + 1 * HeaderSize
    BY Multiples
<1>3. x < (u + 1) * HeaderSize /\ u * HeaderSize <= x
    BY <1>1, <1>2
<1> HIDE DEF x
<1>4. x \div HeaderSize \in Nat /\ u <= x \div HeaderSize /\ x \div HeaderSize < u + 1
    BY <1>1, <1>3, DivisionBetween
<1>5. (First + x) - First = x
    BY <1>1
<1> QED BY <1>4, <1>5 DEF Index, x

(* A block of n headers is the units from its own on.                      *)
LEMMA SpanIs ==
  ASSUME NEW u \in Nat, NEW n \in Nat
  PROVE  Span(First + u * HeaderSize, n) = Abstract!Block(u, n)
<1> DEFINE x == u * HeaderSize
           y == n * HeaderSize
<1>1. x \in Nat /\ y \in Nat /\ First \in Nat /\ (u + n) * HeaderSize = x + y
    BY Multiples, Constants
<1>2. ASSUME NEW a \in First + x .. First + x + y - 1
      PROVE  (a - First) \div HeaderSize \in u .. u + n - 1
  <2>1. a - First \in Nat /\ x <= a - First /\ a - First < x + y
      BY <1>1, <1>2
  <2>2. /\ (a - First) \div HeaderSize \in Nat /\ u <= (a - First) \div HeaderSize
        /\ (a - First) \div HeaderSize < u + n
      BY <1>1, <2>1, DivisionBetween
  <2> QED BY <2>2
<1>3. ASSUME NEW v \in u .. u + n - 1
      PROVE  \E a \in First + x .. First + x + y - 1 : v = (a - First) \div HeaderSize
  <2> DEFINE z == v * HeaderSize
  <2>1. v \in Nat /\ u <= v /\ v < u + n
      BY <1>3
  <2>2. x <= z /\ z + HeaderSize <= x + y /\ z \in Nat
    <3>1. z \in Nat /\ u * HeaderSize <= v * HeaderSize
        BY <2>1, Multiples
    <3>2. u + n \in Nat /\ v * HeaderSize + HeaderSize <= (u + n) * HeaderSize
        BY <2>1, Multiples
    <3> QED BY <1>1, <3>1, <3>2
  <2>3. Index(First + z) = v
      BY <2>1, IndexIs
  <2> HIDE DEF x, y, z
  <2>4. First + z \in First + x .. First + x + y - 1
      BY <1>1, <2>2, Constants
  <2> QED BY <2>3, <2>4 DEF Index
<1> HIDE DEF x, y
<1>4. Span(First + x, n) = u .. u + n - 1
  <2>1. Span(First + x, n) = {(a - First) \div HeaderSize : a \in First + x .. First + x + y - 1}
      BY DEF Span, y
  <2> QED BY <1>2, <1>3, <2>1
<1> QED BY <1>4 DEF Abstract!Block, x

(* The blocks of two headers differ.                                       *)
LEMMA SpansDiffer ==
  ASSUME NEW p, Aligned(p), NEW q, Aligned(q), NEW m \in Nat \ {0}, NEW n \in Nat \ {0},
         Span(p, m) = Span(q, n)
  PROVE  p = q
<1>1. PICK u \in Nat, v \in Nat : p = First + u * HeaderSize /\ q = First + v * HeaderSize
    BY DEF Aligned
<1>2. u .. u + m - 1 = v .. v + n - 1
    BY <1>1, SpanIs DEF Abstract!Block
<1>3. u \in v .. v + n - 1 /\ v \in u .. u + m - 1
  <2>1. u \in u .. u + m - 1 /\ v \in v .. v + n - 1
      OBVIOUS
  <2> QED BY <1>2, <2>1
<1>4. u = v
    BY <1>3
<1> QED BY <1>1, <1>4

(* What the abstract specification has for its variables. *)
Used == {UnitsOf(p) : p \in LiveHeaders}
FreeBlocks == {UnitsOf(p) : p \in FreeHeaders}
Top == (poolFreePos - First) \div HeaderSize

(* The program gets the last n units of the s units from u; F are the free *)
(* blocks.                                                                 *)
Cuts(F, u, s, n) ==
    /\ n \in 1 .. s /\ Abstract!Block(u, s) \in F
    /\ Used' = Used \cup {Abstract!Block(u + s - n, n)}
    /\ FreeBlocks' = (F \ {Abstract!Block(u, s)})
                     \cup (IF n = s THEN {} ELSE {Abstract!Block(u, s - n)})

(* What is left of the block that was cut, as sets of units.               *)
LEMMA GivenBlocks ==
  ASSUME Inv, NEW size \in Nat \ {0}, NEW e, NEW all, NEW p, NEW prevp, NEW g, NEW hdr, NEW end,
         Given(size, e, all, p, prevp, g, hdr, end), Laid(e, end),
         NEW u \in Nat, p = First + u * HeaderSize,
         NEW s, s = e[p].size, NEW n, n = UnitsFor(size),
         NEW F, F = {Span(q, e[q].size) : q \in all \ {Base}}
  PROVE  Cuts(F, u, s, n)
<1>1. /\ p \in all /\ p # Base /\ p \in DOMAIN e /\ s \in Nat /\ s >= n /\ header' = g
      /\ all \subseteq DOMAIN e /\ \A q \in LiveHeaders : e[q].size = header[q].size
    BY DEF Given
<1>2. n \in Nat /\ n >= 2
    BY UnitsSuffice
<1>3. /\ LiveHeaders' = LiveHeaders \cup {hdr} /\ hdr \notin LiveHeaders
      /\ FreeHeaders' = all \ {hdr, Base}
      /\ \A q \in LiveHeaders : header'[q].size = header[q].size
    BY GivenKeeps
<1>4. /\ hdr = p + (s - n) * HeaderSize /\ g[hdr].size = n
      /\ \A q \in DOMAIN e \ {p} : g[q].size = e[q].size
      /\ \/ hdr = p /\ s = n
         \/ hdr # p /\ hdr \notin DOMAIN e /\ g[p].size = s - n
    BY DEF Given, Taken
<1>5. s - n \in Nat /\ u + s - n \in Nat /\ u + s - n = u + (s - n)
    BY <1>1, <1>2
<1>6. Span(hdr, n) = Abstract!Block(u + s - n, n)
  <2>1. hdr = First + (u + s - n) * HeaderSize
    <3>1. (u + (s - n)) * HeaderSize = u * HeaderSize + (s - n) * HeaderSize
      <4> DEFINE d == s - n
      <4>1. d \in Int /\ u \in Int
          BY <1>5
      <4> HIDE DEF d
      <4>2. (u + d) * HeaderSize = u * HeaderSize + d * HeaderSize
          BY <4>1, Multiples
      <4> QED BY <4>2 DEF d
    <3>2. u * HeaderSize \in Nat /\ (s - n) * HeaderSize \in Nat /\ First \in Nat
        BY <1>5, Multiples, Constants
    <3> QED BY <1>4, <1>5, <3>1, <3>2
  <2> QED BY <1>2, <1>5, <2>1, SpanIs
<1>7. Span(p, s) = Abstract!Block(u, s) /\ Span(p, s - n) = Abstract!Block(u, s - n)
    BY <1>1, <1>5, SpanIs
<1>8. Used' = Used \cup {Span(hdr, n)}
  <2>1. Used' = {Span(q, header'[q].size) : q \in LiveHeaders \cup {hdr}}
      BY <1>3 DEF Used, UnitsOf, Bytes, Span
  <2>2. Used = {Span(q, header[q].size) : q \in LiveHeaders}
      BY DEF Used, UnitsOf, Bytes, Span
  <2>3. header'[hdr].size = n
      BY <1>1, <1>4
  <2> QED BY <1>3, <2>1, <2>2, <2>3
<1>9. FreeBlocks' = {Span(q, g[q].size) : q \in all \ {hdr, Base}}
    BY <1>1, <1>3 DEF FreeBlocks, UnitsOf, Bytes, Span
<1> DEFINE R == {Span(q, e[q].size) : q \in all \ {p, Base}}
<1>10. F \ {Span(p, s)} = R
  <2>1. ASSUME NEW q \in all, q # Base, q # p PROVE Span(q, e[q].size) # Span(p, s)
    <3>1. Aligned(q) /\ e[q].size \in Nat \ {0} /\ Aligned(p) /\ s \in Nat \ {0}
      <4>1. Aligned(q) /\ e[q].size \in Nat /\ e[q].size >= 1
          BY <1>1, <2>1 DEF Laid
      <4>2. Aligned(p) /\ s >= 1
          BY <1>1 DEF Laid
      <4> QED BY <1>1, <4>1, <4>2
    <3> QED BY <2>1, <3>1, SpansDiffer
  <2> QED BY <1>1, <2>1
<1>11. FreeBlocks' = R \cup (IF n = s THEN {} ELSE {Span(p, s - n)})
  <2>1. \A q \in all \ {p, Base} : g[q].size = e[q].size
      BY <1>1, <1>4
  <2>2. CASE hdr = p /\ s = n
      BY <1>9, <2>1, <2>2
  <2>3. CASE hdr # p /\ hdr \notin DOMAIN e /\ g[p].size = s - n
    <3>1. n # s
      <4>1. ASSUME n = s PROVE FALSE
        <5>1. s - n = 0 /\ (s - n) * HeaderSize = 0 /\ p \in Nat
            BY <1>1, <1>2, <4>1, Constants DEF Given
        <5> QED BY <1>4, <2>3, <5>1
      <4> QED BY <4>1
    <3>2. all \ {hdr, Base} = (all \ {p, Base}) \cup {p}
        BY <1>1, <2>3
    <3>3. FreeBlocks' = R \cup {Span(p, g[p].size)}
        BY <1>9, <2>1, <3>2
    <3> QED BY <2>3, <3>1, <3>3
  <2> QED BY <1>4, <2>2, <2>3
<1>12. Span(p, s) \in F
    BY <1>1
<1>13. n \in 1 .. s
    BY <1>1, <1>2
<1> HIDE DEF R
<1> QED BY <1>6, <1>7, <1>8, <1>10, <1>11, <1>12, <1>13 DEF Cuts

(* As many units as end at end fit into the pool when end is within it. *)
LEMMA UnitsFit ==
  ASSUME NEW x \in Nat, First + x * HeaderSize <= PoolSize
  PROVE  (PoolSize - First) \div HeaderSize \in Nat /\ x <= (PoolSize - First) \div HeaderSize
<1> DEFINE y == PoolSize - First
           b == x * HeaderSize
           q == y \div HeaderSize
<1>1. b \in Nat /\ First \in Nat /\ PoolSize \in Nat /\ HeaderSize \in Nat
    BY Multiples, Constants
<1>2. y \in Nat /\ b <= y
    BY <1>1
<1> HIDE DEF y
<1>3. q \in Nat /\ q * HeaderSize <= y /\ y < q * HeaderSize + HeaderSize
    BY <1>2, Division
<1> HIDE DEF q
<1>4. ~(q < x)
  <2>1. ASSUME q < x PROVE FALSE
    <3>1. q * HeaderSize + HeaderSize <= b /\ q * HeaderSize \in Nat
        BY <1>3, <2>1, Multiples
    <3> HIDE DEF b
    <3> QED BY <1>1, <1>2, <1>3, <3>1
  <2> QED BY <2>1
<1> QED BY <1>3, <1>4 DEF q, y

(* Outside of Base, the free list is the free blocks.                      *)
LEMMA BegunBlocks ==
  ASSUME Inv
  PROVE  {Span(q, Begun[q].size) : q \in List \ {Base}} = FreeBlocks
<1>1. List \ {Base} = FreeHeaders /\ FreeHeaders \subseteq DOMAIN header
    BY DEF List, FreeHeaders
<1>2. \A q \in FreeHeaders : Begun[q].size = header[q].size
    BY <1>1, BegunIs
<1>3. FreeBlocks = {Span(q, header[q].size) : q \in FreeHeaders}
    BY DEF FreeBlocks, UnitsOf, Bytes, Span
<1> QED BY <1>1, <1>2, <1>3

(* alloc() is a step of the abstract heap, or changes no block.            *)
LEMMA AllocImplements ==
  ASSUME Inv, NEW size \in AllocSizes, Alloc(size)
  PROVE  Abstract!Next \/ (Used' = Used /\ FreeBlocks' = FreeBlocks /\ Top' = Top)
<1> DEFINE n == UnitsFor(size)
           N == (PoolSize - First) \div HeaderSize
<1>0. size \in Nat \ {0} /\ n \in Nat /\ n >= 2
  <2>1. size \in Nat \ {0}
      BY Constants
  <2> QED BY <2>1, UnitsSuffice
<1>1. CASE GotNothing(size)
  <2>1. LiveHeaders' = LiveHeaders /\ FreeHeaders' = FreeHeaders /\ \A q \in DOMAIN header : header'[q] = header[q]
      BY <1>1, NothingKeeps
  <2>2. LiveHeaders \subseteq DOMAIN header /\ FreeHeaders \subseteq DOMAIN header
      BY DEF Inv, FreeHeaders
  <2>3. Used' = Used /\ FreeBlocks' = FreeBlocks
      BY <2>1, <2>2 DEF Used, FreeBlocks, UnitsOf, Bytes
  <2>4. Top' = Top
      BY <1>1 DEF Top, GotNothing
  <2> QED BY <2>3, <2>4
<1>2. ASSUME NEW p, NEW hdr, GotFree(size, p, hdr) PROVE Abstract!Next
  <2>1. PICK prevp, g : Given(size, Begun, List, p, prevp, g, hdr, poolFreePos)
      BY <1>2 DEF GotFree
  <2>2. Laid(Begun, poolFreePos) /\ p \in DOMAIN Begun /\ p # Base /\ Begun[p].size >= n /\ poolFreePos' = poolFreePos
    <3>1. Laid(Begun, poolFreePos) /\ Circle(Begun, List)
        BY BegunIs
    <3>2. p \in List /\ p # Base /\ Begun[p].size >= n /\ poolFreePos' = poolFreePos
        BY <2>1 DEF Given
    <3> QED BY <3>1, <3>2 DEF Circle
  <2> DEFINE s == Begun[p].size
  <2>3. s \in Nat /\ p + s * HeaderSize <= poolFreePos /\ Aligned(p)
      BY <2>2 DEF Laid
  <2>4. PICK u \in Nat : p = First + u * HeaderSize
      BY <2>3 DEF Aligned
  <2>5. Cuts(FreeBlocks, u, s, n)
    <3>1. FreeBlocks = {Span(q, Begun[q].size) : q \in List \ {Base}}
        BY BegunBlocks
    <3>2. Laid(Begun, poolFreePos)
        BY <2>2
    <3> QED BY <1>0, <2>1, <2>4, <3>1, <3>2, GivenBlocks
  <2>6. N \in Nat /\ u + s <= N
    <3>1. (u + s) * HeaderSize = u * HeaderSize + s * HeaderSize /\ u + s \in Nat
      <4>1. s \in Nat
          BY <2>3
      <4> HIDE DEF s
      <4> QED BY <4>1, Multiples
    <3>2. /\ u * HeaderSize \in Nat /\ s * HeaderSize \in Nat /\ s * HeaderSize >= s + 1
          /\ First \in Nat /\ PoolSize \in Nat
        BY <1>0, <2>2, <2>3, Multiples, Constants
    <3>3. poolFreePos \in Nat /\ poolFreePos <= End
        BY <2>2 DEF Inv, Laid
    <3> HIDE DEF s
    <3>4. First + (u + s) * HeaderSize <= poolFreePos /\ poolFreePos > First
        BY <2>3, <2>4, <3>1, <3>2, <3>3
    <3>5. poolFreePos <= PoolSize
        BY <3>2, <3>3, <3>4 DEF End, Larger
    <3>6. First + (u + s) * HeaderSize <= PoolSize
      <4> DEFINE w == (u + s) * HeaderSize
      <4>1. w \in Nat
          BY <3>1, <3>2
      <4> HIDE DEF w
      <4>2. First + w <= poolFreePos
          BY <3>4 DEF w
      <4>3. First + w <= PoolSize
          BY <3>2, <3>3, <3>5, <4>1, <4>2
      <4> QED BY <4>3 DEF w
    <3> QED BY <3>1, <3>6, UnitsFit
  <2>7. u \in 0 .. N /\ s \in 1 .. N /\ n \in 1 .. N
      BY <1>0, <2>3, <2>5, <2>6 DEF Cuts
  <2>8. Top' = Top
      BY <2>2 DEF Top
  <2> HIDE DEF s, n, N
  <2>9. Abstract!Alloc(u, s, n)
      BY <2>5, <2>8 DEF Abstract!Alloc, Abstract!Take, Cuts, Used, FreeBlocks, Top
  <2> QED BY <2>7, <2>9 DEF Abstract!Next, N
<1>3. ASSUME NEW hdr, GotNew(size, hdr) PROVE Abstract!Next
  <2>1. PICK q, e, prevp, g, end, s :
            /\ s = Larger(n, MinAlloc) /\ end <= PoolSize
            /\ Grown(Begun, List, q, poolFreePos, s, e, end)
            /\ Given(size, e, List \cup {poolFreePos}, poolFreePos, prevp, g, hdr, end)
      BY <1>3 DEF GotNew
  <2> DEFINE all == List \cup {poolFreePos}
  <2>2. PICK u \in Nat : poolFreePos = First + u * HeaderSize
      BY DEF Inv, Aligned
  <2>3. s \in Nat /\ s >= n
      BY <1>0, <2>1, Constants DEF Larger
  <2>4. /\ end = poolFreePos + s * HeaderSize /\ Laid(e, end) /\ e[poolFreePos].size = s
        /\ \A x \in DOMAIN Begun : e[x].size = Begun[x].size
      BY <2>1 DEF Grown
  <2>5. poolFreePos' = end
      BY <2>1 DEF Given
  <2>6. Span(poolFreePos, s) = Abstract!Block(u, s)
      BY <2>2, <2>3, SpanIs
  <2>7. {Span(x, e[x].size) : x \in all \ {Base}} = FreeBlocks \cup {Abstract!Block(u, s)}
    <3>1. poolFreePos # Base
        BY <2>1 DEF Given
    <3>2. \A x \in List \ {Base} : e[x].size = Begun[x].size
        BY <2>4, BegunIs DEF Circle
    <3>3. {Span(x, Begun[x].size) : x \in List \ {Base}} = FreeBlocks
        BY BegunBlocks
    <3>4. all \ {Base} = (List \ {Base}) \cup {poolFreePos}
        BY <3>1
    <3> HIDE DEF all
    <3> QED BY <2>4, <2>6, <3>2, <3>3, <3>4
  <2> DEFINE F == FreeBlocks \cup {Abstract!Block(u, s)}
  <2>8. Cuts(F, u, s, n)
    <3>1. F = {Span(x, e[x].size) : x \in all \ {Base}}
        BY <2>7
    <3>2. Given(size, e, all, poolFreePos, prevp, g, hdr, end)
        BY <2>1
    <3>3. Laid(e, end) /\ s = e[poolFreePos].size
        BY <2>4
    <3> HIDE DEF F, all
    <3> QED BY <1>0, <2>2, <3>1, <3>2, <3>3, GivenBlocks
  <2>9. F \ {Abstract!Block(u, s)} = FreeBlocks \ {Abstract!Block(u, s)}
      OBVIOUS
  <2>10. end = First + (u + s) * HeaderSize /\ u + s \in Nat
    <3>1. (u + s) * HeaderSize = u * HeaderSize + s * HeaderSize /\ u + s \in Nat
        BY <2>3, Multiples
    <3>2. u * HeaderSize \in Nat /\ s * HeaderSize \in Nat /\ First \in Nat
        BY <2>3, Multiples, Constants
    <3> QED BY <2>2, <2>4, <3>1, <3>2
  <2>11. N \in Nat /\ u + s <= N
      BY <2>1, <2>10, UnitsFit
  <2>12. Top = u /\ Top' = u + s
    <3>1. Top = u
        BY <2>2, IndexIs DEF Top, Index
    <3>2. Top' = Index(end)
        BY <2>5 DEF Top, Index, First
    <3> QED BY <2>10, <3>1, <3>2, IndexIs
  <2>13. s \in 1 .. N /\ n \in 1 .. N
      BY <1>0, <2>3, <2>8, <2>11 DEF Cuts
  <2> HIDE DEF n, N, F
  <2>14. Abstract!Grow(s, n)
    <3>1. Abstract!Take(u, s, n)
        BY <2>8, <2>9 DEF Abstract!Take, Cuts, Used, FreeBlocks
    <3> QED BY <2>11, <2>12, <3>1 DEF Abstract!Grow, Top, N
  <2> QED BY <2>13, <2>14 DEF Abstract!Next, N
<1> QED BY <1>1, <1>2, <1>3, AllocDoes

(* free() is a step of the abstract heap.                                  *)
LEMMA FreeImplements ==
  ASSUME Inv, NEW ptr \in DOMAIN live, Free(ptr)
  PROVE  Abstract!Next
<1> DEFINE hdr == ptr - HeaderSize
<1>1. /\ LiveHeaders' = LiveHeaders \ {hdr} /\ FreeHeaders' = FreeHeaders \cup {hdr}
      /\ DOMAIN header' = DOMAIN header
      /\ \A q \in DOMAIN header : header'[q].size = header[q].size
      /\ poolFreePos' = poolFreePos
  <2>1. PICK p : Freed(ptr, p) /\ Circle(header, List)
      BY FreeDoes
  <2>2. poolFreePos' = poolFreePos
      BY <2>1 DEF Freed
  <2> QED BY <2>1, <2>2, FreedKeeps
<1>2. hdr \in LiveHeaders
    BY DEF LiveHeaders
<1> HIDE DEF hdr
<1>3. LiveHeaders \subseteq DOMAIN header \ {Base} /\ FreeHeaders \subseteq DOMAIN header
    BY DEF Inv, FreeHeaders
<1>4. \A q \in LiveHeaders : Aligned(q) /\ header[q].size \in Nat \ {0}
  <2>1. ASSUME NEW q \in LiveHeaders PROVE Aligned(q) /\ header[q].size \in Nat \ {0}
    <3>1. Laid(header, poolFreePos) /\ q \in DOMAIN header /\ q # Base
        BY <1>3 DEF Inv
    <3>2. Aligned(q) /\ header[q].size \in Nat /\ header[q].size >= 1
        BY <3>1 DEF Laid
    <3> QED BY <3>2
  <2> QED BY <2>1
<1> DEFINE b == Span(hdr, header[hdr].size)
<1>5. /\ Used = {Span(q, header[q].size) : q \in LiveHeaders}
      /\ FreeBlocks = {Span(q, header[q].size) : q \in FreeHeaders}
      /\ Used' = {Span(q, header'[q].size) : q \in LiveHeaders \ {hdr}}
      /\ FreeBlocks' = {Span(q, header'[q].size) : q \in FreeHeaders \cup {hdr}}
    BY <1>1 DEF Used, FreeBlocks, UnitsOf, Bytes, Span
<1>6. b \in Used
    BY <1>2, <1>5
<1>7. Used' = Used \ {b}
  <2>1. \A q \in LiveHeaders : q # hdr => Span(q, header[q].size) # b
      BY <1>2, <1>4, SpansDiffer
  <2>2. \A q \in LiveHeaders : header'[q].size = header[q].size
      BY <1>1, <1>3
  <2> QED BY <1>5, <2>1, <2>2
<1>8. FreeBlocks' = FreeBlocks \cup {b}
  <2>1. \A q \in FreeHeaders \cup {hdr} : header'[q].size = header[q].size
      BY <1>1, <1>2, <1>3
  <2> QED BY <1>5, <2>1
<1>9. Top' = Top
    BY <1>1 DEF Top
<1> HIDE DEF b
<1>10. Abstract!Free(b)
    BY <1>6, <1>7, <1>8, <1>9 DEF Abstract!Free, Used, FreeBlocks, Top
<1> QED BY <1>6, <1>10 DEF Abstract!Next, Used

(* In the beginning there are no blocks. *)
LEMMA InitImplements == Init => Abstract!Init
<1> SUFFICES ASSUME Init PROVE Abstract!Init
    OBVIOUS
<1>1. LiveHeaders = {} /\ FreeHeaders = {}
    BY DEF Init, LiveHeaders, FreeHeaders
<1>2. Top = 0
  <2>1. First + 0 * HeaderSize = First
      BY Constants
  <2> QED BY <2>1, IndexIs DEF Init, Top, Index
<1> QED BY <1>1, <1>2 DEF Abstract!Init, Top

(* Each call of alloc() and free() is a step of the abstract heap, or      *)
(* changes no block.                                                       *)
LEMMA NextImplements == Inv /\ [Next]_heapVars => [Abstract!Next]_Abstract!blockVars
<1> SUFFICES ASSUME Inv, [Next]_heapVars, ~Abstract!Next PROVE UNCHANGED Abstract!blockVars
    OBVIOUS
<1>1. ASSUME NEW size \in AllocSizes, Alloc(size) PROVE Used' = Used /\ FreeBlocks' = FreeBlocks /\ Top' = Top
    BY <1>1, AllocImplements
<1>2. ASSUME NEW ptr \in DOMAIN live, Free(ptr) PROVE FALSE
    BY <1>2, FreeImplements
<1>3. ASSUME UNCHANGED heapVars PROVE Used' = Used /\ FreeBlocks' = FreeBlocks /\ Top' = Top
  <2>1. header' = header /\ live' = live /\ poolFreePos' = poolFreePos
      BY <1>3 DEF heapVars
  <2>2. LiveHeaders' = LiveHeaders /\ FreeHeaders' = FreeHeaders /\ Top' = Top
      BY <2>1 DEF LiveHeaders, FreeHeaders, Top
  <2>3. /\ Used = {Span(q, header[q].size) : q \in LiveHeaders}
        /\ FreeBlocks = {Span(q, header[q].size) : q \in FreeHeaders}
        /\ Used' = {Span(q, header'[q].size) : q \in LiveHeaders'}
        /\ FreeBlocks' = {Span(q, header'[q].size) : q \in FreeHeaders'}
      BY DEF Used, FreeBlocks, UnitsOf, Bytes, Span
  <2> QED BY <2>1, <2>2, <2>3
<1>4. Used' = Used /\ FreeBlocks' = FreeBlocks /\ Top' = Top
  <2> DEFINE Same == Used' = Used /\ FreeBlocks' = FreeBlocks /\ Top' = Top
  <2>1. \A size \in AllocSizes : Alloc(size) => Same
      BY <1>1
  <2>2. \A ptr \in DOMAIN live : ~Free(ptr)
      BY <1>2
  <2>3. UNCHANGED heapVars => Same
      BY <1>3
  <2> HIDE DEF Same
  <2>4. Same
      BY <2>1, <2>2, <2>3, Zenon DEF Next
  <2> QED BY <2>4 DEF Same
<1> QED BY <1>4 DEF Abstract!blockVars, Used, FreeBlocks, Top

(* The free list and its headers implement the division of the pool into   *)
(* blocks of HeapBlocks.                                                   *)
THEOREM RefinementTheorem == Spec => ImplementsBlocks
<1> QED BY InitImplements, NextImplements, InvAlways, PTL DEF Spec, Abstract!Spec, ImplementsBlocks

-----------------------------------------------------------------------------
(* What is proved of HeapBlocks, for the blocks that the headers describe. *)

Parts == INSTANCE HeapBlocksProofs WITH
    Units <- (PoolSize - First) \div HeaderSize,
    used <- {UnitsOf(p) : p \in LiveHeaders},
    free <- {UnitsOf(p) : p \in FreeHeaders},
    top <- (poolFreePos - First) \div HeaderSize

(* Whatever is cut, taken whole, freed or added by getMem(), every unit    *)
(* taken from the pool is in exactly one block.                            *)
THEOREM DivisionTheorem == Spec => []PoolDivided
<1>1. Init => Parts!Inv
  <2>1. Abstract!Init => Parts!Init
      BY DEF Abstract!Init, Parts!Init
  <2> QED BY <2>1, InitImplements, Parts!InitInv
<1>2. (Inv /\ Parts!Inv) /\ [Next]_heapVars => Parts!Inv'
  <2> SUFFICES ASSUME Inv, Parts!Inv, [Next]_heapVars PROVE Parts!Inv'
      OBVIOUS
  <2>1. [Abstract!Next]_Abstract!blockVars
      BY NextImplements
  <2>2. [Parts!Next]_Parts!blockVars
      BY <2>1, Zenon DEF Abstract!Next, Abstract!Alloc, Abstract!Grow, Abstract!Free, Abstract!Take, Abstract!Block,
         Abstract!blockVars, Parts!Next, Parts!Alloc, Parts!Grow, Parts!Free, Parts!Take, Parts!Block, Parts!blockVars
  <2>3. (PoolSize - First) \div HeaderSize \in Int
      BY Constants
  <2> QED BY <2>2, <2>3, Parts!NextInv
<1>3. Parts!Inv => PoolDivided
    BY DEF Parts!Inv, Parts!BlocksDisjoint, Parts!NothingLost, Parts!Blocks,
       PoolDivided, Abstract!BlocksDisjoint, Abstract!NothingLost, Abstract!Blocks
<1> QED BY <1>1, <1>2, <1>3, InvAlways, PTL DEF Spec
=============================================================================
