-------------------------- MODULE BaseVAllocProofs --------------------------
(***************************************************************************)
(* Proofs about BaseVAlloc for any pool, page sizes and counts.  A state   *)
(* between two calls is Alloc(S, P, x): pool S, big pages P, and x next in *)
(* line for a swap.  The inductive invariant, Inv, says so, and that pool  *)
(* and pages are Consistent with the contents m of the memory: the pages   *)
(* are disjoint, a page shows the bytes of m, and the pool has the byte of *)
(* m at every address that no dirty page holds.  The properties of         *)
(* BaseVAlloc follow, none of which is inductive by itself.                *)
(*                                                                         *)
(* In order: what each private function of the code does to Alloc(S, P, x) *)
(* (lemmas ...Is); that Consistent survives it; the calls, put together    *)
(* from these; the steps, the invariant and the theorems.                  *)
(***************************************************************************)
EXTENDS BaseVAlloc, WellFoundedInduction, TLAPS

N == PageCount["big"]
Numbers == 1 .. N

(* A big page that is on the free list. *)
BigPage == [start : Addr, size : {BigSize}, locks : {0}, cleanSkips : 0 .. SkipsModulus - 1,
            dirty : BOOLEAN, data : UNION {[D -> Val] : D \in SUBSET Addr}]

Record(S, G, F, L, x, f, o) ==
    [store |-> S, page |-> G, free |-> F, locked |-> L, nextPageToSwap |-> x, failed |-> f, overrun |-> o]
Pages(P) == [c \in Class |-> IF c = "big" THEN P ELSE [i \in 1 .. PageCount[c] |-> NewPage(c)]]
FreeLists == [c \in Class |-> [i \in 1 .. PageCount[c] |-> i]]
Never == FALSE
NoLocks == [c \in Class |-> <<>>]

(* The allocator between two calls. *)
Alloc(S, P, x) == Record(S, Pages(P), FreeLists, NoLocks, x, Never, Never)

(* The addresses a page holds. *)
HeldBy(pg) == IF pg.start = 0 THEN {} ELSE Span(pg.start, BigSize) \cap Addr

Consistent(S, P, m) ==
    /\ S \in [Addr -> Val] /\ m \in [Addr -> Val]
    /\ P \in [Numbers -> BigPage]
    /\ \A k \in Numbers : P[k].data \in [HeldBy(P[k]) -> Val]
    /\ \A j, k \in Numbers : j # k => \A a \in Addr : ~(Holds(P[j], a) /\ Holds(P[k], a))
    /\ \A k \in Numbers : \A a \in Addr : Holds(P[k], a) => P[k].data[a] = m[a]
    /\ \A a \in Addr : (\A k \in Numbers : Holds(P[k], a) => ~P[k].dirty) => S[a] = m[a]

(* From a state with pool S and contents m the call led to t: nothing but  *)
(* bytes of m was written to the pool, and the page k holds the addresses D. *)
LedTo(S, m, t, k, D) ==
    \E T, Q : \E y \in Numbers :
        /\ t = Alloc(T, Q, y)
        /\ Consistent(T, Q, m)
        /\ D \subseteq DOMAIN Q[k].data
        /\ \A a \in Addr : T[a] # S[a] => T[a] = m[a]
(* pullRawData returned pull: the page it found holds D. *)
PulledTo(S, m, pull, D, readonly) ==
    \E T, Q : \E y, k \in Numbers :
        /\ pull.state = Alloc(T, Q, y) /\ pull.at = k
        /\ Consistent(T, Q, m)
        /\ D \subseteq DOMAIN Q[k].data
        /\ readonly \/ Q[k].dirty
        /\ \A a \in Addr : T[a] # S[a] => T[a] = m[a]
-----------------------------------------------------------------------------
(* Min of the community modules is the least element of a set of naturals. *)
LEMMA MinIsLeast ==
  ASSUME NEW S, S \subseteq Nat, S # {}
  PROVE  Min(S) \in S /\ \A y \in S : Min(S) <= y
  <1>1. \E x \in S : \A y \in S : ~ (<<y, x>> \in OpToRel(<, Nat))
    BY NatLessThanWellFounded, WFMin
  <1>2. PICK x \in S : \A y \in S : ~(y < x)
    BY <1>1 DEF OpToRel
  <1>3. \A y \in S : x <= y
    BY <1>2
  <1> QED BY <1>3 DEF Min

(* Max is an element of every non-empty finite set of naturals. *)
LEMMA MaxIsGreatest ==
  ASSUME NEW n \in Nat, NEW S, S \subseteq 1 .. n, S # {}
  PROVE  Max(S) \in S
  <1> DEFINE T == {n - x : x \in S}
  <1>1. \A x \in S : x \in Nat /\ x <= n /\ n - x \in Nat
    OBVIOUS
  <1>2. T \subseteq Nat /\ T # {}
    BY <1>1
  <1>3. Min(T) \in T /\ \A y \in T : Min(T) <= y
    BY <1>2, MinIsLeast
  <1>4. PICK x \in S : Min(T) = n - x
    BY <1>3
  <1>5. \A y \in S : x >= y
    <2> TAKE y \in S
    <2>1. n - y \in T
      OBVIOUS
    <2>2. n - x <= n - y
      BY <2>1, <1>3, <1>4
    <2> HIDE DEF T
    <2> QED BY <2>2, <1>1
  <1> QED BY <1>5 DEF Max

(* What the assumptions say of page numbers, sizes and addresses. *)
LEMMA NumbersFacts == N \in Nat \ {0} /\ Numbers = 1 .. N /\ Numbers \subseteq Nat
                      /\ BigSize \in Nat \ {0} /\ PoolSize \in Nat \ {0} /\ 0 \in Addr /\ Addr \subseteq Nat
  BY CountsAssumption, SizesAssumption DEF N, Numbers, Class, BigSize, Addr

(* The fields of the record Alloc(S, P, x). *)
LEMMA AllocFacts ==
  ASSUME NEW S, NEW P, NEW x
  PROVE  /\ Alloc(S, P, x).store = S /\ Alloc(S, P, x).page["big"] = P
         /\ Alloc(S, P, x).nextPageToSwap = x
         /\ Alloc(S, P, x).page = Pages(P)
         /\ Alloc(S, P, x).free["big"] = [i \in Numbers |-> i]
  <1>2. Alloc(S, P, x).page = Pages(P)
    BY DEF Alloc, Record
  <1>3. Alloc(S, P, x).store = S /\ Alloc(S, P, x).nextPageToSwap = x
    BY DEF Alloc, Record
  <1>4. Pages(P)["big"] = P
    BY DEF Pages, Class
  <1>5. Alloc(S, P, x).free["big"] = [i \in Numbers |-> i]
    BY DEF Alloc, Record, Class, Numbers, N, FreeLists
  <1> QED BY <1>2, <1>3, <1>4, <1>5

(* In Alloc(S, P, x) no ASSERT was false and no buffer was overrun. *)
LEMMA NothingWrong ==
  ASSUME NEW S, NEW P, NEW x PROVE ~Alloc(S, P, x).failed /\ ~Alloc(S, P, x).overrun
  BY DEF Alloc, Record, Never

(* The free list of Alloc(S, P, x) holds the big pages by number, and no     *)
(* page is locked.                                                           *)
LEMMA ListFacts ==
  ASSUME NEW S, NEW P, NEW x
  PROVE  /\ Positions(Alloc(S, P, x)) = Numbers
         /\ \A k \in Numbers : FreePage(Alloc(S, P, x), k) = P[k] /\ Alloc(S, P, x).free["big"][k] = k
         /\ LoadedPositions(Alloc(S, P, x)) = {k \in Numbers : P[k].start # 0}
         /\ LockedPages(Alloc(S, P, x)) = <<>>
  <1> DEFINE s == Alloc(S, P, x)
  <1>1. s.page["big"] = P /\ s.free["big"] = [i \in Numbers |-> i]
    BY AllocFacts
  <1>2. \A c \in Class : s.locked[c] = <<>>
    BY DEF Alloc, Record, NoLocks
  <1> HIDE DEF s
  <1>3. Positions(s) = Numbers
    BY <1>1 DEF Positions
  <1>4. \A k \in Numbers : FreePage(s, k) = P[k] /\ s.free["big"][k] = k
    BY <1>1 DEF FreePage
  <1>5. LoadedPositions(s) = {k \in Numbers : P[k].start # 0}
    BY <1>3, <1>4 DEF LoadedPositions, Loaded
  <1>6. \A c \in Class : Tagged(s, c) = <<>>
    BY <1>2 DEF Tagged
  <1>7. LockedPages(s) = <<>>
    BY <1>6 DEF LockedPages, Class
  <1> QED BY <1>3, <1>4, <1>5, <1>7 DEF s

(* Replacing the big pages leaves the pages of the other classes alone. *)
LEMMA PagesUpdate ==
  ASSUME NEW P, NEW Q PROVE [Pages(P) EXCEPT !["big"] = Q] = Pages(Q)
  BY DEF Pages, Class

EmptyPage(pg) == [pg EXCEPT !.start = 0, !.data = <<>>]
SyncedPage(pg) == IF pg.dirty THEN [pg EXCEPT !.dirty = FALSE, !.cleanSkips = 0] ELSE pg
LoadedPage(pg, p, S) == [pg EXCEPT !.start = p, !.data = [a \in Span(p, BigSize) \cap Addr |-> S[a]]]
UsedPage(pg, readonly) == [pg EXCEPT !.dirty = @ \/ ~readonly]
FilledPage(pg, d) == [pg EXCEPT !.data = Patch(@, d)]

(* Invalidate empties the pages K and changes nothing else. *)
LEMMA InvalidateIs ==
  ASSUME NEW S, NEW P, NEW x, DOMAIN P = Numbers, NEW K, K \subseteq Numbers
  PROVE  Invalidate(Alloc(S, P, x), K) =
           Alloc(S, [i \in Numbers |-> IF i \in K THEN EmptyPage(P[i]) ELSE P[i]], x)
  <1> DEFINE s == Alloc(S, P, x)
             Q == [i \in Numbers |-> IF i \in K THEN EmptyPage(P[i]) ELSE P[i]]
  <1>1. s.store = S /\ s.page["big"] = P /\ s.page = Pages(P) /\ s.free["big"] = [i \in Numbers |-> i]
    BY AllocFacts
  <1> HIDE DEF s
  <1>2. [i \in DOMAIN P |-> IF \E j \in K : s.free["big"][j] = i THEN [P[i] EXCEPT !.start = 0, !.data = <<>>] ELSE P[i]] = Q
    <2>1. \A i \in Numbers : (\E j \in K : s.free["big"][j] = i) <=> i \in K
      BY <1>1
    <2> QED BY <2>1 DEF EmptyPage
  <1>3. [s.page EXCEPT !["big"] = Q] = Pages(Q)
    BY <1>1, PagesUpdate
  <1> HIDE DEF Q
  <1>4. Invalidate(s, K) = [s EXCEPT !.page = Pages(Q)]
    BY <1>1, <1>2, <1>3 DEF Invalidate, MapFree
  <1>5. [s EXCEPT !.page = Pages(Q)] = Alloc(S, Q, x)
    BY DEF s, Alloc, Record
  <1> QED BY <1>4, <1>5 DEF s, Q

(* CountSkips counts on the pages K and changes nothing else. *)
LEMMA SkipIs ==
  ASSUME NEW S, NEW P, NEW x, DOMAIN P = Numbers, NEW K, K \subseteq Numbers
  PROVE  CountSkips(Alloc(S, P, x), K) =
           Alloc(S, [i \in Numbers |-> IF i \in K THEN SkippedOnce(P[i]) ELSE P[i]], x)
  <1> DEFINE s == Alloc(S, P, x)
             Q == [i \in Numbers |-> IF i \in K THEN SkippedOnce(P[i]) ELSE P[i]]
  <1>1. s.store = S /\ s.page["big"] = P /\ s.page = Pages(P) /\ s.free["big"] = [i \in Numbers |-> i]
    BY AllocFacts
  <1> HIDE DEF s
  <1>2. [i \in DOMAIN P |-> IF \E j \in K : s.free["big"][j] = i THEN SkippedOnce(P[i]) ELSE P[i]] = Q
    <2>1. \A i \in Numbers : (\E j \in K : s.free["big"][j] = i) <=> i \in K
      BY <1>1
    <2> QED BY <2>1
  <1>3. [s.page EXCEPT !["big"] = Q] = Pages(Q)
    BY <1>1, PagesUpdate
  <1> HIDE DEF Q
  <1>4. CountSkips(s, K) = [s EXCEPT !.page = Pages(Q)]
    BY <1>1, <1>2, <1>3 DEF CountSkips, MapFree
  <1>5. [s EXCEPT !.page = Pages(Q)] = Alloc(S, Q, x)
    BY DEF s, Alloc, Record
  <1> QED BY <1>4, <1>5 DEF s, Q

(* Load fills page k from the pool and changes nothing else. *)
LEMMA LoadIs ==
  ASSUME NEW S, NEW P, NEW x, DOMAIN P = Numbers, NEW k \in Numbers, NEW p
  PROVE  Load(Alloc(S, P, x), k, p) =
           Alloc(S, [i \in Numbers |-> IF i = k THEN LoadedPage(P[i], p, S) ELSE P[i]], x)
  <1> DEFINE s == Alloc(S, P, x)
             Q == [i \in Numbers |-> IF i = k THEN LoadedPage(P[i], p, S) ELSE P[i]]
  <1>1. s.store = S /\ s.page["big"] = P /\ s.page = Pages(P) /\ s.free["big"] = [i \in Numbers |-> i]
    BY AllocFacts
  <1> HIDE DEF s
  <1>2. [i \in DOMAIN P |-> IF \E j \in {k} : s.free["big"][j] = i THEN [P[i] EXCEPT !.start = p, !.data = [a \in Span(p, BigSize) \cap Addr |-> s.store[a]]] ELSE P[i]] = Q
    <2>1. \A i \in Numbers : (\E j \in {k} : s.free["big"][j] = i) <=> i = k
      BY <1>1
    <2> QED BY <2>1, <1>1 DEF LoadedPage
  <1>3. [s.page EXCEPT !["big"] = Q] = Pages(Q)
    BY <1>1, PagesUpdate
  <1> HIDE DEF Q
  <1>4. Load(s, k, p) = [s EXCEPT !.page = Pages(Q)]
    BY <1>1, <1>2, <1>3 DEF Load, MapFree
  <1>5. [s EXCEPT !.page = Pages(Q)] = Alloc(S, Q, x)
    BY DEF s, Alloc, Record
  <1> QED BY <1>4, <1>5 DEF s, Q

(* SyncBigPages (syncBigPage of the code) writes the pages K to the pool and *)
(* marks them clean.                                                         *)
LEMMA SyncIs ==
  ASSUME NEW S, NEW P, NEW x, DOMAIN P = Numbers, NEW K, K \subseteq Numbers
  PROVE  SyncBigPages(Alloc(S, P, x), K) =
           Alloc(SyncedStore(Alloc(S, P, x), K), [i \in Numbers |-> IF i \in K THEN SyncedPage(P[i]) ELSE P[i]], x)
  <1> DEFINE T == SyncedStore(Alloc(S, P, x), K)
             s == WriteBack(Alloc(S, P, x), K)
             Q == [i \in Numbers |-> IF i \in K THEN SyncedPage(P[i]) ELSE P[i]]
  <1>0. s = Alloc(T, P, x)
    BY DEF WriteBack, Alloc, Record
  <1>1. s.store = T /\ s.page["big"] = P /\ s.page = Pages(P) /\ s.free["big"] = [i \in Numbers |-> i]
    BY <1>0, AllocFacts
  <1> HIDE DEF s, T
  <1>2. [i \in DOMAIN P |-> IF \E j \in K : s.free["big"][j] = i THEN (IF P[i].dirty THEN [P[i] EXCEPT !.dirty = FALSE, !.cleanSkips = 0] ELSE P[i]) ELSE P[i]] = Q
    <2>1. \A i \in Numbers : (\E j \in K : s.free["big"][j] = i) <=> i \in K
      BY <1>1
    <2> QED BY <2>1 DEF SyncedPage
  <1>3. [s.page EXCEPT !["big"] = Q] = Pages(Q)
    BY <1>1, PagesUpdate
  <1> HIDE DEF Q
  <1>4. SyncBigPages(Alloc(S, P, x), K) = [s EXCEPT !.page = Pages(Q)]
    BY <1>1, <1>2, <1>3 DEF SyncBigPages, MapFree, s
  <1>5. [s EXCEPT !.page = Pages(Q)] = Alloc(T, Q, x)
    BY <1>0 DEF Alloc, Record
  <1> QED BY <1>4, <1>5 DEF s, Q, T

(* MarkUsed makes page k dirty unless it is pulled to be read. *)
LEMMA UsedIs ==
  ASSUME NEW S, NEW P, NEW x, DOMAIN P = Numbers, NEW k \in Numbers, NEW readonly \in BOOLEAN
  PROVE  MarkUsed(Alloc(S, P, x), k, readonly) = Alloc(S, [i \in Numbers |-> IF i = k THEN UsedPage(P[i], readonly) ELSE P[i]], x)
  <1> DEFINE s == Alloc(S, P, x)
             Q == [i \in Numbers |-> IF i = k THEN UsedPage(P[i], readonly) ELSE P[i]]
  <1>1. s.page["big"] = P /\ s.page = Pages(P) /\ s.free["big"] = [i \in Numbers |-> i]
    BY AllocFacts
  <1> HIDE DEF s
  <1>2. [i \in DOMAIN P |-> IF \E j \in {k} : s.free["big"][j] = i THEN [P[i] EXCEPT !.dirty = P[i].dirty \/ ~readonly] ELSE P[i]] = Q
    <2>1. \A i \in Numbers : (\E j \in {k} : s.free["big"][j] = i) <=> i = k
      BY <1>1
    <2> QED BY <2>1 DEF UsedPage
  <1>3. [s.page EXCEPT !["big"] = Q] = Pages(Q)
    BY <1>1, PagesUpdate
  <1> HIDE DEF Q
  <1>4. MarkUsed(s, k, readonly) = [s EXCEPT !.page = Pages(Q)]
    BY <1>1, <1>2, <1>3 DEF MarkUsed, MapFree
  <1>5. [s EXCEPT !.page = Pages(Q)] = Alloc(S, Q, x)
    BY DEF s, Alloc, Record
  <1> QED BY <1>4, <1>5 DEF s, Q

(* Fill copies the bytes d into the buffer of page k. *)
LEMMA FilledIs ==
  ASSUME NEW S, NEW P, NEW x, DOMAIN P = Numbers, NEW k \in Numbers, NEW d
  PROVE  Fill(Alloc(S, P, x), k, d) = Alloc(S, [i \in Numbers |-> IF i = k THEN FilledPage(P[i], d) ELSE P[i]], x)
  <1> DEFINE s == Alloc(S, P, x)
             Q == [i \in Numbers |-> IF i = k THEN FilledPage(P[i], d) ELSE P[i]]
  <1>1. s.page["big"] = P /\ s.page = Pages(P) /\ s.free["big"] = [i \in Numbers |-> i]
    BY AllocFacts
  <1> HIDE DEF s
  <1>2. [i \in DOMAIN P |-> IF \E j \in {k} : s.free["big"][j] = i THEN [P[i] EXCEPT !.data = Patch(P[i].data, d)] ELSE P[i]] = Q
    <2>1. \A i \in Numbers : (\E j \in {k} : s.free["big"][j] = i) <=> i = k
      BY <1>1
    <2> QED BY <2>1 DEF FilledPage
  <1>3. [s.page EXCEPT !["big"] = Q] = Pages(Q)
    BY <1>1, PagesUpdate
  <1> HIDE DEF Q
  <1>4. Fill(s, k, d) = [s EXCEPT !.page = Pages(Q)]
    BY <1>1, <1>2, <1>3 DEF Fill, MapFree
  <1>5. [s EXCEPT !.page = Pages(Q)] = Alloc(S, Q, x)
    BY DEF s, Alloc, Record
  <1> QED BY <1>4, <1>5 DEF s, Q

(* After a swap the page that is next in line is again one of the list. *)
LEMMA AdvanceIs ==
  ASSUME NEW S, NEW P, NEW x, NEW k \in Numbers, NEW inTurn \in BOOLEAN
  PROVE  \E y \in Numbers : AdvanceSwap(Alloc(S, P, x), k, inTurn) = Alloc(S, P, y)
  <1> DEFINE s == Alloc(S, P, x)
             y == IF inTurn /\ k + 1 \in Positions(s) THEN s.free["big"][k + 1] ELSE HeadOr0(s.free["big"])
  <1>1. Positions(s) = Numbers /\ s.free["big"] = [i \in Numbers |-> i]
    BY AllocFacts, ListFacts
  <1> HIDE DEF s
  <1>2. 1 \in Numbers /\ s.free["big"] # <<>> /\ Head(s.free["big"]) = 1
    BY <1>1, NumbersFacts
  <1>3. y \in Numbers
    BY <1>1, <1>2 DEF HeadOr0
  <1> HIDE DEF y
  <1>4. [s EXCEPT !.nextPageToSwap = y] = Alloc(S, P, y)
    BY DEF s, Alloc, Record
  <1>5. AdvanceSwap(s, k, inTurn) = [s EXCEPT !.nextPageToSwap = y]
    BY DEF AdvanceSwap, y
  <1> QED BY <1>3, <1>4, <1>5 DEF s

-----------------------------------------------------------------------------
(* The empty buffer is a function on no address. *)
LEMMA EmptyData ==
  <<>> \in [{} -> Val] /\ DOMAIN <<>> = {} /\ <<>> \in UNION {[D -> Val] : D \in SUBSET Addr}
  <1>1. <<>> \in [{} -> Val] /\ DOMAIN <<>> = {}
    OBVIOUS
  <1>2. {} \in SUBSET Addr
    OBVIOUS
  <1> QED BY <1>1, <1>2

(* Emptying clean pages loses no byte. *)
LEMMA Emptied ==
  ASSUME NEW S, NEW P, NEW m, Consistent(S, P, m),
         NEW K, K \subseteq Numbers, \A k \in K : ~P[k].dirty,
         NEW Q, Q = [i \in Numbers |-> IF i \in K THEN EmptyPage(P[i]) ELSE P[i]]
  PROVE  /\ Consistent(S, Q, m)
         /\ \A k \in K : Q[k].start = 0 /\ \A a \in Addr : ~Holds(Q[k], a)
         /\ \A k \in Numbers \ K : Q[k] = P[k]
  <1>1. ASSUME NEW k \in K
        PROVE  /\ Q[k].start = 0 /\ Q[k].data = <<>> /\ Q[k].dirty = P[k].dirty /\ Q[k] \in BigPage
               /\ HeldBy(Q[k]) = {}
    <2>1. Q[k] = EmptyPage(P[k]) /\ P[k] \in BigPage
      BY DEF Consistent
    <2>2. Q[k].start = 0 /\ Q[k].data = <<>> /\ Q[k].dirty = P[k].dirty
      BY <2>1 DEF EmptyPage, BigPage
    <2>3. Q[k] \in BigPage
      BY <2>1, EmptyData, NumbersFacts DEF EmptyPage, BigPage
    <2> QED BY <2>2, <2>3 DEF HeldBy
  <1>2. \A k \in Numbers \ K : Q[k] = P[k]
    OBVIOUS
  <1>3. \A k \in K : \A a : ~Holds(Q[k], a)
    BY <1>1, EmptyData DEF Holds
  <1>4. \A k \in Numbers : Q[k] \in BigPage /\ Q[k].data \in [HeldBy(Q[k]) -> Val]
    BY <1>1, <1>2, EmptyData DEF Consistent
  <1>5. Q \in [Numbers -> BigPage]
    BY <1>4
  <1>6. \A a \in Addr : (\A k \in Numbers : Holds(Q[k], a) => ~Q[k].dirty) =>
            \A k \in Numbers : Holds(P[k], a) => ~P[k].dirty
    BY <1>2
  <1>7. Consistent(S, Q, m)
    BY <1>2, <1>3, <1>4, <1>5, <1>6 DEF Consistent
  <1> QED BY <1>1, <1>2, <1>3, <1>7

(* Counting skips changes no byte, and the counter stays within its width. *)
LEMMA SkipsCounted ==
  ASSUME NEW S, NEW P, NEW m, Consistent(S, P, m), NEW K, K \subseteq Numbers,
         NEW Q, Q = [i \in Numbers |-> IF i \in K THEN SkippedOnce(P[i]) ELSE P[i]]
  PROVE  /\ Consistent(S, Q, m)
         /\ \A k \in Numbers : Q[k].start = P[k].start /\ Q[k].data = P[k].data
  <1>1. ASSUME NEW k \in Numbers
        PROVE  /\ Q[k].start = P[k].start /\ Q[k].data = P[k].data /\ Q[k].dirty = P[k].dirty
               /\ Q[k] \in BigPage
    <2>1. P[k] \in BigPage
      BY DEF Consistent
    <2>2. (P[k].cleanSkips + 1) % SkipsModulus \in 0 .. SkipsModulus - 1
      BY <2>1, SkipsAssumption DEF BigPage
    <2> QED BY <2>1, <2>2 DEF SkippedOnce, BigPage
  <1>2. Q \in [Numbers -> BigPage]
    BY <1>1
  <1>3. \A k \in Numbers : HeldBy(Q[k]) = HeldBy(P[k]) /\ \A a : Holds(Q[k], a) <=> Holds(P[k], a)
    BY <1>1 DEF HeldBy, Holds
  <1>4. Consistent(S, Q, m)
    BY <1>1, <1>2, <1>3 DEF Consistent
  <1> QED BY <1>1, <1>4

(* Writing pages back loses no byte, and puts only current bytes into the    *)
(* pool.                                                                     *)
LEMMA Synced ==
  ASSUME NEW S, NEW P, NEW m, NEW x, Consistent(S, P, m), NEW K, K \subseteq Numbers,
         NEW Q, Q = [i \in Numbers |-> IF i \in K THEN SyncedPage(P[i]) ELSE P[i]],
         NEW T, T = SyncedStore(Alloc(S, P, x), K)
  PROVE  /\ Consistent(T, Q, m)
         /\ \A k \in Numbers : Q[k].start = P[k].start /\ Q[k].data = P[k].data
         /\ \A k \in K : ~Q[k].dirty
         /\ \A a \in Addr : T[a] # S[a] => T[a] = m[a]
  <1> DEFINE s == Alloc(S, P, x)
             W(a) == {k \in K : P[k].dirty /\ Holds(P[k], a)}
  <1>1. ASSUME NEW k \in Numbers
        PROVE  /\ Q[k].start = P[k].start /\ Q[k].data = P[k].data
               /\ Q[k].dirty = (P[k].dirty /\ k \notin K)
               /\ Q[k] \in BigPage
    <2>1. P[k] \in BigPage
      BY DEF Consistent
    <2>2. 0 \in 0 .. SkipsModulus - 1
      BY SkipsAssumption
    <2> QED BY <2>1, <2>2 DEF SyncedPage, BigPage
  <1>2. s.store = S /\ \A k \in Numbers : FreePage(s, k) = P[k]
    <2>1. s.store = S
      BY DEF Alloc, Record
    <2>2. \A k \in Numbers : FreePage(s, k) = P[k]
      BY ListFacts
    <2> QED BY <2>1, <2>2
  <1> HIDE DEF s
  <1>3. \A a : Writers(s, K, a) = W(a)
    BY <1>2 DEF Writers
  <1>4. ASSUME NEW a, W(a) # {} PROVE Max(W(a)) \in W(a)
    <2>1. W(a) \subseteq 1 .. N
      BY NumbersFacts
    <2> HIDE DEF W
    <2> QED BY <2>1, <1>4, MaxIsGreatest, NumbersFacts
  <1>5. ASSUME NEW a \in Addr, W(a) # {} PROVE T[a] = m[a]
    <2>1. PICK k \in K : k = Max(W(a)) /\ Holds(P[k], a)
      BY <1>4, <1>5
    <2>2. T[a] = FreePage(s, k).data[a]
      <3> HIDE DEF W
      <3> QED BY <2>1, <1>3, <1>5 DEF SyncedStore, s
    <2> QED BY <2>1, <2>2, <1>2 DEF Consistent
  <1>6. ASSUME NEW a \in Addr, W(a) = {} PROVE T[a] = S[a]
    <2> HIDE DEF W
    <2> QED BY <1>2, <1>3, <1>6 DEF SyncedStore, s
  <1>7. \A a \in Addr : T[a] # S[a] => T[a] = m[a]
    BY <1>5, <1>6
  <1>8. T \in [Addr -> Val]
    <2>1. \A a \in Addr : T[a] \in Val
      BY <1>5, <1>6 DEF Consistent
    <2> QED BY <2>1 DEF SyncedStore
  <1>9. Q \in [Numbers -> BigPage]
    BY <1>1
  <1>10. \A a \in Addr : (\A k \in Numbers : Holds(Q[k], a) => ~Q[k].dirty) => T[a] = m[a]
    <2> SUFFICES ASSUME NEW a \in Addr, \A k \in Numbers : Holds(Q[k], a) => ~Q[k].dirty, W(a) = {}
                 PROVE  S[a] = m[a]
      BY <1>5, <1>6
    <2>1. \A k \in Numbers : Holds(P[k], a) => ~P[k].dirty
      BY <1>1 DEF Holds
    <2> QED BY <2>1 DEF Consistent
  <1>11. \A k \in Numbers : HeldBy(Q[k]) = HeldBy(P[k]) /\ \A a : Holds(Q[k], a) <=> Holds(P[k], a)
    BY <1>1 DEF HeldBy, Holds
  <1>12. Consistent(T, Q, m)
    <2> HIDE DEF W
    <2> QED BY <1>1, <1>8, <1>9, <1>10, <1>11 DEF Consistent
  <1> QED BY <1>1, <1>7, <1>12

(* A page that holds no unwritten byte may be loaded at p if no other page   *)
(* holds a byte there.                                                       *)
LEMMA LoadedIn ==
  ASSUME NEW S, NEW P, NEW m, Consistent(S, P, m), NEW k \in Numbers, NEW p \in Addr, p # 0,
         P[k].start = 0 \/ ~P[k].dirty,
         \A j \in Numbers \ {k} : \A a \in Span(p, BigSize) \cap Addr : ~Holds(P[j], a),
         NEW Q, Q = [i \in Numbers |-> IF i = k THEN LoadedPage(P[i], p, S) ELSE P[i]]
  PROVE  Consistent(S, Q, m) /\ DOMAIN Q[k].data = Span(p, BigSize) \cap Addr
  <1> DEFINE D == Span(p, BigSize) \cap Addr
             d == [a \in D |-> S[a]]
  <1>1. d \in [D -> Val] /\ D \in SUBSET Addr
    BY DEF Consistent
  <1>2. Q[k].start = p /\ Q[k].data = d /\ Q[k].dirty = P[k].dirty /\ Q[k] \in BigPage
    <2>1. P[k] \in BigPage /\ Q[k] = [P[k] EXCEPT !.start = p, !.data = d]
      BY DEF Consistent, LoadedPage
    <2>2. d \in UNION {[E -> Val] : E \in SUBSET Addr}
      BY <1>1
    <2> HIDE DEF d, D
    <2>3. Q[k].start = p /\ Q[k].data = d /\ Q[k].dirty = P[k].dirty
      BY <2>1 DEF BigPage
    <2>4. Q[k] \in BigPage
      BY <2>1, <2>2 DEF BigPage
    <2> QED BY <2>3, <2>4
  <1>3. HeldBy(Q[k]) = D /\ \A a : Holds(Q[k], a) <=> a \in D
    BY <1>2 DEF HeldBy, Holds
  <1>4. \A j \in Numbers \ {k} : Q[j] = P[j] /\ \A a \in D : ~Holds(P[j], a)
    OBVIOUS
  <1>5. \A a \in Addr : Holds(P[k], a) => ~P[k].dirty
    BY DEF Consistent, HeldBy, Holds
  <1>6. \A a \in D : S[a] = m[a]
    BY <1>4, <1>5 DEF Consistent
  <1>7. \A a \in Addr \ D : (\A j \in Numbers : Holds(Q[j], a) => ~Q[j].dirty) => S[a] = m[a]
    BY <1>4, <1>5 DEF Consistent
  <1>8. Q \in [Numbers -> BigPage]
    BY <1>2, <1>4 DEF Consistent
  <1>9. \A j \in Numbers : Q[j].data \in [HeldBy(Q[j]) -> Val]
    BY <1>1, <1>2, <1>3, <1>4 DEF Consistent
  <1>10. \A j \in Numbers : \A a \in Addr : Holds(Q[j], a) => Q[j].data[a] = m[a]
    BY <1>2, <1>3, <1>4, <1>6 DEF Consistent
  <1>11. \A i, j \in Numbers : i # j => \A a \in Addr : ~(Holds(Q[i], a) /\ Holds(Q[j], a))
    BY <1>3, <1>4 DEF Consistent
  <1> HIDE DEF D, d
  <1>12. Consistent(S, Q, m)
    BY <1>6, <1>7, <1>8, <1>9, <1>10, <1>11 DEF Consistent
  <1> QED BY <1>2, <1>12 DEF d, D

(* A page that the swap does not clear as overlapping holds no byte of the   *)
(* page to come.                                                             *)
LEMMA OverlappingFacts ==
  ASSUME NEW S, NEW P, NEW m, NEW x, Consistent(S, P, m), NEW p \in Addr, p # 0
  PROVE  /\ Overlapping(Alloc(S, P, x), p) \subseteq Numbers
         /\ \A j \in Numbers \ Overlapping(Alloc(S, P, x), p) :
               \A a \in Span(p, BigSize) \cap Addr : ~Holds(P[j], a)
  <1> DEFINE s == Alloc(S, P, x)
             O == Overlapping(s, p)
  <1>1. LoadedPositions(s) = {k \in Numbers : P[k].start # 0} /\ \A k \in Numbers : FreePage(s, k) = P[k]
    BY ListFacts
  <1> HIDE DEF s
  <1>2. O = {k \in Numbers : P[k].start # 0 /\ (\/ p \in Span(P[k].start, BigSize)
                                              \/ p + BigSize \in P[k].start .. P[k].start + BigSize)}
    BY <1>1 DEF Overlapping
  <1> HIDE DEF O
  <1>3. ASSUME NEW j \in Numbers, j \notin O, NEW a \in Span(p, BigSize) \cap Addr, Holds(P[j], a)
        PROVE  FALSE
    <2>1. P[j].start \in Addr /\ P[j].start # 0 /\ a \in Span(P[j].start, BigSize)
      BY <1>3 DEF Consistent, BigPage, HeldBy, Holds
    <2>2. p \notin Span(P[j].start, BigSize) /\ p + BigSize \notin P[j].start .. P[j].start + BigSize
      BY <1>2, <1>3, <2>1
    <2> DEFINE b == P[j].start
    <2>3. p \in Nat /\ a \in Nat /\ b \in Nat /\ BigSize \in Nat
      BY <2>1, NumbersFacts
    <2>4. p <= a /\ a <= p + BigSize - 1 /\ b <= a /\ a <= b + BigSize - 1
      BY <2>1, <2>3 DEF Span
    <2>5. ~(b <= p /\ p <= b + BigSize - 1) /\ ~(b <= p + BigSize /\ p + BigSize <= b + BigSize)
      BY <2>2, <2>3 DEF Span
    <2> HIDE DEF b
    <2> QED BY <2>3, <2>4, <2>5
  <1> QED BY <1>2, <1>3 DEF O, s

(* The search for a page to swap always ends with a page of the list. *)
LEMMA VictimFound ==
  ASSUME NEW S, NEW P, NEW x \in Numbers, NEW p
  PROVE  Victim(Alloc(S, P, x), p) \in Numbers
  <1> DEFINE s == Alloc(S, P, x)
             O == Overlapping(s, p)
             E == Positions(s) \ LoadedPositions(s)
             X == {k \in Positions(s) : s.free["big"][k] = s.nextPageToSwap}
             Z == Stops(s, p)
  <1> SUFFICES Victim(s, p) \in Numbers
    OBVIOUS
  <1>1. Positions(s) = Numbers /\ LoadedPositions(s) \subseteq Numbers /\ \A k \in Numbers : s.free["big"][k] = k
    BY ListFacts
  <1>2. s.nextPageToSwap = x
    BY DEF Alloc, Record
  <1> HIDE DEF s
  <1>3. X = {x}
    BY <1>1, <1>2
  <1>4. O \subseteq Numbers /\ Z \subseteq Numbers /\ E \subseteq Numbers
    BY <1>1 DEF Overlapping, Stops
  <1>5. O \subseteq Z
    BY <1>1 DEF Stops, Overlapping
  <1>6. E \subseteq Z
    BY <1>1 DEF Stops, LoadedPositions
  <1>7. Victim(s, p) = CASE O # {} -> Max(O)
          [] O = {} /\ E # {} -> Max(E)
          [] O = {} /\ E = {} /\ Z # {} -> Min(Z)
          [] Z = {} -> IF X = {} THEN 0 ELSE Min(X)
    BY DEF Victim
  <1> HIDE DEF O, E, X, Z
  <1>8. CASE O # {}
    <2>1. Victim(s, p) = Max(O)
      BY <1>5, <1>7, <1>8
    <2> QED BY <2>1, <1>4, <1>8, MaxIsGreatest, NumbersFacts
  <1>9. CASE O = {} /\ E # {}
    <2>1. Victim(s, p) = Max(E)
      BY <1>6, <1>7, <1>9
    <2> QED BY <2>1, <1>4, <1>9, MaxIsGreatest, NumbersFacts
  <1>10. CASE O = {} /\ E = {} /\ Z # {}
    <2>1. Victim(s, p) = Min(Z)
      BY <1>7, <1>10
    <2> QED BY <2>1, <1>4, <1>10, MinIsLeast, NumbersFacts
  <1>11. CASE O = {} /\ E = {} /\ Z = {}
    <2>1. Victim(s, p) = Min(X)
      BY <1>3, <1>7, <1>11
    <2> QED BY <2>1, <1>3, MinIsLeast, NumbersFacts
  <1> QED BY <1>8, <1>9, <1>10, <1>11

(* The whole swap of pullRawData loses no byte and brings in the page at p. *)
LEMMA SwappedIn ==
  ASSUME NEW S, NEW P, NEW m, NEW x \in Numbers, Consistent(S, P, m),
         NEW p \in Addr, p # 0, NEW k \in Numbers
  PROVE  LedTo(S, m, SwapIn(Alloc(S, P, x), p, k), k, Span(p, BigSize) \cap Addr)
  <1> DEFINE s  == Alloc(S, P, x)
             O  == Overlapping(s, p)
             K1 == Skipped(s, p)
             P1 == [i \in Numbers |-> IF i \in K1 THEN SkippedOnce(P[i]) ELSE P[i]]
             S2 == SyncedStore(Alloc(S, P1, x), O)
             P2 == [i \in Numbers |-> IF i \in O THEN SyncedPage(P1[i]) ELSE P1[i]]
             P3 == [i \in Numbers |-> IF i \in O THEN EmptyPage(P2[i]) ELSE P2[i]]
             K4 == {k} \cap LoadedPositions(Alloc(S2, P3, x))
             S4 == SyncedStore(Alloc(S2, P3, x), K4)
             P4 == [i \in Numbers |-> IF i \in K4 THEN SyncedPage(P3[i]) ELSE P3[i]]
             P5 == [i \in Numbers |-> IF i = k THEN LoadedPage(P4[i], p, S4) ELSE P4[i]]
             inTurn == Stops(s, p) = {}
  <1>1. O \subseteq Numbers /\ \A j \in Numbers \ O : \A a \in Span(p, BigSize) \cap Addr : ~Holds(P[j], a)
    BY OverlappingFacts
  <1>2. K1 \subseteq Numbers
    <2>1. LoadedPositions(s) \subseteq Numbers
      BY ListFacts
    <2> QED BY <2>1 DEF Skipped
  <1>3. DOMAIN P = Numbers /\ DOMAIN P1 = Numbers /\ DOMAIN P2 = Numbers /\ DOMAIN P3 = Numbers /\ DOMAIN P4 = Numbers
    BY DEF Consistent
  <1>4. K4 = {i \in {k} : P3[i].start # 0}
    <2> HIDE DEF P3, S2
    <2> QED BY ListFacts
  <1> HIDE DEF O, K1, K4, inTurn
  <1>5. CountSkips(s, K1) = Alloc(S, P1, x)
    BY <1>2, <1>3, SkipIs
  <1>6. /\ Consistent(S, P1, m)
        /\ \A j \in Numbers : P1[j].start = P[j].start /\ P1[j].data = P[j].data
    BY <1>2, SkipsCounted
  <1> HIDE DEF P1
  <1>7. SyncBigPages(Alloc(S, P1, x), O) = Alloc(S2, P2, x)
    BY <1>1, <1>3, SyncIs
  <1>8. /\ Consistent(S2, P2, m)
        /\ \A j \in Numbers : P2[j].start = P1[j].start /\ P2[j].data = P1[j].data
        /\ \A j \in O : ~P2[j].dirty
        /\ \A a \in Addr : S2[a] # S[a] => S2[a] = m[a]
    <2>1. P2 = [i \in Numbers |-> IF i \in O THEN SyncedPage(P1[i]) ELSE P1[i]] /\ S2 = SyncedStore(Alloc(S, P1, x), O)
      OBVIOUS
    <2> HIDE DEF P2, S2
    <2> QED BY <2>1, <1>1, <1>6, Synced
  <1> HIDE DEF S2, P2
  <1>9. Invalidate(Alloc(S2, P2, x), O) = Alloc(S2, P3, x)
    BY <1>1, <1>3, InvalidateIs
  <1>10. /\ Consistent(S2, P3, m)
         /\ \A j \in O : \A a \in Addr : ~Holds(P3[j], a)
         /\ \A j \in Numbers \ O : P3[j] = P2[j]
    BY <1>1, <1>8, Emptied
  <1> HIDE DEF P3
  <1>11. SyncBigPages(Alloc(S2, P3, x), K4) = Alloc(S4, P4, x)
    BY <1>3, <1>4, SyncIs
  <1>12. /\ Consistent(S4, P4, m)
         /\ \A j \in Numbers : P4[j].start = P3[j].start /\ P4[j].data = P3[j].data
         /\ \A j \in K4 : ~P4[j].dirty
         /\ \A a \in Addr : S4[a] # S2[a] => S4[a] = m[a]
    <2>1. P4 = [i \in Numbers |-> IF i \in K4 THEN SyncedPage(P3[i]) ELSE P3[i]] /\ S4 = SyncedStore(Alloc(S2, P3, x), K4)
      OBVIOUS
    <2> HIDE DEF P4, S4
    <2> QED BY <2>1, <1>4, <1>10, Synced
  <1> HIDE DEF S4, P4
  <1>13. PICK y \in Numbers : AdvanceSwap(Alloc(S4, P4, x), k, inTurn) = Alloc(S4, P4, y)
    <2>1. inTurn \in BOOLEAN
      BY DEF inTurn
    <2> QED BY <2>1, AdvanceIs
  <1>14. Load(Alloc(S4, P4, y), k, p) = Alloc(S4, P5, y)
    BY <1>3, LoadIs
  <1>15. \A j \in Numbers : \A a \in Span(p, BigSize) \cap Addr : ~Holds(P4[j], a) 
    BY <1>1, <1>6, <1>8, <1>10, <1>12 DEF Holds
  <1>16. P4[k].start = 0 \/ ~P4[k].dirty
    BY <1>4, <1>12
  <1>17. Consistent(S4, P5, m) /\ DOMAIN P5[k].data = Span(p, BigSize) \cap Addr
    BY <1>12, <1>15, <1>16, LoadedIn
  <1> HIDE DEF P5
  <1>18. SwapIn(s, p, k) = Alloc(S4, P5, y)
    BY <1>5, <1>7, <1>9, <1>11, <1>13, <1>14 DEF SwapIn, O, K1, K4, inTurn
  <1>19. \A a \in Addr : S4[a] # S[a] => S4[a] = m[a]
    BY <1>8, <1>12
  <1>20. Span(p, BigSize) \cap Addr \subseteq DOMAIN P5[k].data
    BY <1>17
  <1> HIDE DEF s
  <1>21. LedTo(S, m, SwapIn(s, p, k), k, Span(p, BigSize) \cap Addr)
    BY <1>17, <1>18, <1>19, <1>20 DEF LedTo
  <1> QED BY <1>21 DEF s

(* A page that findFreePage returns holds the whole block. *)
LEMMA FoundPage ==
  ASSUME NEW S, NEW P, NEW m, NEW x, Consistent(S, P, m), NEW p \in Addr, NEW n, IsBlock(p, n),
         NEW f, f = FindFreePage(Alloc(S, P, x), p, n, FALSE), f # 0
  PROVE  f \in Numbers /\ Span(p, n) \subseteq DOMAIN P[f].data
  <1> DEFINE s == Alloc(S, P, x)
             F == {k \in LoadedPositions(s) : FreePage(s, k).start <= p /\ p + n <= FreePage(s, k).start + FreePage(s, k).size}
  <1>1. LoadedPositions(s) = {k \in Numbers : P[k].start # 0} /\ \A k \in Numbers : FreePage(s, k) = P[k]
    BY ListFacts
  <1>2. f = IF F = {} THEN 0 ELSE Min(F)
    <2>1. F = {k \in LoadedPositions(s) :
                 \/ FALSE /\ FreePage(s, k).start = p
                 \/ ~FALSE /\ FreePage(s, k).start <= p /\ p + n <= FreePage(s, k).start + FreePage(s, k).size}
      OBVIOUS
    <2> HIDE DEF F, s
    <2> QED BY <2>1 DEF FindFreePage, s
  <1> HIDE DEF s
  <1>3. F \subseteq Nat
    BY <1>1, NumbersFacts
  <1>4. f \in F
    <2> HIDE DEF F
    <2> QED BY <1>2, <1>3, MinIsLeast
  <1>5. f \in Numbers /\ P[f].start # 0 /\ P[f].start <= p /\ p + n <= P[f].start + P[f].size
    BY <1>1, <1>4
  <1> DEFINE b == P[f].start
  <1>6. P[f].size = BigSize /\ b \in Nat /\ DOMAIN P[f].data = Span(b, BigSize) \cap Addr
    BY <1>5, NumbersFacts DEF Consistent, BigPage, HeldBy
  <1>7. b <= p /\ p + n <= b + BigSize
    BY <1>5, <1>6
  <1>8. Span(p, n) \subseteq Addr /\ n \in Nat /\ p \in Nat /\ BigSize \in Nat
    <2>1. n \in Nat \ {0} /\ BigSize \in Nat /\ Span(p, n) \subseteq Addr
      BY NumbersFacts DEF IsBlock
    <2> QED BY <2>1, <1>5, <1>6, <1>7, NumbersFacts DEF Span
  <1> HIDE DEF b
  <1>9. Span(p, n) \subseteq Span(b, BigSize)
    BY <1>6, <1>7, <1>8 DEF Span
  <1> QED BY <1>5, <1>6, <1>8, <1>9

(* Marking a page dirty changes no byte. *)
LEMMA Used ==
  ASSUME NEW S, NEW P, NEW m, Consistent(S, P, m), NEW k \in Numbers, NEW readonly \in BOOLEAN,
         NEW Q, Q = [i \in Numbers |-> IF i = k THEN UsedPage(P[i], readonly) ELSE P[i]]
  PROVE  /\ Consistent(S, Q, m) /\ Q[k].data = P[k].data
         /\ ~readonly => Q[k].dirty
  <1>1. P[k] \in BigPage /\ Q[k] = UsedPage(P[k], readonly) /\ \A j \in Numbers \ {k} : Q[j] = P[j]
    BY DEF Consistent
  <1>2. /\ Q[k].start = P[k].start /\ Q[k].data = P[k].data
        /\ Q[k].dirty = (P[k].dirty \/ ~readonly)
        /\ Q[k] \in BigPage
    BY <1>1 DEF UsedPage, BigPage
  <1>3. \A j \in Numbers : HeldBy(Q[j]) = HeldBy(P[j]) /\ (\A a : Holds(Q[j], a) <=> Holds(P[j], a))
                            /\ Q[j].data = P[j].data
    BY <1>1, <1>2 DEF HeldBy, Holds
  <1>4. \A j \in Numbers : ~Q[j].dirty => ~P[j].dirty
    BY <1>1, <1>2
  <1>5. Q \in [Numbers -> BigPage]
    BY <1>1, <1>2 DEF Consistent
  <1>6. Consistent(S, Q, m)
    BY <1>3, <1>4, <1>5 DEF Consistent
  <1> QED BY <1>2, <1>6

(* Bytes put into a dirty page are bytes put into the memory. *)
LEMMA Filled ==
  ASSUME NEW S, NEW P, NEW m, Consistent(S, P, m), NEW k \in Numbers, P[k].dirty,
         NEW D, NEW d \in [D -> Val], D \subseteq DOMAIN P[k].data,
         NEW Q, Q = [i \in Numbers |-> IF i = k THEN FilledPage(P[i], d) ELSE P[i]]
  PROVE  Consistent(S, Q, Patch(m, d))
  <1> DEFINE e == Patch(P[k].data, d)
             H == HeldBy(P[k])
             l == Patch(m, d)
  <1>1. P[k] \in BigPage /\ P[k].data \in [H -> Val] /\ H \in SUBSET Addr /\ D \subseteq H
    BY DEF Consistent, HeldBy
  <1>2. e \in [H -> Val] /\ \A a \in H : e[a] = IF a \in D THEN d[a] ELSE P[k].data[a]
    <2> HIDE DEF H
    <2> QED BY <1>1 DEF Patch
  <1>3. l \in [Addr -> Val] /\ \A a \in Addr : l[a] = IF a \in D THEN d[a] ELSE m[a]
    BY DEF Consistent, Patch
  <1>4. e \in UNION {[E -> Val] : E \in SUBSET Addr}
    <2> HIDE DEF e, H
    <2> QED BY <1>1, <1>2
  <1>5. Q[k] = [P[k] EXCEPT !.data = e] /\ \A j \in Numbers \ {k} : Q[j] = P[j]
    BY DEF FilledPage
  <1> HIDE DEF e, l
  <1>6. Q[k].start = P[k].start /\ Q[k].data = e /\ Q[k].dirty /\ Q[k] \in BigPage
    BY <1>1, <1>4, <1>5 DEF BigPage
  <1>7. \A j \in Numbers : HeldBy(Q[j]) = HeldBy(P[j]) /\ \A a : Holds(Q[j], a) <=> Holds(P[j], a)
    <2>1. DOMAIN e = H /\ DOMAIN P[k].data = H
      BY <1>1, <1>2
    <2> QED BY <2>1, <1>5, <1>6 DEF HeldBy, Holds
  <1>8. Q \in [Numbers -> BigPage]
    BY <1>5, <1>6 DEF Consistent
  <1>9. \A j \in Numbers : Q[j].data \in [HeldBy(Q[j]) -> Val]
    BY <1>2, <1>5, <1>6, <1>7 DEF Consistent
  <1>10. \A a \in Addr : a \in H <=> Holds(P[k], a)
    BY <1>1 DEF Holds
  <1> HIDE DEF H
  <1>11. \A j \in Numbers : \A a \in Addr : Holds(Q[j], a) => Q[j].data[a] = l[a]
    <2> SUFFICES ASSUME NEW j \in Numbers, NEW a \in Addr, Holds(P[j], a)
                 PROVE  Q[j].data[a] = l[a]
      BY <1>7
    <2>1. CASE j = k
      BY <2>1, <1>2, <1>3, <1>6, <1>10 DEF Consistent
    <2>2. CASE j # k
      <3>1. a \notin D
        BY <2>2, <1>1, <1>10 DEF Consistent
      <3> QED BY <3>1, <2>2, <1>3, <1>5 DEF Consistent
    <2> QED BY <2>1, <2>2
  <1>12. \A a \in Addr : (\A j \in Numbers : Holds(Q[j], a) => ~Q[j].dirty) => S[a] = l[a]
    <2> SUFFICES ASSUME NEW a \in Addr, \A j \in Numbers : Holds(Q[j], a) => ~Q[j].dirty
                 PROVE  S[a] = l[a]
      OBVIOUS
    <2>1. a \notin D
      BY <1>1, <1>6, <1>7, <1>10
    <2>2. \A j \in Numbers : Holds(P[j], a) => ~P[j].dirty
      BY <1>5, <1>6, <1>7
    <2> QED BY <2>1, <2>2, <1>3 DEF Consistent
  <1>13. Consistent(S, Q, l)
    BY <1>3, <1>7, <1>8, <1>9, <1>11, <1>12 DEF Consistent
  <1> QED BY <1>13 DEF l

(* pullRawData loses no byte, and the page it returns holds the whole block. *)
LEMMA Pulled ==
  ASSUME NEW S, NEW P, NEW m, NEW x \in Numbers, Consistent(S, P, m),
         NEW p \in Addr, NEW n, IsBlock(p, n), NEW readonly \in BOOLEAN
  PROVE  PulledTo(S, m, PullRawData(Alloc(S, P, x), p, n, readonly, FALSE), Span(p, n), readonly)
  <1> DEFINE s == Alloc(S, P, x)
             f == FindFreePage(s, p, n, FALSE)
             k == IF f # 0 THEN f ELSE Victim(s, p)
             t == IF f # 0 THEN s ELSE SwapIn(s, p, k)
  <1>1. Span(p, n) \subseteq Addr /\ p # 0 /\ Span(p, n) \subseteq Span(p, BigSize)
    <2>1. p # 0 /\ n \in Nat \ {0} /\ n <= BigSize /\ Span(p, n) \subseteq Addr
      BY NumbersFacts DEF IsBlock
    <2> QED BY <2>1, NumbersFacts DEF Span
  <1>2. k \in Numbers /\ LedTo(S, m, t, k, Span(p, n))
    <2>1. CASE f # 0
      <3>1. f \in Numbers /\ Span(p, n) \subseteq DOMAIN P[f].data
        BY <2>1, FoundPage
      <3> HIDE DEF f, s
      <3>2. k = f /\ t = s
        BY <2>1
      <3>3. LedTo(S, m, s, k, Span(p, n))
        BY <3>1, <3>2 DEF LedTo, s
      <3> QED BY <3>1, <3>2, <3>3
    <2>2. CASE f = 0
      <3>1. Victim(s, p) \in Numbers
        BY VictimFound
      <3>2. LedTo(S, m, SwapIn(s, p, Victim(s, p)), Victim(s, p), Span(p, BigSize) \cap Addr)
        BY <1>1, <3>1, SwappedIn
      <3> HIDE DEF f, s
      <3>3. k = Victim(s, p) /\ t = SwapIn(s, p, Victim(s, p))
        BY <2>2
      <3> HIDE DEF k, t
      <3>4. LedTo(S, m, t, k, Span(p, BigSize) \cap Addr)
        BY <3>2, <3>3
      <3>5. LedTo(S, m, t, k, Span(p, n))
        BY <1>1, <3>4 DEF LedTo
      <3> QED BY <3>1, <3>3, <3>5
    <2> QED BY <2>1, <2>2
  <1> DEFINE pull == PullRawData(s, p, n, readonly, FALSE)
             used == MarkUsed(t, k, readonly)
  <1>3. pull = [state |-> used, at |-> k]
    <2>1. k # 0
      <3> HIDE DEF k, t
      <3> QED BY <1>2, NumbersFacts
    <2>2. pull = IF k = 0 THEN [state |-> Require(s, FALSE), at |-> 0]
                 ELSE [state |-> used, at |-> k]
      BY DEF PullRawData, UsePage
    <2> HIDE DEF k, t, s, used, pull
    <2> QED BY <2>1, <2>2
  <1> HIDE DEF k, t, pull
  <1>4. PICK T, R : \E y \in Numbers :
          /\ t = Alloc(T, R, y)
          /\ Consistent(T, R, m)
          /\ Span(p, n) \subseteq DOMAIN R[k].data
          /\ \A a \in Addr : T[a] # S[a] => T[a] = m[a]
    BY <1>2 DEF LedTo
  <1>5. PICK y \in Numbers : t = Alloc(T, R, y)
    BY <1>4
  <1> DEFINE Q == [i \in Numbers |-> IF i = k THEN UsedPage(R[i], readonly) ELSE R[i]]
  <1>6. used = Alloc(T, Q, y)
    <2>1. DOMAIN R = Numbers
      BY <1>4 DEF Consistent
    <2> QED BY <1>2, <1>5, <2>1, UsedIs
  <1>7. Consistent(T, Q, m) /\ Q[k].data = R[k].data /\ (readonly \/ Q[k].dirty)
    BY <1>2, <1>4, Used
  <1> HIDE DEF Q, used
  <1>8. pull.state = Alloc(T, Q, y) /\ pull.at = k
    BY <1>3, <1>6
  <1>9. Span(p, n) \subseteq DOMAIN Q[k].data /\ \A a \in Addr : T[a] # S[a] => T[a] = m[a]
    BY <1>4, <1>7
  <1>10. PulledTo(S, m, pull, Span(p, n), readonly)
    BY <1>2, <1>7, <1>8, <1>9 DEF PulledTo
  <1> QED BY <1>10 DEF pull, s

(* pushRawData changes the contents by the block it is given and by nothing  *)
(* else.                                                                     *)
LEMMA Pushed ==
  ASSUME NEW S, NEW P, NEW m, NEW x \in Numbers, Consistent(S, P, m),
         NEW p \in Addr, NEW n, IsBlock(p, n), NEW d \in [Span(p, n) -> Val]
  PROVE  \E T, Q : \E y \in Numbers :
            /\ PushRawData(Alloc(S, P, x), p, n, d) = Alloc(T, Q, y)
            /\ Consistent(T, Q, Patch(m, d))
            /\ \A a \in Addr : T[a] # S[a] => T[a] = m[a]
  <1> DEFINE pull == PullRawData(Alloc(S, P, x), p, n, FALSE, FALSE)
  <1>0. PulledTo(S, m, pull, Span(p, n), FALSE)
    <2>1. FALSE \in BOOLEAN
      OBVIOUS
    <2> QED BY <2>1, Pulled, Zenon
  <1> HIDE DEF pull
  <1>1. PICK T, R : \E y, k \in Numbers :
          /\ pull.state = Alloc(T, R, y) /\ pull.at = k
          /\ Consistent(T, R, m)
          /\ Span(p, n) \subseteq DOMAIN R[k].data
          /\ R[k].dirty
          /\ \A a \in Addr : T[a] # S[a] => T[a] = m[a]
    BY <1>0 DEF PulledTo
  <1>2. PICK y \in Numbers, k \in Numbers :
          /\ pull.state = Alloc(T, R, y) /\ pull.at = k
          /\ Span(p, n) \subseteq DOMAIN R[k].data
          /\ R[k].dirty
    BY <1>1
  <1>3. Consistent(T, R, m) /\ \A a \in Addr : T[a] # S[a] => T[a] = m[a]
    BY <1>1
  <1> DEFINE Q == [i \in Numbers |-> IF i = k THEN FilledPage(R[i], d) ELSE R[i]]
  <1>4. Fill(Alloc(T, R, y), k, d) = Alloc(T, Q, y)
    <2>1. DOMAIN R = Numbers
      BY <1>3 DEF Consistent
    <2> QED BY <2>1, FilledIs
  <1>5. Consistent(T, Q, Patch(m, d))
    BY <1>2, <1>3, Filled
  <1> HIDE DEF Q
  <1>6. ~Alloc(T, R, y).failed
    BY NothingWrong
  <1>7. PushRawData(Alloc(S, P, x), p, n, d) = Fill(pull.state, pull.at, d)
    BY <1>2, <1>6 DEF PushRawData, PutPulled, pull
  <1>8. PushRawData(Alloc(S, P, x), p, n, d) = Alloc(T, Q, y)
    BY <1>2, <1>4, <1>7
  <1> QED BY <1>3, <1>5, <1>8

-----------------------------------------------------------------------------
(* The contents that Consistent speaks of are the Contents of BaseVAlloc. *)
LEMMA ContentsIs ==
  ASSUME NEW S, NEW P, NEW m, NEW x, Consistent(S, P, m)
  PROVE  ContentsOf(Alloc(S, P, x)) = m
  <1> DEFINE s == Alloc(S, P, x)
             H(a) == {k \in Numbers : Holds(P[k], a)}
             L(a) == {j \in DOMAIN LockedPages(s) : Holds(PageAt(s, LockedPages(s)[j]), a)}
             F(a) == {k \in Positions(s) : Holds(FreePage(s, k), a)}
             C == ContentsOf(s)
  <1>1. Positions(s) = Numbers /\ LockedPages(s) = <<>> /\ \A k \in Numbers : FreePage(s, k) = P[k]
    BY ListFacts
  <1>2. s.store = S
    BY DEF Alloc, Record
  <1> HIDE DEF s
  <1>3. \A a : L(a) = {} /\ F(a) = H(a)
    BY <1>1, EmptyData
  <1>4. C = [a \in Addr |-> IF L(a) # {} THEN PageAt(s, LockedPages(s)[Min(L(a))]).data[a]
                           ELSE IF F(a) # {} THEN FreePage(s, Min(F(a))).data[a] ELSE s.store[a]]
    BY DEF ContentsOf
  <1> HIDE DEF L, F, C
  <1>5. ASSUME NEW a \in Addr, H(a) # {} PROVE C[a] = m[a]
    <2>1. H(a) \subseteq Nat
      BY NumbersFacts
    <2>2. Min(H(a)) \in H(a)
      <3> HIDE DEF H
      <3> QED BY <2>1, <1>5, MinIsLeast
    <2>3. PICK k \in Numbers : k = Min(H(a)) /\ Holds(P[k], a)
      BY <2>2
    <2>4. C[a] = FreePage(s, k).data[a]
      <3> HIDE DEF H
      <3> QED BY <1>3, <1>4, <1>5, <2>3
    <2> QED BY <1>1, <2>3, <2>4 DEF Consistent
  <1>6. ASSUME NEW a \in Addr, H(a) = {} PROVE C[a] = m[a]
    <2>1. \A k \in Numbers : ~Holds(P[k], a)
      BY <1>6
    <2>2. S[a] = m[a]
      BY <2>1 DEF Consistent
    <2>3. C[a] = S[a]
      <3> HIDE DEF H
      <3> QED BY <1>2, <1>3, <1>4, <1>6
    <2> QED BY <2>2, <2>3
  <1>7. \A a \in Addr : C[a] = m[a]
    BY <1>5, <1>6
  <1>8. DOMAIN C = Addr /\ C = [a \in Addr |-> C[a]]
    BY <1>4
  <1>9. m = [a \in Addr |-> m[a]]
    BY DEF Consistent
  <1> QED BY <1>7, <1>8, <1>9 DEF C, s

(* With no page locked the walk over the locked pages visits none. *)
LEMMA NothingLocked ==
  ASSUME NEW S, NEW P, NEW x, NEW p, NEW n
  PROVE  Containing(Alloc(S, P, x), p, n) = {} /\ Visited(Alloc(S, P, x), p, n) = {}
  <1> DEFINE s == Alloc(S, P, x)
  <1>1. LockedPages(s) = <<>>
    BY ListFacts
  <1> HIDE DEF s
  <1>2. DOMAIN LockedPages(s) = {}
    BY <1>1, EmptyData
  <1>3. Containing(s, p, n) = {} /\ Visited(s, p, n) = {}
    BY <1>2 DEF Containing, Visited
  <1> QED BY <1>3 DEF s

(* read() returns the contents at the block and changes none. *)
LEMMA ReadReturns ==
  ASSUME NEW S, NEW P, NEW m, NEW x \in Numbers, Consistent(S, P, m),
         NEW p \in Addr, NEW n, IsBlock(p, n)
  PROVE  \E T, Q : \E y \in Numbers :
            /\ ReadRaw(Alloc(S, P, x), p, n).state = Alloc(T, Q, y)
            /\ ReadRaw(Alloc(S, P, x), p, n).data = [a \in Span(p, n) |-> m[a]]
            /\ Consistent(T, Q, m)
            /\ \A a \in Addr : T[a] # S[a] => T[a] = m[a]
  <1> DEFINE s == Alloc(S, P, x)
             pull == PullRawData(s, p, n, TRUE, FALSE)
             read == ReadRaw(s, p, n)
             V == Visited(s, p, n)
             O == Containing(s, p, n)
  <1>1. PulledTo(S, m, pull, Span(p, n), TRUE)
    <2>1. TRUE \in BOOLEAN
      OBVIOUS
    <2> QED BY <2>1, Pulled, Zenon
  <1>2. V = {} /\ O = {}
    BY NothingLocked
  <1>3. ~s.failed
    BY NothingWrong
  <1> HIDE DEF s
  <1>4. Mirror(s, Partial(s, p, n)) = s
    BY <1>2 DEF Mirror, Partial
  <1>5. read = IF pull.state.failed
               THEN [state |-> Require(pull.state, FALSE), data |-> <<>>]
               ELSE [state |-> pull.state, data |-> Restrict(FreePage(pull.state, pull.at).data, Span(p, n))]
    BY <1>2, <1>3, <1>4 DEF ReadRaw, ReadMirrored, ReadPulled, ReadFrom, NothingRead
  <1> HIDE DEF pull, read
  <1>6. PICK T, Q : \E y, k \in Numbers :
          /\ pull.state = Alloc(T, Q, y) /\ pull.at = k
          /\ Consistent(T, Q, m)
          /\ Span(p, n) \subseteq DOMAIN Q[k].data
          /\ \A a \in Addr : T[a] # S[a] => T[a] = m[a]
    BY <1>1 DEF PulledTo
  <1>7. PICK y \in Numbers, k \in Numbers :
          /\ pull.state = Alloc(T, Q, y) /\ pull.at = k
          /\ Span(p, n) \subseteq DOMAIN Q[k].data
    BY <1>6
  <1>8. Consistent(T, Q, m) /\ \A a \in Addr : T[a] # S[a] => T[a] = m[a]
    BY <1>6
  <1>9. ~pull.state.failed
    BY <1>7, NothingWrong
  <1>10. read.state = pull.state /\ read.data = Restrict(FreePage(pull.state, pull.at).data, Span(p, n))
    BY <1>5, <1>9
  <1>11. FreePage(pull.state, pull.at) = Q[k]
    BY <1>7, ListFacts
  <1>12. \A a \in Span(p, n) : Q[k].data[a] = m[a]
    BY <1>7, <1>8 DEF Consistent, Holds, IsBlock
  <1>13. read.data = [a \in Span(p, n) |-> m[a]]
    BY <1>10, <1>11, <1>12 DEF Restrict
  <1> QED BY <1>7, <1>8, <1>10, <1>13 DEF read, s

(* With no page locked write() is pushRawData. *)
LEMMA WriteIs ==
  ASSUME NEW S, NEW P, NEW x, NEW p, NEW n, NEW d
  PROVE  WriteRaw(Alloc(S, P, x), p, n, d) = PushRawData(Alloc(S, P, x), p, n, d)
  <1> DEFINE s == Alloc(S, P, x)
  <1>1. Visited(s, p, n) = {} /\ Containing(s, p, n) = {}
    BY NothingLocked
  <1> HIDE DEF s
  <1>2. PutInLocked(s, {LockedPages(s)[j] : j \in Visited(s, p, n)}, p, n, d) = s
    BY <1>1 DEF PutInLocked
  <1>3. WriteRaw(s, p, n, d) = PushRawData(s, p, n, d)
    BY <1>1, <1>2 DEF WriteRaw
  <1> QED BY <1>3 DEF s

(* flush() makes the pool equal to the contents and every page clean. *)
LEMMA FlushWritesAll ==
  ASSUME NEW S, NEW P, NEW m, NEW x, Consistent(S, P, m),
         NEW K, K = LoadedPositions(Alloc(S, P, x))
  PROVE  \E Q : /\ SyncBigPages(Alloc(S, P, x), K) = Alloc(m, Q, x)
                /\ Consistent(m, Q, m)
                /\ \A k \in K : ~Q[k].dirty
  <1> DEFINE s == Alloc(S, P, x)
             T == SyncedStore(s, K)
             Q == [i \in Numbers |-> IF i \in K THEN SyncedPage(P[i]) ELSE P[i]]
  <1>1. K = {k \in Numbers : P[k].start # 0} /\ DOMAIN P = Numbers
    <2>1. K = {k \in Numbers : P[k].start # 0}
      BY ListFacts
    <2> QED BY <2>1 DEF Consistent
  <1>2. SyncBigPages(s, K) = Alloc(T, Q, x)
    BY <1>1, SyncIs
  <1>3. /\ Consistent(T, Q, m)
        /\ \A k \in Numbers : Q[k].start = P[k].start /\ Q[k].data = P[k].data
        /\ \A k \in K : ~Q[k].dirty
    <2>1. Q = [i \in Numbers |-> IF i \in K THEN SyncedPage(P[i]) ELSE P[i]] /\ T = SyncedStore(Alloc(S, P, x), K)
      OBVIOUS
    <2>2. K \subseteq Numbers
      BY <1>1
    <2> HIDE DEF Q, T, s
    <2> QED BY <2>1, <2>2, Synced
  <1> HIDE DEF Q, T, s
  <1>4. \A a \in Addr : T[a] = m[a]
    <2>1. \A a \in Addr : \A k \in Numbers : Holds(Q[k], a) => ~Q[k].dirty
      BY <1>1, <1>3 DEF Consistent, HeldBy, Holds
    <2> QED BY <2>1, <1>3 DEF Consistent
  <1>5. T = m
    BY <1>3, <1>4 DEF Consistent
  <1> QED BY <1>2, <1>3, <1>5 DEF s

(* clearPages() makes the pool equal to the contents. *)
LEMMA ClearWritesAll ==
  ASSUME NEW S, NEW P, NEW m, NEW x, Consistent(S, P, m),
         NEW K, K = LoadedPositions(Alloc(S, P, x))
  PROVE  \E Q : /\ Invalidate(SyncBigPages(Alloc(S, P, x), K), K) = Alloc(m, Q, x)
                /\ Consistent(m, Q, m)
  <1>1. PICK R : /\ SyncBigPages(Alloc(S, P, x), K) = Alloc(m, R, x)
                 /\ Consistent(m, R, m)
                 /\ \A k \in K : ~R[k].dirty
    BY FlushWritesAll
  <1>2. K \subseteq Numbers
    BY ListFacts
  <1> DEFINE Q == [i \in Numbers |-> IF i \in K THEN EmptyPage(R[i]) ELSE R[i]]
  <1>3. Invalidate(Alloc(m, R, x), K) = Alloc(m, Q, x)
    <2>1. DOMAIN R = Numbers
      BY <1>1 DEF Consistent
    <2> QED BY <1>2, <2>1, InvalidateIs
  <1>4. Consistent(m, Q, m)
    BY <1>1, <1>2, Emptied
  <1> HIDE DEF Q
  <1> QED BY <1>1, <1>3, <1>4

-----------------------------------------------------------------------------
Inv ==
    /\ State = Alloc(store, page["big"], nextPageToSwap)
    /\ nextPageToSwap \in Numbers
    /\ Consistent(store, page["big"], Contents)

(* The invariant from the shape of a state. *)
LEMMA AllocState ==
  ASSUME NEW S, NEW P, NEW x \in Numbers, NEW m, Consistent(S, P, m), State = Alloc(S, P, x)
  PROVE  Inv /\ Contents = m /\ store = S
  <1>1. State.store = S /\ State.page["big"] = P /\ State.nextPageToSwap = x
    BY DEF Alloc, Record, Pages, Class
  <1>2. store = S /\ page["big"] = P /\ nextPageToSwap = x
    BY <1>1 DEF State
  <1>3. Contents = m
    BY ContentsIs DEF Contents
  <1> QED BY <1>2, <1>3 DEF Inv

(* The invariant after a step from the shape of the state it leads to. *)
LEMMA NextState ==
  ASSUME NEW S, NEW P, NEW x \in Numbers, NEW m, Consistent(S, P, m), NEW t, t = Alloc(S, P, x), Becomes(t)
  PROVE  Inv' /\ Contents' = m /\ store' = S
  <1>1. State' = [store |-> t.store, page |-> t.page, free |-> t.free, locked |-> t.locked,
                  nextPageToSwap |-> t.nextPageToSwap, failed |-> t.failed, overrun |-> t.overrun]
    BY DEF State, Becomes
  <1>2. State' = Alloc(S, P, x)
    BY <1>1 DEF Alloc, Record
  <1>3. State'.store = S /\ State'.page["big"] = P /\ State'.nextPageToSwap = x
    BY <1>2 DEF Alloc, Record, Pages, Class
  <1>4. store' = S /\ page["big"]' = P /\ nextPageToSwap' = x
    BY <1>3 DEF State
  <1>5. Contents' = m
    BY <1>2, ContentsIs DEF Contents
  <1> QED BY <1>2, <1>4, <1>5 DEF Inv

(* start() establishes the invariant. *)
LEMMA InitInv == Init => Inv
  <1> SUFFICES ASSUME Init PROVE Inv
    OBVIOUS
  <1> DEFINE P == [i \in Numbers |-> NewPage("big")]
  <1>1. State = Alloc(store, P, 1)
    <2>1. page = Pages(P)
      BY DEF Init, Pages, Numbers, N
    <2>2. free = FreeLists /\ locked = NoLocks /\ nextPageToSwap = 1 /\ failed = Never /\ overrun = Never
      BY DEF Init, FreeLists, NoLocks, Never
    <2> HIDE DEF P
    <2> QED BY <2>1, <2>2 DEF State, Alloc, Record
  <1>2. store \in [Addr -> Val]
    BY NumbersFacts DEF Init, Blocks, Span, Addr
  <1>3. NewPage("big") \in BigPage /\ NewPage("big").data = <<>> /\ NewPage("big").start = 0
    <2>1. 0 \in 0 .. SkipsModulus - 1
      BY SkipsAssumption
    <2>2. NewPage("big") \in BigPage
      BY <2>1, EmptyData, NumbersFacts DEF NewPage, BigPage, BigSize
    <2>3. NewPage("big").data = <<>> /\ NewPage("big").start = 0
      BY DEF NewPage
    <2> QED BY <2>2, <2>3
  <1>4. Consistent(store, P, store)
    <2>1. \A k \in Numbers : P[k] = NewPage("big") /\ HeldBy(P[k]) = {} /\ \A a : ~Holds(P[k], a)
      BY <1>3, EmptyData DEF HeldBy, Holds
    <2>2. P \in [Numbers -> BigPage]
      BY <1>3
    <2> HIDE DEF P
    <2> QED BY <1>2, <1>3, <2>1, <2>2, EmptyData DEF Consistent
  <1>5. 1 \in Numbers
    BY NumbersFacts
  <1> HIDE DEF P
  <1> QED BY <1>1, <1>4, <1>5, AllocState

(* What a step that calls read() does to the contents and the pool. *)
LEMMA ReadStep ==
  ASSUME Inv, NEW p \in Addr, NEW n \in IOSizes, Read(p, n)
  PROVE  /\ Inv' /\ Contents' = Contents
         /\ call' = <<"read", [a \in Span(p, n) |-> Contents[a]]>>
         /\ \A a \in Addr : store'[a] # store[a] => store'[a] = Contents[a]
  <1> DEFINE read == ReadRaw(Alloc(store, page["big"], nextPageToSwap), p, n)
  <1>1. Consistent(store, page["big"], Contents) /\ nextPageToSwap \in Numbers
        /\ State = Alloc(store, page["big"], nextPageToSwap)
    BY DEF Inv
  <1>2. IsBlock(p, n) /\ Becomes(read.state) /\ call' = <<"read", read.data>>
    BY <1>1 DEF Read, Returns
  <1>3. PICK T, Q : \E y \in Numbers :
            /\ read.state = Alloc(T, Q, y)
            /\ read.data = [a \in Span(p, n) |-> Contents[a]]
            /\ Consistent(T, Q, Contents)
            /\ \A a \in Addr : T[a] # store[a] => T[a] = Contents[a]
    BY <1>1, <1>2, ReadReturns
  <1> HIDE DEF read
  <1>4. Inv' /\ Contents' = Contents /\ store' = T
    BY <1>2, <1>3, NextState
  <1> QED BY <1>2, <1>3, <1>4

(* What a step that calls write() does to the contents and the pool. *)
LEMMA WriteStep ==
  ASSUME Inv, NEW p \in Addr, NEW n \in IOSizes, NEW d \in Blocks(p, n), Write(p, n, d)
  PROVE  /\ Inv' /\ Contents' = Patch(Contents, d) /\ call' = <<"write", d>>
         /\ \A a \in Addr : store'[a] # store[a] => store'[a] = Contents[a]
  <1> DEFINE s == Alloc(store, page["big"], nextPageToSwap)
  <1>1. Consistent(store, page["big"], Contents) /\ nextPageToSwap \in Numbers /\ State = s
    BY DEF Inv
  <1>2. WriteRaw(s, p, n, d) = PushRawData(s, p, n, d)
    BY WriteIs
  <1>3. IsBlock(p, n) /\ Becomes(PushRawData(s, p, n, d)) /\ call' = <<"write", d>>
    BY <1>1, <1>2 DEF Write
  <1>4. d \in [Span(p, n) -> Val]
    BY DEF Blocks
  <1>5. PICK T, Q : \E y \in Numbers :
            /\ PushRawData(s, p, n, d) = Alloc(T, Q, y)
            /\ Consistent(T, Q, Patch(Contents, d))
            /\ \A a \in Addr : T[a] # store[a] => T[a] = Contents[a]
    BY <1>1, <1>3, <1>4, Pushed
  <1> HIDE DEF s
  <1>6. Inv' /\ Contents' = Patch(Contents, d) /\ store' = T
    BY <1>3, <1>5, NextState
  <1> QED BY <1>3, <1>5, <1>6

(* What a step that calls flush() or clearPages() does. *)
LEMMA FlushStep ==
  ASSUME Inv, Flush \/ ClearPages
  PROVE  Inv' /\ Contents' = Contents /\ store' = Contents /\ call' = NoCall
  <1> DEFINE s == Alloc(store, page["big"], nextPageToSwap)
             K == LoadedPositions(s)
  <1>1. Consistent(store, page["big"], Contents) /\ nextPageToSwap \in Numbers /\ State = s
    BY DEF Inv
  <1>2. CASE Flush
    <2>1. Becomes(SyncBigPages(s, K)) /\ call' = NoCall
      BY <1>1, <1>2 DEF Flush
    <2>2. PICK Q : SyncBigPages(s, K) = Alloc(Contents, Q, nextPageToSwap) /\ Consistent(Contents, Q, Contents)
      BY <1>1, FlushWritesAll
    <2> HIDE DEF s, K
    <2> QED BY <1>1, <2>1, <2>2, NextState
  <1>3. CASE ClearPages
    <2>1. Becomes(Invalidate(SyncBigPages(s, K), K)) /\ call' = NoCall
      BY <1>1, <1>3 DEF ClearPages
    <2>2. PICK Q : Invalidate(SyncBigPages(s, K), K) = Alloc(Contents, Q, nextPageToSwap) /\ Consistent(Contents, Q, Contents)
      BY <1>1, ClearWritesAll
    <2> HIDE DEF s, K
    <2> QED BY <1>1, <2>1, <2>2, NextState
  <1> QED BY <1>2, <1>3

(* A step that changes no variable. *)
LEMMA Stutter == ASSUME Inv, UNCHANGED vars PROVE Inv' /\ Contents' = Contents /\ store' = store
  <1>1. UNCHANGED <<store, page, free, locked, nextPageToSwap, failed, overrun>>
    BY DEF vars, allocVars
  <1>2. State' = State /\ store' = store /\ page' = page /\ nextPageToSwap' = nextPageToSwap
    BY <1>1 DEF State
  <1>3. Contents' = Contents
    BY <1>2 DEF Contents
  <1> QED BY <1>2, <1>3 DEF Inv

(* Every step preserves the invariant. *)
LEMMA NextInv == Inv /\ [NextIO]_vars => Inv'
  <1> SUFFICES ASSUME Inv, [NextIO]_vars PROVE Inv'
    OBVIOUS
  <1>1. ASSUME NEW p \in Addr, NEW n \in IOSizes, Read(p, n) PROVE Inv'
    BY <1>1, ReadStep
  <1>2. ASSUME NEW p \in Addr, NEW n \in IOSizes, NEW d \in Blocks(p, n), Write(p, n, d) PROVE Inv'
    BY <1>2, WriteStep
  <1>3. CASE Flush \/ ClearPages
    BY <1>3, FlushStep
  <1>4. CASE UNCHANGED vars
    BY <1>4, Stutter
  <1> QED BY <1>1, <1>2, <1>3, <1>4 DEF NextIO

(* Inv holds in every state of every behaviour: pool and pages together      *)
(* always have the contents of the memory.                                   *)
THEOREM Invariance == SpecIO => []Inv
  BY InitInv, NextInv, PTL DEF SpecIO

-----------------------------------------------------------------------------
(* The variables the invariant fixes. *)
LEMMA InvParts ==
  ASSUME Inv
  PROVE  /\ free["big"] = [k \in Numbers |-> k]
         /\ failed = FALSE
         /\ page = Pages(page["big"]) /\ free = FreeLists /\ locked = NoLocks /\ overrun = FALSE
  <1>1. State = Alloc(store, page["big"], nextPageToSwap)
    BY DEF Inv
  <1>2. State.page = Pages(page["big"]) /\ State.free = FreeLists /\ State.locked = NoLocks
    BY <1>1 DEF Alloc, Record
  <1>3. State.failed = Never /\ State.overrun = Never
    BY <1>1 DEF Alloc, Record
  <1>4. page = Pages(page["big"]) /\ free = FreeLists /\ locked = NoLocks
    BY <1>2 DEF State
  <1>5. failed = FALSE /\ overrun = FALSE
    BY <1>3 DEF State, Never
  <1>6. free["big"] = [k \in Numbers |-> k]
    BY <1>4 DEF FreeLists, Class, Numbers, N
  <1> QED BY <1>4, <1>5, <1>6

(* No byte is ever cached by two big pages (the clearing of overlapping      *)
(* pages in pullRawData).                                                    *)
THEOREM DisjointTheorem == SpecIO => []PagesDisjoint
  <1>1. ASSUME Inv PROVE PagesDisjoint
    <2>1. DOMAIN free["big"] = Numbers /\ \A k \in Numbers : free["big"][k] = k
      BY <1>1, InvParts
    <2>2. \A j, k \in Numbers : j # k => \A a \in Addr : ~(Holds(page["big"][j], a) /\ Holds(page["big"][k], a))
      BY <1>1 DEF Inv, Consistent
    <2> QED BY <2>1, <2>2 DEF PagesDisjoint
  <1> QED BY <1>1, Invariance, PTL

(* A page that is not dirty holds what the pool holds, so that a swap may    *)
(* drop it without a write.                                                  *)
THEOREM CleanTheorem == SpecIO => []CleanPagesMatchStore
  <1>1. ASSUME Inv, NEW k \in Numbers, ~page["big"][k].dirty, NEW a \in DOMAIN page["big"][k].data
        PROVE  page["big"][k].data[a] = store[a]
    <2>1. Holds(page["big"][k], a) /\ a \in Addr
      BY <1>1 DEF Inv, Consistent, HeldBy, Holds
    <2>2. \A j \in Numbers : Holds(page["big"][j], a) => ~page["big"][j].dirty
      BY <1>1, <2>1 DEF Inv, Consistent
    <2> QED BY <1>1, <2>1, <2>2 DEF Inv, Consistent
  <1>2. Inv => FreePages = {page["big"][k] : k \in Numbers}
    BY InvParts DEF FreePages
  <1>3. Inv => CleanPagesMatchStore
    BY <1>1, <1>2 DEF CleanPagesMatchStore
  <1> QED BY <1>3, Invariance, PTL

(* The search of pullRawData never ends without a page, so that              *)
(* ASSERT(pageindex != -1) never fails.                                      *)
THEOREM SwapTheorem == SpecIO => []SwapAlwaysPossible
  <1>1. ASSUME Inv PROVE nextPageToSwap \in Range(free["big"])
    BY <1>1, InvParts DEF Inv, Range
  <1>2. Inv => SwapAlwaysPossible
    BY <1>1, InvParts DEF SwapAlwaysPossible
  <1> QED BY <1>2, Invariance, PTL

(* The variables keep their types; in particular the start of a page stays   *)
(* within the pool.                                                          *)
THEOREM TypeTheorem == SpecIO => []TypeOK
  <1> SUFFICES ASSUME Inv PROVE TypeOK
    BY Invariance, PTL
  <1>1. store \in [Addr -> Val]
    BY DEF Inv, Consistent
  <1>2. \A c \in Class : PageCount[c] \in Nat /\ PageSize[c] \in Nat
    BY CountsAssumption, SizesAssumption
  <1>10. ASSUME NEW c \in Class, NEW p \in Addr, NEW n \in 0 .. PageSize[c], NEW v \in [Span(p, n) \cap Addr -> Val]
         PROVE  v \in Buffers(c)
    BY DEF Buffers
  <1>3. ASSUME NEW c \in Class PROVE NewPage(c) \in PageType(c)
    <2>1. 0 \in 0 .. SkipsModulus - 1 /\ 0 \in 0 .. PageSize[c] /\ PageSize[c] \in 0 .. PageSize[c]
      BY <1>2, SkipsAssumption
    <2>2. Span(0, 0) \cap Addr = {}
      BY DEF Span
    <2>3. <<>> \in Buffers(c)
      BY <1>10, <2>1, <2>2, EmptyData, NumbersFacts
    <2> QED BY <2>1, <2>3, NumbersFacts DEF NewPage, PageType
  <1>4. ASSUME NEW k \in Numbers PROVE page["big"][k] \in PageType("big")
    <2> DEFINE pg == page["big"][k]
    <2>1. pg \in BigPage /\ pg.data \in [HeldBy(pg) -> Val]
      BY DEF Inv, Consistent
    <2>2. pg.start \in Addr /\ BigSize \in 0 .. PageSize["big"] /\ 0 \in 0 .. PageSize["big"]
      BY <2>1, NumbersFacts DEF BigPage, BigSize
    <2>3. pg.data \in Buffers("big")
      <3>1. CASE pg.start = 0
        <4>1. HeldBy(pg) = Span(0, 0) \cap Addr
          BY <3>1 DEF HeldBy, Span
        <4>2. pg.data \in [Span(0, 0) \cap Addr -> Val]
          BY <4>1, <2>1
        <4> QED BY <4>2, <2>2, <1>10, NumbersFacts DEF Class
      <3>2. CASE pg.start # 0
        <4>1. HeldBy(pg) = Span(pg.start, BigSize) \cap Addr
          BY <3>2 DEF HeldBy
        <4>2. pg.data \in [Span(pg.start, BigSize) \cap Addr -> Val]
          BY <4>1, <2>1
        <4> QED BY <4>2, <2>2, <1>10 DEF Class
      <3> HIDE DEF pg
      <3> QED BY <3>1, <3>2
    <2> QED BY <2>1, <2>2, <2>3 DEF BigPage, PageType
  <1>5. ASSUME NEW c \in Class PROVE page[c] \in [1 .. PageCount[c] -> PageType(c)]
    <2>1. CASE c = "big"
      BY <2>1, <1>4 DEF Inv, Consistent, Numbers, N
    <2>2. CASE c # "big"
      <3>1. page[c] = [i \in 1 .. PageCount[c] |-> NewPage(c)]
        BY <2>2, InvParts DEF Pages
      <3> QED BY <3>1, <1>3
    <2> QED BY <2>1, <2>2
  <1>6. ASSUME NEW c \in Class PROVE free[c] \in Seq(1 .. PageCount[c]) /\ locked[c] \in Seq(1 .. PageCount[c])
    <2>1. free[c] = [i \in 1 .. PageCount[c] |-> i] /\ locked[c] = <<>>
      BY InvParts DEF FreeLists, NoLocks
    <2> QED BY <2>1, <1>2
  <1>7. nextPageToSwap \in 0 .. PageCount["big"]
    BY DEF Inv, Numbers, N
  <1>8. failed \in BOOLEAN /\ overrun \in BOOLEAN
    BY InvParts
  <1> QED BY <1>1, <1>5, <1>6, <1>7, <1>8 DEF TypeOK

(* No write-back of a page ever puts an outdated byte into the pool. *)
THEOREM WriteBackTheorem == SpecIO => WritesBackCurrentBytes
  <1>1. Inv /\ [NextIO]_vars => [\A a \in Addr : store'[a] # store[a] => store'[a] = Contents[a]]_vars
    <2> SUFFICES ASSUME Inv, [NextIO]_vars
                 PROVE  \A a \in Addr : store'[a] # store[a] => store'[a] = Contents[a]
      OBVIOUS
    <2>1. CASE NextIO
      BY <2>1, ReadStep, WriteStep, FlushStep DEF NextIO
    <2>2. CASE UNCHANGED vars
      BY <2>2, Stutter
    <2> QED BY <2>1, <2>2
  <1> QED BY <1>1, Invariance, PTL DEF SpecIO, WritesBackCurrentBytes

(* When flush() or clearPages() returns, the pool has every byte written     *)
(* before.                                                                   *)
THEOREM FlushTheorem == SpecIO => FlushCompletes
  <1>1. Inv /\ [NextIO]_vars => [Flush \/ ClearPages => store' = Contents]_vars
    BY FlushStep
  <1> QED BY <1>1, Invariance, PTL DEF SpecIO, FlushCompletes

(* The paged memory implements the flat one: read() returns what write()     *)
(* wrote last, for every pool, page count and page size.                     *)
THEOREM RefinementTheorem == SpecIO => ImplementsFlatMemory
  <1>1. Init => Flat!Init
    <2> SUFFICES ASSUME Init PROVE Flat!Init
      OBVIOUS
    <2>1. Contents \in [Addr -> Val]
      BY InitInv DEF Inv, Consistent
    <2> QED BY <2>1 DEF Init, Flat!Init, NoCall, Flat!NoCall
  <1>2. ASSUME Inv, NEW p \in Addr, NEW n \in IOSizes, Read(p, n) PROVE Flat!Next
    <2> DEFINE d == [a \in Span(p, n) |-> Contents[a]]
    <2>1. Contents' = Contents /\ call' = <<"read", d>>
      BY <1>2, ReadStep
    <2>2. IsBlock(p, n) /\ Span(p, n) = Flat!Span(p, n) /\ n \in 1 .. BigSize
      BY <1>2 DEF Read, IsBlock, Span, Flat!Span
    <2>3. Flat!IsBlock(p, n)
      BY <2>2 DEF IsBlock, Flat!IsBlock
    <2>4. d \in [Flat!Span(p, n) -> Val]
      BY <1>2, <2>2 DEF Inv, Consistent, IsBlock
    <2>5. \A a \in Flat!Span(p, n) : d[a] = Contents[a]
      BY <2>2
    <2> HIDE DEF d
    <2>6. Flat!Read(p, n, d)
      BY <2>1, <2>3, <2>5 DEF Flat!Read
    <2> QED BY <2>2, <2>4, <2>6 DEF Flat!Next
  <1>3. ASSUME Inv, NEW p \in Addr, NEW n \in IOSizes, NEW d \in Blocks(p, n), Write(p, n, d) PROVE Flat!Next
    <2>1. Contents' = Patch(Contents, d) /\ call' = <<"write", d>>
      BY <1>3, WriteStep
    <2>2. IsBlock(p, n) /\ Span(p, n) = Flat!Span(p, n) /\ n \in 1 .. BigSize
      BY <1>3 DEF Write, IsBlock, Span, Flat!Span
    <2>3. Flat!IsBlock(p, n)
      BY <2>2 DEF IsBlock, Flat!IsBlock
    <2>4. d \in [Flat!Span(p, n) -> Val]
      BY <2>2 DEF Blocks
    <2>5. Patch(Contents, d) = Flat!Patch(Contents, d)
      BY DEF Patch, Flat!Patch
    <2>6. Flat!Write(p, n, d)
      BY <2>1, <2>3, <2>5 DEF Flat!Write
    <2> QED BY <2>2, <2>4, <2>6 DEF Flat!Next
  <1>4. ASSUME Inv, Flush \/ ClearPages PROVE Flat!Next
    BY <1>4, FlushStep DEF Flat!Next, Flat!Other, NoCall, Flat!NoCall
  <1>5. ASSUME Inv, UNCHANGED vars PROVE UNCHANGED Flat!flatVars
    BY <1>5, Stutter DEF Flat!flatVars, vars
  <1>6. Inv /\ [NextIO]_vars => [Flat!Next]_(Flat!flatVars)
    BY <1>2, <1>3, <1>4, <1>5 DEF NextIO
  <1> QED BY <1>1, <1>6, Invariance, PTL DEF SpecIO, ImplementsFlatMemory, Flat!Spec
=============================================================================
