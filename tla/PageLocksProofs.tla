--------------------------- MODULE PageLocksProofs ---------------------------
(***************************************************************************)
(* What the theorems about PageLocks need to know of lists of pages, of    *)
(* what is below the locks and of makeDataLock(), for any pool, page sizes *)
(* and counts.                                                             *)
(* ShapeBut(s, X) says that the allocator state s is typed, that every     *)
(* page is on one of the two lists of its class, once, and is as the list  *)
(* wants it; the locked pages of X may be between two stores. Agrees(s, m) *)
(* says that pool and free big pages of s are Consistent with the contents *)
(* m, in the sense of BaseVAllocProofs, from which the proofs of this part *)
(* are taken over. MemIs(s, c, X) says that the memory of the state s      *)
(* contains c, the bytes of the locked pages not in X put over those below *)
(* the locks. Each part of makeDataLock() gets a predicate that says what  *)
(* its callers need, and a lemma that it does it.                          *)
(*                                                                         *)
(* In order: removing from and appending to a list; what setting the lists *)
(* and the pages of a state does to its shape; the private functions that  *)
(* read and write the pool below the locks (syncBigPage(), the swap of a   *)
(* big page, pullRawData(), pushRawData()), each with the contents it      *)
(* leaves; the walk over the locked pages; the walk of a read() that       *)
(* copies locked bytes to big pages. Then makeDataLock(): pages given back;*)
(* pages taken from the free lists; the contents; replacing, cutting and   *)
(* shrinking a locked page; the search for a page, described by Found, the *)
(* fact about it that holds after each page it visits; the page of a new   *)
(* lock, its bytes, and the count of its locks; the whole call, described  *)
(* by MadeData.                                                            *)
(***************************************************************************)
EXTENDS PageLocks, BaseVAllocProofs, FiniteSetTheorems, SequenceTheorems, TLAPS

(* A list of pages holds each of them once.                                *)
Once(F) == \A j, k \in DOMAIN F : F[j] = F[k] => j = k
On(i, F) == \E k \in DOMAIN F : F[k] = i

(* The lists F and L divide the pages 1 .. m.                              *)
Split(F, L, m) ==
    /\ F \in Seq(1 .. m) /\ L \in Seq(1 .. m) /\ Once(F) /\ Once(L)
    /\ \A i \in 1 .. m : On(i, F) <=> ~On(i, L)
    /\ Len(F) + Len(L) = m

(* Typed pages and allocator states.                                       *)
Bytes == UNION {[D -> Val] : D \in SUBSET Addr}
AnyPage == [start : Addr, size : Nat, locks : Nat, cleanSkips : 0 .. SkipsModulus - 1,
            dirty : BOOLEAN, data : Bytes]
Pages1(c) == 1 .. PageCount[c]
Tables == {G \in [Class -> UNION {[Pages1(c) -> AnyPage] : c \in Class}] :
              \A c \in Class : G[c] \in [Pages1(c) -> AnyPage]}
States == [store : [Addr -> Val], page : Tables, free : [Class -> Seq(Nat)], locked : [Class -> Seq(Nat)],
           nextPageToSwap : Nat, failed : BOOLEAN, overrun : BOOLEAN]

(* A page on the free list is empty or has loaded all that it can hold of  *)
(* the pool; a locked page has the bytes of a block.                       *)
FreeOK(pg, c) ==
    /\ pg.size = PageSize[c] /\ pg.locks = 0
    /\ pg.data \in [(IF pg.start = 0 THEN {} ELSE Span(pg.start, PageSize[c]) \cap Addr) -> Val]
LockedOK(pg, c) ==
    /\ pg.start # 0 /\ pg.size \in 1 .. PageSize[c]
    /\ LockSpan(pg) \subseteq Addr /\ pg.data \in [LockSpan(pg) -> Val]

IsFree(s, c, i) == On(i, s.free[c])
IsLocked(s, c, i) == On(i, s.locked[c])
NextOK(s) == On(s.nextPageToSwap, s.free["big"]) \/ (s.nextPageToSwap = 0 /\ s.free["big"] = <<>>)

(* The inductive invariant, for all locked pages but those of X.           *)
ShapeBut(s, X) ==
    /\ s \in States
    /\ \A c \in Class : Split(s.free[c], s.locked[c], PageCount[c])
    /\ \A c \in Class : \A i \in Pages1(c) : IsFree(s, c, i) => FreeOK(s.page[c][i], c)
    /\ \A c \in Class : \A i \in Pages1(c) :
          IsLocked(s, c, i) /\ <<c, i>> \notin X => LockedOK(s.page[c][i], c)
    /\ NextOK(s)

(* From s to t only page buffers changed, or also flags, ...               *)
SameButPages(s, t) ==
    /\ t.store = s.store /\ t.free = s.free /\ t.locked = s.locked
    /\ t.nextPageToSwap = s.nextPageToSwap /\ t.failed = s.failed /\ t.overrun = s.overrun
SameFlags(s, t) == t.failed = s.failed /\ t.overrun = s.overrun
(* ... or what is below the locks: the pool and the free big pages.        *)
Below(s, t) ==
    /\ t \in States
    /\ t.free = s.free /\ t.locked = s.locked /\ t.overrun = s.overrun
    /\ \A c \in Class : \A i \in Pages1(c) :
          ~(c = "big" /\ IsFree(s, "big", i)) => t.page[c][i] = s.page[c][i]
    /\ \A i \in Pages1("big") : IsFree(s, "big", i) => FreeOK(t.page["big"][i], "big")
    /\ NextOK(t)

-----------------------------------------------------------------------------
(* Lists                                                                   *)

(* A list without its element at k.                                        *)
LEMMA RemovedAt ==
  ASSUME NEW S, NEW F \in Seq(S), NEW k \in DOMAIN F
  PROVE  /\ RemoveAt(F, k) \in Seq(S)
         /\ Len(RemoveAt(F, k)) = Len(F) - 1
         /\ \A j \in 1 .. Len(F) - 1 : RemoveAt(F, k)[j] = IF j < k THEN F[j] ELSE F[j + 1]
<1> DEFINE A == SubSeq(F, 1, k - 1)
           B == SubSeq(F, k + 1, Len(F))
<1>1. Len(F) \in Nat /\ k \in 1 .. Len(F) /\ DOMAIN F = 1 .. Len(F) /\ \A j \in 1 .. Len(F) : F[j] \in S
    OBVIOUS
<1>2. /\ A \in Seq(S) /\ Len(A) = k - 1
      /\ \A j \in 1 .. k - 1 : A[j] = F[j]
  <2>1. \A j \in 1 .. k - 1 : F[j] \in S
      BY <1>1
  <2>2. 1 \in Int /\ k - 1 \in Int /\ k \in Int /\ k >= 1
      BY <1>1
  <2>3. /\ A \in Seq(S) /\ Len(A) = IF 1 <= k - 1 THEN k - 1 - 1 + 1 ELSE 0
        /\ \A j \in 1 .. k - 1 - 1 + 1 : A[j] = F[1 + j - 1]
      BY <2>1, <2>2, SubSeqProperties
  <2> HIDE DEF A
  <2>4. Len(A) = k - 1
      BY <2>2, <2>3
  <2>5. ASSUME NEW j \in 1 .. k - 1 PROVE A[j] = F[j]
    <3>1. j \in 1 .. k - 1 - 1 + 1 /\ 1 + j - 1 = j
        BY <2>2
    <3> QED BY <2>3, <3>1
  <2> QED BY <2>3, <2>4, <2>5
<1>3. /\ B \in Seq(S) /\ Len(B) = Len(F) - k
      /\ \A j \in 1 .. Len(F) - k : B[j] = F[k + j]
  <2>1. \A j \in k + 1 .. Len(F) : F[j] \in S
      BY <1>1
  <2>2. k + 1 \in Int /\ Len(F) \in Int /\ k \in Int /\ k <= Len(F) /\ k >= 1
      BY <1>1
  <2>3. /\ B \in Seq(S) /\ Len(B) = IF k + 1 <= Len(F) THEN Len(F) - (k + 1) + 1 ELSE 0
        /\ \A j \in 1 .. Len(F) - (k + 1) + 1 : B[j] = F[k + 1 + j - 1]
      BY <2>1, <2>2, SubSeqProperties
  <2> HIDE DEF B
  <2>4. Len(B) = Len(F) - k
      BY <2>2, <2>3
  <2>5. ASSUME NEW j \in 1 .. Len(F) - k PROVE B[j] = F[k + j]
    <3>1. \A n \in Nat : \A i \in 1 .. n - k : i \in 1 .. n - (k + 1) + 1 /\ k + 1 + i - 1 = k + i
        BY <2>2
    <3>2. j \in 1 .. Len(F) - (k + 1) + 1 /\ k + 1 + j - 1 = k + j
        BY <1>1, <3>1
    <3> QED BY <2>3, <3>2
  <2> QED BY <2>3, <2>4, <2>5
<1>4. RemoveAt(F, k) = A \o B
    BY DEF RemoveAt
<1> HIDE DEF A, B
<1>5. /\ A \o B \in Seq(S) /\ Len(A \o B) = Len(A) + Len(B)
      /\ \A j \in 1 .. Len(A) + Len(B) : (A \o B)[j] = IF j <= Len(A) THEN A[j] ELSE B[j - Len(A)]
    BY <1>2, <1>3, ConcatProperties
<1>6. Len(A) + Len(B) = Len(F) - 1
    BY <1>1, <1>2, <1>3
<1>7. ASSUME NEW j \in 1 .. Len(F) - 1 PROVE (A \o B)[j] = IF j < k THEN F[j] ELSE F[j + 1]
  <2>1. CASE j < k
      BY <1>1, <1>2, <1>5, <1>6, <2>1
  <2>2. CASE ~(j < k)
    <3>1. j - (k - 1) \in 1 .. Len(F) - k /\ k + (j - (k - 1)) = j + 1 /\ ~(j <= k - 1)
        BY <1>1, <2>2
    <3> QED BY <1>2, <1>3, <1>5, <1>6, <2>2, <3>1
  <2> QED BY <2>1, <2>2
<1> QED BY <1>4, <1>5, <1>6, <1>7

(* The page at k leaves its list.                                          *)
LEMMA Unlinked ==
  ASSUME NEW S, NEW F \in Seq(S), Once(F), NEW k \in DOMAIN F
  PROVE  /\ RemoveAt(F, k) \in Seq(S) /\ Once(RemoveAt(F, k))
         /\ Len(RemoveAt(F, k)) = Len(F) - 1
         /\ \A i : On(i, RemoveAt(F, k)) <=> On(i, F) /\ i # F[k]
<1> DEFINE R == RemoveAt(F, k)
<1>1. /\ R \in Seq(S) /\ Len(R) = Len(F) - 1
      /\ \A j \in 1 .. Len(F) - 1 : R[j] = IF j < k THEN F[j] ELSE F[j + 1]
    BY RemovedAt
<1>2. Len(F) \in Nat /\ k \in 1 .. Len(F) /\ DOMAIN F = 1 .. Len(F)
    OBVIOUS
<1> HIDE DEF R
<1>3. DOMAIN R = 1 .. Len(F) - 1
    BY <1>1
<1>4. \A i, j \in 1 .. Len(F) : F[i] = F[j] => i = j
    BY <1>2 DEF Once
<1>5. Once(R)
  <2> SUFFICES ASSUME NEW a \in 1 .. Len(F) - 1, NEW b \in 1 .. Len(F) - 1, R[a] = R[b] PROVE a = b
      BY <1>3 DEF Once
  <2>1. (IF a < k THEN a ELSE a + 1) \in 1 .. Len(F) /\ (IF b < k THEN b ELSE b + 1) \in 1 .. Len(F)
      BY <1>2
  <2>2. F[IF a < k THEN a ELSE a + 1] = F[IF b < k THEN b ELSE b + 1]
      BY <1>1
  <2>3. (IF a < k THEN a ELSE a + 1) = (IF b < k THEN b ELSE b + 1)
      BY <1>4, <2>1, <2>2
  <2> QED BY <2>3, <1>2
<1>6. ASSUME NEW i, On(i, R) PROVE On(i, F) /\ i # F[k]
  <2>1. PICK j \in 1 .. Len(F) - 1 : R[j] = i
      BY <1>3, <1>6 DEF On
  <2> DEFINE n == IF j < k THEN j ELSE j + 1
  <2>2. n \in 1 .. Len(F) /\ n # k
      BY <1>2
  <2>3. F[n] = i
      BY <1>1, <2>1
  <2> HIDE DEF n
  <2> QED BY <1>2, <1>4, <2>2, <2>3 DEF On
<1>7. ASSUME NEW i, On(i, F), i # F[k] PROVE On(i, R)
  <2>1. PICK n \in 1 .. Len(F) : F[n] = i
      BY <1>2, <1>7 DEF On
  <2>2. n # k
      BY <1>7, <2>1
  <2> DEFINE j == IF n < k THEN n ELSE n - 1
  <2>3. j \in 1 .. Len(F) - 1 /\ (IF j < k THEN j ELSE j + 1) = n
      BY <1>2, <2>2
  <2>4. R[j] = i
    <3> HIDE DEF j
    <3>1. R[j] = IF j < k THEN F[j] ELSE F[j + 1]
        BY <1>1, <2>3
    <3> QED BY <2>1, <2>3, <3>1
  <2> HIDE DEF j
  <2> QED BY <1>3, <2>3, <2>4 DEF On
<1> QED BY <1>1, <1>5, <1>6, <1>7 DEF R

(* A page becomes the head of a list.                                      *)
LEMMA Linked ==
  ASSUME NEW S, NEW L \in Seq(S), Once(L), NEW i \in S, ~On(i, L)
  PROVE  /\ <<i>> \o L \in Seq(S) /\ Once(<<i>> \o L)
         /\ Len(<<i>> \o L) = Len(L) + 1
         /\ Head(<<i>> \o L) = i /\ (<<i>> \o L)[1] = i
         /\ \A j : On(j, <<i>> \o L) <=> On(j, L) \/ j = i
<1> DEFINE R == <<i>> \o L
<1>0. Len(L) \in Nat /\ DOMAIN L = 1 .. Len(L) /\ <<i>> \in Seq(S) /\ Len(<<i>>) = 1 /\ <<i>>[1] = i
    OBVIOUS
<1>1. /\ R \in Seq(S) /\ Len(R) = 1 + Len(L)
      /\ \A j \in 1 .. 1 + Len(L) : R[j] = IF j <= 1 THEN <<i>>[j] ELSE L[j - 1]
    BY <1>0, ConcatProperties
<1> HIDE DEF R
<1>2. DOMAIN R = 1 .. 1 + Len(L) /\ R # <<>>
    BY <1>0, <1>1
<1>3. R[1] = i /\ \A j \in 2 .. 1 + Len(L) : R[j] = L[j - 1]
  <2>1. 1 \in 1 .. 1 + Len(L)
      BY <1>0
  <2>2. \A j \in 2 .. 1 + Len(L) : j \in 1 .. 1 + Len(L) /\ ~(j <= 1)
      BY <1>0
  <2> QED BY <1>0, <1>1, <2>1, <2>2
<1>4. Head(R) = i
    BY <1>2, <1>3
<1>5. Once(R)
  <2> SUFFICES ASSUME NEW a \in 1 .. 1 + Len(L), NEW b \in 1 .. 1 + Len(L), R[a] = R[b] PROVE a = b
      BY <1>2 DEF Once
  <2>1. ASSUME NEW c \in 2 .. 1 + Len(L) PROVE R[c] # i /\ c - 1 \in 1 .. Len(L)
    <3>1. c - 1 \in 1 .. Len(L)
        BY <1>0
    <3> QED BY <1>0, <1>3, <3>1 DEF On
  <2>2. CASE a = 1
      BY <1>3, <2>1, <2>2, <1>0
  <2>3. CASE b = 1
      BY <1>3, <2>1, <2>3, <1>0
  <2>4. CASE a # 1 /\ b # 1
    <3>1. a \in 2 .. 1 + Len(L) /\ b \in 2 .. 1 + Len(L)
        BY <1>0, <2>4
    <3>2. L[a - 1] = L[b - 1] /\ a - 1 \in DOMAIN L /\ b - 1 \in DOMAIN L
        BY <1>0, <1>3, <2>1, <3>1
    <3>3. a - 1 = b - 1
        BY <3>2 DEF Once
    <3> QED BY <3>3, <3>1, <1>0
  <2> QED BY <2>2, <2>3, <2>4
<1>6. ASSUME NEW j, On(j, R) PROVE On(j, L) \/ j = i
  <2>1. PICK k \in 1 .. 1 + Len(L) : R[k] = j
      BY <1>2, <1>6 DEF On
  <2>2. CASE k = 1
      BY <1>3, <2>1, <2>2
  <2>3. CASE k # 1
    <3>1. k \in 2 .. 1 + Len(L) /\ k - 1 \in 1 .. Len(L)
        BY <1>0, <2>3
    <3> QED BY <1>0, <1>3, <2>1, <3>1 DEF On
  <2> QED BY <2>2, <2>3
<1>7. ASSUME NEW j, On(j, L) \/ j = i PROVE On(j, R)
  <2>1. CASE j = i
    <3>1. 1 \in DOMAIN R
        BY <1>0, <1>2
    <3> QED BY <1>3, <2>1, <3>1 DEF On
  <2>2. CASE On(j, L)
    <3>1. PICK k \in 1 .. Len(L) : L[k] = j
        BY <1>0, <2>2 DEF On
    <3>2. k + 1 \in 2 .. 1 + Len(L) /\ k + 1 - 1 = k /\ k + 1 \in 1 .. 1 + Len(L)
        BY <1>0
    <3>3. R[k + 1] = j
        BY <1>3, <3>1, <3>2
    <3> QED BY <1>2, <3>2, <3>3 DEF On
  <2> QED BY <1>7, <2>1, <2>2
<1>8. Len(R) = Len(L) + 1
    BY <1>0, <1>1
<1> QED BY <1>1, <1>3, <1>4, <1>5, <1>6, <1>7, <1>8 DEF R

(* A page moves from one list to the head of the other.                    *)
LEMMA Moved ==
  ASSUME NEW m \in Nat, NEW F, NEW L, Split(F, L, m), NEW k \in DOMAIN F
  PROVE  /\ Split(RemoveAt(F, k), <<F[k]>> \o L, m) /\ Split(<<F[k]>> \o L, RemoveAt(F, k), m)
         /\ F[k] \in 1 .. m /\ Head(<<F[k]>> \o L) = F[k]
         /\ \A i : On(i, RemoveAt(F, k)) <=> On(i, F) /\ i # F[k]
         /\ \A i : On(i, <<F[k]>> \o L) <=> On(i, L) \/ i = F[k]
<1>1. F \in Seq(1 .. m) /\ L \in Seq(1 .. m) /\ Once(F) /\ Once(L) /\ Len(F) + Len(L) = m
    BY DEF Split
<1>2. F[k] \in 1 .. m /\ On(F[k], F) /\ Len(F) \in Nat /\ Len(L) \in Nat
    BY <1>1 DEF On
<1>3. ~On(F[k], L)
    BY <1>2 DEF Split
<1> DEFINE G == RemoveAt(F, k)
           M == <<F[k]>> \o L
<1>4. G \in Seq(1 .. m) /\ Once(G) /\ Len(G) = Len(F) - 1 /\ \A i : On(i, G) <=> On(i, F) /\ i # F[k]
    BY <1>1, Unlinked
<1>5. M \in Seq(1 .. m) /\ Once(M) /\ Len(M) = Len(L) + 1 /\ Head(M) = F[k] /\ \A i : On(i, M) <=> On(i, L) \/ i = F[k]
    BY <1>1, <1>2, <1>3, Linked
<1> HIDE DEF G, M
<1>6. Len(G) + Len(M) = m /\ Len(M) + Len(G) = m
  <2>1. Len(G) = Len(F) - 1 /\ Len(M) = Len(L) + 1
      BY <1>4, <1>5
  <2>2. Len(F) \in Nat /\ Len(L) \in Nat /\ Len(F) + Len(L) = m
      BY <1>1
  <2> QED BY <2>1, <2>2
<1>7. \A i \in 1 .. m : On(i, G) <=> ~On(i, M)
    BY <1>4, <1>5, <1>3 DEF Split
<1>8. Split(G, M, m) /\ Split(M, G, m)
    BY <1>4, <1>5, <1>6, <1>7 DEF Split
<1> QED BY <1>2, <1>4, <1>5, <1>8 DEF G, M

-----------------------------------------------------------------------------
(* States                                                                  *)

(* What the assumptions say of sizes and addresses.                        *)
LEMMA Sizes ==
  /\ "small" \in Class /\ "medium" \in Class /\ "big" \in Class
  /\ \A c \in Class : PageCount[c] \in Nat /\ PageSize[c] \in Nat /\ PageSize[c] >= 1 /\ PageSize[c] <= BigSize
  /\ BigSize \in Nat /\ BigSize >= 1 /\ BigSize = PageSize["big"] /\ PoolSize \in Nat
  /\ 0 \in Addr /\ Addr \subseteq Nat /\ Addr = 0 .. PoolSize - 1
  BY CountsAssumption, SizesAssumption DEF Class, BigSize, Addr

(* The empty buffer.                                                       *)
LEMMA NoBytes == <<>> \in [{} -> Val] /\ <<>> \in Bytes /\ DOMAIN <<>> = {}
<1>1. <<>> \in [{} -> Val] /\ DOMAIN <<>> = {} /\ {} \in SUBSET Addr
    OBVIOUS
<1> QED BY <1>1 DEF Bytes

(* A function from addresses to bytes is one of them.                      *)
LEMMA SomeBytes ==
  ASSUME NEW D, D \subseteq Addr, NEW f \in [D -> Val]
  PROVE  f \in Bytes
  BY DEF Bytes

(* The fields of a state.                                                  *)
LEMMA StateFields ==
  ASSUME NEW s \in States
  PROVE  /\ s.store \in [Addr -> Val]
         /\ \A c \in Class : s.page[c] \in [Pages1(c) -> AnyPage]
         /\ \A c \in Class : \A i \in Pages1(c) : s.page[c][i] \in AnyPage
         /\ \A c \in Class : s.free[c] \in Seq(Nat) /\ s.locked[c] \in Seq(Nat)
         /\ s.nextPageToSwap \in Nat /\ s.failed \in BOOLEAN /\ s.overrun \in BOOLEAN
<1>1. s.page \in Tables /\ s.free \in [Class -> Seq(Nat)] /\ s.locked \in [Class -> Seq(Nat)]
      /\ s.store \in [Addr -> Val] /\ s.nextPageToSwap \in Nat /\ s.failed \in BOOLEAN /\ s.overrun \in BOOLEAN
    BY DEF States
<1>2. \A c \in Class : s.page[c] \in [Pages1(c) -> AnyPage]
    BY <1>1 DEF Tables
<1> QED BY <1>1, <1>2

SetBig(s, B) == [s EXCEPT !.page["big"] = B]
SetStore(s, S) == [s EXCEPT !.store = S]
SetNext(s, y) == [s EXCEPT !.nextPageToSwap = y]

(* A table of pages.                                                       *)
LEMMA TableIs ==
  ASSUME NEW G, G = [c \in Class |-> G[c]], \A c \in Class : G[c] \in [Pages1(c) -> AnyPage]
  PROVE  G \in Tables
<1>1. \A c \in Class : G[c] \in UNION {[Pages1(d) -> AnyPage] : d \in Class}
    OBVIOUS
<1>2. G \in [Class -> UNION {[Pages1(c) -> AnyPage] : c \in Class}]
    BY <1>1
<1> QED BY <1>2 DEF Tables

(* A page is replaced.                                                     *)
LEMMA SetPageIs ==
  ASSUME NEW s \in States, NEW c \in Class, NEW i \in Pages1(c), NEW pg \in AnyPage
  PROVE  /\ SetPage(s, c, i, pg) \in States /\ SameButPages(s, SetPage(s, c, i, pg))
         /\ SetPage(s, c, i, pg).page[c][i] = pg
         /\ \A d \in Class : \A j \in Pages1(d) :
               <<d, j>> # <<c, i>> => SetPage(s, c, i, pg).page[d][j] = s.page[d][j]
<1> DEFINE H == [s.page[c] EXCEPT ![i] = pg]
           G == [s.page EXCEPT ![c] = H]
           t == SetPage(s, c, i, pg)
<1>1. \A d \in Class : s.page[d] \in [Pages1(d) -> AnyPage]
    BY StateFields
<1>2. s.page = [d \in Class |-> s.page[d]]
    BY DEF States, Tables
<1>3. H \in [Pages1(c) -> AnyPage] /\ H[i] = pg /\ \A j \in Pages1(c) : j # i => H[j] = s.page[c][j]
    BY <1>1
<1> HIDE DEF H
<1>4. G = [d \in Class |-> IF d = c THEN H ELSE s.page[d]]
    BY <1>2
<1>5. t = [s EXCEPT !.page = G]
    BY DEF SetPage, G, H
<1> HIDE DEF G
<1>6. \A d \in Class : G[d] = IF d = c THEN H ELSE s.page[d]
    BY <1>4
<1>7. G \in Tables
  <2>1. G = [d \in Class |-> G[d]]
      BY <1>4
  <2>2. \A d \in Class : G[d] \in [Pages1(d) -> AnyPage]
      BY <1>1, <1>3, <1>6
  <2> QED BY <2>1, <2>2, TableIs
<1> HIDE DEF t
<1>8. t.page = G /\ t \in States /\ SameButPages(s, t)
    BY <1>5, <1>7 DEF States, SameButPages
<1>9. \A d \in Class : \A j \in Pages1(d) : <<d, j>> # <<c, i>> => t.page[d][j] = s.page[d][j]
    BY <1>3, <1>6, <1>8
<1> QED BY <1>3, <1>6, <1>8, <1>9 DEF t

(* The big pages are replaced.                                             *)
LEMMA SetBigIs ==
  ASSUME NEW s \in States, NEW B \in [Pages1("big") -> AnyPage]
  PROVE  /\ SetBig(s, B) \in States /\ SameButPages(s, SetBig(s, B)) /\ SetBig(s, B).page["big"] = B
         /\ \A c \in Class : c # "big" => SetBig(s, B).page[c] = s.page[c]
<1> DEFINE t == SetBig(s, B)
           G == [s.page EXCEPT !["big"] = B]
<1>1. \A d \in Class : s.page[d] \in [Pages1(d) -> AnyPage]
    BY StateFields
<1>2. s.page = [d \in Class |-> s.page[d]] /\ "big" \in Class
    BY DEF States, Tables, Class
<1>4. G = [d \in Class |-> IF d = "big" THEN B ELSE s.page[d]]
    BY <1>2
<1>5. t = [s EXCEPT !.page = G]
    BY DEF G, SetBig
<1> HIDE DEF G, t
<1>6. \A d \in Class : G[d] = IF d = "big" THEN B ELSE s.page[d]
    BY <1>4
<1>7. G \in Tables
  <2>1. G = [d \in Class |-> G[d]]
      BY <1>4
  <2>2. \A d \in Class : G[d] \in [Pages1(d) -> AnyPage]
      BY <1>1, <1>6
  <2> QED BY <2>1, <2>2, TableIs
<1>8. t.page = G /\ t \in States /\ SameButPages(s, t)
    BY <1>5, <1>7 DEF States, SameButPages
<1> QED BY <1>2, <1>6, <1>8 DEF t

(* Below is reflexive and transitive, and keeps the shape.                 *)
LEMMA BelowSelf ==
  ASSUME NEW s, NEW X, ShapeBut(s, X) PROVE Below(s, s)
  BY Sizes DEF Below, ShapeBut
(* Changes below the locks add up.                                         *)
LEMMA BelowTwice ==
  ASSUME NEW s, NEW t, NEW u, Below(s, t), Below(t, u) PROVE Below(s, u)
  BY DEF Below, IsFree
(* The lists and the locked pages outlast a change below the locks.        *)
LEMMA BelowShape ==
  ASSUME NEW s, NEW t, NEW X, ShapeBut(s, X), Below(s, t) PROVE ShapeBut(t, X)
<1>1. /\ t \in States /\ t.free = s.free /\ t.locked = s.locked /\ NextOK(t)
      /\ \A c \in Class : \A i \in Pages1(c) :
            ~(c = "big" /\ IsFree(s, "big", i)) => t.page[c][i] = s.page[c][i]
      /\ \A i \in Pages1("big") : IsFree(s, "big", i) => FreeOK(t.page["big"][i], "big")
    BY DEF Below
<1>2. \A c \in Class : Split(t.free[c], t.locked[c], PageCount[c])
    BY <1>1 DEF ShapeBut
<1>3. ASSUME NEW c \in Class, NEW i \in Pages1(c), IsFree(t, c, i) PROVE FreeOK(t.page[c][i], c)
  <2>1. IsFree(s, c, i)
      BY <1>1, <1>3 DEF IsFree
  <2> QED BY <1>1, <2>1 DEF ShapeBut
<1>4. ASSUME NEW c \in Class, NEW i \in Pages1(c), IsLocked(t, c, i), <<c, i>> \notin X
      PROVE  LockedOK(t.page[c][i], c)
  <2>1. IsLocked(s, c, i)
      BY <1>1, <1>4 DEF IsLocked
  <2>2. ~IsFree(s, c, i)
      BY <2>1 DEF IsFree, IsLocked, ShapeBut, Split, Pages1
  <2>3. t.page[c][i] = s.page[c][i]
      BY <1>1, <2>2
  <2> QED BY <1>4, <2>1, <2>3 DEF ShapeBut
<1> QED BY <1>1, <1>2, <1>3, <1>4 DEF ShapeBut

-----------------------------------------------------------------------------
(* What is below the locks                                                 *)

(* The numbers of the big pages at positions K of the free list.           *)
NumbersAt(s, K) == {s.free["big"][k] : k \in K}

(* Positions and numbers of the free big pages.                            *)
LEMMA FreeNumbers ==
  ASSUME NEW s, NEW X, ShapeBut(s, X), NEW K, K \subseteq Positions(s)
  PROVE  /\ Positions(s) = 1 .. Len(s.free["big"]) /\ Len(s.free["big"]) \in Nat
         /\ \A k \in Positions(s) : s.free["big"][k] \in Numbers /\ IsFree(s, "big", s.free["big"][k])
         /\ \A i \in NumbersAt(s, K) : i \in Numbers /\ IsFree(s, "big", i)
         /\ \A i \in Numbers : (\E k \in K : s.free["big"][k] = i) <=> i \in NumbersAt(s, K)
         /\ \A k \in Positions(s) : s.free["big"][k] \in NumbersAt(s, K) <=> k \in K
         /\ \A i : IsFree(s, "big", i) => \E k \in Positions(s) : s.free["big"][k] = i
         /\ \A k \in Positions(s) : FreeOK(FreePage(s, k), "big") /\ FreePage(s, k) \in AnyPage
<1>1. s.free["big"] \in Seq(Numbers) /\ Once(s.free["big"])
    BY Sizes DEF ShapeBut, Split, Numbers, N
<1>2. \A k \in Positions(s) : s.free["big"][k] \in Numbers /\ IsFree(s, "big", s.free["big"][k])
    BY <1>1 DEF Positions, IsFree, On
<1>3. \A i \in NumbersAt(s, K) : i \in Numbers /\ IsFree(s, "big", i)
    BY <1>2 DEF NumbersAt
<1>4. \A k \in Positions(s) : s.free["big"][k] \in NumbersAt(s, K) <=> k \in K
    BY <1>1 DEF NumbersAt, Positions, Once
<1>5. \A k \in Positions(s) : FreeOK(FreePage(s, k), "big") /\ FreePage(s, k) \in AnyPage
    BY <1>2, Sizes, StateFields DEF FreePage, ShapeBut, Numbers, N, Pages1
<1>6. Positions(s) = 1 .. Len(s.free["big"]) /\ Len(s.free["big"]) \in Nat
    BY <1>1 DEF Positions
<1> QED BY <1>2, <1>3, <1>4, <1>5, <1>6 DEF NumbersAt, IsFree, On, Positions

(* Free big pages are replaced by others that are as free pages are.       *)
LEMMA FreeBigChanged ==
  ASSUME NEW s, NEW X, ShapeBut(s, X), NEW B \in [Numbers -> AnyPage],
         \A i \in Numbers : ~IsFree(s, "big", i) => B[i] = s.page["big"][i],
         \A i \in Numbers : IsFree(s, "big", i) => FreeOK(B[i], "big")
  PROVE  Below(s, SetBig(s, B)) /\ SameButPages(s, SetBig(s, B)) /\ SetBig(s, B).page["big"] = B
<1> DEFINE t == SetBig(s, B)
<1>1. s \in States /\ NextOK(s) /\ Numbers = Pages1("big") /\ B \in [Pages1("big") -> AnyPage]
    BY DEF ShapeBut, Numbers, N, Pages1
<1>2. /\ t \in States /\ SameButPages(s, t) /\ t.page["big"] = B
      /\ \A c \in Class : c # "big" => t.page[c] = s.page[c]
    BY <1>1, SetBigIs
<1> HIDE DEF t
<1>3. NextOK(t)
    BY <1>1, <1>2 DEF NextOK, SameButPages
<1>4. Below(s, t)
    BY <1>1, <1>2, <1>3 DEF Below, SameButPages, Numbers, N, Pages1
<1> QED BY <1>2, <1>4 DEF t

(* The pool is changed.                                                    *)
LEMMA StoreChanged ==
  ASSUME NEW s, NEW X, ShapeBut(s, X), NEW S \in [Addr -> Val], NEW t, t = SetStore(s, S)
  PROVE  /\ Below(s, t) /\ t.store = S /\ t.page = s.page
         /\ t.nextPageToSwap = s.nextPageToSwap /\ t.failed = s.failed
<1>1. /\ t \in States /\ t.store = S /\ t.page = s.page /\ t.free = s.free /\ t.locked = s.locked
      /\ t.nextPageToSwap = s.nextPageToSwap /\ t.failed = s.failed /\ t.overrun = s.overrun
    BY DEF ShapeBut, States, SetStore
<1>2. NextOK(t)
    BY <1>1 DEF NextOK, ShapeBut
<1>3. \A i \in Pages1("big") : IsFree(s, "big", i) => FreeOK(s.page["big"][i], "big")
    BY Sizes DEF ShapeBut
<1>4. Below(s, t)
    BY <1>1, <1>2, <1>3 DEF Below
<1> QED BY <1>1, <1>4

(* The queue of pages to swap goes on.                                     *)
LEMMA NextChanged ==
  ASSUME NEW s, NEW X, ShapeBut(s, X), NEW y, On(y, s.free["big"]),
         NEW t, t = SetNext(s, y)
  PROVE  Below(s, t) /\ t.store = s.store /\ t.page = s.page /\ t.failed = s.failed
<1>0. y \in Nat
  <2>1. s.free["big"] \in Seq(1 .. PageCount["big"])
      BY Sizes DEF ShapeBut, Split
  <2>2. PICK k \in DOMAIN s.free["big"] : s.free["big"][k] = y
      BY DEF On
  <2>3. y \in 1 .. PageCount["big"] /\ PageCount["big"] \in Nat
      BY <2>1, <2>2, Sizes
  <2> QED BY <2>3
<1>1. /\ t \in States /\ t.store = s.store /\ t.page = s.page /\ t.free = s.free /\ t.locked = s.locked
      /\ t.nextPageToSwap = y /\ t.failed = s.failed /\ t.overrun = s.overrun
    BY <1>0 DEF ShapeBut, States, SetNext
<1>2. NextOK(t)
    BY <1>1 DEF NextOK
<1>3. \A i \in Pages1("big") : IsFree(s, "big", i) => FreeOK(s.page["big"][i], "big")
    BY Sizes DEF ShapeBut
<1>4. Below(s, t)
    BY <1>1, <1>2, <1>3 DEF Below
<1> QED BY <1>1, <1>4

(* An ASSERT is checked.                                                   *)
LEMMA RequireIs ==
  ASSUME NEW s \in States, NEW b \in BOOLEAN
  PROVE  /\ Require(s, b) \in States
         /\ Require(s, b).store = s.store /\ Require(s, b).page = s.page
         /\ Require(s, b).free = s.free /\ Require(s, b).locked = s.locked
         /\ Require(s, b).nextPageToSwap = s.nextPageToSwap /\ Require(s, b).overrun = s.overrun
         /\ Require(s, b).failed = (s.failed \/ ~b)
  BY DEF Require, States
(* An assertion is such a change: it only stops the program.               *)
LEMMA RequireBelow ==
  ASSUME NEW s, NEW X, ShapeBut(s, X), NEW b \in BOOLEAN
  PROVE  Below(s, Require(s, b)) /\ ShapeBut(Require(s, b), X)
<1> DEFINE t == Require(s, b)
<1>1. s \in States
    BY DEF ShapeBut
<1>2. /\ t \in States /\ t.page = s.page /\ t.free = s.free /\ t.locked = s.locked
      /\ t.nextPageToSwap = s.nextPageToSwap /\ t.overrun = s.overrun
    BY <1>1, RequireIs
<1> HIDE DEF t
<1>3. NextOK(t)
    BY <1>2 DEF NextOK, ShapeBut
<1>4. \A i \in Pages1("big") : IsFree(s, "big", i) => FreeOK(s.page["big"][i], "big")
    BY Sizes DEF ShapeBut
<1>5. Below(s, t)
    BY <1>2, <1>3, <1>4 DEF Below
<1> QED BY <1>5, BelowShape DEF t

(* What becomes of one free page.                                          *)
LEMMA PageChanges ==
  ASSUME NEW pg \in AnyPage, FreeOK(pg, "big")
  PROVE  /\ EmptyPage(pg) \in AnyPage /\ FreeOK(EmptyPage(pg), "big")
         /\ SyncedPage(pg) \in AnyPage /\ FreeOK(SyncedPage(pg), "big")
         /\ SkippedOnce(pg) \in AnyPage /\ FreeOK(SkippedOnce(pg), "big")
         /\ \A b \in BOOLEAN : UsedPage(pg, b) \in AnyPage /\ FreeOK(UsedPage(pg, b), "big")
<1>1. pg.data \in Bytes /\ 0 \in Addr
    BY Sizes DEF AnyPage
<1>2. EmptyPage(pg) \in AnyPage /\ FreeOK(EmptyPage(pg), "big")
    BY <1>1, NoBytes DEF AnyPage, FreeOK, EmptyPage
<1>3. 0 \in 0 .. SkipsModulus - 1 /\ \A n \in Nat : n % SkipsModulus \in 0 .. SkipsModulus - 1
    BY SkipsAssumption
<1>4. SyncedPage(pg) \in AnyPage /\ FreeOK(SyncedPage(pg), "big")
  <2>1. CASE pg.dirty
    <3>1. SyncedPage(pg) = [pg EXCEPT !.dirty = FALSE, !.cleanSkips = 0]
        BY <2>1 DEF SyncedPage
    <3> QED BY <3>1, <1>3 DEF AnyPage, FreeOK
  <2>2. CASE ~pg.dirty
      BY <2>2 DEF SyncedPage
  <2> QED BY <2>1, <2>2
<1>5. SkippedOnce(pg) \in AnyPage /\ FreeOK(SkippedOnce(pg), "big")
  <2>1. (pg.cleanSkips + 1) % SkipsModulus \in 0 .. SkipsModulus - 1
      BY <1>3 DEF AnyPage
  <2> QED BY <2>1 DEF AnyPage, FreeOK, SkippedOnce
<1>6. ASSUME NEW b \in BOOLEAN PROVE UsedPage(pg, b) \in AnyPage /\ FreeOK(UsedPage(pg, b), "big")
    BY DEF AnyPage, FreeOK, UsedPage
<1> QED BY <1>2, <1>4, <1>5, <1>6
(* A page stays well-formed when it is loaded or filled.                   *)
LEMMA PageFills ==
  ASSUME NEW pg \in AnyPage, FreeOK(pg, "big")
  PROVE  /\ \A S \in [Addr -> Val] : \A p \in Addr \ {0} :
               LoadedPage(pg, p, S) \in AnyPage /\ FreeOK(LoadedPage(pg, p, S), "big")
         /\ \A D : \A d \in [D -> Val] : FilledPage(pg, d) \in AnyPage /\ FreeOK(FilledPage(pg, d), "big")
<1>1. ASSUME NEW S \in [Addr -> Val], NEW p \in Addr \ {0}
      PROVE  LoadedPage(pg, p, S) \in AnyPage /\ FreeOK(LoadedPage(pg, p, S), "big")
  <2> DEFINE f == [a \in Span(p, BigSize) \cap Addr |-> S[a]]
  <2>1. f \in [Span(p, BigSize) \cap Addr -> Val]
      OBVIOUS
  <2>2. f \in Bytes
      BY <2>1, SomeBytes
  <2> HIDE DEF f
  <2>3. LoadedPage(pg, p, S) = [pg EXCEPT !.start = p, !.data = f]
      BY DEF LoadedPage, f
  <2> QED BY <2>1, <2>2, <2>3, Sizes DEF AnyPage, FreeOK
<1>2. ASSUME NEW D, NEW d \in [D -> Val] PROVE FilledPage(pg, d) \in AnyPage /\ FreeOK(FilledPage(pg, d), "big")
  <2> DEFINE f == Patch(pg.data, d)
             E == IF pg.start = 0 THEN {} ELSE Span(pg.start, PageSize["big"]) \cap Addr
  <2>1. pg.data \in [E -> Val] /\ E \subseteq Addr
      BY DEF FreeOK
  <2>2. f \in [E -> Val]
      BY <2>1 DEF Patch
  <2>3. f \in Bytes
      BY <2>1, <2>2, SomeBytes
  <2>4. FilledPage(pg, d) = [pg EXCEPT !.data = f]
      BY DEF FilledPage
  <2> HIDE DEF f
  <2> QED BY <2>2, <2>3, <2>4 DEF AnyPage, FreeOK
<1> QED BY <1>1, <1>2

(* Invalidate empties pages.                                               *)
LEMMA Emptying ==
  ASSUME NEW s, NEW X, ShapeBut(s, X), NEW K, K \subseteq Positions(s)
  PROVE  /\ Below(s, Invalidate(s, K)) /\ SameButPages(s, Invalidate(s, K))
         /\ \A i \in Numbers : Invalidate(s, K).page["big"][i] =
               IF i \in NumbersAt(s, K) THEN EmptyPage(s.page["big"][i]) ELSE s.page["big"][i]
<1> DEFINE B == [i \in Numbers |-> IF i \in NumbersAt(s, K) THEN EmptyPage(s.page["big"][i]) ELSE s.page["big"][i]]
<1>1. s \in States /\ Numbers = Pages1("big")
    BY DEF ShapeBut, Numbers, N, Pages1
<1>2. /\ \A i \in NumbersAt(s, K) : i \in Numbers /\ IsFree(s, "big", i)
      /\ \A i \in Numbers : (\E k \in K : s.free["big"][k] = i) <=> i \in NumbersAt(s, K)
    BY FreeNumbers
<1>3. \A i \in Numbers : s.page["big"][i] \in AnyPage /\ (IsFree(s, "big", i) => FreeOK(s.page["big"][i], "big"))
    BY <1>1, StateFields, Sizes DEF ShapeBut
<1>4. \A i \in Numbers : IsFree(s, "big", i) => EmptyPage(s.page["big"][i]) \in AnyPage /\ FreeOK(EmptyPage(s.page["big"][i]), "big")
    BY <1>3, PageChanges
<1>5. B \in [Numbers -> AnyPage] /\ \A i \in Numbers : IsFree(s, "big", i) => FreeOK(B[i], "big")
    BY <1>2, <1>3, <1>4
<1>6. Invalidate(s, K) = SetBig(s, B)
  <2>1. DOMAIN s.page["big"] = Numbers
      BY <1>1, StateFields, Sizes
  <2>2. [i \in DOMAIN s.page["big"] |->
            IF \E k \in K : s.free["big"][k] = i THEN [s.page["big"][i] EXCEPT !.start = 0, !.data = <<>>] ELSE s.page["big"][i]] = B
      BY <1>2, <2>1 DEF EmptyPage
  <2> HIDE DEF B
  <2> QED BY <2>2 DEF Invalidate, MapFree, SetBig
<1> HIDE DEF B
<1>7. Below(s, SetBig(s, B)) /\ SameButPages(s, SetBig(s, B)) /\ SetBig(s, B).page["big"] = B
  <2>1. \A i \in Numbers : ~IsFree(s, "big", i) => B[i] = s.page["big"][i]
      BY <1>2 DEF B
  <2> QED BY <1>5, <2>1, FreeBigChanged
<1> QED BY <1>6, <1>7 DEF B

(* The skips of pages are counted.                                         *)
LEMMA Skipping ==
  ASSUME NEW s, NEW X, ShapeBut(s, X), NEW K, K \subseteq Positions(s)
  PROVE  /\ Below(s, CountSkips(s, K)) /\ SameButPages(s, CountSkips(s, K))
         /\ \A i \in Numbers : CountSkips(s, K).page["big"][i] =
               IF i \in NumbersAt(s, K) THEN SkippedOnce(s.page["big"][i]) ELSE s.page["big"][i]
<1> DEFINE B == [i \in Numbers |-> IF i \in NumbersAt(s, K) THEN SkippedOnce(s.page["big"][i]) ELSE s.page["big"][i]]
<1>1. s \in States /\ Numbers = Pages1("big")
    BY DEF ShapeBut, Numbers, N, Pages1
<1>2. /\ \A i \in NumbersAt(s, K) : i \in Numbers /\ IsFree(s, "big", i)
      /\ \A i \in Numbers : (\E k \in K : s.free["big"][k] = i) <=> i \in NumbersAt(s, K)
    BY FreeNumbers
<1>3. \A i \in Numbers : s.page["big"][i] \in AnyPage /\ (IsFree(s, "big", i) => FreeOK(s.page["big"][i], "big"))
    BY <1>1, StateFields, Sizes DEF ShapeBut
<1>4. \A i \in Numbers : IsFree(s, "big", i) => SkippedOnce(s.page["big"][i]) \in AnyPage /\ FreeOK(SkippedOnce(s.page["big"][i]), "big")
    BY <1>3, PageChanges
<1>5. B \in [Numbers -> AnyPage] /\ \A i \in Numbers : IsFree(s, "big", i) => FreeOK(B[i], "big")
    BY <1>2, <1>3, <1>4
<1>6. CountSkips(s, K) = SetBig(s, B)
  <2>1. DOMAIN s.page["big"] = Numbers
      BY <1>1, StateFields, Sizes
  <2>2. [i \in DOMAIN s.page["big"] |->
            IF \E k \in K : s.free["big"][k] = i THEN SkippedOnce(s.page["big"][i]) ELSE s.page["big"][i]] = B
      BY <1>2, <2>1 DEF SkippedOnce
  <2> HIDE DEF B
  <2> QED BY <2>2 DEF CountSkips, MapFree, SetBig
<1> HIDE DEF B
<1>7. Below(s, SetBig(s, B)) /\ SameButPages(s, SetBig(s, B)) /\ SetBig(s, B).page["big"] = B
  <2>1. \A i \in Numbers : ~IsFree(s, "big", i) => B[i] = s.page["big"][i]
      BY <1>2 DEF B
  <2> QED BY <1>5, <2>1, FreeBigChanged
<1> QED BY <1>6, <1>7 DEF B

(* A page is loaded from the pool.                                         *)
LEMMA Loading ==
  ASSUME NEW s, NEW X, ShapeBut(s, X), NEW k \in Positions(s), NEW p \in Addr \ {0}
  PROVE  /\ Below(s, Load(s, k, p)) /\ SameButPages(s, Load(s, k, p))
         /\ \A i \in Numbers : Load(s, k, p).page["big"][i] =
               IF i \in NumbersAt(s, {k}) THEN LoadedPage(s.page["big"][i], p, s.store) ELSE s.page["big"][i]
<1> DEFINE B == [i \in Numbers |-> IF i \in NumbersAt(s, {k}) THEN LoadedPage(s.page["big"][i], p, s.store) ELSE s.page["big"][i]]
<1>1. s \in States /\ Numbers = Pages1("big")
    BY DEF ShapeBut, Numbers, N, Pages1
<1>2. /\ \A i \in NumbersAt(s, {k}) : i \in Numbers /\ IsFree(s, "big", i)
      /\ \A i \in Numbers : (\E j \in {k} : s.free["big"][j] = i) <=> i \in NumbersAt(s, {k})
    BY FreeNumbers
<1>3. \A i \in Numbers : s.page["big"][i] \in AnyPage /\ (IsFree(s, "big", i) => FreeOK(s.page["big"][i], "big"))
    BY <1>1, StateFields, Sizes DEF ShapeBut
<1>4. \A i \in Numbers : IsFree(s, "big", i) => LoadedPage(s.page["big"][i], p, s.store) \in AnyPage /\ FreeOK(LoadedPage(s.page["big"][i], p, s.store), "big")
    BY <1>3, <1>1, StateFields, PageFills
<1>5. B \in [Numbers -> AnyPage] /\ \A i \in Numbers : IsFree(s, "big", i) => FreeOK(B[i], "big")
    BY <1>2, <1>3, <1>4
<1>6. Load(s, k, p) = SetBig(s, B)
  <2>1. DOMAIN s.page["big"] = Numbers
      BY <1>1, StateFields, Sizes
  <2>2. [i \in DOMAIN s.page["big"] |->
            IF \E j \in {k} : s.free["big"][j] = i THEN [s.page["big"][i] EXCEPT !.start = p, !.data = [a \in Span(p, BigSize) \cap Addr |-> s.store[a]]] ELSE s.page["big"][i]] = B
      BY <1>2, <2>1 DEF LoadedPage
  <2> HIDE DEF B
  <2> QED BY <2>2 DEF Load, MapFree, SetBig
<1> HIDE DEF B
<1>7. Below(s, SetBig(s, B)) /\ SameButPages(s, SetBig(s, B)) /\ SetBig(s, B).page["big"] = B
  <2>1. \A i \in Numbers : ~IsFree(s, "big", i) => B[i] = s.page["big"][i]
      BY <1>2 DEF B
  <2> QED BY <1>5, <2>1, FreeBigChanged
<1> QED BY <1>6, <1>7 DEF B

(* A page is marked as used.                                               *)
LEMMA Using ==
  ASSUME NEW s, NEW X, ShapeBut(s, X), NEW k \in Positions(s), NEW ro \in BOOLEAN
  PROVE  /\ Below(s, MarkUsed(s, k, ro)) /\ SameButPages(s, MarkUsed(s, k, ro))
         /\ \A i \in Numbers : MarkUsed(s, k, ro).page["big"][i] =
               IF i \in NumbersAt(s, {k}) THEN UsedPage(s.page["big"][i], ro) ELSE s.page["big"][i]
<1> DEFINE B == [i \in Numbers |-> IF i \in NumbersAt(s, {k}) THEN UsedPage(s.page["big"][i], ro) ELSE s.page["big"][i]]
<1>1. s \in States /\ Numbers = Pages1("big")
    BY DEF ShapeBut, Numbers, N, Pages1
<1>2. /\ \A i \in NumbersAt(s, {k}) : i \in Numbers /\ IsFree(s, "big", i)
      /\ \A i \in Numbers : (\E j \in {k} : s.free["big"][j] = i) <=> i \in NumbersAt(s, {k})
    BY FreeNumbers
<1>3. \A i \in Numbers : s.page["big"][i] \in AnyPage /\ (IsFree(s, "big", i) => FreeOK(s.page["big"][i], "big"))
    BY <1>1, StateFields, Sizes DEF ShapeBut
<1>4. \A i \in Numbers : IsFree(s, "big", i) => UsedPage(s.page["big"][i], ro) \in AnyPage /\ FreeOK(UsedPage(s.page["big"][i], ro), "big")
    BY <1>3, PageChanges
<1>5. B \in [Numbers -> AnyPage] /\ \A i \in Numbers : IsFree(s, "big", i) => FreeOK(B[i], "big")
    BY <1>2, <1>3, <1>4
<1>6. MarkUsed(s, k, ro) = SetBig(s, B)
  <2>1. DOMAIN s.page["big"] = Numbers
      BY <1>1, StateFields, Sizes
  <2>2. [i \in DOMAIN s.page["big"] |->
            IF \E j \in {k} : s.free["big"][j] = i THEN [s.page["big"][i] EXCEPT !.dirty = @ \/ ~ro] ELSE s.page["big"][i]] = B
      BY <1>2, <2>1 DEF UsedPage
  <2> HIDE DEF B
  <2> QED BY <2>2 DEF MarkUsed, MapFree, SetBig
<1> HIDE DEF B
<1>7. Below(s, SetBig(s, B)) /\ SameButPages(s, SetBig(s, B)) /\ SetBig(s, B).page["big"] = B
  <2>1. \A i \in Numbers : ~IsFree(s, "big", i) => B[i] = s.page["big"][i]
      BY <1>2 DEF B
  <2> QED BY <1>5, <2>1, FreeBigChanged
<1> QED BY <1>6, <1>7 DEF B

(* Bytes are put into a page.                                              *)
LEMMA Filling ==
  ASSUME NEW s, NEW X, ShapeBut(s, X), NEW k \in Positions(s), NEW D, NEW d \in [D -> Val]
  PROVE  /\ Below(s, Fill(s, k, d)) /\ SameButPages(s, Fill(s, k, d))
         /\ \A i \in Numbers : Fill(s, k, d).page["big"][i] =
               IF i \in NumbersAt(s, {k}) THEN FilledPage(s.page["big"][i], d) ELSE s.page["big"][i]
<1> DEFINE B == [i \in Numbers |-> IF i \in NumbersAt(s, {k}) THEN FilledPage(s.page["big"][i], d) ELSE s.page["big"][i]]
<1>1. s \in States /\ Numbers = Pages1("big")
    BY DEF ShapeBut, Numbers, N, Pages1
<1>2. /\ \A i \in NumbersAt(s, {k}) : i \in Numbers /\ IsFree(s, "big", i)
      /\ \A i \in Numbers : (\E j \in {k} : s.free["big"][j] = i) <=> i \in NumbersAt(s, {k})
    BY FreeNumbers
<1>3. \A i \in Numbers : s.page["big"][i] \in AnyPage /\ (IsFree(s, "big", i) => FreeOK(s.page["big"][i], "big"))
    BY <1>1, StateFields, Sizes DEF ShapeBut
<1>4. \A i \in Numbers : IsFree(s, "big", i) => FilledPage(s.page["big"][i], d) \in AnyPage /\ FreeOK(FilledPage(s.page["big"][i], d), "big")
    BY <1>3, PageFills
<1>5. B \in [Numbers -> AnyPage] /\ \A i \in Numbers : IsFree(s, "big", i) => FreeOK(B[i], "big")
    BY <1>2, <1>3, <1>4
<1>6. Fill(s, k, d) = SetBig(s, B)
  <2>1. DOMAIN s.page["big"] = Numbers
      BY <1>1, StateFields, Sizes
  <2>2. [i \in DOMAIN s.page["big"] |->
            IF \E j \in {k} : s.free["big"][j] = i THEN [s.page["big"][i] EXCEPT !.data = Patch(@, d)] ELSE s.page["big"][i]] = B
      BY <1>2, <2>1 DEF FilledPage
  <2> HIDE DEF B
  <2> QED BY <2>2 DEF Fill, MapFree, SetBig
<1> HIDE DEF B
<1>7. Below(s, SetBig(s, B)) /\ SameButPages(s, SetBig(s, B)) /\ SetBig(s, B).page["big"] = B
  <2>1. \A i \in Numbers : ~IsFree(s, "big", i) => B[i] = s.page["big"][i]
      BY <1>2 DEF B
  <2> QED BY <1>5, <2>1, FreeBigChanged
<1> QED BY <1>6, <1>7 DEF B

(* Pages are written to the pool where they are dirty.                     *)
WrittenFrom(s, S, K) ==
    \A a \in Addr :
        \/ S[a] = s.store[a]
           /\ \A i \in NumbersAt(s, K) : ~(s.page["big"][i].dirty /\ Holds(s.page["big"][i], a))
        \/ \E i \in NumbersAt(s, K) :
               s.page["big"][i].dirty /\ Holds(s.page["big"][i], a) /\ S[a] = s.page["big"][i].data[a]
(* The pool after pages were written back.                                 *)
LEMMA StoreSynced ==
  ASSUME NEW s, NEW X, ShapeBut(s, X), NEW K, K \subseteq Positions(s)
  PROVE  SyncedStore(s, K) \in [Addr -> Val] /\ WrittenFrom(s, SyncedStore(s, K), K)
<1> DEFINE S == SyncedStore(s, K)
<1>1. /\ Positions(s) = 1 .. Len(s.free["big"]) /\ Len(s.free["big"]) \in Nat
      /\ \A k \in Positions(s) : FreeOK(FreePage(s, k), "big") /\ s.free["big"][k] \in NumbersAt(s, K) <=> k \in K
    BY FreeNumbers
<1>2. s.store \in [Addr -> Val]
    BY StateFields DEF ShapeBut
<1>3. ASSUME NEW a \in Addr
      PROVE  /\ S[a] \in Val
             /\ \/ S[a] = s.store[a] /\ Writers(s, K, a) = {}
                \/ \E k \in Writers(s, K, a) : S[a] = FreePage(s, k).data[a]
  <2>1. S[a] = IF Writers(s, K, a) = {} THEN s.store[a] ELSE FreePage(s, Max(Writers(s, K, a))).data[a]
      BY DEF SyncedStore
  <2>2. CASE Writers(s, K, a) = {}
      BY <1>2, <2>1, <2>2
  <2>3. CASE Writers(s, K, a) # {}
    <3>1. Writers(s, K, a) \subseteq 1 .. Len(s.free["big"])
        BY <1>1 DEF Writers
    <3>2. Max(Writers(s, K, a)) \in Writers(s, K, a)
        BY <1>1, <2>3, <3>1, MaxIsGreatest
    <3>3. FreePage(s, Max(Writers(s, K, a))).data[a] \in Val
      <4> DEFINE k == Max(Writers(s, K, a))
      <4>1. k \in Positions(s) /\ Holds(FreePage(s, k), a)
          BY <3>2 DEF Writers
      <4>2. FreeOK(FreePage(s, k), "big")
          BY <4>1, FreeNumbers
      <4>3. PICK E : FreePage(s, k).data \in [E -> Val]
          BY <4>2 DEF FreeOK
      <4> HIDE DEF k
      <4> QED BY <4>1, <4>3 DEF Holds, k
    <3> QED BY <2>1, <2>3, <3>2, <3>3
  <2> QED BY <2>2, <2>3
<1>4. S \in [Addr -> Val]
  <2>1. S = [a \in Addr |-> S[a]]
      BY DEF SyncedStore
  <2> QED BY <1>3, <2>1
<1>5. ASSUME NEW a \in Addr, NEW i \in NumbersAt(s, K), s.page["big"][i].dirty, Holds(s.page["big"][i], a)
      PROVE  Writers(s, K, a) # {}
    BY <1>5 DEF NumbersAt, Writers, FreePage
<1>6. ASSUME NEW a \in Addr, NEW k \in Writers(s, K, a)
      PROVE  /\ s.free["big"][k] \in NumbersAt(s, K) /\ FreePage(s, k) = s.page["big"][s.free["big"][k]]
             /\ FreePage(s, k).dirty /\ Holds(FreePage(s, k), a)
    BY DEF NumbersAt, Writers, FreePage
<1>7. WrittenFrom(s, S, K)
  <2> SUFFICES ASSUME NEW a \in Addr
               PROVE  \/ S[a] = s.store[a]
                         /\ \A i \in NumbersAt(s, K) : ~(s.page["big"][i].dirty /\ Holds(s.page["big"][i], a))
                      \/ \E i \in NumbersAt(s, K) :
                            s.page["big"][i].dirty /\ Holds(s.page["big"][i], a) /\ S[a] = s.page["big"][i].data[a]
      BY DEF WrittenFrom
  <2>1. CASE S[a] = s.store[a] /\ Writers(s, K, a) = {}
      BY <1>5, <2>1
  <2>2. CASE \E k \in Writers(s, K, a) : S[a] = FreePage(s, k).data[a]
      BY <1>6, <2>2
  <2> QED BY <1>3, <2>1, <2>2
<1> QED BY <1>4, <1>7

(* Writing back clears dirty flags and copies the bytes.                   *)
LEMMA Syncing ==
  ASSUME NEW s, NEW X, ShapeBut(s, X), NEW K, K \subseteq Positions(s)
  PROVE  /\ Below(s, SyncBigPages(s, K))
         /\ SyncBigPages(s, K).nextPageToSwap = s.nextPageToSwap /\ SyncBigPages(s, K).failed = s.failed
         /\ WrittenFrom(s, SyncBigPages(s, K).store, K)
         /\ \A i \in Numbers : SyncBigPages(s, K).page["big"][i] =
               IF i \in NumbersAt(s, K) THEN SyncedPage(s.page["big"][i]) ELSE s.page["big"][i]
<1> DEFINE w == WriteBack(s, K)
           B == [i \in Numbers |-> IF i \in NumbersAt(s, K) THEN SyncedPage(s.page["big"][i]) ELSE s.page["big"][i]]
<1>0. SyncedStore(s, K) \in [Addr -> Val] /\ WrittenFrom(s, SyncedStore(s, K), K)
    BY StoreSynced
<1>1. w = SetStore(s, SyncedStore(s, K))
    BY DEF WriteBack, SetStore
<1> HIDE DEF w
<1>2. /\ Below(s, w) /\ w.store = SyncedStore(s, K) /\ w.page = s.page
      /\ w.nextPageToSwap = s.nextPageToSwap /\ w.failed = s.failed
    BY <1>0, <1>1, StoreChanged
<1>3. ShapeBut(w, X) /\ w.free = s.free
    BY <1>2, BelowShape DEF Below
<1>4. w \in States /\ Numbers = Pages1("big")
    BY <1>3 DEF ShapeBut, Numbers, N, Pages1
<1>5. /\ \A i \in NumbersAt(s, K) : i \in Numbers /\ IsFree(s, "big", i)
      /\ \A i \in Numbers : (\E k \in K : s.free["big"][k] = i) <=> i \in NumbersAt(s, K)
    BY FreeNumbers
<1>6. \A i \in Numbers : w.page["big"][i] \in AnyPage /\ (IsFree(w, "big", i) => FreeOK(w.page["big"][i], "big"))
    BY <1>3, <1>4, StateFields, Sizes DEF ShapeBut
<1>7. \A i \in Numbers : IsFree(w, "big", i) => SyncedPage(w.page["big"][i]) \in AnyPage /\ FreeOK(SyncedPage(w.page["big"][i]), "big")
    BY <1>6, PageChanges
<1>8. \A i : IsFree(w, "big", i) <=> IsFree(s, "big", i)
    BY <1>3 DEF IsFree
<1>9. B \in [Numbers -> AnyPage] /\ \A i \in Numbers : IsFree(w, "big", i) => FreeOK(B[i], "big")
    BY <1>2, <1>5, <1>6, <1>7, <1>8
<1>10. SyncBigPages(s, K) = SetBig(w, B)
  <2>1. DOMAIN w.page["big"] = Numbers
      BY <1>4, StateFields, Sizes
  <2>2. [i \in DOMAIN w.page["big"] |->
            IF \E k \in K : w.free["big"][k] = i
            THEN (IF w.page["big"][i].dirty THEN [w.page["big"][i] EXCEPT !.dirty = FALSE, !.cleanSkips = 0] ELSE w.page["big"][i])
            ELSE w.page["big"][i]] = B
    <3>1. \A i \in Numbers : (\E k \in K : w.free["big"][k] = i) <=> i \in NumbersAt(s, K)
        BY <1>3, <1>5
    <3>2. w.page["big"] = s.page["big"]
        BY <1>2
    <3> QED BY <2>1, <3>1, <3>2 DEF SyncedPage
  <2> HIDE DEF B
  <2> QED BY <2>2 DEF SyncBigPages, MapFree, SetBig, w
<1> HIDE DEF B
<1>11. Below(w, SetBig(w, B)) /\ SameButPages(w, SetBig(w, B)) /\ SetBig(w, B).page["big"] = B
  <2>1. \A i \in Numbers : ~IsFree(w, "big", i) => B[i] = w.page["big"][i]
      BY <1>2, <1>5, <1>8 DEF B
  <2> QED BY <1>3, <1>9, <2>1, FreeBigChanged
<1>12. Below(s, SetBig(w, B))
    BY <1>2, <1>11, BelowTwice
<1> QED BY <1>0, <1>2, <1>10, <1>11, <1>12 DEF B, SameButPages

(* The queue of pages to swap goes on to a page of the list.               *)
LEMMA Advancing ==
  ASSUME NEW s, NEW X, ShapeBut(s, X), NEW k \in Positions(s), NEW b \in BOOLEAN
  PROVE  /\ Below(s, AdvanceSwap(s, k, b)) /\ AdvanceSwap(s, k, b).store = s.store
         /\ AdvanceSwap(s, k, b).page = s.page /\ AdvanceSwap(s, k, b).failed = s.failed
<1> DEFINE y == IF b /\ k + 1 \in Positions(s) THEN s.free["big"][k + 1] ELSE HeadOr0(s.free["big"])
<1>1. AdvanceSwap(s, k, b) = SetNext(s, y)
    BY DEF AdvanceSwap, SetNext
<1>2. On(y, s.free["big"])
  <2>1. s.free["big"] \in Seq(1 .. PageCount["big"]) /\ Positions(s) = DOMAIN s.free["big"]
      BY Sizes DEF ShapeBut, Split, Positions
  <2>2. s.free["big"] # <<>> /\ Head(s.free["big"]) = s.free["big"][1] /\ 1 \in DOMAIN s.free["big"]
      BY <2>1
  <2>3. (y = s.free["big"][k + 1] /\ k + 1 \in DOMAIN s.free["big"]) \/ y = s.free["big"][1]
      BY <2>1, <2>2 DEF HeadOr0
  <2> HIDE DEF y
  <2> QED BY <2>2, <2>3 DEF On
<1> HIDE DEF y
<1> QED BY <1>1, <1>2, NextChanged

(* The free big page at one position.                                      *)
LEMMA OneNumber ==
  ASSUME NEW s, NEW X, ShapeBut(s, X), NEW k \in Positions(s)
  PROVE  /\ s.free["big"][k] \in Numbers /\ IsFree(s, "big", s.free["big"][k])
         /\ NumbersAt(s, {k}) = {s.free["big"][k]} /\ FreePage(s, k) = s.page["big"][s.free["big"][k]]
<1>1. {k} \subseteq Positions(s)
    OBVIOUS
<1>2. s.free["big"][k] \in Numbers /\ IsFree(s, "big", s.free["big"][k])
    BY <1>1, FreeNumbers
<1>3. NumbersAt(s, {k}) = {s.free["big"][k]}
    BY DEF NumbersAt
<1> QED BY <1>2, <1>3 DEF FreePage

(* The free big pages by number; a page that is locked holds nothing.      *)
Blank == NewPage("big")
View(s) == [i \in Numbers |-> IF IsFree(s, "big", i) THEN s.page["big"][i] ELSE Blank]
(* m is what the memory below the locks contains.                          *)
Agrees(s, m) == Consistent(s.store, View(s), m)

(* What the free pages hold, by number.                                    *)
LEMMA ViewIs ==
  ASSUME NEW s, NEW X, ShapeBut(s, X)
  PROVE  /\ View(s) \in [Numbers -> BigPage] /\ \A i \in Numbers : View(s)[i].data \in [HeldBy(View(s)[i]) -> Val]
         /\ \A i \in Numbers : IsFree(s, "big", i) => View(s)[i] = s.page["big"][i]
         /\ \A i \in Numbers : ~IsFree(s, "big", i) =>
               View(s)[i].start = 0 /\ ~View(s)[i].dirty /\ \A a : ~Holds(View(s)[i], a)
<1>1. /\ Blank \in BigPage /\ Blank.start = 0 /\ Blank.data = <<>> /\ ~Blank.dirty
      /\ Blank.data \in [HeldBy(Blank) -> Val]
  <2>1. 0 \in Addr /\ 0 \in 0 .. SkipsModulus - 1
      BY Sizes, SkipsAssumption
  <2>2. Blank = [start |-> 0, size |-> BigSize, locks |-> 0, cleanSkips |-> 0, dirty |-> FALSE, data |-> <<>>]
      BY DEF Blank, NewPage, BigSize
  <2> HIDE DEF Blank
  <2>3. Blank.start = 0 /\ Blank.data = <<>> /\ ~Blank.dirty
      BY <2>2
  <2>4. Blank \in BigPage
      BY <2>1, <2>2, NoBytes DEF BigPage, Bytes
  <2> QED BY <2>3, <2>4, NoBytes DEF HeldBy
<1> HIDE DEF Blank
<1>2. ASSUME NEW i \in Numbers, IsFree(s, "big", i)
      PROVE  s.page["big"][i] \in BigPage /\ s.page["big"][i].data \in [HeldBy(s.page["big"][i]) -> Val]
  <2>1. s.page["big"][i] \in AnyPage /\ FreeOK(s.page["big"][i], "big")
      BY <1>2, Sizes, StateFields DEF ShapeBut, Numbers, N, Pages1
  <2>2. s.page["big"][i] \in BigPage
      BY <2>1 DEF AnyPage, BigPage, FreeOK, Bytes, BigSize
  <2> QED BY <2>1, <2>2 DEF FreeOK, HeldBy, BigSize
<1>3. \A i \in Numbers : View(s)[i] = IF IsFree(s, "big", i) THEN s.page["big"][i] ELSE Blank
    BY DEF View
<1>4. \A i \in Numbers : View(s)[i] \in BigPage /\ View(s)[i].data \in [HeldBy(View(s)[i]) -> Val]
    BY <1>1, <1>2, <1>3
<1>5. View(s) \in [Numbers -> BigPage]
    BY <1>4 DEF View
<1>6. \A a : ~Holds(Blank, a)
    BY <1>1, NoBytes DEF Holds
<1> QED BY <1>1, <1>3, <1>4, <1>5, <1>6

(* Emptying clean pages keeps what the memory contains below the locks;    *)
LEMMA EmptyingAgrees ==
  ASSUME NEW s, NEW X, ShapeBut(s, X), NEW K, K \subseteq Positions(s), NEW m, Agrees(s, m),
         \A i \in NumbersAt(s, K) : ~s.page["big"][i].dirty
  PROVE  Agrees(Invalidate(s, K), m)
<1> DEFINE t == Invalidate(s, K)
<1>1. Below(s, t) /\ SameButPages(s, t) /\ \A i \in Numbers : t.page["big"][i] =
               IF i \in NumbersAt(s, K) THEN EmptyPage(s.page["big"][i]) ELSE s.page["big"][i]
    BY Emptying
<1> HIDE DEF t
<1>2. \A i \in NumbersAt(s, K) : i \in Numbers /\ IsFree(s, "big", i)
    BY FreeNumbers
<1>3. View(t) = [i \in Numbers |-> IF i \in NumbersAt(s, K) THEN EmptyPage(View(s)[i]) ELSE View(s)[i]]
    BY <1>1, <1>2 DEF View, IsFree, SameButPages
<1>4. \A i \in NumbersAt(s, K) : ~View(s)[i].dirty
    BY <1>2, ViewIs
<1>5. NumbersAt(s, K) \subseteq Numbers
    BY <1>2
<1>6. Consistent(s.store, View(t), m)
    BY <1>3, <1>4, <1>5, Emptied DEF Agrees
<1> QED BY <1>1, <1>6 DEF Agrees, SameButPages, t

(* so does counting that a page was skipped for a swap,                    *)
LEMMA SkippingAgrees ==
  ASSUME NEW s, NEW X, ShapeBut(s, X), NEW K, K \subseteq Positions(s), NEW m, Agrees(s, m)
  PROVE  Agrees(CountSkips(s, K), m)
<1> DEFINE t == CountSkips(s, K)
<1>1. Below(s, t) /\ SameButPages(s, t) /\ \A i \in Numbers : t.page["big"][i] =
               IF i \in NumbersAt(s, K) THEN SkippedOnce(s.page["big"][i]) ELSE s.page["big"][i]
    BY Skipping
<1> HIDE DEF t
<1>2. \A i \in NumbersAt(s, K) : i \in Numbers /\ IsFree(s, "big", i)
    BY FreeNumbers
<1>3. View(t) = [i \in Numbers |-> IF i \in NumbersAt(s, K) THEN SkippedOnce(View(s)[i]) ELSE View(s)[i]]
    BY <1>1, <1>2 DEF View, IsFree, SameButPages
<1>5. NumbersAt(s, K) \subseteq Numbers
    BY <1>2
<1>6. Consistent(s.store, View(t), m)
  <2>1. Consistent(s.store, View(s), m)
      BY DEF Agrees
  <2> DEFINE P == View(s)
             Q == View(t)
             I == NumbersAt(s, K)
  <2>2. Consistent(s.store, P, m) /\ I \subseteq Numbers
        /\ Q = [i \in Numbers |-> IF i \in I THEN SkippedOnce(P[i]) ELSE P[i]]
      BY <1>3, <1>5, <2>1
  <2> HIDE DEF P, Q, I
  <2>3. Consistent(s.store, Q, m)
      BY <2>2, SkipsCounted
  <2> QED BY <2>3 DEF Q
<1> QED BY <1>1, <1>6 DEF Agrees, SameButPages, t

(* marking a page used or dirty,                                           *)
LEMMA UsingAgrees ==
  ASSUME NEW s, NEW X, ShapeBut(s, X), NEW k \in Positions(s), NEW ro \in BOOLEAN, NEW m, Agrees(s, m)
  PROVE  Agrees(MarkUsed(s, k, ro), m)
<1> DEFINE t == MarkUsed(s, k, ro)
           j == s.free["big"][k]
<1>1. Below(s, t) /\ SameButPages(s, t) /\ \A i \in Numbers : t.page["big"][i] =
               IF i \in NumbersAt(s, {k}) THEN UsedPage(s.page["big"][i], ro) ELSE s.page["big"][i]
    BY Using
<1> HIDE DEF t
<1>2. j \in Numbers /\ IsFree(s, "big", j) /\ NumbersAt(s, {k}) = {j}
    BY OneNumber
<1> HIDE DEF j
<1>3. View(t) = [i \in Numbers |-> IF i = j THEN UsedPage(View(s)[i], ro) ELSE View(s)[i]]
    BY <1>1, <1>2 DEF View, IsFree, SameButPages
<1>6. Consistent(s.store, View(t), m)
    BY <1>2, <1>3, Used DEF Agrees
<1> QED BY <1>1, <1>6 DEF Agrees, SameButPages, t

(* loading a page with bytes that no other page holds,                     *)
LEMMA LoadingAgrees ==
  ASSUME NEW s, NEW X, ShapeBut(s, X), NEW k \in Positions(s), NEW p \in Addr \ {0}, NEW m, Agrees(s, m),
         FreePage(s, k).start = 0 \/ ~FreePage(s, k).dirty,
         \A i \in Numbers : IsFree(s, "big", i) /\ i # s.free["big"][k] =>
            \A a \in Span(p, BigSize) \cap Addr : ~Holds(s.page["big"][i], a)
  PROVE  Agrees(Load(s, k, p), m)
<1> DEFINE t == Load(s, k, p)
           j == s.free["big"][k]
<1>1. Below(s, t) /\ SameButPages(s, t) /\ \A i \in Numbers : t.page["big"][i] =
               IF i \in NumbersAt(s, {k}) THEN LoadedPage(s.page["big"][i], p, s.store) ELSE s.page["big"][i]
    BY Loading
<1> HIDE DEF t
<1>2. j \in Numbers /\ IsFree(s, "big", j) /\ NumbersAt(s, {k}) = {j} /\ FreePage(s, k) = s.page["big"][j]
    BY OneNumber
<1>4. \A i \in Numbers \ {j} : \A a \in Span(p, BigSize) \cap Addr : ~Holds(View(s)[i], a)
    BY ViewIs
<1> HIDE DEF j
<1>3. View(t) = [i \in Numbers |-> IF i = j THEN LoadedPage(View(s)[i], p, s.store) ELSE View(s)[i]]
    BY <1>1, <1>2 DEF View, IsFree, SameButPages
<1>5. View(s)[j].start = 0 \/ ~View(s)[j].dirty
    BY <1>2, ViewIs
<1>6. Consistent(s.store, View(t), m)
    BY <1>2, <1>3, <1>4, <1>5, LoadedIn DEF Agrees
<1> QED BY <1>1, <1>6 DEF Agrees, SameButPages, t

(* Filling a dirty page puts the bytes into the contents.                  *)
LEMMA FillingAgrees ==
  ASSUME NEW s, NEW X, ShapeBut(s, X), NEW k \in Positions(s), NEW m, Agrees(s, m),
         NEW D, NEW d \in [D -> Val], D \subseteq DOMAIN FreePage(s, k).data, FreePage(s, k).dirty
  PROVE  Agrees(Fill(s, k, d), Patch(m, d))
<1> DEFINE t == Fill(s, k, d)
           j == s.free["big"][k]
<1>1. Below(s, t) /\ SameButPages(s, t) /\ \A i \in Numbers : t.page["big"][i] =
               IF i \in NumbersAt(s, {k}) THEN FilledPage(s.page["big"][i], d) ELSE s.page["big"][i]
    BY Filling
<1> HIDE DEF t
<1>2. j \in Numbers /\ IsFree(s, "big", j) /\ NumbersAt(s, {k}) = {j} /\ FreePage(s, k) = s.page["big"][j]
    BY OneNumber
<1> HIDE DEF j
<1>3. View(t) = [i \in Numbers |-> IF i = j THEN FilledPage(View(s)[i], d) ELSE View(s)[i]]
    BY <1>1, <1>2 DEF View, IsFree, SameButPages
<1>4. View(s)[j].dirty /\ D \subseteq DOMAIN View(s)[j].data
    BY <1>2, ViewIs
<1>6. Consistent(s.store, View(t), Patch(m, d))
    BY <1>2, <1>3, <1>4, Filled DEF Agrees
<1> QED BY <1>1, <1>6 DEF Agrees, SameButPages, t

(* What is written back is in m already.                                   *)
LEMMA SyncingAgrees ==
  ASSUME NEW s, NEW X, ShapeBut(s, X), NEW K, K \subseteq Positions(s), NEW m, Agrees(s, m)
  PROVE  Agrees(SyncBigPages(s, K), m)
<1> DEFINE t == SyncBigPages(s, K)
           P == View(s)
           Q == View(t)
           I == NumbersAt(s, K)
<1>1. /\ Below(s, t) /\ WrittenFrom(s, t.store, K)
      /\ \A i \in Numbers : t.page["big"][i] =
            IF i \in NumbersAt(s, K) THEN SyncedPage(s.page["big"][i]) ELSE s.page["big"][i]
    BY Syncing
<1> HIDE DEF t
<1>2. \A i \in I : i \in Numbers /\ IsFree(s, "big", i)
    BY FreeNumbers
<1>3. ShapeBut(t, X) /\ t.store \in [Addr -> Val]
    BY <1>1, BelowShape, StateFields DEF ShapeBut
<1>4. Q \in [Numbers -> BigPage] /\ \A i \in Numbers : Q[i].data \in [HeldBy(Q[i]) -> Val]
    BY <1>3, ViewIs
<1>5. P \in [Numbers -> BigPage] /\ \A i \in I : P[i] = s.page["big"][i]
    BY <1>2, ViewIs
<1>6. \A i \in Numbers : Q[i] = IF i \in I THEN SyncedPage(P[i]) ELSE P[i]
    BY <1>1, <1>2 DEF View, IsFree, Below
<1>7. /\ Consistent(s.store, P, m)
      /\ \A a \in Addr :
        \/ t.store[a] = s.store[a] /\ \A i \in I : ~(P[i].dirty /\ Holds(P[i], a))
        \/ \E i \in I : P[i].dirty /\ Holds(P[i], a) /\ t.store[a] = P[i].data[a]
    BY <1>1, <1>5 DEF WrittenFrom, Agrees
<1> HIDE DEF P, Q, I
<1>8. ASSUME NEW i \in Numbers PROVE Q[i].data = P[i].data /\ Q[i].dirty = (P[i].dirty /\ i \notin I)
  <2>1. P[i] \in BigPage
      BY <1>5
  <2>2. SyncedPage(P[i]).data = P[i].data /\ SyncedPage(P[i]).dirty = FALSE /\ P[i].dirty \in BOOLEAN
      BY <2>1 DEF SyncedPage, BigPage
  <2>3. CASE i \in I
      BY <1>6, <2>2, <2>3
  <2>4. CASE i \notin I
      BY <1>6, <2>2, <2>4
  <2> QED BY <2>3, <2>4
<1>9. \A i \in Numbers : \A a : Holds(Q[i], a) <=> Holds(P[i], a)
    BY <1>8 DEF Holds
<1>10. ASSUME NEW a \in Addr, \A i \in Numbers : Holds(Q[i], a) => ~Q[i].dirty PROVE t.store[a] = m[a]
  <2>1. CASE \E i \in I : P[i].dirty /\ Holds(P[i], a) /\ t.store[a] = P[i].data[a]
      BY <1>2, <1>7, <2>1 DEF Consistent
  <2>2. CASE t.store[a] = s.store[a] /\ \A i \in I : ~(P[i].dirty /\ Holds(P[i], a))
    <3>1. \A i \in Numbers : Holds(P[i], a) => ~P[i].dirty
        BY <1>8, <1>9, <1>10, <2>2
    <3> QED BY <1>7, <2>2, <3>1 DEF Consistent
  <2> QED BY <1>7, <2>1, <2>2
<1>11. Consistent(t.store, Q, m)
    BY <1>3, <1>4, <1>7, <1>8, <1>9, <1>10 DEF Consistent
<1> QED BY <1>11 DEF Agrees, t, Q

(* Agrees is about the pool and the free big pages only.                   *)
LEMMA SameAgrees ==
  ASSUME NEW s, NEW t, NEW m, Agrees(s, m), t.store = s.store, t.page["big"] = s.page["big"],
         t.free["big"] = s.free["big"]
  PROVE  Agrees(t, m)
  BY DEF Agrees, View, IsFree

(* No byte of the memory below the locks is lost from s to t.              *)
Kept(s, t) == \A m : Agrees(s, m) => Agrees(t, m)

(* Contents kept twice were kept.                                          *)
LEMMA KeptTwice == ASSUME NEW s, NEW t, NEW u, Kept(s, t), Kept(t, u) PROVE Kept(s, u)
  BY DEF Kept

(* The pages that a swap clears; no other one holds a byte of the page to  *)
(* come.                                                                   *)
LEMMA OverlapFacts ==
  ASSUME NEW s, NEW X, ShapeBut(s, X), NEW p \in Addr \ {0}
  PROVE  /\ Overlapping(s, p) \subseteq Positions(s) /\ Skipped(s, p) \subseteq Positions(s)
         /\ LoadedPositions(s) \subseteq Positions(s)
         /\ \A i \in Numbers : IsFree(s, "big", i) /\ i \notin NumbersAt(s, Overlapping(s, p)) =>
               \A a \in Span(p, BigSize) \cap Addr : ~Holds(s.page["big"][i], a)
<1> DEFINE O == Overlapping(s, p)
<1>1. /\ O \subseteq Positions(s) /\ Skipped(s, p) \subseteq Positions(s) /\ LoadedPositions(s) \subseteq Positions(s)
    BY DEF Overlapping, Skipped, LoadedPositions
<1>2. ASSUME NEW i \in Numbers, IsFree(s, "big", i), i \notin NumbersAt(s, O),
             NEW a \in Span(p, BigSize) \cap Addr, Holds(s.page["big"][i], a)
      PROVE  FALSE
  <2>1. PICK k \in Positions(s) : s.free["big"][k] = i
      BY <1>1, <1>2, FreeNumbers
  <2>2. FreePage(s, k) = s.page["big"][i] /\ k \notin O
      BY <1>2, <2>1 DEF FreePage, NumbersAt
  <2>3. FreeOK(FreePage(s, k), "big") /\ FreePage(s, k) \in AnyPage
      BY <1>1, FreeNumbers
  <2> DEFINE b == FreePage(s, k).start
  <2>4. b \in Addr /\ b # 0 /\ a \in Span(b, BigSize)
      BY <1>2, <2>2, <2>3, Sizes DEF FreeOK, AnyPage, Holds
  <2>5. p \notin Span(b, BigSize) /\ p + BigSize \notin b .. b + BigSize
      BY <2>1, <2>2, <2>4 DEF Overlapping, LoadedPositions, Loaded
  <2>6. p \in Nat /\ a \in Nat /\ b \in Nat /\ BigSize \in Nat
      BY <2>4, Sizes
  <2>7. p <= a /\ a <= p + BigSize - 1 /\ b <= a /\ a <= b + BigSize - 1
      BY <2>4, <2>6 DEF Span
  <2>8. ~(b <= p /\ p <= b + BigSize - 1) /\ ~(b <= p + BigSize /\ p + BigSize <= b + BigSize)
      BY <2>5, <2>6 DEF Span
  <2> HIDE DEF b
  <2> QED BY <2>6, <2>7, <2>8
<1> QED BY <1>1, <1>2

(* The search for a page to swap finds one if there is any.                *)
LEMMA VictimIs ==
  ASSUME NEW s, NEW X, ShapeBut(s, X), NEW p \in Addr \ {0}
  PROVE  IF s.free["big"] = <<>> THEN Victim(s, p) = 0 ELSE Victim(s, p) \in Positions(s)
<1> DEFINE O == Overlapping(s, p)
           E == Positions(s) \ LoadedPositions(s)
           Y == {k \in Positions(s) : s.free["big"][k] = s.nextPageToSwap}
           Z == Stops(s, p)
           n == Len(s.free["big"])
<1>1. O \subseteq Positions(s) /\ E \subseteq Positions(s) /\ Y \subseteq Positions(s) /\ Z \subseteq Positions(s)
    BY OverlapFacts DEF Stops
<1>2. Positions(s) = 1 .. n /\ n \in Nat
    BY <1>1, FreeNumbers
<1>3. O \subseteq Z /\ E \subseteq Z
    BY <1>1 DEF Stops, LoadedPositions
<1>4. Victim(s, p) = CASE O # {} -> Max(O)
          [] O = {} /\ E # {} -> Max(E)
          [] O = {} /\ E = {} /\ Z # {} -> Min(Z)
          [] Z = {} -> IF Y = {} THEN 0 ELSE Min(Y)
    BY DEF Victim
<1>5. s.free["big"] = <<>> => Positions(s) = {}
    BY DEF Positions
<1>6. s.free["big"] # <<>> => Y # {}
    BY DEF ShapeBut, NextOK, On, Positions
<1> HIDE DEF O, E, Y, Z, n
<1>7. CASE s.free["big"] = <<>>
    BY <1>1, <1>4, <1>5, <1>7
<1>8. CASE s.free["big"] # <<>>
  <2>1. CASE O # {}
    <3>1. Victim(s, p) = Max(O)
        BY <1>3, <1>4, <2>1
    <3> QED BY <1>1, <1>2, <1>8, <2>1, <3>1, MaxIsGreatest
  <2>2. CASE O = {} /\ E # {}
    <3>1. Victim(s, p) = Max(E)
        BY <1>3, <1>4, <2>2
    <3> QED BY <1>1, <1>2, <1>8, <2>2, <3>1, MaxIsGreatest
  <2>3. CASE O = {} /\ E = {} /\ Z # {}
    <3>1. Victim(s, p) = Min(Z)
        BY <1>4, <2>3
    <3>2. Z \subseteq Nat
        BY <1>1, <1>2
    <3> QED BY <1>1, <1>8, <2>3, <3>1, <3>2, MinIsLeast
  <2>4. CASE O = {} /\ E = {} /\ Z = {}
    <3>1. Victim(s, p) = Min(Y) /\ Y # {}
        BY <1>4, <1>6, <1>8, <2>4
    <3>2. Y \subseteq Nat
        BY <1>1, <1>2
    <3> QED BY <1>1, <1>8, <3>1, <3>2, MinIsLeast
  <2> QED BY <2>1, <2>2, <2>3, <2>4
<1> QED BY <1>7, <1>8

(* A swap is below the locks, loses no byte, and loads the page at p.      *)
LEMMA SwapsIn ==
  ASSUME NEW s, NEW X, ShapeBut(s, X), NEW p \in Addr \ {0}, NEW k \in Positions(s)
  PROVE  /\ Below(s, SwapIn(s, p, k)) /\ SwapIn(s, p, k).failed = s.failed /\ Kept(s, SwapIn(s, p, k))
         /\ FreePage(SwapIn(s, p, k), k).start = p
<1> DEFINE O == Overlapping(s, p)
           W == Skipped(s, p)
           u1 == CountSkips(s, W)
           u2 == SyncBigPages(u1, O)
           u3 == Invalidate(u2, O)
           V == {k} \cap LoadedPositions(u3)
           u4 == SyncBigPages(u3, V)
           b == Stops(s, p) = {}
           u5 == AdvanceSwap(u4, k, b)
           t == Load(u5, k, p)
           j == s.free["big"][k]
<1>0. SwapIn(s, p, k) = t
    BY DEF SwapIn
<1>1. /\ O \subseteq Positions(s) /\ W \subseteq Positions(s)
      /\ \A i \in Numbers : IsFree(s, "big", i) /\ i \notin NumbersAt(s, O) =>
            \A a \in Span(p, BigSize) \cap Addr : ~Holds(s.page["big"][i], a)
    BY OverlapFacts
<1>2. j \in Numbers /\ IsFree(s, "big", j)
    BY OneNumber
<1>3. V \subseteq {k} /\ b \in BOOLEAN
    OBVIOUS
<1>4. V = {i \in {k} : k \in Positions(u3) /\ FreePage(u3, k).start # 0}
    BY DEF LoadedPositions, Loaded
<1> HIDE DEF O, W, V, b
<1>5. /\ Below(s, u1) /\ SameButPages(s, u1)
      /\ \A i \in Numbers : u1.page["big"][i] =
               IF i \in NumbersAt(s, W) THEN SkippedOnce(s.page["big"][i]) ELSE s.page["big"][i]
    BY <1>1, Skipping
<1>6. Kept(s, u1)
    BY <1>1, SkippingAgrees DEF Kept
<1> HIDE DEF u1
<1>7. ShapeBut(u1, X) /\ u1.free = s.free /\ Positions(u1) = Positions(s) /\ NumbersAt(u1, O) = NumbersAt(s, O)
      /\ u1.failed = s.failed
    BY <1>5, BelowShape DEF Below, Positions, NumbersAt, SameButPages
<1>8. /\ Below(u1, u2) /\ u2.failed = u1.failed
      /\ \A i \in Numbers : u2.page["big"][i] =
               IF i \in NumbersAt(u1, O) THEN SyncedPage(u1.page["big"][i]) ELSE u1.page["big"][i]
    BY <1>1, <1>7, Syncing
<1>9. Kept(u1, u2)
    BY <1>1, <1>7, SyncingAgrees DEF Kept
<1> HIDE DEF u2
<1>10. ShapeBut(u2, X) /\ u2.free = s.free /\ Positions(u2) = Positions(s) /\ NumbersAt(u2, O) = NumbersAt(s, O)
    BY <1>7, <1>8, BelowShape DEF Below, Positions, NumbersAt
<1>11. /\ Below(u2, u3) /\ SameButPages(u2, u3)
       /\ \A i \in Numbers : u3.page["big"][i] =
               IF i \in NumbersAt(u2, O) THEN EmptyPage(u2.page["big"][i]) ELSE u2.page["big"][i]
    BY <1>1, <1>10, Emptying
<1>12. \A i \in Numbers : u1.page["big"][i] \in AnyPage /\ u2.page["big"][i] \in AnyPage /\ s.page["big"][i] \in AnyPage
    BY <1>7, <1>10, StateFields, Sizes DEF ShapeBut, Numbers, N, Pages1
<1>13. \A i \in NumbersAt(u2, O) : ~u2.page["big"][i].dirty
  <2> SUFFICES ASSUME NEW i \in NumbersAt(s, O) PROVE ~u2.page["big"][i].dirty
      BY <1>10
  <2>1. i \in Numbers /\ u2.page["big"][i] = SyncedPage(u1.page["big"][i])
      BY <1>1, <1>7, <1>8, FreeNumbers
  <2> QED BY <1>12, <2>1 DEF SyncedPage, AnyPage
<1>14. Kept(u2, u3)
    BY <1>1, <1>10, <1>13, EmptyingAgrees DEF Kept
<1> HIDE DEF u3
<1>15. ShapeBut(u3, X) /\ u3.free = s.free /\ Positions(u3) = Positions(s) /\ NumbersAt(u3, V) = NumbersAt(s, V)
    BY <1>10, <1>11, BelowShape DEF Below, Positions, NumbersAt
<1>16. V \subseteq Positions(u3)
    BY <1>3, <1>15
<1>17. /\ Below(u3, u4) /\ u4.failed = u3.failed
       /\ \A i \in Numbers : u4.page["big"][i] =
               IF i \in NumbersAt(u3, V) THEN SyncedPage(u3.page["big"][i]) ELSE u3.page["big"][i]
    BY <1>15, <1>16, Syncing
<1>18. Kept(u3, u4)
    BY <1>15, <1>16, SyncingAgrees DEF Kept
<1> HIDE DEF u4
<1>19. ShapeBut(u4, X) /\ u4.free = s.free /\ Positions(u4) = Positions(s)
    BY <1>15, <1>17, BelowShape DEF Below, Positions
<1>20. Below(u4, u5) /\ u5.store = u4.store /\ u5.page = u4.page /\ u5.failed = u4.failed
    BY <1>3, <1>19, Advancing
<1> HIDE DEF u5
<1>21. ShapeBut(u5, X) /\ u5.free = s.free /\ Positions(u5) = Positions(s) /\ FreePage(u5, k) = u4.page["big"][j]
    BY <1>19, <1>20, BelowShape DEF Below, Positions, FreePage
<1>22. Kept(u4, u5)
    BY <1>19, <1>20, <1>21, SameAgrees DEF Kept
<1>23. /\ Below(u5, t) /\ SameButPages(u5, t)
       /\ \A i \in Numbers : t.page["big"][i] =
               IF i \in NumbersAt(u5, {k}) THEN LoadedPage(u5.page["big"][i], p, u5.store) ELSE u5.page["big"][i]
    BY <1>21, Loading
<1>24. ASSUME NEW i \in Numbers, IsFree(s, "big", i), NEW a \in Span(p, BigSize) \cap Addr
       PROVE  ~Holds(u4.page["big"][i], a)
  <2>1. u1.page["big"][i].data = s.page["big"][i].data
      BY <1>5, <1>12 DEF SkippedOnce, AnyPage
  <2>2. u2.page["big"][i].data = u1.page["big"][i].data
    <3>1. SyncedPage(u1.page["big"][i]).data = u1.page["big"][i].data
        BY <1>12 DEF SyncedPage, AnyPage
    <3> QED BY <1>8, <3>1
  <2>3. ~Holds(u3.page["big"][i], a)
    <3>1. CASE i \in NumbersAt(s, O)
      <4>1. u3.page["big"][i] = EmptyPage(u2.page["big"][i])
          BY <1>10, <1>11, <3>1
      <4>2. u3.page["big"][i].data = <<>>
          BY <1>12, <4>1 DEF EmptyPage, AnyPage
      <4> QED BY <4>2, NoBytes DEF Holds
    <3>2. CASE i \notin NumbersAt(s, O)
      <4>1. u3.page["big"][i] = u2.page["big"][i]
          BY <1>10, <1>11, <3>2
      <4> QED BY <1>1, <1>24, <2>1, <2>2, <3>2, <4>1 DEF Holds
    <3> QED BY <3>1, <3>2
  <2>4. u4.page["big"][i].data = u3.page["big"][i].data
    <3>1. u3.page["big"][i] \in AnyPage
        BY <1>15, StateFields, Sizes DEF ShapeBut, Numbers, N, Pages1
    <3>2. SyncedPage(u3.page["big"][i]).data = u3.page["big"][i].data
        BY <3>1 DEF SyncedPage, AnyPage
    <3> QED BY <1>17, <3>2
  <2> QED BY <2>3, <2>4 DEF Holds
<1>25. FreePage(u5, k).start = 0 \/ ~FreePage(u5, k).dirty
  <2>1. FreePage(u3, k) = u3.page["big"][j] /\ u3.page["big"][j] \in AnyPage
      BY <1>2, <1>15, StateFields, Sizes DEF FreePage, ShapeBut, Numbers, N, Pages1
  <2>2. CASE u3.page["big"][j].start = 0
    <3>1. V = {}
        BY <1>4, <2>1, <2>2
    <3>2. u4.page["big"][j] = u3.page["big"][j]
        BY <1>2, <1>17, <3>1 DEF NumbersAt
    <3> QED BY <1>21, <2>2, <3>2
  <2>3. CASE u3.page["big"][j].start # 0
    <3>1. V = {k}
        BY <1>4, <1>15, <2>1, <2>3
    <3>2. u4.page["big"][j] = SyncedPage(u3.page["big"][j])
        BY <1>2, <1>15, <1>17, <3>1 DEF NumbersAt
    <3> QED BY <1>21, <2>1, <3>2 DEF SyncedPage, AnyPage
  <2> QED BY <2>2, <2>3
<1>26. Kept(u5, t)
  <2> SUFFICES ASSUME NEW m, Agrees(u5, m) PROVE Agrees(t, m)
      BY DEF Kept
  <2>1. \A i \in Numbers : IsFree(u5, "big", i) /\ i # u5.free["big"][k] =>
            \A a \in Span(p, BigSize) \cap Addr : ~Holds(u5.page["big"][i], a)
      BY <1>20, <1>21, <1>24 DEF IsFree
  <2> QED BY <1>21, <1>25, <2>1, LoadingAgrees
<1> HIDE DEF t
<1>27. FreePage(t, k).start = p
  <2>1. t.free = s.free /\ j \in NumbersAt(u5, {k})
      BY <1>21, <1>23 DEF Below, NumbersAt
  <2>2. FreePage(t, k) = LoadedPage(u5.page["big"][j], p, u5.store)
      BY <1>2, <1>23, <2>1 DEF FreePage
  <2>3. u5.page["big"][j] \in AnyPage
      BY <1>2, <1>21, StateFields, Sizes DEF ShapeBut, Numbers, N, Pages1
  <2> QED BY <2>2, <2>3 DEF LoadedPage, AnyPage
<1>28. Below(s, t)
    BY <1>5, <1>8, <1>11, <1>17, <1>20, <1>23, BelowTwice
<1>29. Kept(s, t)
    BY <1>6, <1>9, <1>14, <1>18, <1>22, <1>26 DEF Kept
<1>30. t.failed = s.failed
    BY <1>7, <1>8, <1>11, <1>17, <1>20, <1>23 DEF SameButPages
<1> QED BY <1>0, <1>27, <1>28, <1>29, <1>30

(* A free page that findFreePage returns is the one asked for.             *)
LEMMA Finding ==
  ASSUME NEW s, NEW X, ShapeBut(s, X), NEW p \in Addr \ {0}, NEW n \in Nat, NEW b \in BOOLEAN,
         NEW f, f = FindFreePage(s, p, n, b), f # 0
  PROVE  /\ f \in Positions(s) /\ (b => FreePage(s, f).start = p)
         /\ ~b /\ Span(p, n) \subseteq Addr => Span(p, n) \subseteq DOMAIN FreePage(s, f).data
<1> DEFINE Fits(pg) == \/ b /\ pg.start = p
                       \/ ~b /\ pg.start <= p /\ p + n <= pg.start + pg.size
           F == {k \in LoadedPositions(s) : Fits(FreePage(s, k))}
<1>1. f = IF F = {} THEN 0 ELSE Min(F)
    BY DEF FindFreePage
<1>2. LoadedPositions(s) \subseteq Positions(s) /\ Positions(s) \subseteq Nat
  <2>1. Positions(s) \subseteq Positions(s)
      OBVIOUS
  <2>2. Positions(s) = 1 .. Len(s.free["big"]) /\ Len(s.free["big"]) \in Nat
      BY <2>1, FreeNumbers
  <2> QED BY <2>2, OverlapFacts
<1>3. f \in F
  <2>1. F \subseteq Nat
      BY <1>2
  <2> HIDE DEF F
  <2> QED BY <1>1, <2>1, MinIsLeast
<1>4. f \in Positions(s) /\ FreePage(s, f).start # 0 /\ Fits(FreePage(s, f))
    BY <1>2, <1>3 DEF LoadedPositions, Loaded
<1>5. ASSUME ~b, Span(p, n) \subseteq Addr PROVE Span(p, n) \subseteq DOMAIN FreePage(s, f).data
  <2> DEFINE c == FreePage(s, f).start
  <2>1. FreeOK(FreePage(s, f), "big") /\ FreePage(s, f) \in AnyPage
      BY <1>4, FreeNumbers
  <2>2. FreePage(s, f).size = BigSize /\ c \in Nat /\ DOMAIN FreePage(s, f).data = Span(c, BigSize) \cap Addr
      BY <1>4, <2>1, Sizes DEF FreeOK, AnyPage
  <2>3. c <= p /\ p + n <= c + BigSize /\ p \in Nat /\ BigSize \in Nat
      BY <1>4, <1>5, <2>2, Sizes
  <2>4. Span(p, n) \subseteq Span(c, BigSize)
    <3> HIDE DEF c
    <3> QED BY <2>2, <2>3 DEF Span
  <2> QED BY <1>5, <2>2, <2>4
<1> QED BY <1>4, <1>5

(* pullRawData is below the locks, and loses no byte; it fails if no big   *)
(* page is free, and finds a page for the block otherwise.                 *)
PulledAs(s, pull, p, n, ro, b) ==
    /\ Below(s, pull.state) /\ Kept(s, pull.state)
    /\ s.free["big"] = <<>> => pull.at = 0 /\ pull.state.failed
    /\ s.free["big"] # <<>> =>
          /\ pull.at \in Positions(s) /\ pull.state.failed = s.failed
          /\ ~ro => FreePage(pull.state, pull.at).dirty
          /\ b => FreePage(pull.state, pull.at).start = p
          /\ ~b /\ Span(p, n) \subseteq Addr => Span(p, n) \subseteq DOMAIN FreePage(pull.state, pull.at).data
(* What pullRawData() does: it finds the block, or a page to load it into. *)
LEMMA Pulls ==
  ASSUME NEW s, NEW X, ShapeBut(s, X), NEW p \in Addr \ {0}, NEW n \in 1 .. BigSize,
         NEW ro \in BOOLEAN, NEW b \in BOOLEAN
  PROVE  PulledAs(s, PullRawData(s, p, n, ro, b), p, n, ro, b)
<1> DEFINE f == FindFreePage(s, p, n, b)
           k == IF f # 0 THEN f ELSE Victim(s, p)
           u == IF f = 0 THEN SwapIn(s, p, k) ELSE s
           t == MarkUsed(u, k, ro)
           pull == PullRawData(s, p, n, ro, b)
<1> SUFFICES PulledAs(s, pull, p, n, ro, b)
    OBVIOUS
<1>0. n \in Nat /\ n <= BigSize /\ BigSize \in Nat
    BY Sizes
<1>1. pull = IF k = 0 THEN [state |-> Require(s, FALSE), at |-> 0] ELSE [state |-> t, at |-> k]
    BY DEF PullRawData, UsePage
<1>2. f # 0 => f \in Positions(s) /\ (b => FreePage(s, f).start = p)
               /\ (~b /\ Span(p, n) \subseteq Addr => Span(p, n) \subseteq DOMAIN FreePage(s, f).data)
    BY <1>0, Finding
<1>3. IF s.free["big"] = <<>> THEN Victim(s, p) = 0 ELSE Victim(s, p) \in Positions(s)
    BY VictimIs
<1>4. Positions(s) = 1 .. Len(s.free["big"]) /\ Len(s.free["big"]) \in Nat
  <2>1. Positions(s) \subseteq Positions(s)
      OBVIOUS
  <2> QED BY <2>1, FreeNumbers
<1>5. s.free["big"] = <<>> => f = 0 /\ k = 0
    BY <1>2, <1>3 DEF Positions
<1>6. s.free["big"] # <<>> => k \in Positions(s) /\ k # 0
  <2> HIDE DEF f
  <2> QED BY <1>2, <1>3, <1>4
<1>7. CASE s.free["big"] = <<>>
  <2>1. pull.state = Require(s, FALSE) /\ pull.at = 0
      BY <1>1, <1>5, <1>7
  <2>2. s \in States /\ FALSE \in BOOLEAN
      BY DEF ShapeBut
  <2>3. Below(s, Require(s, FALSE)) /\ Require(s, FALSE).failed
        /\ Require(s, FALSE).store = s.store /\ Require(s, FALSE).page = s.page /\ Require(s, FALSE).free = s.free
      BY <2>2, RequireBelow, RequireIs
  <2> HIDE DEF pull
  <2> DEFINE v == Require(s, FALSE)
  <2>4. Kept(s, v)
    <3>1. v.store = s.store /\ v.page["big"] = s.page["big"] /\ v.free["big"] = s.free["big"]
        BY <2>3
    <3> HIDE DEF v
    <3> QED BY <3>1, SameAgrees DEF Kept
  <2> QED BY <1>7, <2>1, <2>3, <2>4 DEF PulledAs
<1>8. CASE s.free["big"] # <<>>
  <2>1. pull.state = t /\ pull.at = k
    <3> HIDE DEF k, t, pull
    <3> QED BY <1>1, <1>6, <1>8
  <2>2. /\ Below(s, u) /\ u.failed = s.failed /\ Kept(s, u)
        /\ b => FreePage(u, k).start = p
        /\ ~b /\ Span(p, n) \subseteq Addr => Span(p, n) \subseteq DOMAIN FreePage(u, k).data
    <3>1. CASE f # 0
      <4>1. u = s /\ k = f
          BY <3>1
      <4> HIDE DEF f, u, k
      <4> QED BY <1>2, <3>1, <4>1, BelowSelf DEF Kept
    <3>2. CASE f = 0
      <4>1. u = SwapIn(s, p, k)
          BY <3>2
      <4> HIDE DEF f, k, u
      <4>2. Below(s, u) /\ u.failed = s.failed /\ Kept(s, u) /\ FreePage(u, k).start = p
          BY <1>6, <1>8, <4>1, SwapsIn
      <4>3. ShapeBut(u, X) /\ k \in Positions(u)
          BY <1>6, <1>8, <4>2, BelowShape DEF Below, Positions
      <4>4. FreeOK(FreePage(u, k), "big")
        <5>1. Positions(u) \subseteq Positions(u)
            OBVIOUS
        <5> QED BY <4>3, <5>1, FreeNumbers
      <4>5. DOMAIN FreePage(u, k).data = Span(p, BigSize) \cap Addr
          BY <4>2, <4>4, Sizes DEF FreeOK
      <4>6. Span(p, n) \subseteq Span(p, BigSize)
          BY <1>0, Sizes DEF Span
      <4> QED BY <4>2, <4>5, <4>6
    <3> QED BY <3>1, <3>2
  <2> HIDE DEF u, k
  <2>3. ShapeBut(u, X) /\ k \in Positions(u) /\ u.free = s.free
      BY <1>6, <1>8, <2>2, BelowShape DEF Below, Positions
  <2> DEFINE j == u.free["big"][k]
  <2>4. /\ Below(u, t) /\ SameButPages(u, t)
        /\ \A i \in Numbers : t.page["big"][i] =
               IF i \in NumbersAt(u, {k}) THEN UsedPage(u.page["big"][i], ro) ELSE u.page["big"][i]
      BY <2>3, Using
  <2>5. Kept(u, t)
      BY <2>3, UsingAgrees DEF Kept
  <2>6. j \in Numbers /\ NumbersAt(u, {k}) = {j} /\ FreePage(u, k) = u.page["big"][j]
      BY <2>3, OneNumber
  <2> HIDE DEF t
  <2>7. FreePage(t, k) = UsedPage(FreePage(u, k), ro)
      BY <2>4, <2>6 DEF FreePage, SameButPages
  <2> HIDE DEF j
  <2>8. FreePage(u, k) \in AnyPage
      BY <2>3, <2>6, StateFields, Sizes DEF ShapeBut, Numbers, N, Pages1
  <2>9. FreePage(t, k).start = FreePage(u, k).start /\ FreePage(t, k).data = FreePage(u, k).data
        /\ (~ro => FreePage(t, k).dirty)
      BY <2>7, <2>8 DEF UsedPage, AnyPage
  <2>10. Below(s, t) /\ Kept(s, t) /\ t.failed = s.failed
      BY <2>2, <2>4, <2>5, BelowTwice, KeptTwice DEF SameButPages
  <2> HIDE DEF pull
  <2>11. /\ pull.at \in Positions(s) /\ pull.state.failed = s.failed
         /\ ~ro => FreePage(pull.state, pull.at).dirty
         /\ b => FreePage(pull.state, pull.at).start = p
      BY <1>6, <1>8, <2>1, <2>2, <2>9, <2>10
  <2>12. ~b /\ Span(p, n) \subseteq Addr => Span(p, n) \subseteq DOMAIN FreePage(pull.state, pull.at).data
      BY <2>1, <2>2, <2>9
  <2>13. Below(s, pull.state) /\ Kept(s, pull.state)
      BY <2>1, <2>10
  <2> QED BY <1>8, <2>11, <2>12, <2>13 DEF PulledAs
<1> QED BY <1>7, <1>8 DEF pull

(* pushRawData is below the locks and changes the bytes it is given; it    *)
(* fails if no big page is free.                                           *)
PushedAs(s, t, d) ==
    /\ Below(s, t)
    /\ s.free["big"] = <<>> => t.failed /\ Kept(s, t)
    /\ s.free["big"] # <<>> => t.failed = s.failed
    /\ s.free["big"] # <<>> /\ ~s.failed => \A m : Agrees(s, m) => Agrees(t, Patch(m, d))
(* The bytes that pushRawData() takes become the contents.                 *)
LEMMA Pushes ==
  ASSUME NEW s, NEW X, ShapeBut(s, X), NEW p \in Addr \ {0}, NEW n \in 1 .. BigSize, Span(p, n) \subseteq Addr,
         NEW d \in [Span(p, n) -> Val]
  PROVE  PushedAs(s, PushRawData(s, p, n, d), d)
<1> DEFINE pull == PullRawData(s, p, n, FALSE, FALSE)
           u == pull.state
           k == pull.at
           t == PushRawData(s, p, n, d)
<1> SUFFICES PushedAs(s, t, d)
    OBVIOUS
<1>1. PulledAs(s, pull, p, n, FALSE, FALSE)
  <2>1. FALSE \in BOOLEAN
      OBVIOUS
  <2> QED BY <2>1, Pulls, Zenon
<1>2. t = IF u.failed THEN u ELSE Fill(u, k, d)
    BY DEF PushRawData, PutPulled
<1> HIDE DEF pull, t
<1>3. /\ Below(s, u) /\ Kept(s, u)
      /\ s.free["big"] = <<>> => u.failed
      /\ s.free["big"] # <<>> =>
          /\ k \in Positions(s) /\ u.failed = s.failed
          /\ FreePage(u, k).dirty
          /\ Span(p, n) \subseteq DOMAIN FreePage(u, k).data
    BY <1>1 DEF PulledAs
<1> HIDE DEF u, k
<1>0. s.failed \in BOOLEAN /\ u.failed \in BOOLEAN
  <2>1. s \in States /\ u \in States
      BY <1>3 DEF ShapeBut, Below
  <2> QED BY <2>1, StateFields
<1>4. CASE u.failed
    BY <1>0, <1>2, <1>3, <1>4 DEF PushedAs
<1>5. CASE ~u.failed
  <2>1. s.free["big"] # <<>> /\ t = Fill(u, k, d)
      BY <1>2, <1>3, <1>5
  <2>2. ShapeBut(u, X) /\ k \in Positions(u)
      BY <1>3, <2>1, BelowShape DEF Below, Positions
  <2>3. Below(u, t) /\ t.failed = u.failed
      BY <2>1, <2>2, Filling DEF SameButPages
  <2>4. \A m : Agrees(u, m) => Agrees(t, Patch(m, d))
      BY <1>3, <2>1, <2>2, FillingAgrees
  <2>5. Below(s, t) /\ t.failed = s.failed
      BY <1>3, <2>1, <2>3, BelowTwice
  <2>6. \A m : Agrees(s, m) => Agrees(t, Patch(m, d))
      BY <1>3, <2>4 DEF Kept
  <2> QED BY <2>1, <2>5, <2>6 DEF PushedAs
<1> QED BY <1>4, <1>5 DEF t

-----------------------------------------------------------------------------
(* The bytes below the locks, one by one                                   *)

(* The free page that holds an address, if there is one.                   *)
LEMMA HoldersAre ==
  ASSUME NEW s, NEW X, ShapeBut(s, X), NEW a
  PROVE  /\ Holders(s, a) \subseteq Positions(s)
         /\ Holders(s, a) # {} => Min(Holders(s, a)) \in Holders(s, a)
         /\ \A k \in Holders(s, a) : a \in Addr /\ FreePage(s, k).data[a] \in Val
         /\ \A i \in Numbers : IsFree(s, "big", i) /\ Holds(s.page["big"][i], a) =>
               \E k \in Holders(s, a) : s.free["big"][k] = i
<1>0. Positions(s) \subseteq Positions(s)
    OBVIOUS
<1>1. /\ Positions(s) = 1 .. Len(s.free["big"]) /\ Len(s.free["big"]) \in Nat
      /\ \A i : IsFree(s, "big", i) => \E k \in Positions(s) : s.free["big"][k] = i
      /\ \A k \in Positions(s) : FreeOK(FreePage(s, k), "big") /\ FreePage(s, k) \in AnyPage
    BY <1>0, FreeNumbers
<1>2. Holders(s, a) \subseteq Positions(s)
    BY DEF Holders
<1>3. Holders(s, a) # {} => Min(Holders(s, a)) \in Holders(s, a)
  <2>1. Holders(s, a) \subseteq Nat
      BY <1>1, <1>2
  <2> QED BY <2>1, MinIsLeast
<1>4. ASSUME NEW k \in Holders(s, a) PROVE a \in Addr /\ FreePage(s, k).data[a] \in Val
  <2>1. FreeOK(FreePage(s, k), "big") /\ a \in DOMAIN FreePage(s, k).data
      BY <1>1, <1>2 DEF Holders, Holds
  <2> DEFINE E == IF FreePage(s, k).start = 0 THEN {} ELSE Span(FreePage(s, k).start, PageSize["big"]) \cap Addr
  <2>2. FreePage(s, k).data \in [E -> Val] /\ E \subseteq Addr
      BY <2>1 DEF FreeOK
  <2> HIDE DEF E
  <2> QED BY <2>1, <2>2
<1>5. ASSUME NEW i \in Numbers, IsFree(s, "big", i), Holds(s.page["big"][i], a)
      PROVE  \E k \in Holders(s, a) : s.free["big"][k] = i
  <2>1. PICK k \in Positions(s) : s.free["big"][k] = i
      BY <1>1, <1>5
  <2>2. k \in Holders(s, a)
      BY <1>5, <2>1 DEF Holders, FreePage
  <2> QED BY <2>1, <2>2
<1> QED BY <1>2, <1>3, <1>4, <1>5

(* Where no free page holds it twice, an address has one holder.           *)
LEMMA OneHolder ==
  ASSUME NEW s, NEW X, ShapeBut(s, X), NEW m, Agrees(s, m), NEW a \in Addr
  PROVE  /\ \A j, k \in Holders(s, a) : j = k
         /\ \A k \in Holders(s, a) : FreePage(s, k).data[a] = m[a]
         /\ Holders(s, a) = {} => s.store[a] = m[a]
<1>0. Positions(s) \subseteq Positions(s)
    OBVIOUS
<1>1. \A k \in Positions(s) : /\ s.free["big"][k] \in Numbers /\ IsFree(s, "big", s.free["big"][k])
                              /\ FreePage(s, k) = s.page["big"][s.free["big"][k]]
    BY <1>0, FreeNumbers DEF FreePage
<1>2. \A j, k \in Positions(s) : s.free["big"][j] = s.free["big"][k] => j = k
    BY Sizes DEF ShapeBut, Split, Once, Positions
<1>3. \A k \in Holders(s, a) : k \in Positions(s) /\ Holds(FreePage(s, k), a)
    BY DEF Holders
<1>4. \A k \in Positions(s) : View(s)[s.free["big"][k]] = FreePage(s, k)
    BY <1>1, ViewIs
<1> DEFINE P == View(s)
<1>5. /\ \A i, j \in Numbers : i # j => ~(Holds(P[i], a) /\ Holds(P[j], a))
      /\ \A i \in Numbers : Holds(P[i], a) => P[i].data[a] = m[a]
      /\ (\A i \in Numbers : ~Holds(P[i], a)) => s.store[a] = m[a]
    BY DEF Agrees, Consistent
<1>6. ASSUME Holders(s, a) = {} PROVE \A i \in Numbers : ~Holds(P[i], a)
  <2> SUFFICES ASSUME NEW i \in Numbers, Holds(P[i], a) PROVE FALSE
      OBVIOUS
  <2>1. IsFree(s, "big", i) /\ P[i] = s.page["big"][i]
      BY ViewIs
  <2> HIDE DEF P
  <2> QED BY <1>6, <2>1, HoldersAre
<1> HIDE DEF P
<1>7. \A k \in Positions(s) : P[s.free["big"][k]] = FreePage(s, k)
    BY <1>4 DEF P
<1>8. ASSUME NEW j \in Holders(s, a), NEW k \in Holders(s, a) PROVE j = k
    BY <1>1, <1>2, <1>3, <1>5, <1>7
<1>9. \A k \in Holders(s, a) : FreePage(s, k).data[a] = m[a]
    BY <1>1, <1>3, <1>5, <1>7
<1> QED BY <1>5, <1>6, <1>8, <1>9

(* copyRawData gives the byte of the memory below the locks.               *)
LEMMA RawByteIs ==
  ASSUME NEW s, NEW X, ShapeBut(s, X), NEW a \in Addr
  PROVE  RawByte(s, a) \in Val /\ \A m : Agrees(s, m) => RawByte(s, a) = m[a]
<1>1. s.store[a] \in Val
    BY StateFields DEF ShapeBut
<1>2. RawByte(s, a) = IF Holders(s, a) = {} THEN s.store[a] ELSE FreePage(s, Min(Holders(s, a))).data[a]
    BY DEF RawByte
<1>3. RawByte(s, a) \in Val
    BY <1>1, <1>2, HoldersAre
<1>4. ASSUME NEW m, Agrees(s, m) PROVE RawByte(s, a) = m[a]
  <2>1. /\ \A k \in Holders(s, a) : FreePage(s, k).data[a] = m[a]
        /\ Holders(s, a) = {} => s.store[a] = m[a]
      BY <1>4, OneHolder
  <2> QED BY <1>2, <2>1, HoldersAre
<1> QED BY <1>3, <1>4

(* saveRawData, page by page.                                              *)
PartOf(s, d, i) ==
    IF i \in Range(s.free["big"])
    THEN {a \in DOMAIN d : Holders(s, a) # {} /\ Min(Holders(s, a)) = (CHOOSE k \in Positions(s) : s.free["big"][k] = i)}
    ELSE {}
SavedPage(pg, d, part) ==
    IF part = {} THEN pg
    ELSE [pg EXCEPT !.dirty = @ \/ \E a \in part : pg.data[a] # d[a], !.data = Patch(@, Restrict(d, part))]
SavedPages(s, d) == [i \in Numbers |-> SavedPage(s.page["big"][i], d, PartOf(s, d, i))]
SavedStore(s, d) == Patch(s.store, Restrict(d, {a \in DOMAIN d : Holders(s, a) = {}}))

(* The bytes of d that a free page takes are those it holds.               *)
LEMMA PartIs ==
  ASSUME NEW s, NEW X, ShapeBut(s, X), NEW D, NEW d \in [D -> Val], NEW i \in Numbers
  PROVE  /\ ~IsFree(s, "big", i) => PartOf(s, d, i) = {}
         /\ PartOf(s, d, i) \subseteq D
         /\ \A a \in PartOf(s, d, i) : Holds(s.page["big"][i], a)
         /\ \A m : Agrees(s, m) => \A a \in D \cap Addr :
               a \in PartOf(s, d, i) <=> IsFree(s, "big", i) /\ Holds(s.page["big"][i], a)
<1>1. i \in Range(s.free["big"]) <=> IsFree(s, "big", i)
    BY DEF Range, IsFree, On
<1>2. CASE ~IsFree(s, "big", i)
    BY <1>1, <1>2 DEF PartOf
<1>3. CASE IsFree(s, "big", i)
  <2> DEFINE c == CHOOSE k \in Positions(s) : s.free["big"][k] = i
  <2>1. \E k \in Positions(s) : s.free["big"][k] = i
      BY <1>3 DEF IsFree, On, Positions
  <2>2. c \in Positions(s) /\ s.free["big"][c] = i
      BY <2>1
  <2>3. FreePage(s, c) = s.page["big"][i]
      BY <2>2 DEF FreePage
  <2>4. \A k \in Positions(s) : s.free["big"][k] = i => k = c
      BY <2>2, Sizes DEF ShapeBut, Split, Once, Positions
  <2>5. PartOf(s, d, i) = {a \in D : Holders(s, a) # {} /\ Min(Holders(s, a)) = c}
      BY <1>1, <1>3 DEF PartOf
  <2> HIDE DEF c
  <2>6. ASSUME NEW a \in PartOf(s, d, i) PROVE a \in D /\ Holds(s.page["big"][i], a)
    <3>1. c \in Holders(s, a)
        BY <2>5, HoldersAre
    <3> QED BY <2>3, <2>5, <3>1 DEF Holders
  <2>7. ASSUME NEW m, Agrees(s, m), NEW a \in D \cap Addr, Holds(s.page["big"][i], a) PROVE a \in PartOf(s, d, i)
    <3>1. c \in Holders(s, a)
        BY <2>2, <2>3, <2>7 DEF Holders
    <3>2. Min(Holders(s, a)) = c
        BY <2>7, <3>1, HoldersAre, OneHolder
    <3> QED BY <2>5, <2>7, <3>1, <3>2
  <2> QED BY <1>3, <2>6, <2>7
<1> QED BY <1>2, <1>3

(* What becomes of one page.                                               *)
LEMMA SavedPageIs ==
  ASSUME NEW pg \in AnyPage, NEW D, NEW d \in [D -> Val], NEW part, part \subseteq D,
         \A a \in part : Holds(pg, a)
  PROVE  /\ SavedPage(pg, d, part) \in AnyPage /\ (FreeOK(pg, "big") => FreeOK(SavedPage(pg, d, part), "big"))
         /\ DOMAIN SavedPage(pg, d, part).data = DOMAIN pg.data
         /\ \A a \in DOMAIN pg.data : SavedPage(pg, d, part).data[a] = IF a \in part THEN d[a] ELSE pg.data[a]
         /\ SavedPage(pg, d, part).start = pg.start
         /\ ~SavedPage(pg, d, part).dirty <=> ~pg.dirty /\ \A a \in part : pg.data[a] = d[a]
<1> DEFINE q == SavedPage(pg, d, part)
           e == Patch(pg.data, Restrict(d, part))
           b == pg.dirty \/ \E a \in part : pg.data[a] # d[a]
<1>1. PICK E \in SUBSET Addr : pg.data \in [E -> Val]
    BY DEF AnyPage, Bytes
<1>2. /\ e \in [E -> Val] /\ DOMAIN pg.data = E
      /\ \A a \in E : e[a] = IF a \in part THEN d[a] ELSE pg.data[a]
  <2>1. DOMAIN Restrict(d, part) = part /\ \A a \in part : Restrict(d, part)[a] = d[a] /\ d[a] \in Val
      BY DEF Restrict
  <2> QED BY <1>1, <2>1 DEF Patch
<1>3. e \in Bytes
    BY <1>1, <1>2, SomeBytes
<1>4. q = IF part = {} THEN pg ELSE [pg EXCEPT !.dirty = b, !.data = e]
    BY DEF SavedPage
<1>5. b \in BOOLEAN /\ (~b <=> ~pg.dirty /\ \A a \in part : pg.data[a] = d[a])
    BY DEF AnyPage
<1> HIDE DEF q, e, b
<1>6. CASE part = {}
    BY <1>1, <1>2, <1>4, <1>5, <1>6 DEF q
<1>7. CASE part # {}
  <2>1. q = [pg EXCEPT !.dirty = b, !.data = e]
      BY <1>4, <1>7
  <2>2. q \in AnyPage
      BY <1>3, <1>5, <2>1 DEF AnyPage
  <2>3. q.data = e /\ q.dirty = b /\ q.start = pg.start /\ q.size = pg.size /\ q.locks = pg.locks
      BY <2>1 DEF AnyPage
  <2>4. DOMAIN q.data = DOMAIN pg.data /\ \A a \in DOMAIN pg.data : q.data[a] = IF a \in part THEN d[a] ELSE pg.data[a]
      BY <1>2, <2>3
  <2>5. ~q.dirty <=> ~pg.dirty /\ \A a \in part : pg.data[a] = d[a]
      BY <1>5, <2>3
  <2>6. FreeOK(pg, "big") => FreeOK(q, "big")
    <3> SUFFICES ASSUME FreeOK(pg, "big") PROVE FreeOK(q, "big")
        OBVIOUS
    <3> DEFINE G(s0) == IF s0 = 0 THEN {} ELSE Span(s0, PageSize["big"]) \cap Addr
    <3>1. pg.data \in [G(pg.start) -> Val]
        BY DEF FreeOK
    <3>2. E = G(pg.start)
      <4> HIDE DEF G
      <4> QED BY <1>1, <3>1
    <3>3. q.data \in [G(q.start) -> Val]
        BY <1>2, <2>3, <3>2
    <3> QED BY <2>3, <3>3 DEF FreeOK
  <2> QED BY <2>2, <2>3, <2>4, <2>5, <2>6 DEF q
<1> QED BY <1>6, <1>7

(* saveRawData is below the locks and changes the bytes it is given.       *)
LEMMA Saves ==
  ASSUME NEW s, NEW X, ShapeBut(s, X), NEW D, D \subseteq Addr, NEW d \in [D -> Val]
  PROVE  /\ Below(s, SaveRawData(s, d)) /\ SaveRawData(s, d).failed = s.failed
         /\ SaveRawData(s, d).nextPageToSwap = s.nextPageToSwap
         /\ \A m : Agrees(s, m) => Agrees(SaveRawData(s, d), Patch(m, d))
<1> DEFINE B == SavedPages(s, d)
           S == SavedStore(s, d)
           u == SetBig(s, B)
           t == SetStore(u, S)
<1>1. s \in States /\ Numbers = Pages1("big") /\ s.page["big"] \in [Numbers -> AnyPage]
      /\ \A i \in Numbers : s.page["big"][i] \in AnyPage /\ (IsFree(s, "big", i) => FreeOK(s.page["big"][i], "big"))
  <2>1. s \in States /\ Numbers = Pages1("big")
      BY DEF ShapeBut, Numbers, N, Pages1
  <2> QED BY <2>1, StateFields, Sizes DEF ShapeBut
<1>2. SaveRawData(s, d) = t
  <2>1. [i \in DOMAIN s.page["big"] |->
            IF PartOf(s, d, i) = {} THEN s.page["big"][i]
            ELSE [s.page["big"][i] EXCEPT !.dirty = @ \/ \E a \in PartOf(s, d, i) : s.page["big"][i].data[a] # d[a],
                                !.data = Patch(@, Restrict(d, PartOf(s, d, i)))]] = B
      BY <1>1 DEF SavedPages, SavedPage
  <2> HIDE DEF B
  <2> QED BY <2>1 DEF SaveRawData, PartOf, SetBig, SetStore, SavedStore
<1>3. ASSUME NEW i \in Numbers
      PROVE  /\ B[i] = SavedPage(s.page["big"][i], d, PartOf(s, d, i)) /\ B[i] \in AnyPage
             /\ IsFree(s, "big", i) => FreeOK(B[i], "big")
             /\ ~IsFree(s, "big", i) => B[i] = s.page["big"][i]
             /\ DOMAIN B[i].data = DOMAIN s.page["big"][i].data
             /\ \A a \in DOMAIN s.page["big"][i].data :
                   B[i].data[a] = IF a \in PartOf(s, d, i) THEN d[a] ELSE s.page["big"][i].data[a]
             /\ B[i].start = s.page["big"][i].start
             /\ ~B[i].dirty <=> ~s.page["big"][i].dirty /\ \A a \in PartOf(s, d, i) : s.page["big"][i].data[a] = d[a]
  <2> DEFINE pg == s.page["big"][i]
             part == PartOf(s, d, i)
  <2>1. B[i] = SavedPage(pg, d, part)
      BY DEF SavedPages
  <2>2. part \subseteq D /\ (\A a \in part : Holds(pg, a)) /\ (~IsFree(s, "big", i) => part = {}) /\ pg \in AnyPage
      BY <1>1, PartIs
  <2> HIDE DEF B, pg, part
  <2>3. /\ B[i] \in AnyPage /\ (FreeOK(pg, "big") => FreeOK(B[i], "big"))
        /\ DOMAIN B[i].data = DOMAIN pg.data
        /\ \A a \in DOMAIN pg.data : B[i].data[a] = IF a \in part THEN d[a] ELSE pg.data[a]
        /\ B[i].start = pg.start
        /\ ~B[i].dirty <=> ~pg.dirty /\ \A a \in part : pg.data[a] = d[a]
      BY <2>1, <2>2, SavedPageIs
  <2>4. ~IsFree(s, "big", i) => B[i] = pg
      BY <2>1, <2>2 DEF SavedPage
  <2> QED BY <1>1, <2>1, <2>3, <2>4 DEF pg, part
<1>4. B = [i \in Numbers |-> B[i]]
    BY DEF SavedPages
<1>5. S \in [Addr -> Val] /\ \A a \in Addr : S[a] = IF a \in D /\ Holders(s, a) = {} THEN d[a] ELSE s.store[a]
  <2> DEFINE A == {a \in D : Holders(s, a) = {}}
  <2>1. DOMAIN Restrict(d, A) = A /\ \A a \in A : Restrict(d, A)[a] = d[a] /\ d[a] \in Val
      BY DEF Restrict
  <2>2. s.store \in [Addr -> Val]
      BY <1>1, StateFields
  <2>3. S = Patch(s.store, Restrict(d, A))
      BY DEF SavedStore
  <2> QED BY <2>1, <2>2, <2>3 DEF Patch
<1> HIDE DEF B, S
<1>6. B \in [Numbers -> AnyPage]
    BY <1>3, <1>4
<1>7. Below(s, u) /\ SameButPages(s, u) /\ u.page["big"] = B
    BY <1>3, <1>6, FreeBigChanged
<1>8. ShapeBut(u, X) /\ u.free = s.free
    BY <1>7, BelowShape DEF Below
<1> HIDE DEF u
<1>9. Below(u, t) /\ t.store = S /\ t.page = u.page /\ t.nextPageToSwap = u.nextPageToSwap /\ t.failed = u.failed
    BY <1>5, <1>8, StoreChanged
<1> HIDE DEF t
<1>10. Below(s, t) /\ t.failed = s.failed /\ t.nextPageToSwap = s.nextPageToSwap /\ t.page["big"] = B /\ t.free = s.free
    BY <1>7, <1>9, BelowTwice DEF SameButPages, Below
<1>11. ASSUME NEW m, Agrees(s, m) PROVE Agrees(t, Patch(m, d))
  <2> DEFINE P == View(s)
             Q == View(t)
             l == Patch(m, d)
  <2>1. ShapeBut(t, X)
      BY <1>10, BelowShape
  <2>2. /\ \A i \in Numbers : IsFree(s, "big", i) => P[i] = s.page["big"][i] /\ Q[i] = B[i]
        /\ \A i \in Numbers : ~IsFree(s, "big", i) => P[i] = Q[i] /\ (\A a : ~Holds(Q[i], a)) /\ (\A a : ~Holds(P[i], a))
    <3>1. \A i : IsFree(s, "big", i) <=> IsFree(t, "big", i)
        BY <1>10 DEF IsFree
    <3>2. /\ \A i \in Numbers : IsFree(s, "big", i) => P[i] = s.page["big"][i]
          /\ \A i \in Numbers : IsFree(t, "big", i) => Q[i] = t.page["big"][i]
          /\ \A i \in Numbers : ~IsFree(s, "big", i) => \A a : ~Holds(P[i], a)
          /\ \A i \in Numbers : ~IsFree(t, "big", i) => \A a : ~Holds(Q[i], a)
        BY <2>1, ViewIs
    <3>3. \A i \in Numbers : ~IsFree(s, "big", i) => P[i] = Q[i]
        BY <3>1 DEF View
    <3> QED BY <1>10, <3>1, <3>2, <3>3
  <2>3. Q \in [Numbers -> BigPage] /\ \A i \in Numbers : Q[i].data \in [HeldBy(Q[i]) -> Val]
      BY <2>1, ViewIs
  <2>4. m \in [Addr -> Val] /\ l \in [Addr -> Val] /\ \A a \in Addr : l[a] = IF a \in D THEN d[a] ELSE m[a]
      BY <1>11 DEF Agrees, Consistent, Patch
  <2>5. /\ \A i, j \in Numbers : i # j => \A a \in Addr : ~(Holds(P[i], a) /\ Holds(P[j], a))
        /\ \A i \in Numbers : \A a \in Addr : Holds(P[i], a) => P[i].data[a] = m[a]
        /\ \A a \in Addr : (\A i \in Numbers : Holds(P[i], a) => ~P[i].dirty) => s.store[a] = m[a]
      BY <1>11 DEF Agrees, Consistent
  <2> HIDE DEF P, Q, l
  <2>6. \A i \in Numbers : \A a : Holds(Q[i], a) <=> Holds(P[i], a)
      BY <1>3, <2>2 DEF Holds
  <2>7. ASSUME NEW i \in Numbers, NEW a \in Addr, Holds(Q[i], a)
        PROVE  /\ IsFree(s, "big", i) /\ Holds(s.page["big"][i], a)
               /\ Q[i].data[a] = l[a]
               /\ ~Q[i].dirty => ~P[i].dirty /\ (a \in D => d[a] = m[a]) /\ Holders(s, a) # {}
    <3>1. IsFree(s, "big", i) /\ Q[i] = B[i] /\ P[i] = s.page["big"][i] /\ Holds(P[i], a)
        BY <2>2, <2>6, <2>7
    <3>2. a \in D => a \in PartOf(s, d, i)
        BY <1>11, <3>1, PartIs
    <3>3. a \notin D => a \notin PartOf(s, d, i)
        BY PartIs
    <3>4. P[i].data[a] = m[a]
        BY <2>5, <3>1
    <3>5. Q[i].data[a] = l[a]
      <4>1. B[i].data[a] = IF a \in PartOf(s, d, i) THEN d[a] ELSE s.page["big"][i].data[a]
          BY <1>3, <3>1 DEF Holds
      <4> QED BY <2>4, <3>1, <3>2, <3>3, <3>4, <4>1
    <3>6. Holders(s, a) # {}
        BY <3>1, HoldersAre
    <3>7. ~Q[i].dirty => ~P[i].dirty /\ (a \in D => d[a] = m[a])
        BY <1>3, <3>1, <3>2, <3>4
    <3> QED BY <3>1, <3>5, <3>6, <3>7
  <2>8. ASSUME NEW a \in Addr, \A i \in Numbers : Holds(Q[i], a) => ~Q[i].dirty PROVE S[a] = l[a]
    <3>1. CASE \E i \in Numbers : Holds(Q[i], a)
      <4>1. PICK i \in Numbers : Holds(Q[i], a)
          BY <3>1
      <4>2. Holders(s, a) # {} /\ (a \in D => d[a] = m[a])
          BY <2>7, <2>8, <4>1
      <4>3. \A j \in Numbers : Holds(P[j], a) => ~P[j].dirty
          BY <2>6, <2>7, <2>8
      <4> QED BY <1>5, <2>4, <2>5, <4>2, <4>3
    <3>2. CASE \A i \in Numbers : ~Holds(Q[i], a)
      <4>1. s.store[a] = m[a]
          BY <2>5, <2>6, <3>2
      <4>2. Holders(s, a) = {}
        <5> SUFFICES ASSUME NEW k \in Holders(s, a) PROVE FALSE
            OBVIOUS
        <5>1. k \in Positions(s) /\ Holds(FreePage(s, k), a)
            BY DEF Holders
        <5>2. s.free["big"][k] \in Numbers /\ IsFree(s, "big", s.free["big"][k]) /\ FreePage(s, k) = s.page["big"][s.free["big"][k]]
            BY <5>1, OneNumber
        <5> QED BY <2>2, <2>6, <3>2, <5>1, <5>2
      <4> QED BY <1>5, <2>4, <4>1, <4>2
    <3> QED BY <3>1, <3>2
  <2>9. Consistent(S, Q, l)
      BY <1>5, <2>3, <2>4, <2>5, <2>6, <2>7, <2>8 DEF Consistent
  <2> QED BY <1>9, <2>9 DEF Agrees, Q, l
<1> QED BY <1>2, <1>10, <1>11

-----------------------------------------------------------------------------
(* Walks over the locked pages                                             *)

(* Induction up to n, for a set of numbers.                                *)
LEMMA UpTo ==
  ASSUME NEW n \in Nat, NEW G, 0 \in G, \A k \in 0 .. n : k # n /\ k \in G => k + 1 \in G
  PROVE  \A k \in 0 .. n : k \in G
<1> DEFINE Out == {k \in 0 .. n : k \notin G}
<1> SUFFICES ASSUME Out # {} PROVE FALSE
    OBVIOUS
<1>1. Out \subseteq Nat
    OBVIOUS
<1>2. PICK m \in Out : \A y \in Out : m <= y
  <2> HIDE DEF Out
  <2> QED BY <1>1, MinIsLeast
<1>3. m \in 0 .. n /\ m # 0
    BY <1>2
<1>4. m - 1 \in 0 .. n /\ m - 1 # n /\ m - 1 + 1 = m /\ ~(m <= m - 1)
    BY <1>3
<1>5. m - 1 \in G
    BY <1>2, <1>4
<1> QED BY <1>2, <1>4, <1>5

(* A page, by class and number, on the locked list of its class.           *)
IsLockedPage(s, q) ==
    /\ q[1] \in Class /\ q[2] \in Pages1(q[1]) /\ q = <<q[1], q[2]>>
    /\ IsLocked(s, q[1], q[2])

(* The locked pages of one class.                                          *)
LEMMA TaggedAre ==
  ASSUME NEW s, NEW X, ShapeBut(s, X), NEW c \in Class
  PROVE  /\ Tagged(s, c) \in Seq({c} \X Pages1(c)) /\ Once(Tagged(s, c))
         /\ \A q : On(q, Tagged(s, c)) <=> q[1] = c /\ IsLockedPage(s, q)
<1>1. s.locked[c] \in Seq(Pages1(c)) /\ Once(s.locked[c])
    BY DEF ShapeBut, Split, Pages1
<1>2. DOMAIN s.locked[c] = 1 .. Len(s.locked[c]) /\ Len(s.locked[c]) \in Nat
      /\ \A j \in DOMAIN s.locked[c] : s.locked[c][j] \in Pages1(c)
    BY <1>1
<1>3. DOMAIN Tagged(s, c) = DOMAIN s.locked[c] /\ \A j \in DOMAIN s.locked[c] : Tagged(s, c)[j] = <<c, s.locked[c][j]>>
    BY DEF Tagged
<1>4. Tagged(s, c) \in Seq({c} \X Pages1(c))
  <2>1. Tagged(s, c) = [j \in 1 .. Len(s.locked[c]) |-> <<c, s.locked[c][j]>>]
      BY <1>2 DEF Tagged
  <2>2. \A j \in 1 .. Len(s.locked[c]) : <<c, s.locked[c][j]>> \in {c} \X Pages1(c)
      BY <1>2
  <2> QED BY <1>2, <2>1, <2>2
<1>5. Once(Tagged(s, c))
    BY <1>1, <1>3 DEF Once
<1>6. ASSUME NEW q, On(q, Tagged(s, c)) PROVE q[1] = c /\ IsLockedPage(s, q)
  <2>1. PICK j \in DOMAIN s.locked[c] : q = <<c, s.locked[c][j]>>
      BY <1>3, <1>6 DEF On
  <2>2. q[1] = c /\ q[2] = s.locked[c][j]
      BY <2>1
  <2> QED BY <1>2, <2>1, <2>2 DEF IsLockedPage, IsLocked, On
<1>7. ASSUME NEW q, q[1] = c, IsLockedPage(s, q) PROVE On(q, Tagged(s, c))
  <2>1. PICK j \in DOMAIN s.locked[c] : s.locked[c][j] = q[2]
      BY <1>7 DEF IsLockedPage, IsLocked, On
  <2>2. Tagged(s, c)[j] = q
      BY <1>3, <1>7, <2>1 DEF IsLockedPage
  <2> QED BY <1>3, <2>1, <2>2 DEF On
<1> QED BY <1>4, <1>5, <1>6, <1>7

(* Two lists without a common element make one.                            *)
LEMMA Joined ==
  ASSUME NEW S, NEW F \in Seq(S), NEW G \in Seq(S), Once(F), Once(G), \A q : ~(On(q, F) /\ On(q, G))
  PROVE  F \o G \in Seq(S) /\ Once(F \o G) /\ \A q : On(q, F \o G) <=> On(q, F) \/ On(q, G)
<1> DEFINE H == F \o G
           f == Len(F)
           g == Len(G)
<1>1. /\ H \in Seq(S) /\ Len(H) = f + g
      /\ \A j \in 1 .. f + g : H[j] = IF j <= f THEN F[j] ELSE G[j - f]
    BY ConcatProperties
<1>2. f \in Nat /\ g \in Nat /\ DOMAIN F = 1 .. f /\ DOMAIN G = 1 .. g
    OBVIOUS
<1> HIDE DEF H
<1>3. DOMAIN H = 1 .. f + g
    BY <1>1, <1>2
<1> HIDE DEF f, g
<1>4. \A j \in 1 .. f + g : \/ j \in 1 .. f /\ H[j] = F[j]
                            \/ j - f \in 1 .. g /\ H[j] = G[j - f]
  <2> TAKE j \in 1 .. f + g
  <2>1. CASE j <= f
      BY <1>1, <1>2, <2>1
  <2>2. CASE ~(j <= f)
    <3>1. j - f \in 1 .. g
        BY <1>2, <2>2
    <3> QED BY <1>1, <2>2, <3>1
  <2> QED BY <2>1, <2>2
<1>5. (\A j \in 1 .. f : j \in 1 .. f + g /\ H[j] = F[j]) /\ (\A j \in 1 .. g : j + f \in 1 .. f + g /\ H[j + f] = G[j])
  <2>1. ASSUME NEW j \in 1 .. f PROVE j \in 1 .. f + g /\ H[j] = F[j]
      BY <1>1, <1>2
  <2>2. ASSUME NEW j \in 1 .. g PROVE j + f \in 1 .. f + g /\ H[j + f] = G[j]
    <3>1. j + f \in 1 .. f + g /\ ~(j + f <= f) /\ j + f - f = j
        BY <1>2
    <3> DEFINE k == j + f
    <3>2. k \in 1 .. f + g /\ ~(k <= f) /\ k - f = j
        BY <1>2
    <3> HIDE DEF k
    <3>3. H[k] = G[j]
        BY <1>1, <3>2
    <3> QED BY <3>2, <3>3 DEF k
  <2> QED BY <2>1, <2>2
<1>6. ASSUME NEW q PROVE On(q, H) <=> On(q, F) \/ On(q, G)
  <2>1. ASSUME NEW j \in 1 .. f + g, H[j] = q PROVE On(q, F) \/ On(q, G)
      BY <1>2, <1>4, <2>1 DEF On
  <2>2. ASSUME NEW j \in 1 .. f, F[j] = q PROVE On(q, H)
      BY <1>3, <1>5, <2>2 DEF On
  <2>3. ASSUME NEW j \in 1 .. g, G[j] = q PROVE On(q, H)
      BY <1>3, <1>5, <2>3 DEF On
  <2>4. On(q, H) => \E j \in 1 .. f + g : H[j] = q
      BY <1>3 DEF On
  <2>5. (On(q, F) => \E j \in 1 .. f : F[j] = q) /\ (On(q, G) => \E j \in 1 .. g : G[j] = q)
      BY <1>2 DEF On
  <2> QED BY <2>1, <2>2, <2>3, <2>4, <2>5
<1>7. Once(H)
  <2> SUFFICES ASSUME NEW i \in 1 .. f + g, NEW j \in 1 .. f + g, H[i] = H[j] PROVE i = j
      BY <1>3 DEF Once
  <2>1. CASE i \in 1 .. f /\ H[i] = F[i] /\ j \in 1 .. f /\ H[j] = F[j]
      BY <1>2, <2>1 DEF Once
  <2>2. CASE i - f \in 1 .. g /\ H[i] = G[i - f] /\ j - f \in 1 .. g /\ H[j] = G[j - f]
    <3>1. i - f = j - f
        BY <1>2, <2>2 DEF Once
    <3> QED BY <1>2, <3>1
  <2>3. CASE (i \in 1 .. f /\ H[i] = F[i]) /\ (j - f \in 1 .. g /\ H[j] = G[j - f])
      BY <1>2, <2>3 DEF On
  <2>4. CASE (j \in 1 .. f /\ H[j] = F[j]) /\ (i - f \in 1 .. g /\ H[i] = G[i - f])
      BY <1>2, <2>4 DEF On
  <2> QED BY <1>4, <2>1, <2>2, <2>3, <2>4
<1> QED BY <1>1, <1>6, <1>7 DEF H

(* The walk visits every locked page once.                                 *)
LEMMA LockedPagesAre ==
  ASSUME NEW s, NEW X, ShapeBut(s, X)
  PROVE  /\ Len(LockedPages(s)) \in Nat /\ DOMAIN LockedPages(s) = 1 .. Len(LockedPages(s)) /\ Once(LockedPages(s))
         /\ \A q : On(q, LockedPages(s)) <=> IsLockedPage(s, q)
         /\ \A j \in DOMAIN LockedPages(s) : IsLockedPage(s, LockedPages(s)[j])
<1> DEFINE A == Tagged(s, "small")
           B == Tagged(s, "medium")
           C == Tagged(s, "big")
           S == UNION {{c} \X Pages1(c) : c \in Class}
<1>1. /\ A \in Seq(S) /\ Once(A) /\ \A q : On(q, A) <=> q[1] = "small" /\ IsLockedPage(s, q)
      /\ B \in Seq(S) /\ Once(B) /\ \A q : On(q, B) <=> q[1] = "medium" /\ IsLockedPage(s, q)
      /\ C \in Seq(S) /\ Once(C) /\ \A q : On(q, C) <=> q[1] = "big" /\ IsLockedPage(s, q)
  <2>1. ASSUME NEW c \in Class
        PROVE  /\ Tagged(s, c) \in Seq(S) /\ Once(Tagged(s, c))
               /\ \A q : On(q, Tagged(s, c)) <=> q[1] = c /\ IsLockedPage(s, q)
    <3>1. /\ Tagged(s, c) \in Seq({c} \X Pages1(c)) /\ Once(Tagged(s, c))
          /\ \A q : On(q, Tagged(s, c)) <=> q[1] = c /\ IsLockedPage(s, q)
        BY TaggedAre
    <3>2. {c} \X Pages1(c) \subseteq S
        OBVIOUS
    <3>3. Tagged(s, c) \in Seq(S)
      <4> HIDE DEF S
      <4> QED BY <3>1, <3>2
    <3> QED BY <3>1, <3>3
  <2> HIDE DEF S
  <2> QED BY <2>1, Sizes
<1> HIDE DEF A, B, C, S
<1>2. A \o B \in Seq(S) /\ Once(A \o B) /\ \A q : On(q, A \o B) <=> On(q, A) \/ On(q, B)
  <2>1. \A q : ~(On(q, A) /\ On(q, B))
      BY <1>1
  <2> QED BY <1>1, <2>1, Joined
<1> DEFINE D == A \o B
<1> HIDE DEF D
<1>3. D \in Seq(S) /\ Once(D) /\ \A q : On(q, D) <=> On(q, A) \/ On(q, B)
    BY <1>2 DEF D
<1>4. D \o C \in Seq(S) /\ Once(D \o C) /\ \A q : On(q, D \o C) <=> On(q, D) \/ On(q, C)
  <2>1. \A q : ~(On(q, D) /\ On(q, C))
      BY <1>1, <1>3
  <2> QED BY <1>1, <1>3, <2>1, Joined
<1>5. LockedPages(s) = D \o C
    BY DEF LockedPages, A, B, C, D
<1>6. \A q : IsLockedPage(s, q) => q[1] \in {"small", "medium", "big"}
    BY DEF IsLockedPage, Class
<1> DEFINE L == LockedPages(s)
<1> HIDE DEF L
<1>7. L \in Seq(S) /\ Once(L) /\ \A q : On(q, L) <=> IsLockedPage(s, q)
    BY <1>1, <1>3, <1>4, <1>5, <1>6 DEF L
<1>8. Len(L) \in Nat /\ DOMAIN L = 1 .. Len(L)
    BY <1>7
<1>9. \A j \in DOMAIN L : IsLockedPage(s, L[j])
    BY <1>7 DEF On
<1> QED BY <1>7, <1>8, <1>9 DEF L

-----------------------------------------------------------------------------
(* What read() copies to the big pages                                     *)

(* Bytes l that are those of a page of Q where one has them, and those of  *)
(* m elsewhere.                                                            *)
Overlaid(s, l, m, Q) ==
    \A a \in Addr :
        IF \E q \in Q : Holds(PageAt(s, q), a)
        THEN \E q \in Q : Holds(PageAt(s, q), a) /\ l[a] = PageAt(s, q).data[a]
        ELSE l[a] = m[a]
MirroredAs(s, t, Q) ==
    /\ Below(s, t)
    /\ s.free["big"] # <<>> => t.failed = s.failed
    /\ s.free["big"] # <<>> /\ ~s.failed =>
          \A m : Agrees(s, m) => \E l : Agrees(t, l) /\ Overlaid(s, l, m, Q)

(* A locked page stays as it is when what is below the locks changes.      *)
LEMMA BelowLocked ==
  ASSUME NEW s, NEW t, NEW X, ShapeBut(s, X), Below(s, t), NEW q, IsLockedPage(s, q)
  PROVE  IsLockedPage(t, q) /\ PageAt(t, q) = PageAt(s, q)
<1> DEFINE c == q[1]
           i == q[2]
<1>1. c \in Class /\ i \in Pages1(c) /\ IsLocked(s, c, i)
    BY DEF IsLockedPage
<1>2. ~IsFree(s, c, i)
    BY <1>1 DEF IsFree, IsLocked, ShapeBut, Split, Pages1
<1>3. t.page[c][i] = s.page[c][i]
    BY <1>1, <1>2 DEF Below
<1> QED BY <1>3 DEF Below, IsLockedPage, IsLocked, PageAt

(* One locked page is copied.                                              *)
LEMMA PushesLocked ==
  ASSUME NEW s, ShapeBut(s, {}), NEW q, IsLockedPage(s, q)
  PROVE  /\ PushedAs(s, PushLocked(s, q), PageAt(s, q).data)
         /\ DOMAIN PageAt(s, q).data \subseteq Addr
<1> DEFINE pg == PageAt(s, q)
<1>1. q[1] \in Class /\ q[2] \in Pages1(q[1]) /\ LockedOK(pg, q[1])
  <2>1. q = <<q[1], q[2]>> /\ q[1] \in Class /\ q[2] \in Pages1(q[1]) /\ IsLocked(s, q[1], q[2])
      BY DEF IsLockedPage
  <2>2. LockedOK(s.page[q[1]][q[2]], q[1])
      BY <2>1 DEF ShapeBut
  <2> QED BY <2>1, <2>2 DEF PageAt
<1>2. pg \in AnyPage
    BY <1>1, StateFields DEF PageAt, ShapeBut
<1>3. PushLocked(s, q) = PushRawData(s, pg.start, pg.size, pg.data)
    BY DEF PushLocked
<1> HIDE DEF pg
<1>4. pg.start \in Addr \ {0} /\ pg.size \in 1 .. BigSize /\ Span(pg.start, pg.size) \subseteq Addr
      /\ pg.data \in [Span(pg.start, pg.size) -> Val]
    BY <1>1, <1>2, Sizes DEF LockedOK, LockSpan, AnyPage
<1>5. PushedAs(s, PushRawData(s, pg.start, pg.size, pg.data), pg.data)
    BY <1>4, Pushes
<1>6. DOMAIN pg.data \subseteq Addr
    BY <1>4
<1> QED BY <1>3, <1>5, <1>6 DEF pg

(* The walk of read().                                                     *)
MirrorStep(t, q, Q) == IF t.failed \/ q \notin Q THEN t ELSE PushLocked(t, q)
IsMirror(f, s, Q, order, n) ==
    f = [k \in 0 .. n |-> IF k = 0 THEN s ELSE MirrorStep(f[k - 1], order[k], Q)]
(* The recursive function of mirroring exists.                             *)
LEMMA MirrorExists ==
  ASSUME NEW s, NEW Q, NEW order, NEW n \in Nat
  PROVE  \E f : IsMirror(f, s, Q, order, n)
<1> DEFINE G == {k \in 0 .. n : \E f : IsMirror(f, s, Q, order, k)}
<1>1. 0 \in G
  <2> DEFINE f == [k \in 0 .. 0 |-> s]
  <2>1. f = [k \in 0 .. 0 |-> IF k = 0 THEN s ELSE MirrorStep(f[k - 1], order[k], Q)]
      OBVIOUS
  <2> HIDE DEF f
  <2>2. IsMirror(f, s, Q, order, 0)
      BY <2>1 DEF IsMirror
  <2> QED BY <2>2
<1>2. ASSUME NEW k \in 0 .. n, k # n, k \in G PROVE k + 1 \in G
  <2>1. PICK f : IsMirror(f, s, Q, order, k)
      BY <1>2
  <2> DEFINE g == [j \in 0 .. k + 1 |-> IF j = k + 1 THEN MirrorStep(f[k], order[k + 1], Q) ELSE f[j]]
             e == [j \in 0 .. k + 1 |-> IF j = 0 THEN s ELSE MirrorStep(g[j - 1], order[j], Q)]
  <2>2. ASSUME NEW j \in 0 .. k + 1 PROVE g[j] = e[j]
    <3>1. CASE j = k + 1
      <4>1. j # 0 /\ j - 1 = k /\ k \in 0 .. k + 1 /\ k # k + 1
          BY <3>1
      <4> QED BY <3>1, <4>1
    <3>2. CASE j # k + 1
      <4>1. j \in 0 .. k /\ g[j] = f[j]
          BY <3>2
      <4>2. f[j] = IF j = 0 THEN s ELSE MirrorStep(f[j - 1], order[j], Q)
          BY <2>1, <4>1 DEF IsMirror
      <4>3. j # 0 => j - 1 \in 0 .. k + 1 /\ g[j - 1] = f[j - 1]
          BY <4>1
      <4> QED BY <4>1, <4>2, <4>3
    <3> QED BY <3>1, <3>2
  <2>3. g = e
      BY <2>2
  <2> HIDE DEF g
  <2>4. IsMirror(g, s, Q, order, k + 1)
      BY <2>3 DEF IsMirror
  <2>5. k + 1 \in 0 .. n
      BY <1>2
  <2> QED BY <2>4, <2>5
<1> HIDE DEF G
<1>3. n \in G
    BY <1>1, <1>2, UpTo
<1> QED BY <1>3 DEF G

(* read() copies locked pages to the big ones: below the locks.            *)
LEMMA Mirrors ==
  ASSUME NEW s, ShapeBut(s, {}), NEW Q, \A q \in Q : IsLockedPage(s, q)
  PROVE  MirroredAs(s, Mirror(s, Q), Q)
<1> DEFINE order == LockedPages(s)
           n == Len(order)
           after == CHOOSE f : IsMirror(f, s, Q, order, n)
           W(k) == {q \in Q : \E j \in 1 .. k : order[j] = q}
<1>1. n \in Nat /\ DOMAIN order = 1 .. n /\ \A q : On(q, order) <=> IsLockedPage(s, q)
    BY LockedPagesAre
<1>2. IsMirror(after, s, Q, order, n)
    BY <1>1, MirrorExists
<1>3. Mirror(s, Q) = IF Q = {} THEN s ELSE after[n]
    BY DEF Mirror, IsMirror, MirrorStep
<1> HIDE DEF after
<1>4. MirroredAs(s, s, {})
    BY BelowSelf DEF MirroredAs, Overlaid
<1>5. CASE Q = {}
    BY <1>3, <1>4, <1>5
<1>6. CASE Q # {}
  <2> DEFINE G == {k \in 0 .. n : MirroredAs(s, after[k], W(k))}
  <2>1. after[0] = s /\ \A k \in 1 .. n : after[k] = MirrorStep(after[k - 1], order[k], Q)
    <3>1. 0 \in 0 .. n /\ \A k \in 1 .. n : k \in 0 .. n /\ k # 0
        BY <1>1
    <3> QED BY <1>2, <3>1 DEF IsMirror
  <2>2. 0 \in G
    <3>1. W(0) = {} /\ 0 \in 0 .. n
        BY <1>1
    <3> QED BY <1>4, <2>1, <3>1
  <2>3. ASSUME NEW k \in 0 .. n, k # n, k \in G PROVE k + 1 \in G
    <3> HIDE DEF n, G
    <3>1. k + 1 \in 1 .. n /\ k + 1 \in 0 .. n /\ k + 1 - 1 = k
        BY <1>1, <2>3
    <3> USE DEF n, G
    <3> DEFINE t == after[k]
               u == after[k + 1]
               p == order[k + 1]
    <3>2. u = MirrorStep(t, p, Q)
        BY <2>1, <3>1
    <3>3. MirroredAs(s, t, W(k))
        BY <2>3
    <3>4. W(k + 1) = IF p \in Q THEN W(k) \cup {p} ELSE W(k)
      <4>1. \A j : j \in 1 .. k + 1 <=> j \in 1 .. k \/ j = k + 1
          BY <1>1
      <4> QED BY <4>1
    <3>5. IsLockedPage(s, p)
        BY <1>1, <3>1 DEF On
    <3> DEFINE V == W(k)
    <3>6. MirroredAs(s, t, V) /\ W(k + 1) = IF p \in Q THEN V \cup {p} ELSE V
        BY <3>3, <3>4
    <3> HIDE DEF t, u, p, W, V
    <3>7. CASE p \notin Q
      <4>1. u = t /\ W(k + 1) = V
          BY <3>2, <3>6, <3>7 DEF MirrorStep
      <4> QED BY <3>1, <3>6, <4>1 DEF u
    <3>8. CASE p \in Q
      <4>1. MirroredAs(s, u, V \cup {p})
        <5>1. Below(s, t) /\ s \in States /\ t \in States
            BY <3>6 DEF MirroredAs, Below, ShapeBut
        <5>2. s.failed \in BOOLEAN /\ t.failed \in BOOLEAN
            BY <5>1, StateFields
        <5>3. CASE t.failed
          <6>1. u = t
              BY <3>2, <5>3 DEF MirrorStep
          <6> QED BY <3>6, <5>1, <5>2, <5>3, <6>1 DEF MirroredAs
        <5>4. CASE ~t.failed
          <6>1. u = PushLocked(t, p)
              BY <3>2, <3>8, <5>4 DEF MirrorStep
          <6>2. ShapeBut(t, {}) /\ IsLockedPage(t, p) /\ PageAt(t, p) = PageAt(s, p) /\ t.free = s.free
              BY <3>5, <5>1, BelowShape, BelowLocked DEF Below
          <6> DEFINE d == PageAt(s, p).data
          <6>3. PushedAs(t, u, d) /\ DOMAIN d \subseteq Addr
              BY <6>1, <6>2, PushesLocked
          <6>4. \A a : a \in DOMAIN d <=> Holds(PageAt(s, p), a)
              BY DEF Holds
          <6> HIDE DEF d
          <6>5. Below(s, u)
              BY <5>1, <6>3, BelowTwice DEF PushedAs
          <6>6. s.free["big"] # <<>> => u.failed = s.failed
              BY <3>6, <6>2, <6>3 DEF PushedAs, MirroredAs
          <6>7. ASSUME s.free["big"] # <<>>, ~s.failed, NEW m, Agrees(s, m)
                PROVE  \E l : Agrees(u, l) /\ Overlaid(s, l, m, V \cup {p})
            <7>1. PICK l : Agrees(t, l) /\ Overlaid(s, l, m, V)
                BY <3>6, <6>7 DEF MirroredAs
            <7>2. Agrees(u, Patch(l, d))
                BY <5>4, <6>2, <6>3, <6>7, <7>1 DEF PushedAs
            <7>3. \A a \in Addr : Patch(l, d)[a] = IF a \in DOMAIN d THEN d[a] ELSE l[a]
                BY <7>1 DEF Agrees, Consistent, Patch
            <7>4. Overlaid(s, Patch(l, d), m, V \cup {p})
              <8> DEFINE e == Patch(l, d)
              <8>1. \A a \in Addr : e[a] = IF a \in DOMAIN d THEN d[a] ELSE l[a]
                  BY <7>3
              <8> HIDE DEF e
              <8> SUFFICES ASSUME NEW a \in Addr
                           PROVE  IF \E q \in V \cup {p} : Holds(PageAt(s, q), a)
                                  THEN \E q \in V \cup {p} : Holds(PageAt(s, q), a) /\ e[a] = PageAt(s, q).data[a]
                                  ELSE e[a] = m[a]
                  BY DEF Overlaid, e
              <8>2. CASE a \in DOMAIN d
                  BY <6>4, <8>1, <8>2 DEF d
              <8>3. CASE a \notin DOMAIN d
                <9>1. e[a] = l[a] /\ ~Holds(PageAt(s, p), a)
                    BY <6>4, <8>1, <8>3
                <9>2. IF \E q \in V : Holds(PageAt(s, q), a)
                      THEN \E q \in V : Holds(PageAt(s, q), a) /\ l[a] = PageAt(s, q).data[a]
                      ELSE l[a] = m[a]
                    BY <7>1 DEF Overlaid
                <9> QED BY <9>1, <9>2
              <8> QED BY <8>2, <8>3
            <7> QED BY <7>2, <7>4
          <6> QED BY <6>5, <6>6, <6>7 DEF MirroredAs
        <5> QED BY <5>3, <5>4
      <4>2. W(k + 1) = V \cup {p}
          BY <3>6, <3>8
      <4> QED BY <3>1, <4>1, <4>2 DEF u
    <3> QED BY <3>7, <3>8
  <2>7. n \in Nat
      BY <1>1
  <2> HIDE DEF G, n, order
  <2>8. n \in 0 .. n
      BY <2>7
  <2>9. \A k \in 0 .. n : k # n /\ k \in G => k + 1 \in G
      BY <2>3
  <2>10. \A k \in 0 .. n : k \in G
      BY <2>2, <2>7, <2>9, UpTo
  <2>4. n \in G
      BY <2>8, <2>10
  <2> USE DEF n, order
  <2>5. MirroredAs(s, after[n], W(n))
      BY <2>4 DEF G
  <2>6. W(n) = Q
      BY <1>1 DEF On
  <2> QED BY <1>3, <1>6, <2>5, <2>6
<1> QED BY <1>5, <1>6

-----------------------------------------------------------------------------
(* makeDataLock()                                                          *)

(* Every page counts the locks it did.                                     *)
SameLocks(s, t) == \A c \in Class : \A i \in Pages1(c) : t.page[c][i].locks = s.page[c][i].locks

(* From s to t pages without locks left the locked lists, and what is      *)
(* below the locks changed.                                                *)
Settled(s, t) ==
    /\ ShapeBut(t, {}) /\ t.failed = s.failed /\ t.overrun = s.overrun
    /\ SameLocks(s, t)
    /\ \A q : IsLockedPage(t, q) => IsLockedPage(s, q) /\ PageAt(t, q) = PageAt(s, q)

(* The lists of a class are replaced.                                      *)
Relink(s, c, F, L, y) == [s EXCEPT !.locked[c] = L, !.free[c] = F, !.nextPageToSwap = y]
Relinked(s, t, c, F, L, y) ==
    /\ t \in States /\ t.store = s.store /\ t.page = s.page /\ t.failed = s.failed /\ t.overrun = s.overrun
    /\ t.free[c] = F /\ t.locked[c] = L /\ t.nextPageToSwap = y
    /\ \A d \in Class : d # c => t.free[d] = s.free[d] /\ t.locked[d] = s.locked[d]
(* Only the lists of the class are other ones.                             *)
LEMMA RelinkIs ==
  ASSUME NEW s \in States, NEW c \in Class, NEW F \in Seq(Nat), NEW L \in Seq(Nat), NEW y \in Nat
  PROVE  Relinked(s, Relink(s, c, F, L, y), c, F, L, y)
<1> DEFINE t == Relink(s, c, F, L, y)
<1> SUFFICES Relinked(s, t, c, F, L, y)
    OBVIOUS
<1>1. [s.free EXCEPT ![c] = F] \in [Class -> Seq(Nat)] /\ [s.locked EXCEPT ![c] = L] \in [Class -> Seq(Nat)]
    BY DEF States
<1>2. t = [s EXCEPT !.locked = [s.locked EXCEPT ![c] = L], !.free = [s.free EXCEPT ![c] = F], !.nextPageToSwap = y]
    BY DEF Relink
<1>3. s.free \in [Class -> Seq(Nat)] /\ s.locked \in [Class -> Seq(Nat)]
    BY DEF States
<1> HIDE DEF t
<1>4. t \in States
    BY <1>1, <1>2 DEF States
<1> QED BY <1>2, <1>3, <1>4 DEF States, Relinked

(* A page leaves one list for the other: which is which does not matter.   *)
LEMMA SplitSwaps ==
  ASSUME NEW F, NEW L, NEW m, Split(F, L, m) PROVE Split(L, F, m)
<1>1. Len(F) \in Nat /\ Len(L) \in Nat /\ Len(L) + Len(F) = Len(F) + Len(L)
    BY DEF Split
<1>2. Len(L) + Len(F) = m
    BY <1>1 DEF Split
<1> QED BY <1>2 DEF Split

(* Settled is reflexive and transitive; what happens below the locks is    *)
(* part of it.                                                             *)
LEMMA SettledTwice ==
  ASSUME NEW s, NEW t, NEW u, Settled(s, t), Settled(t, u) PROVE Settled(s, u)
BY DEF Settled, SameLocks
(* A change below the locks settles nothing else.                          *)
LEMMA BelowSettled ==
  ASSUME NEW s, NEW t, ShapeBut(s, {}), Below(s, t), t.failed = s.failed
  PROVE  Settled(s, t) /\ \A q : IsLockedPage(t, q) <=> IsLockedPage(s, q)
<1>1. ShapeBut(t, {}) /\ t.overrun = s.overrun
    BY BelowShape DEF Below
<1>2. \A q : IsLockedPage(t, q) <=> IsLockedPage(s, q)
    BY DEF Below, IsLockedPage, IsLocked
<1>3. \A q : IsLockedPage(t, q) => PageAt(t, q) = PageAt(s, q)
    BY <1>2, BelowLocked
<1>4. SameLocks(s, t)
  <2> SUFFICES ASSUME NEW c \in Class, NEW i \in Pages1(c) PROVE t.page[c][i].locks = s.page[c][i].locks
      BY DEF SameLocks
  <2>1. CASE c = "big" /\ IsFree(s, "big", i)
    <3>1. FreeOK(s.page[c][i], c) /\ FreeOK(t.page[c][i], c)
        BY <2>1 DEF ShapeBut, Below
    <3> QED BY <3>1 DEF FreeOK
  <2>2. CASE ~(c = "big" /\ IsFree(s, "big", i))
      BY <2>2 DEF Below
  <2> QED BY <2>1, <2>2
<1> QED BY <1>1, <1>2, <1>3, <1>4 DEF Settled

(* A locked page, and the data it passes on.                               *)
LEMMA LockedPageIs ==
  ASSUME NEW s, NEW X, ShapeBut(s, X), NEW c \in Class, NEW i \in Pages1(c), IsLocked(s, c, i), <<c, i>> \notin X
  PROVE  /\ LockedOK(s.page[c][i], c) /\ s.page[c][i] \in AnyPage /\ ~IsFree(s, c, i)
         /\ s.page[c][i].data \in [LockSpan(s.page[c][i]) -> Val] /\ LockSpan(s.page[c][i]) \subseteq Addr
<1>1. LockedOK(s.page[c][i], c) /\ s.page[c][i] \in AnyPage
    BY StateFields DEF ShapeBut
<1>2. ~IsFree(s, c, i)
    BY DEF ShapeBut, Split, IsLocked, IsFree, Pages1
<1> QED BY <1>1, <1>2 DEF LockedOK

(* The bytes of a dirty page go below the locks.                           *)
SyncedAs(s, t, pg) ==
    /\ Below(s, t) /\ t.failed = s.failed /\ t.nextPageToSwap = s.nextPageToSwap
    /\ \A m : Agrees(s, m) => Agrees(t, IF pg.dirty THEN Patch(m, pg.data) ELSE m)
(* syncLockedPage() copies them, and changes nothing above.                *)
LEMMA SyncsLocked ==
  ASSUME NEW s, NEW X, ShapeBut(s, X), NEW c \in Class, NEW i \in Pages1(c), IsLocked(s, c, i), <<c, i>> \notin X
  PROVE  SyncedAs(s, SyncLockedPage(s, c, i), s.page[c][i])
<1> DEFINE pg == s.page[c][i]
<1> SUFFICES SyncedAs(s, SyncLockedPage(s, c, i), pg)
    OBVIOUS
<1>1. SyncLockedPage(s, c, i) = IF pg.dirty THEN SaveRawData(s, pg.data) ELSE s
    BY DEF SyncLockedPage, PageOf
<1>2. pg.data \in [LockSpan(pg) -> Val] /\ LockSpan(pg) \subseteq Addr
    BY LockedPageIs
<1> HIDE DEF pg
<1>3. CASE pg.dirty
    BY <1>1, <1>2, <1>3, Saves DEF SyncedAs
<1>4. CASE ~pg.dirty
    BY <1>1, <1>4, BelowSelf DEF SyncedAs
<1> QED BY <1>3, <1>4

(* What is below the locks when a page has passed its bytes on.            *)
Passed(pg, m) == IF pg.dirty THEN Patch(m, pg.data) ELSE m

(* freeLockedPage gives an unused page back to its class; one that is not  *)
(* as large as a big page passes its bytes on.                             *)
Freed(s, t, c, i) ==
    /\ Settled(s, t)
    /\ \A q : IsLockedPage(t, q) <=> IsLockedPage(s, q) /\ q # <<c, i>>
    /\ t.free[c] # <<>> /\ \A d \in Class : d # c => t.free[d] = s.free[d]
    /\ s.page[c][i].size < BigSize => \A m : Agrees(s, m) => Agrees(t, Passed(s.page[c][i], m))
FreedPage(s, c, i) ==
    IF c # "big" \/ s.page[c][i].size < BigSize
    THEN [[s.page[c][i] EXCEPT !.locks = 0] EXCEPT !.start = 0, !.size = PageSize[c], !.data = <<>>]
    ELSE [s.page[c][i] EXCEPT !.locks = 0]
(* A page that is given back is well-formed on the free list.              *)
LEMMA FreedPageIs ==
  ASSUME NEW s, ShapeBut(s, {}), NEW c \in Class, NEW i \in Pages1(c), IsLocked(s, c, i)
  PROVE  FreedPage(s, c, i) \in AnyPage /\ FreeOK(FreedPage(s, c, i), c) /\ FreedPage(s, c, i).locks = 0
<1> DEFINE pg == s.page[c][i]
           fp == FreedPage(s, c, i)
<1> SUFFICES fp \in AnyPage /\ FreeOK(fp, c)
    BY DEF FreeOK
<1>5. <<c, i>> \notin {}
    OBVIOUS
<1>1. pg \in AnyPage /\ LockedOK(pg, c)
    BY <1>5, LockedPageIs
<1>2. fp = IF c # "big" \/ pg.size < BigSize
           THEN [[pg EXCEPT !.locks = 0] EXCEPT !.start = 0, !.size = PageSize[c], !.data = <<>>]
           ELSE [pg EXCEPT !.locks = 0]
    BY DEF FreedPage
<1> HIDE DEF pg, fp
<1>3. CASE c # "big" \/ pg.size < BigSize
  <2>1. fp = [[pg EXCEPT !.locks = 0] EXCEPT !.start = 0, !.size = PageSize[c], !.data = <<>>]
      BY <1>2, <1>3
  <2>2. fp \in AnyPage
      BY <1>1, <2>1, Sizes, NoBytes DEF AnyPage
  <2>3. fp.start = 0 /\ fp.size = PageSize[c] /\ fp.locks = 0 /\ fp.data = <<>>
      BY <1>1, <2>1 DEF AnyPage
  <2> QED BY <2>2, <2>3, NoBytes DEF FreeOK
<1>4. CASE ~(c # "big" \/ pg.size < BigSize)
  <2>1. fp = [pg EXCEPT !.locks = 0] /\ c = "big"
      BY <1>2, <1>4
  <2>2. pg.size = PageSize[c] /\ pg.start \in Addr /\ pg.start # 0
      BY <1>1, <1>4, Sizes DEF AnyPage, LockedOK
  <2>3. fp \in AnyPage
      BY <1>1, <2>1 DEF AnyPage
  <2>4. fp.start = pg.start /\ fp.size = PageSize[c] /\ fp.locks = 0 /\ fp.data = pg.data
      BY <1>1, <2>1, <2>2 DEF AnyPage
  <2>5. LockSpan(pg) = Span(pg.start, PageSize[c]) \cap Addr
      BY <1>1, <2>2 DEF LockedOK, LockSpan
  <2>6. pg.data \in [Span(pg.start, PageSize[c]) \cap Addr -> Val]
      BY <1>1, <2>5 DEF LockedOK
  <2> QED BY <2>2, <2>3, <2>4, <2>6 DEF FreeOK
<1> QED BY <1>3, <1>4

(* What is emptied was written back before.                                *)
SyncedToFree(s, c, i) ==
    IF c # "big" \/ s.page[c][i].size < BigSize THEN SyncLockedPage(s, c, i) ELSE s

(* freeLockedPage does not look at the number of locks.                    *)
FreedAny(s, t, c, i) ==
    /\ ShapeBut(t, {}) /\ t.failed = s.failed /\ t.overrun = s.overrun
    /\ t.page[c][i].locks = 0
    /\ \A d \in Class : \A j \in Pages1(d) : <<d, j>> # <<c, i>> => t.page[d][j].locks = s.page[d][j].locks
    /\ \A q : IsLockedPage(t, q) <=> IsLockedPage(s, q) /\ q # <<c, i>>
    /\ \A q : IsLockedPage(t, q) => PageAt(t, q) = PageAt(s, q)
    /\ t.free[c] # <<>> /\ \A d \in Class : d # c => t.free[d] = s.free[d]
    /\ s.page[c][i].size < BigSize => \A m : Agrees(s, m) => Agrees(t, Passed(s.page[c][i], m))
(* freeLockedPage() moves the page and passes its bytes on.                *)
LEMMA FreesAny ==
  ASSUME NEW s, ShapeBut(s, {}), NEW c \in Class, NEW i \in Pages1(c), IsLocked(s, c, i)
  PROVE  FreedAny(s, FreeLockedPage(s, c, i), c, i)
<1> DEFINE u == SyncedToFree(s, c, i)
           fp == FreedPage(s, c, i)
           v == SetPage(u, c, i, fp)
           k == CHOOSE j \in DOMAIN v.locked[c] : v.locked[c][j] = i
           y == IF c = "big" /\ v.nextPageToSwap = 0 THEN i ELSE v.nextPageToSwap
           t == FreeLockedPage(s, c, i)
<1> SUFFICES FreedAny(s, t, c, i)
    OBVIOUS
<1>1. Below(s, u) /\ u.failed = s.failed /\ u \in States
  <2>1. <<c, i>> \notin {}
      OBVIOUS
  <2>2. Below(s, SyncLockedPage(s, c, i)) /\ SyncLockedPage(s, c, i).failed = s.failed
      BY <2>1, SyncsLocked DEF SyncedAs
  <2> QED BY <2>2, BelowSelf DEF SyncedToFree, Below
<1>2. fp \in AnyPage /\ FreeOK(fp, c) /\ fp.locks = 0
    BY FreedPageIs
<1>3. t = Relink(v, c, <<i>> \o v.free[c], RemoveAt(v.locked[c], k), y)
    BY DEF FreeLockedPage, Relink, Unlink, SyncedToFree, FreedPage, PageOf
<1>4. /\ v \in States /\ SameButPages(u, v) /\ v.page[c][i] = fp
      /\ \A d \in Class : \A j \in Pages1(d) : <<d, j>> # <<c, i>> => v.page[d][j] = u.page[d][j]
  <2> HIDE DEF u, fp
  <2> QED BY <1>1, <1>2, SetPageIs
<1> HIDE DEF u, fp, v, t
<1>5. ShapeBut(u, {}) /\ v.free = s.free /\ v.locked = s.locked
    BY <1>1, <1>4, BelowShape DEF Below, SameButPages
<1>6. k \in DOMAIN v.locked[c] /\ v.locked[c][k] = i
    BY <1>5 DEF IsLocked, On
<1>7. Split(v.locked[c], v.free[c], PageCount[c])
    BY <1>5, SplitSwaps DEF ShapeBut
<1> HIDE DEF k
<1>8. /\ Split(<<i>> \o v.free[c], RemoveAt(v.locked[c], k), PageCount[c])
      /\ \A j : On(j, RemoveAt(v.locked[c], k)) <=> On(j, v.locked[c]) /\ j # i
      /\ \A j : On(j, <<i>> \o v.free[c]) <=> On(j, v.free[c]) \/ j = i
  <2> DEFINE A == v.locked[c]
             B == v.free[c]
             x == A[k]
  <2>1. PageCount[c] \in Nat /\ Split(A, B, PageCount[c]) /\ k \in DOMAIN A
      BY <1>6, <1>7, Sizes
  <2> HIDE DEF A, B
  <2>2. /\ Split(<<x>> \o B, RemoveAt(A, k), PageCount[c])
        /\ \A j : On(j, RemoveAt(A, k)) <=> On(j, A) /\ j # x
        /\ \A j : On(j, <<x>> \o B) <=> On(j, B) \/ j = x
      BY <2>1, Moved
  <2>3. x = i
      BY <1>6 DEF A
  <2> HIDE DEF x
  <2> QED BY <2>2, <2>3 DEF A, B
<1> DEFINE F == <<i>> \o v.free[c]
           L == RemoveAt(v.locked[c], k)
<1>9. F \in Seq(Nat) /\ L \in Seq(Nat) /\ y \in Nat
  <2>1. F \in Seq(1 .. PageCount[c]) /\ L \in Seq(1 .. PageCount[c]) /\ 1 .. PageCount[c] \subseteq Nat
      BY <1>8, Sizes DEF Split
  <2>2. i \in Nat /\ v.nextPageToSwap \in Nat
      BY <1>4, Sizes, StateFields DEF Pages1
  <2>3. F \in Seq(Nat) /\ L \in Seq(Nat)
    <3> HIDE DEF F, L
    <3> QED BY <2>1, SeqMonotonic
  <2> QED BY <2>2, <2>3
<1>10. On(i, F) /\ On(i, s.locked[c])
    BY <1>8 DEF IsLocked
<1> HIDE DEF F, L
<1>23. Relinked(v, t, c, F, L, y)
  <2> HIDE DEF y
  <2>1. t = Relink(v, c, F, L, y)
      BY <1>3 DEF F, L, y
  <2> QED BY <1>4, <1>9, <2>1, RelinkIs
<1>11. /\ t \in States /\ t.page = v.page /\ t.failed = v.failed /\ t.overrun = v.overrun
       /\ t.free[c] = F /\ t.locked[c] = L /\ t.nextPageToSwap = y
       /\ \A d \in Class : d # c => t.free[d] = v.free[d] /\ t.locked[d] = v.locked[d]
    BY <1>23 DEF Relinked
<1>12. /\ \A j : On(j, L) <=> On(j, s.locked[c]) /\ j # i
       /\ \A j : On(j, F) <=> On(j, s.free[c]) \/ j = i
       /\ Split(F, L, PageCount[c])
    BY <1>5, <1>8 DEF F, L
<1>13. \A q : IsLockedPage(t, q) <=> IsLockedPage(s, q) /\ q # <<c, i>>
    BY <1>5, <1>11, <1>12 DEF IsLockedPage, IsLocked
<1>14. \A d \in Class : \A j \in Pages1(d) : IsFree(t, d, j) <=> IsFree(s, d, j) \/ <<d, j>> = <<c, i>>
    BY <1>5, <1>11, <1>12 DEF IsFree
<1>15. \A d \in Class : \A j \in Pages1(d) : t.page[d][j] = IF <<d, j>> = <<c, i>> THEN fp ELSE u.page[d][j]
    BY <1>4, <1>11
<1>16. ShapeBut(t, {})
  <2>1. \A d \in Class : Split(t.free[d], t.locked[d], PageCount[d])
      BY <1>5, <1>11, <1>12 DEF ShapeBut
  <2>2. ASSUME NEW d \in Class, NEW j \in Pages1(d), IsFree(t, d, j) PROVE FreeOK(t.page[d][j], d)
    <3>1. CASE <<d, j>> = <<c, i>>
        BY <1>2, <1>15, <3>1
    <3>2. CASE <<d, j>> # <<c, i>>
      <4>1. IsFree(u, d, j)
          BY <1>1, <1>14, <2>2, <3>2 DEF Below, IsFree
      <4> QED BY <1>5, <1>15, <3>2, <4>1 DEF ShapeBut
    <3> QED BY <3>1, <3>2
  <2>3. ASSUME NEW d \in Class, NEW j \in Pages1(d), IsLocked(t, d, j) PROVE LockedOK(t.page[d][j], d)
    <3>1. IsLockedPage(t, <<d, j>>)
        BY <2>3 DEF IsLockedPage
    <3>2. <<d, j>> # <<c, i>> /\ IsLocked(s, d, j)
        BY <1>13, <3>1 DEF IsLockedPage
    <3>3. IsLocked(u, d, j)
        BY <1>1, <3>2 DEF Below, IsLocked
    <3> QED BY <1>5, <1>15, <3>2, <3>3 DEF ShapeBut
  <2>4. NextOK(t)
    <3>1. NextOK(u) /\ v.nextPageToSwap = u.nextPageToSwap /\ v.free = u.free
        BY <1>4, <1>5 DEF ShapeBut, SameButPages
    <3>2. CASE c = "big"
      <4>1. t.free["big"] = F /\ On(i, F) /\ (On(u.nextPageToSwap, u.free["big"]) => On(u.nextPageToSwap, F))
          BY <1>5, <1>10, <1>11, <1>12, <3>1, <3>2
      <4> QED BY <1>11, <3>1, <3>2, <4>1 DEF NextOK
    <3>3. CASE c # "big"
        BY <1>11, <3>1, <3>3, Sizes DEF NextOK
    <3> QED BY <3>2, <3>3
  <2> QED BY <1>11, <2>1, <2>2, <2>3, <2>4 DEF ShapeBut
<1>17. SameLocks(s, u) /\ \A q : IsLockedPage(u, q) => PageAt(u, q) = PageAt(s, q)
    BY <1>1, BelowSettled DEF Settled
<1>18. t.page[c][i].locks = 0 /\ \A d \in Class : \A j \in Pages1(d) :
           <<d, j>> # <<c, i>> => t.page[d][j].locks = s.page[d][j].locks
    BY <1>2, <1>15, <1>17 DEF SameLocks
<1>19. \A q : IsLockedPage(t, q) => PageAt(t, q) = PageAt(s, q)
  <2> SUFFICES ASSUME NEW q, IsLockedPage(t, q) PROVE PageAt(t, q) = PageAt(s, q)
      OBVIOUS
  <2>1. IsLockedPage(s, q) /\ q # <<c, i>> /\ q = <<q[1], q[2]>> /\ q[1] \in Class /\ q[2] \in Pages1(q[1])
      BY <1>13 DEF IsLockedPage
  <2>2. IsLockedPage(u, q)
      BY <1>1, <2>1, BelowLocked
  <2>3. t.page[q[1]][q[2]] = u.page[q[1]][q[2]]
      BY <1>15, <2>1
  <2> QED BY <1>17, <2>2, <2>3 DEF PageAt
<1>20. t.failed = s.failed /\ t.overrun = s.overrun
    BY <1>1, <1>4, <1>11 DEF Below, SameButPages
<1>21. t.free[c] # <<>>
    BY <1>10, <1>11 DEF On
<1>22. \A d \in Class : d # c => t.free[d] = s.free[d]
    BY <1>5, <1>11
<1>24. ASSUME s.page[c][i].size < BigSize, NEW m, Agrees(s, m) PROVE Agrees(t, Passed(s.page[c][i], m))
  <2> DEFINE l == Passed(s.page[c][i], m)
             A == View(u)
             B == View(t)
  <2>1. Agrees(u, l)
    <3>1. <<c, i>> \notin {}
        OBVIOUS
    <3>2. u = SyncLockedPage(s, c, i)
        BY <1>24 DEF u, SyncedToFree
    <3> QED BY <1>24, <3>1, <3>2, SyncsLocked DEF SyncedAs, Passed
  <2>2. fp.start = 0 /\ fp.data = <<>>
    <3>1. fp = [[s.page[c][i] EXCEPT !.locks = 0] EXCEPT !.start = 0, !.size = PageSize[c], !.data = <<>>]
        BY <1>24 DEF fp, FreedPage
    <3>2. s.page[c][i] \in AnyPage
        BY StateFields DEF ShapeBut
    <3> QED BY <3>1, <3>2 DEF AnyPage
  <2>3. /\ A \in [Numbers -> BigPage] /\ \A j \in Numbers : A[j].data \in [HeldBy(A[j]) -> Val]
        /\ B \in [Numbers -> BigPage] /\ \A j \in Numbers : B[j].data \in [HeldBy(B[j]) -> Val]
      BY <1>5, <1>16, ViewIs
  <2>4. ASSUME NEW j \in Numbers
        PROVE  IF c = "big" /\ j = i THEN (\A a : ~Holds(A[j], a)) /\ (\A a : ~Holds(B[j], a)) ELSE B[j] = A[j]
    <3>1. j \in Pages1("big") /\ "big" \in Class
        BY Sizes DEF Numbers, N, Pages1
    <3>2. IsFree(u, "big", j) <=> IsFree(s, "big", j)
        BY <1>1 DEF Below, IsFree
    <3>3. IsFree(t, "big", j) <=> IsFree(s, "big", j) \/ <<"big", j>> = <<c, i>>
        BY <1>14, <3>1
    <3>4. t.page["big"][j] = IF <<"big", j>> = <<c, i>> THEN fp ELSE u.page["big"][j]
        BY <1>15, <3>1
    <3>5. CASE c = "big" /\ j = i
      <4>1. B[j] = fp
          BY <3>3, <3>4, <3>5 DEF View
      <4>2. \A a : ~Holds(B[j], a)
          BY <2>2, <4>1, NoBytes DEF Holds
      <4>3. ~IsFree(s, "big", j)
          BY <1>10, <3>1, <3>5 DEF ShapeBut, Split, IsFree, Pages1
      <4>4. \A a : ~Holds(A[j], a)
          BY <1>5, <3>2, <4>3, ViewIs
      <4> QED BY <3>5, <4>2, <4>4
    <3>6. CASE ~(c = "big" /\ j = i)
        BY <3>2, <3>3, <3>4, <3>6 DEF View
    <3> QED BY <3>5, <3>6
  <2> HIDE DEF l, A, B
  <2>5. Consistent(u.store, A, l)
      BY <2>1 DEF Agrees, A
  <2>6. ASSUME NEW j \in Numbers, NEW a
        PROVE  (Holds(B[j], a) <=> Holds(A[j], a)) /\ (Holds(B[j], a) => B[j] = A[j])
      BY <2>4
  <2>7. Consistent(u.store, B, l)
      BY <2>3, <2>5, <2>6 DEF Consistent
  <2>8. t.store = u.store
      BY <1>4, <1>11, <1>23 DEF SameButPages, Relinked
  <2> QED BY <2>7, <2>8 DEF Agrees, B, l
<1> QED BY <1>13, <1>16, <1>18, <1>19, <1>20, <1>21, <1>22, <1>24 DEF FreedAny

(* Nor does freeing a page without locks change their numbers.             *)
LEMMA FreesLocked ==
  ASSUME NEW s, ShapeBut(s, {}), NEW c \in Class, NEW i \in Pages1(c), IsLocked(s, c, i), s.page[c][i].locks = 0
  PROVE  Freed(s, FreeLockedPage(s, c, i), c, i)
<1> DEFINE t == FreeLockedPage(s, c, i)
<1> SUFFICES Freed(s, t, c, i)
    OBVIOUS
<1>1. FreedAny(s, t, c, i)
    BY FreesAny
<1> HIDE DEF t
<1>2. SameLocks(s, t)
    BY <1>1 DEF FreedAny, SameLocks
<1> QED BY <1>1, <1>2 DEF FreedAny, Freed, Settled

-----------------------------------------------------------------------------
(* Pages for locks                                                         *)

(* From s to t the free page i of class c became the head of the locked    *)
(* list.                                                                   *)
LinkedAs(s, t, c, i) ==
    /\ ShapeBut(t, {<<c, i>>}) /\ t.failed = s.failed /\ t.overrun = s.overrun
    /\ i \in Pages1(c) /\ IsFree(s, c, i) /\ Head(t.locked[c]) = i /\ FreeOK(t.page[c][i], c)
    /\ SameLocks(s, t)
    /\ \A q : IsLockedPage(t, q) <=> IsLockedPage(s, q) \/ q = <<c, i>>
    /\ \A q : IsLockedPage(s, q) => PageAt(t, q) = PageAt(s, q)
(* MoveToLocked takes page k of the free list and nothing else.            *)
LEMMA Links ==
  ASSUME NEW s, ShapeBut(s, {}), NEW c \in Class, NEW k \in DOMAIN s.free[c], ~s.failed
  PROVE  /\ LinkedAs(s, MoveToLocked(s, c, k), c, s.free[c][k])
         /\ MoveToLocked(s, c, k).page = s.page /\ MoveToLocked(s, c, k).store = s.store
         /\ \A i : IsFree(MoveToLocked(s, c, k), c, i) <=> IsFree(s, c, i) /\ i # s.free[c][k]
         /\ \A d \in Class : d # c => MoveToLocked(s, c, k).free[d] = s.free[d]
<1> DEFINE i == s.free[c][k]
           F == RemoveAt(s.free[c], k)
           L == <<i>> \o s.locked[c]
           y == IF c = "big" /\ s.nextPageToSwap = i THEN HeadOr0(F) ELSE s.nextPageToSwap
           t == MoveToLocked(s, c, k)
<1> SUFFICES /\ LinkedAs(s, t, c, i) /\ t.page = s.page /\ t.store = s.store
             /\ \A j : IsFree(t, c, j) <=> IsFree(s, c, j) /\ j # i
             /\ \A d \in Class : d # c => t.free[d] = s.free[d]
    OBVIOUS
<1>1. t = Relink(s, c, F, L, y)
    BY DEF MoveToLocked, Relink
<1> HIDE DEF t
<1>2. Split(s.free[c], s.locked[c], PageCount[c]) /\ PageCount[c] \in Nat
    BY Sizes DEF ShapeBut
<1>3. /\ Split(F, L, PageCount[c]) /\ i \in 1 .. PageCount[c] /\ Head(L) = i
      /\ \A j : On(j, F) <=> On(j, s.free[c]) /\ j # i
      /\ \A j : On(j, L) <=> On(j, s.locked[c]) \/ j = i
  <2> DEFINE A == s.free[c]
             B == s.locked[c]
             x == A[k]
  <2>1. PageCount[c] \in Nat /\ Split(A, B, PageCount[c]) /\ k \in DOMAIN A
      BY <1>2
  <2> HIDE DEF A, B
  <2>2. /\ Split(RemoveAt(A, k), <<x>> \o B, PageCount[c]) /\ x \in 1 .. PageCount[c] /\ Head(<<x>> \o B) = x
        /\ \A j : On(j, RemoveAt(A, k)) <=> On(j, A) /\ j # x
        /\ \A j : On(j, <<x>> \o B) <=> On(j, B) \/ j = x
      BY <2>1, Moved
  <2> HIDE DEF x
  <2> QED BY <2>2 DEF A, B, x
<1>4. On(i, s.free[c])
    BY DEF On
<1> HIDE DEF i, F, L
<1>5. F \in Seq(1 .. PageCount[c]) /\ F \in Seq(Nat) /\ L \in Seq(Nat)
  <2>1. F \in Seq(1 .. PageCount[c]) /\ L \in Seq(1 .. PageCount[c]) /\ 1 .. PageCount[c] \subseteq Nat
      BY <1>3, Sizes DEF Split
  <2> QED BY <2>1, SeqMonotonic
<1>6. y \in Nat /\ (c = "big" => On(y, F) \/ (y = 0 /\ F = <<>>)) /\ (c # "big" => y = s.nextPageToSwap)
  <2>1. F # <<>> => Head(F) \in Nat /\ On(Head(F), F)
    <3>1. F # <<>> => 1 \in DOMAIN F /\ Head(F) = F[1] /\ F[1] \in Nat
        BY <1>5
    <3> QED BY <3>1 DEF On
  <2>2. s.nextPageToSwap \in Nat /\ NextOK(s)
      BY StateFields DEF ShapeBut
  <2>3. CASE c = "big" /\ s.nextPageToSwap = i
    <3>1. y = HeadOr0(F)
        BY <2>3
    <3> QED BY <2>1, <2>3, <3>1 DEF HeadOr0
  <2>4. CASE ~(c = "big" /\ s.nextPageToSwap = i)
    <3>1. y = s.nextPageToSwap
        BY <2>4
    <3>2. c = "big" => On(s.nextPageToSwap, s.free["big"])
        BY <1>4, <2>2 DEF NextOK, On
    <3> QED BY <1>3, <2>2, <2>4, <3>1, <3>2
  <2> QED BY <2>3, <2>4
<1>7. Relinked(s, t, c, F, L, y)
  <2> HIDE DEF y
  <2>1. s \in States
      BY DEF ShapeBut
  <2> QED BY <1>1, <1>5, <1>6, <2>1, RelinkIs
<1> HIDE DEF y
<1>8. \A q : IsLockedPage(t, q) <=> IsLockedPage(s, q) \/ q = <<c, i>>
    BY <1>3, <1>7 DEF IsLockedPage, IsLocked, Relinked, Pages1
<1>9. \A d \in Class : \A j \in Pages1(d) : IsFree(t, d, j) <=> IsFree(s, d, j) /\ <<d, j>> # <<c, i>>
    BY <1>3, <1>7 DEF IsFree, Relinked
<1>10. ShapeBut(t, {<<c, i>>})
  <2>1. \A d \in Class : Split(t.free[d], t.locked[d], PageCount[d])
      BY <1>3, <1>7 DEF ShapeBut, Relinked
  <2>2. \A d \in Class : \A j \in Pages1(d) : IsFree(t, d, j) => FreeOK(t.page[d][j], d)
      BY <1>7, <1>9 DEF ShapeBut, Relinked
  <2>3. ASSUME NEW d \in Class, NEW j \in Pages1(d), IsLocked(t, d, j), <<d, j>> \notin {<<c, i>>}
        PROVE  LockedOK(t.page[d][j], d)
    <3>1. IsLockedPage(t, <<d, j>>)
        BY <2>3 DEF IsLockedPage
    <3>2. IsLocked(s, d, j)
        BY <1>8, <2>3, <3>1 DEF IsLockedPage
    <3> QED BY <1>7, <3>2 DEF ShapeBut, Relinked
  <2>4. NextOK(t)
    <3>1. NextOK(s)
        BY DEF ShapeBut
    <3> QED BY <1>6, <1>7, <3>1, Sizes DEF NextOK, Relinked
  <2> QED BY <1>7, <2>1, <2>2, <2>3, <2>4 DEF ShapeBut, Relinked
<1>11. i \in Pages1(c) /\ IsFree(s, c, i) /\ Head(t.locked[c]) = i /\ FreeOK(t.page[c][i], c)
  <2>1. i \in Pages1(c) /\ IsFree(s, c, i)
      BY <1>3, <1>4 DEF IsFree, Pages1
  <2> QED BY <1>3, <1>7, <2>1 DEF ShapeBut, Relinked
<1>12. SameLocks(s, t) /\ \A q : IsLockedPage(s, q) => PageAt(t, q) = PageAt(s, q)
    BY <1>7 DEF SameLocks, PageAt, Relinked
<1>13. \A j : IsFree(t, c, j) <=> IsFree(s, c, j) /\ j # i
    BY <1>3, <1>7 DEF IsFree, Relinked
<1> QED BY <1>7, <1>8, <1>10, <1>11, <1>12, <1>13 DEF LinkedAs, Relinked

(* A clean big page can be taken for a lock: nothing is lost.              *)
LEMMA LinkingKeeps ==
  ASSUME NEW s, ShapeBut(s, {}), NEW k \in Positions(s), ~s.failed, ~FreePage(s, k).dirty
  PROVE  Kept(s, MoveToLocked(s, "big", k))
<1> DEFINE t == MoveToLocked(s, "big", k)
           i == s.free["big"][k]
<1> SUFFICES Kept(s, t)
    OBVIOUS
<1>1. /\ LinkedAs(s, t, "big", i) /\ t.page = s.page /\ t.store = s.store
      /\ \A j : IsFree(t, "big", j) <=> IsFree(s, "big", j) /\ j # i
    BY Sizes, Links DEF Positions
<1>2. i \in Numbers /\ IsFree(s, "big", i) /\ FreePage(s, k) = s.page["big"][i]
    BY OneNumber
<1> HIDE DEF t, i
<1> SUFFICES ASSUME NEW m, Agrees(s, m) PROVE Agrees(t, m)
    BY DEF Kept
<1>3. ShapeBut(t, {<<"big", i>>})
    BY <1>1 DEF LinkedAs
<1> DEFINE P == View(s)
           Q == View(t)
<1>4. /\ Q \in [Numbers -> BigPage] /\ \A j \in Numbers : Q[j].data \in [HeldBy(Q[j]) -> Val]
      /\ \A a : ~Holds(Q[i], a)
      /\ \A j \in Numbers : j # i => Q[j] = P[j]
  <2>1. \A j \in Numbers : j # i => Q[j] = P[j]
      BY <1>1 DEF View
  <2>2. ~IsFree(t, "big", i)
      BY <1>1
  <2> HIDE DEF Q, P
  <2> QED BY <1>2, <1>3, <2>1, <2>2, ViewIs DEF Q
<1>5. ~P[i].dirty
    BY <1>2, ViewIs
<1>6. Consistent(s.store, P, m)
    BY DEF Agrees
<1> HIDE DEF P, Q
<1>7. Consistent(s.store, Q, m)
    BY <1>2, <1>4, <1>5, <1>6 DEF Consistent
<1> QED BY <1>1, <1>7 DEF Agrees, Q

(* A change below the locks may come first.                                *)
LEMMA BelowLinked ==
  ASSUME NEW s, NEW w, NEW t, NEW c, NEW i, ShapeBut(s, {}), Below(s, w), w.failed = s.failed, LinkedAs(w, t, c, i)
  PROVE  LinkedAs(s, t, c, i)
<1>1. Settled(s, w) /\ \A q : IsLockedPage(w, q) <=> IsLockedPage(s, q)
    BY BelowSettled
<1>2. IsFree(w, c, i) => IsFree(s, c, i)
    BY DEF Below, IsFree
<1> QED BY <1>1, <1>2 DEF LinkedAs, Settled, SameLocks

(* lockPage takes a page for n bytes at p; a big one begins there, and has *)
(* the bytes of the memory.                                                *)
Taken(s, t, c, i, p, n) ==
    /\ LinkedAs(s, t, c, i)
    /\ c # "big" \/ n < BigSize => Kept(s, t)
    /\ c = "big" => t.page[c][i].start = p
    /\ c = "big" => \A m : Agrees(s, m) => \A a : Holds(t.page[c][i], a) => t.page[c][i].data[a] = m[a]
(* lockPage() links the page, after writing a big one back.                *)
LEMMA Takes ==
  ASSUME NEW s, ShapeBut(s, {}), NEW c \in Class, s.free[c] # <<>>, ~s.failed,
         NEW p \in Addr \ {0}, NEW n \in 1 .. BigSize
  PROVE  \E i : Taken(s, LockPage(s, c, p, n), c, i, p, n)
<1>1. CASE c # "big"
  <2> DEFINE t == LockPage(s, c, p, n)
             i == s.free[c][1]
  <2>1. t = MoveToLocked(s, c, 1)
      BY <1>1 DEF LockPage
  <2>2. 1 \in DOMAIN s.free[c]
    <3>1. s.free[c] \in Seq(Nat)
        BY StateFields DEF ShapeBut
    <3> QED BY <3>1
  <2>3. LinkedAs(s, t, c, i) /\ t.page = s.page /\ t.store = s.store /\ t.free["big"] = s.free["big"]
      BY <1>1, <2>1, <2>2, Sizes, Links
  <2> HIDE DEF t, i
  <2>4. Kept(s, t)
    <3>1. t.page["big"] = s.page["big"]
        BY <2>3
    <3> QED BY <2>3, <3>1, SameAgrees DEF Kept
  <2>5. Taken(s, t, c, i, p, n)
      BY <1>1, <2>3, <2>4 DEF Taken
  <2> QED BY <2>5 DEF t
<1>2. CASE c = "big"
  <2> DEFINE pull == PullRawData(s, p, n, TRUE, TRUE)
             k == pull.at
             u == pull.state
             w == IF n < BigSize THEN SyncBigPages(u, {k}) ELSE u
             i == s.free["big"][k]
             t == MoveToLocked(w, "big", k)
  <2>1. PulledAs(s, pull, p, n, TRUE, TRUE)
      BY Pulls
  <2>2. /\ Below(s, u) /\ Kept(s, u) /\ k \in Positions(s) /\ u.failed = s.failed
        /\ FreePage(u, k).start = p
      BY <1>2, <2>1 DEF PulledAs
  <2>3. k # 0
    <3>1. Positions(s) \subseteq Positions(s)
        OBVIOUS
    <3>2. Positions(s) = 1 .. Len(s.free["big"])
        BY <3>1, FreeNumbers
    <3> HIDE DEF k
    <3> QED BY <2>2, <3>2
  <2>4. LockPage(s, c, p, n) = t
      BY <1>2, <2>3 DEF LockPage, LockPulled, SyncedToCut
  <2> HIDE DEF pull, k, u
  <2>5. ShapeBut(u, {}) /\ k \in Positions(u) /\ u.free = s.free
      BY <2>2, BelowShape DEF Below, Positions
  <2>6. i \in Numbers /\ IsFree(u, "big", i) /\ NumbersAt(u, {k}) = {i} /\ FreePage(u, k) = u.page["big"][i]
    <3> DEFINE j == u.free["big"][k]
    <3>1. j \in Numbers /\ IsFree(u, "big", j) /\ NumbersAt(u, {k}) = {j} /\ FreePage(u, k) = u.page["big"][j]
        BY <2>5, OneNumber
    <3>2. j = i
        BY <2>5
    <3> HIDE DEF i, j
    <3> QED BY <3>1, <3>2
  <2>7. FreePage(u, k) \in AnyPage
    <3>1. Positions(u) \subseteq Positions(u)
        OBVIOUS
    <3> QED BY <2>5, <3>1, FreeNumbers
  <2> HIDE DEF i
  <2>8. /\ Below(s, w) /\ Kept(s, w) /\ w.failed = s.failed
        /\ w.page["big"][i].start = p /\ (n < BigSize => ~w.page["big"][i].dirty)
    <3>1. CASE n < BigSize
      <4> DEFINE v == SyncBigPages(u, {k})
      <4>1. {k} \subseteq Positions(u)
          BY <2>5
      <4>2. /\ Below(u, v) /\ v.failed = u.failed
            /\ \A j \in Numbers : v.page["big"][j] =
                 IF j \in NumbersAt(u, {k}) THEN SyncedPage(u.page["big"][j]) ELSE u.page["big"][j]
          BY <2>5, <4>1, Syncing
      <4>3. Kept(u, v)
          BY <2>5, <4>1, SyncingAgrees DEF Kept
      <4>4. w = v
          BY <3>1
      <4> HIDE DEF v, w
      <4>5. v.page["big"][i] = SyncedPage(FreePage(u, k))
          BY <2>6, <4>2
      <4>6. v.page["big"][i].start = FreePage(u, k).start /\ ~v.page["big"][i].dirty
          BY <2>7, <4>5 DEF SyncedPage, AnyPage
      <4> QED BY <2>2, <4>2, <4>3, <4>4, <4>6, BelowTwice, KeptTwice
    <3>2. CASE ~(n < BigSize)
        BY <2>2, <2>6, <3>2
    <3> QED BY <3>1, <3>2
  <2> HIDE DEF w
  <2>9. /\ ShapeBut(w, {}) /\ k \in Positions(w) /\ ~w.failed /\ w.free["big"][k] = i
        /\ k \in DOMAIN w.free["big"]
      BY <2>2, <2>8, BelowShape DEF Below, Positions, i
  <2>10. LinkedAs(w, t, "big", i) /\ t.page = w.page
      BY <2>9, Sizes, Links
  <2>11. FreePage(w, k) = w.page["big"][i]
      BY <2>9 DEF FreePage
  <2>12. n < BigSize => Kept(w, t)
      BY <2>8, <2>9, <2>11, LinkingKeeps
  <2> HIDE DEF t
  <2>13. LinkedAs(s, t, "big", i) /\ (n < BigSize => Kept(s, t)) /\ t.page["big"][i].start = p
      BY <2>8, <2>10, <2>12, BelowLinked, KeptTwice
  <2>14. ASSUME NEW m, Agrees(s, m), NEW a, Holds(t.page["big"][i], a)
         PROVE  t.page["big"][i].data[a] = m[a]
    <3>1. Agrees(w, m)
        BY <2>8, <2>14 DEF Kept
    <3>2. IsFree(w, "big", i) /\ i \in Numbers
        BY <2>6, <2>10 DEF LinkedAs
    <3>3. View(w)[i] = w.page["big"][i] /\ View(w)[i].data \in [HeldBy(View(w)[i]) -> Val]
        BY <2>9, <3>2, ViewIs
    <3>4. a \in Addr
        BY <2>10, <2>14, <3>3 DEF HeldBy, Holds
    <3> QED BY <2>10, <2>14, <3>1, <3>2, <3>3, <3>4 DEF Agrees, Consistent
  <2>15. Taken(s, t, "big", i, p, n)
      BY <2>13, <2>14 DEF Taken
  <2> QED BY <1>2, <2>4, <2>15
<1> QED BY <1>1, <1>2

-----------------------------------------------------------------------------
(* The contents of the memory                                              *)

(* c is what the memory contains, but for the pages of X, when m is what   *)
(* it contains below the locks: a locked page has the bytes of c, and so   *)
(* does m where no locked page does, or one that is not dirty.             *)
MemOf(s, c, X, m) ==
    /\ \A q : IsLockedPage(s, q) /\ q \notin X =>
          \A a \in Addr : Holds(PageAt(s, q), a) =>
              PageAt(s, q).data[a] = c[a] /\ (PageAt(s, q).dirty \/ m[a] = c[a])
    /\ \A a \in Addr : (\E q : IsLockedPage(s, q) /\ q \notin X /\ Holds(PageAt(s, q), a)) \/ m[a] = c[a]
MemIs(s, c, X) == \E m : Agrees(s, m) /\ MemOf(s, c, X, m)

(* No locked page is as large as a big page.  From s to t no byte of the   *)
(* memory changed if it was so.                                            *)
Short(s) == \A q : IsLockedPage(s, q) => PageAt(s, q).size < BigSize
Remembers(s, t) == Short(s) => Short(t) /\ \A c : MemIs(s, c, {}) => MemIs(t, c, {})

(* What is remembered over two steps in a row is remembered.               *)
LEMMA RemembersTwice ==
  ASSUME NEW s, NEW t, NEW u, Remembers(s, t), Remembers(t, u) PROVE Remembers(s, u)
BY DEF Remembers
(* A change below the locks that keeps their contents is remembered.       *)
LEMMA BelowRemembers ==
  ASSUME NEW s, NEW t, ShapeBut(s, {}), Below(s, t), Kept(s, t)
  PROVE  Remembers(s, t)
<1>1. \A q : IsLockedPage(t, q) <=> IsLockedPage(s, q)
    BY DEF Below, IsLockedPage, IsLocked
<1>2. \A q : IsLockedPage(s, q) => PageAt(t, q) = PageAt(s, q)
    BY BelowLocked
<1>3. Short(s) => Short(t)
    BY <1>1, <1>2 DEF Short
<1>4. ASSUME NEW c, MemIs(s, c, {}) PROVE MemIs(t, c, {})
  <2>1. PICK m : Agrees(s, m) /\ MemOf(s, c, {}, m)
      BY <1>4 DEF MemIs
  <2>2. Agrees(t, m)
      BY <2>1 DEF Kept
  <2>3. MemOf(t, c, {}, m)
      BY <1>1, <1>2, <2>1 DEF MemOf
  <2> QED BY <2>2, <2>3 DEF MemIs
<1> QED BY <1>3, <1>4 DEF Remembers

(* A page that passes its bytes on is not needed for them any more.        *)
LEMMA Passes ==
  ASSUME NEW s, NEW c, NEW X, NEW m, MemOf(s, c, X, m), m \in [Addr -> Val],
         NEW q, IsLockedPage(s, q), q \notin X, NEW pg, pg = PageAt(s, q)
  PROVE  MemOf(s, c, X \cup {q}, Passed(pg, m))
<1> DEFINE l == Passed(pg, m)
<1>1. \A a \in Addr : l[a] = IF pg.dirty /\ Holds(pg, a) THEN pg.data[a] ELSE m[a]
    BY DEF Passed, Patch, Holds
<1>2. \A a \in Addr : Holds(pg, a) => pg.data[a] = c[a] /\ (pg.dirty \/ m[a] = c[a])
    BY DEF MemOf
<1> HIDE DEF l
<1>3. \A a \in Addr : (m[a] = c[a] => l[a] = c[a]) /\ (Holds(pg, a) => l[a] = c[a])
    BY <1>1, <1>2
<1>4. ASSUME NEW r, IsLockedPage(s, r), r \notin X \cup {q}, NEW a \in Addr, Holds(PageAt(s, r), a)
      PROVE  PageAt(s, r).data[a] = c[a] /\ (PageAt(s, r).dirty \/ l[a] = c[a])
    BY <1>3, <1>4 DEF MemOf
<1>5. ASSUME NEW a \in Addr
      PROVE  (\E r : IsLockedPage(s, r) /\ r \notin X \cup {q} /\ Holds(PageAt(s, r), a)) \/ l[a] = c[a]
  <2>1. CASE m[a] = c[a]
      BY <1>3, <2>1
  <2>2. CASE m[a] # c[a]
    <3>1. PICK r : IsLockedPage(s, r) /\ r \notin X /\ Holds(PageAt(s, r), a)
        BY <2>2 DEF MemOf
    <3> QED BY <1>3, <3>1
  <2> QED BY <2>1, <2>2
<1> QED BY <1>4, <1>5 DEF MemOf, l

(* No byte of the memory changes when an unused page is given back.        *)
LEMMA FreesRemember ==
  ASSUME NEW s, ShapeBut(s, {}), NEW c \in Class, NEW i \in Pages1(c), IsLocked(s, c, i), s.page[c][i].locks = 0
  PROVE  Remembers(s, FreeLockedPage(s, c, i))
<1> DEFINE t == FreeLockedPage(s, c, i)
           q == <<c, i>>
<1> SUFFICES ASSUME Short(s) PROVE Short(t) /\ \A d : MemIs(s, d, {}) => MemIs(t, d, {})
    BY DEF Remembers
<1>1. Freed(s, t, c, i)
    BY FreesLocked
<1>2. IsLockedPage(s, q) /\ PageAt(s, q) = s.page[c][i]
    BY DEF IsLockedPage, PageAt
<1> HIDE DEF t, q
<1>3. /\ \A r : IsLockedPage(t, r) <=> IsLockedPage(s, r) /\ r # q
      /\ \A r : IsLockedPage(t, r) => PageAt(t, r) = PageAt(s, r)
      /\ \A m : Agrees(s, m) => Agrees(t, Passed(PageAt(s, q), m))
    BY <1>1, <1>2 DEF Freed, Settled, Short, q
<1>4. Short(t)
    BY <1>3 DEF Short
<1>5. ASSUME NEW d, MemIs(s, d, {}) PROVE MemIs(t, d, {})
  <2>1. PICK m : Agrees(s, m) /\ MemOf(s, d, {}, m)
      BY <1>5 DEF MemIs
  <2> DEFINE l == Passed(PageAt(s, q), m)
  <2>2. Agrees(t, l)
      BY <1>3, <2>1
  <2>3. m \in [Addr -> Val]
      BY <2>1 DEF Agrees, Consistent
  <2>4. q \notin {} /\ {} \cup {q} = {q}
      OBVIOUS
  <2>5. MemOf(s, d, {q}, l)
      BY <1>2, <2>1, <2>3, <2>4, Passes
  <2> HIDE DEF l
  <2>6. MemOf(t, d, {}, l)
      BY <1>3, <2>5 DEF MemOf
  <2> QED BY <2>2, <2>6 DEF MemIs
<1> QED BY <1>4, <1>5

-----------------------------------------------------------------------------
(* Changes to locked pages                                                 *)

(* A page is given the bytes d for the block of n bytes at p.              *)
ResizedTo(pg, r, p, n, d) ==
    /\ r.start = p /\ r.size = n /\ r.locks = pg.locks /\ r.dirty = pg.dirty
    /\ DOMAIN r.data = Span(p, n) /\ \A a \in Span(p, n) : r.data[a] = d[a]
(* The resized page is well-formed, with the bytes it was given.           *)
LEMMA Resizes ==
  ASSUME NEW pg \in AnyPage, NEW c \in Class, NEW p \in Addr \ {0}, NEW n \in 1 .. PageSize[c], Span(p, n) \subseteq Addr,
         NEW d, \A a \in Span(p, n) : d[a] \in Val
  PROVE  /\ Resized(pg, p, n, d) \in AnyPage /\ LockedOK(Resized(pg, p, n, d), c)
         /\ ResizedTo(pg, Resized(pg, p, n, d), p, n, d)
<1> DEFINE e == [a \in Span(p, n) \cap Addr |-> d[a]]
           r == Resized(pg, p, n, d)
<1>1. r = [pg EXCEPT !.start = p, !.size = n, !.data = e]
    BY DEF Resized
<1>2. Span(p, n) \cap Addr = Span(p, n)
    OBVIOUS
<1>3. e \in [Span(p, n) -> Val] /\ \A a \in Span(p, n) : e[a] = d[a]
    BY <1>2
<1> HIDE DEF e, r
<1>4. e \in Bytes
    BY <1>3, SomeBytes
<1>5. n \in Nat
    BY Sizes
<1>6. r \in AnyPage
    BY <1>1, <1>4, <1>5 DEF AnyPage
<1>7. r.start = p /\ r.size = n /\ r.locks = pg.locks /\ r.dirty = pg.dirty /\ r.data = e
    BY <1>1 DEF AnyPage
<1>8. LockedOK(r, c)
    BY <1>3, <1>7 DEF LockedOK, LockSpan
<1> QED BY <1>3, <1>6, <1>7, <1>8 DEF r, ResizedTo

(* From s to t the locked page q became pg.                                *)
PageSet(s, t, q, pg) ==
    /\ SameButPages(s, t) /\ Kept(s, t)
    /\ \A r : IsLockedPage(t, r) <=> IsLockedPage(s, r)
    /\ PageAt(t, q) = pg
    /\ \A r : IsLockedPage(s, r) /\ r # q => PageAt(t, r) = PageAt(s, r)
    /\ \A c \in Class : \A i \in Pages1(c) :
          t.page[c][i].locks = IF <<c, i>> = q THEN pg.locks ELSE s.page[c][i].locks
(* A locked page is replaced, and nothing else.                            *)
LEMMA SetsLocked ==
  ASSUME NEW s, NEW X, ShapeBut(s, X), NEW c \in Class, NEW i \in Pages1(c), IsLocked(s, c, i),
         NEW pg \in AnyPage, LockedOK(pg, c)
  PROVE  /\ ShapeBut(SetPage(s, c, i, pg), X \ {<<c, i>>})
         /\ PageSet(s, SetPage(s, c, i, pg), <<c, i>>, pg)
<1> DEFINE t == SetPage(s, c, i, pg)
           q == <<c, i>>
<1> SUFFICES ShapeBut(t, X \ {q}) /\ PageSet(s, t, q, pg)
    OBVIOUS
<1>1. /\ t \in States /\ SameButPages(s, t) /\ t.page[c][i] = pg
      /\ \A d \in Class : \A j \in Pages1(d) : <<d, j>> # q => t.page[d][j] = s.page[d][j]
    BY SetPageIs DEF ShapeBut
<1>2. ~IsFree(s, c, i)
    BY DEF ShapeBut, Split, IsLocked, IsFree, Pages1
<1> HIDE DEF t
<1>3. \A r : IsLockedPage(t, r) <=> IsLockedPage(s, r)
    BY <1>1 DEF SameButPages, IsLockedPage, IsLocked
<1>4. /\ \A d \in Class : Split(t.free[d], t.locked[d], PageCount[d])
      /\ NextOK(t)
    BY <1>1 DEF ShapeBut, SameButPages, NextOK
<1>5. ASSUME NEW d \in Class, NEW j \in Pages1(d), IsFree(t, d, j) PROVE FreeOK(t.page[d][j], d)
  <2>1. IsFree(s, d, j)
      BY <1>1, <1>5 DEF IsFree, SameButPages
  <2> QED BY <1>1, <1>2, <2>1 DEF ShapeBut
<1>6. ASSUME NEW d \in Class, NEW j \in Pages1(d), IsLocked(t, d, j), <<d, j>> \notin X \ {q}
      PROVE  LockedOK(t.page[d][j], d)
  <2>1. IsLocked(s, d, j)
      BY <1>1, <1>6 DEF IsLocked, SameButPages
  <2>2. CASE <<d, j>> = q
    <3>1. d = c /\ j = i
        BY <2>2
    <3> QED BY <1>1, <3>1
  <2>3. CASE <<d, j>> # q
      BY <1>1, <1>6, <2>1, <2>3 DEF ShapeBut
  <2> QED BY <2>2, <2>3
<1>7. ShapeBut(t, X \ {q})
    BY <1>1, <1>4, <1>5, <1>6 DEF ShapeBut
<1>8. View(t) = View(s)
  <2>1. ASSUME NEW j \in Numbers
        PROVE  (IF IsFree(t, "big", j) THEN t.page["big"][j] ELSE Blank) = (IF IsFree(s, "big", j) THEN s.page["big"][j] ELSE Blank)
    <3>1. j \in Pages1("big") /\ "big" \in Class
        BY Sizes DEF Numbers, N, Pages1
    <3>2. IsFree(t, "big", j) <=> IsFree(s, "big", j)
        BY <1>1 DEF IsFree, SameButPages
    <3>3. CASE <<"big", j>> = q
        BY <1>2, <3>2, <3>3
    <3>4. CASE <<"big", j>> # q
        BY <1>1, <3>1, <3>2, <3>4
    <3> QED BY <3>3, <3>4
  <2> QED BY <2>1 DEF View
<1>9. Kept(s, t)
    BY <1>1, <1>8 DEF Kept, Agrees, SameButPages
<1>10. PageAt(t, q) = pg
    BY <1>1 DEF PageAt
<1>11. ASSUME NEW r, IsLockedPage(s, r), r # q PROVE PageAt(t, r) = PageAt(s, r)
    BY <1>1, <1>11 DEF PageAt, IsLockedPage
<1>12. ASSUME NEW d \in Class, NEW j \in Pages1(d)
       PROVE  t.page[d][j].locks = IF <<d, j>> = q THEN pg.locks ELSE s.page[d][j].locks
  <2>1. CASE <<d, j>> = q
    <3>1. d = c /\ j = i
        BY <2>1
    <3> QED BY <1>1, <2>1, <3>1
  <2>2. CASE <<d, j>> # q
      BY <1>1, <2>2
  <2> QED BY <2>1, <2>2
<1> QED BY <1>1, <1>3, <1>7, <1>9, <1>10, <1>11, <1>12 DEF PageSet

(* A locked page that begins where a lock does is too long for it and gives *)
(* away what is beyond n bytes.                                             *)
Trimming(s, c, i, n) ==
    LET pg == s.page[c][i]
    IN  SetPage(SaveRawData(s, Restrict(pg.data, {a \in DOMAIN pg.data : a >= pg.start + n})), c, i,
                Resized(pg, pg.start, n, pg.data))
TrimmedTo(s, t, q, n) ==
    /\ ShapeBut(t, {}) /\ t.failed = s.failed /\ t.overrun = s.overrun
    /\ SameLocks(s, t) /\ Remembers(s, t)
    /\ \A r : IsLockedPage(t, r) <=> IsLockedPage(s, r)
    /\ \A r : IsLockedPage(s, r) /\ r # q => PageAt(t, r) = PageAt(s, r)
    /\ PageAt(t, q).start = PageAt(s, q).start /\ PageAt(t, q).size = n /\ PageAt(t, q).dirty = PageAt(s, q).dirty
(* Shrinking a page that begins the lock saves the bytes behind its end.   *)
LEMMA Trims ==
  ASSUME NEW s, ShapeBut(s, {}), NEW c \in Class, NEW i \in Pages1(c), IsLocked(s, c, i),
         NEW n \in Nat, n >= 1, n < s.page[c][i].size
  PROVE  TrimmedTo(s, Trimming(s, c, i, n), <<c, i>>, n)
<1> DEFINE pg == s.page[c][i]
           q == <<c, i>>
           D == {a \in DOMAIN pg.data : a >= pg.start + n}
           d == Restrict(pg.data, D)
           u == SaveRawData(s, d)
           r == Resized(pg, pg.start, n, pg.data)
           t == SetPage(u, c, i, r)
<1> SUFFICES TrimmedTo(s, t, q, n)
    BY DEF Trimming
<1>1. pg \in AnyPage /\ LockedOK(pg, c)
  <2>1. q \notin {}
      OBVIOUS
  <2> QED BY <2>1, LockedPageIs
<1>11. IsLockedPage(s, q) /\ PageAt(s, q) = pg
    BY DEF IsLockedPage, PageAt
<1> HIDE DEF pg
<1>2. /\ pg.start \in Addr \ {0} /\ pg.start \in Nat /\ pg.size \in 1 .. PageSize[c] /\ Span(pg.start, pg.size) \subseteq Addr
      /\ pg.data \in [Span(pg.start, pg.size) -> Val]
    BY <1>1, Sizes DEF AnyPage, LockedOK, LockSpan
<1>3. n \in 1 .. PageSize[c] /\ Span(pg.start, n) \subseteq Span(pg.start, pg.size)
  <2>1. n < pg.size
      BY DEF pg
  <2>2. pg.size \in Nat /\ pg.size <= PageSize[c] /\ PageSize[c] \in Nat /\ pg.start \in Nat
      BY <1>2, Sizes
  <2> QED BY <2>1, <2>2 DEF Span
<1>4. r \in AnyPage /\ LockedOK(r, c) /\ ResizedTo(pg, r, pg.start, n, pg.data)
    BY <1>1, <1>2, <1>3, Resizes
<1>5. D \subseteq Addr /\ d \in [D -> Val] /\ \A a \in D : d[a] = pg.data[a]
  <2>1. D \subseteq DOMAIN pg.data
      OBVIOUS
  <2> HIDE DEF D
  <2> QED BY <1>2, <2>1 DEF Restrict
<1> HIDE DEF d, r
<1>6. Below(s, u) /\ u.failed = s.failed /\ \A m : Agrees(s, m) => Agrees(u, Patch(m, d))
  <2> HIDE DEF D
  <2> QED BY <1>5, Saves
<1> HIDE DEF u
<1>7. ShapeBut(u, {}) /\ IsLocked(u, c, i) /\ Settled(s, u) /\ \A x : IsLockedPage(u, x) <=> IsLockedPage(s, x)
    BY <1>6, BelowShape, BelowSettled DEF Below, IsLocked
<1>8. ShapeBut(t, {}) /\ PageSet(u, t, q, r)
  <2>1. {} \ {q} = {}
      OBVIOUS
  <2>2. ShapeBut(t, {} \ {q}) /\ PageSet(u, t, q, r)
      BY <1>4, <1>7, SetsLocked
  <2> QED BY <2>1, <2>2
<1> HIDE DEF t
<1>9. /\ \A x : IsLockedPage(t, x) <=> IsLockedPage(s, x)
      /\ \A x : IsLockedPage(s, x) /\ x # q => PageAt(t, x) = PageAt(s, x)
      /\ PageAt(t, q) = r /\ PageAt(u, q) = pg
    BY <1>7, <1>8, <1>11 DEF PageSet, Settled
<1>10. SameLocks(s, t)
  <2>1. SameLocks(s, u) /\ r.locks = pg.locks
      BY <1>4, <1>7 DEF Settled, ResizedTo
  <2> QED BY <1>8, <2>1 DEF PageSet, SameLocks, pg
<1>12. Short(s) => Short(t)
  <2>1. r.size < pg.size /\ pg.size <= BigSize /\ r.size \in Nat /\ pg.size \in Nat
      BY <1>2, <1>4, Sizes DEF ResizedTo, pg
  <2>2. r.size < BigSize
      BY <2>1, Sizes
  <2> QED BY <1>9, <2>2 DEF Short
<1>13. ASSUME NEW e, MemIs(s, e, {}) PROVE MemIs(t, e, {})
  <2>1. PICK m : Agrees(s, m) /\ MemOf(s, e, {}, m)
      BY <1>13 DEF MemIs
  <2> DEFINE l == Patch(m, d)
  <2>2. Agrees(t, l)
      BY <1>6, <1>8, <2>1 DEF PageSet, Kept
  <2>3. \A a \in Addr : l[a] = IF a \in D THEN pg.data[a] ELSE m[a]
    <3>1. m \in [Addr -> Val]
        BY <2>1 DEF Agrees, Consistent
    <3> QED BY <1>5, <3>1 DEF Patch
  <2> HIDE DEF l
  <2>4. \A a \in Addr : Holds(pg, a) <=> Holds(r, a) \/ a \in D
    <3>1. \A a : Holds(r, a) <=> a \in Span(pg.start, n)
        BY <1>4 DEF ResizedTo, Holds
    <3>2. \A a : Holds(pg, a) <=> a \in Span(pg.start, pg.size)
        BY <1>2 DEF Holds
    <3>3. \A a \in Span(pg.start, pg.size) : a >= pg.start + n \/ a \in Span(pg.start, n)
        BY <1>2 DEF Span
    <3>4. \A a \in D : Holds(pg, a)
        BY DEF Holds
    <3>5. \A a : a \in D <=> Holds(pg, a) /\ a >= pg.start + n
        BY DEF Holds
    <3> HIDE DEF D
    <3> QED BY <1>3, <3>1, <3>2, <3>3, <3>4, <3>5
  <2>5. \A a \in Addr : Holds(r, a) => r.data[a] = pg.data[a] /\ (r.dirty <=> pg.dirty)
      BY <1>4 DEF ResizedTo, Holds
  <2>6. \A a \in Addr : Holds(pg, a) => pg.data[a] = e[a] /\ (pg.dirty \/ m[a] = e[a])
      BY <1>11, <2>1 DEF MemOf
  <2>7. \A a \in Addr : m[a] = e[a] \/ a \in D => l[a] = e[a]
      BY <2>3, <2>4, <2>6
  <2> HIDE DEF D
  <2>8. ASSUME NEW x, IsLockedPage(t, x), NEW a \in Addr, Holds(PageAt(t, x), a)
        PROVE  PageAt(t, x).data[a] = e[a] /\ (PageAt(t, x).dirty \/ l[a] = e[a])
    <3>1. CASE x = q
        BY <1>9, <2>4, <2>5, <2>6, <2>7, <2>8, <3>1
    <3>2. CASE x # q
      <4>1. IsLockedPage(s, x) /\ PageAt(t, x) = PageAt(s, x) /\ x \notin {}
          BY <1>9, <2>8, <3>2
      <4> QED BY <2>1, <2>7, <2>8, <4>1 DEF MemOf
    <3> QED BY <3>1, <3>2
  <2>9. ASSUME NEW a \in Addr
        PROVE  (\E x : IsLockedPage(t, x) /\ x \notin {} /\ Holds(PageAt(t, x), a)) \/ l[a] = e[a]
    <3>1. CASE m[a] = e[a]
        BY <2>7, <3>1
    <3>2. CASE m[a] # e[a]
      <4>1. PICK x : IsLockedPage(s, x) /\ Holds(PageAt(s, x), a)
          BY <2>1, <3>2 DEF MemOf
      <4>2. CASE x = q
          BY <1>9, <1>11, <2>4, <2>7, <4>1, <4>2
      <4>3. CASE x # q
          BY <1>9, <4>1, <4>3
      <4> QED BY <4>2, <4>3
    <3> QED BY <3>1, <3>2
  <2>10. MemOf(t, e, {}, l)
      BY <2>8, <2>9 DEF MemOf
  <2> QED BY <2>2, <2>10 DEF MemIs
<1>14. Remembers(s, t)
    BY <1>12, <1>13 DEF Remembers
<1>15. t.failed = s.failed /\ t.overrun = s.overrun
    BY <1>6, <1>8 DEF Below, PageSet, SameButPages
<1>16. r.start = pg.start /\ r.size = n /\ r.dirty = pg.dirty
    BY <1>4 DEF ResizedTo
<1> QED BY <1>8, <1>9, <1>10, <1>11, <1>14, <1>15, <1>16 DEF TrimmedTo

-----------------------------------------------------------------------------
(* The search of makeDataLock                                              *)

(* No byte is in two locked pages.                                         *)
Apart(pg, r) == \A a \in LockSpan(pg) : a \notin LockSpan(r)
Disjoint(s) ==
    \A q, r : IsLockedPage(s, q) /\ IsLockedPage(s, r) /\ q # r => Apart(PageAt(s, q), PageAt(s, r))

Narrower(pg, r) == r.start = pg.start /\ r.dirty = pg.dirty /\ r.size <= pg.size
PageIds == UNION {{c} \X Pages1(c) : c \in Class}
Searches == [state : States, class : Class, size : Nat, at : Nat, old : Nat, second : PageIds \cup {<<>>},
             fix : BOOLEAN, shrunk : BOOLEAN, done : BOOLEAN]

(* What the search knows when it has visited the pages K.                  *)
FoundState(s, f) ==
    /\ ShapeBut(f.state, {}) /\ f.state.overrun = s.overrun /\ SameLocks(s, f.state) /\ Remembers(s, f.state)
    /\ \A q : IsLockedPage(f.state, q) => IsLockedPage(s, q) /\ Narrower(PageAt(s, q), PageAt(f.state, q))
    /\ ~f.done => Settled(s, f.state)
    /\ f.done => f.at # 0
FoundSize(f, n) == f \in Searches /\ f.size \in 1 .. n /\ f.size <= PageSize[f.class]
FoundPages(f, p, K) ==
    /\ f.at # 0 => /\ <<f.class, f.at>> \in K /\ IsLockedPage(f.state, <<f.class, f.at>>)
                   /\ PageAt(f.state, <<f.class, f.at>>).start = p
    /\ f.at = 0 /\ f.old # 0 =>
          /\ <<f.class, f.old>> \in K /\ IsLockedPage(f.state, <<f.class, f.old>>)
          /\ PageAt(f.state, <<f.class, f.old>>).locks = 0
    /\ f.at = 0 /\ f.second # <<>> =>
          /\ f.second \in K /\ IsLockedPage(f.state, f.second)
          /\ PageAt(f.state, f.second).locks = 0 /\ PageSize[f.class] < PageSize[f.second[1]]
(* A page that the new lock would overlap is the one that begins where it  *)
(* does, or the new lock begins inside.                                    *)
ClearOf(f, p, q) ==
    \/ f.at # 0 /\ q = <<f.class, f.at>>
    \/ \A a \in Span(p, f.size) : a \notin LockSpan(PageAt(f.state, q))
    \/ f.fix /\ BeginOverlaps(PageAt(f.state, q), p) /\ InUse(PageAt(f.state, q))
FoundClear(s, f, p, K) ==
    Disjoint(s) => \A q : IsLockedPage(f.state, q) /\ (q \in K \/ f.done) => ClearOf(f, p, q)
FoundFix(s, f, p) ==
    f.fix => \E q : IsLockedPage(s, q) /\ InUse(PageAt(s, q)) /\ BeginOverlaps(PageAt(s, q), p)
(* The new lock is as long as was asked for, or ends where another begins, *)
(* or grows in a smaller page that begins where it does.                   *)
FoundEnd(s, f, p, n) ==
    Disjoint(s) =>
        \/ f.size = n
        \/ \E q : IsLockedPage(s, q) /\ InUse(PageAt(s, q)) /\ PageAt(s, q).start = p + f.size
        \/ f.at # 0 /\ f.class # "big"
(* No lock that begins at p is longer, and pages in use stay as they are.  *)
Fits(s, p, n) ==
    \A q : IsLockedPage(s, q) /\ InUse(PageAt(s, q)) /\ PageAt(s, q).start = p => PageAt(s, q).size <= n
FoundUsed(s, f, p, n) ==
    Disjoint(s) /\ Fits(s, p, n) =>
        \A q : IsLockedPage(s, q) /\ InUse(PageAt(s, q)) => PageAt(f.state, q) = PageAt(s, q)
Found(s, f, p, n, K) ==
    /\ FoundState(s, f) /\ FoundSize(f, n) /\ FoundPages(f, p, K) /\ FoundClear(s, f, p, K) /\ FoundFix(s, f, p)
    /\ FoundEnd(s, f, p, n) /\ FoundUsed(s, f, p, n)

(* A locked page and what its fields can be.                               *)
LEMMA VisitedIs ==
  ASSUME NEW s, ShapeBut(s, {}), NEW q, IsLockedPage(s, q), NEW pg, pg = PageAt(s, q)
  PROVE  /\ q[1] \in Class /\ q[2] \in Pages1(q[1]) /\ q = <<q[1], q[2]>> /\ q[2] \in Nat /\ q[2] # 0 /\ q \in PageIds
         /\ IsLocked(s, q[1], q[2]) /\ pg = s.page[q[1]][q[2]]
         /\ pg \in AnyPage /\ LockedOK(pg, q[1]) /\ pg.start \in Nat /\ pg.start # 0 /\ pg.locks \in Nat /\ pg.dirty \in BOOLEAN
         /\ pg.size \in Nat /\ pg.size >= 1 /\ pg.size <= PageSize[q[1]]
         /\ pg.start \in LockSpan(pg) /\ LockSpan(pg) \subseteq Addr /\ pg.data \in [LockSpan(pg) -> Val]
<1>1. q[1] \in Class /\ q[2] \in Pages1(q[1]) /\ q = <<q[1], q[2]>> /\ IsLocked(s, q[1], q[2])
    BY DEF IsLockedPage
<1>2. <<q[1], q[2]>> \notin {}
    OBVIOUS
<1>3. pg = s.page[q[1]][q[2]]
    BY DEF PageAt
<1>4. LockedOK(pg, q[1]) /\ pg \in AnyPage
    BY <1>1, <1>2, <1>3, LockedPageIs
<1>5. q[2] \in Nat /\ q[2] # 0
    BY <1>1, Sizes DEF Pages1
<1>6. q \in PageIds
    BY <1>1 DEF PageIds
<1>7. pg.start \in Nat /\ pg.start # 0 /\ pg.locks \in Nat /\ pg.dirty \in BOOLEAN /\ pg.size \in Nat /\ pg.size >= 1
      /\ pg.size <= PageSize[q[1]]
    BY <1>1, <1>4, Sizes DEF AnyPage, LockedOK
<1>8. pg.start \in LockSpan(pg)
    BY <1>7 DEF LockSpan, Span
<1> QED BY <1>1, <1>3, <1>4, <1>5, <1>6, <1>7, <1>8 DEF LockedOK

(* A page in use stays on the list of the locked pages.                    *)
LEMMA UsedStays ==
  ASSUME NEW s, NEW t, ShapeBut(s, {}), ShapeBut(t, {}), SameLocks(s, t),
         NEW q, IsLockedPage(s, q), InUse(PageAt(s, q))
  PROVE  IsLockedPage(t, q)
<1> DEFINE c == q[1]
           i == q[2]
<1>1. c \in Class /\ i \in Pages1(c) /\ q = <<c, i>> /\ s.page[c][i].locks > 0 /\ s.page[c][i].locks \in Nat
    BY VisitedIs DEF InUse
<1> HIDE DEF c, i
<1>2. t.page[c][i].locks # 0
    BY <1>1 DEF SameLocks
<1>3. ~IsFree(t, c, i)
    BY <1>1, <1>2 DEF ShapeBut, FreeOK
<1>4. IsLocked(t, c, i)
    BY <1>1, <1>3 DEF ShapeBut, Split, IsLocked, IsFree, Pages1
<1>5. q[1] = c /\ q[2] = i
    BY <1>1
<1> QED BY <1>1, <1>4, <1>5 DEF IsLockedPage
(* Pages in use are as they were.                                          *)
LEMMA SettledUsed ==
  ASSUME NEW s, NEW t, ShapeBut(s, {}), Settled(s, t)
  PROVE  \A q : IsLockedPage(s, q) /\ InUse(PageAt(s, q)) => PageAt(t, q) = PageAt(s, q)
<1> SUFFICES ASSUME NEW q, IsLockedPage(s, q), InUse(PageAt(s, q)) PROVE PageAt(t, q) = PageAt(s, q)
    OBVIOUS
<1>1. IsLockedPage(t, q)
    BY UsedStays DEF Settled
<1> QED BY <1>1 DEF Settled

(* A page that is not in use is given back.                                *)
SearchFreed(f, q) == [f EXCEPT !.state = FreeLockedPage(f.state, q[1], q[2])]
(* Giving back a page that nobody uses keeps what the search found.        *)
LEMMA SearchFrees ==
  ASSUME NEW s, NEW f, NEW p, NEW n, NEW K, Found(s, f, p, n, K), ~f.done, ShapeBut(s, {}),
         NEW q, IsLockedPage(f.state, q), q \notin K, ~InUse(PageAt(f.state, q)),
         NEW g, g = SearchFreed(f, q)
  PROVE  /\ Found(s, g, p, n, K \cup {q})
         /\ \A r : IsLockedPage(f.state, r) /\ r # q => IsLockedPage(g.state, r)
<1> DEFINE t == f.state
           u == FreeLockedPage(t, q[1], q[2])
           pg == PageAt(t, q)
<1>1. ShapeBut(t, {}) /\ Settled(s, t) /\ f \in Searches
    BY DEF Found, FoundState, FoundSize
<1>2. /\ q[1] \in Class /\ q[2] \in Pages1(q[1]) /\ q = <<q[1], q[2]>> /\ IsLocked(t, q[1], q[2])
      /\ t.page[q[1]][q[2]] = pg /\ pg.locks \in Nat
    BY <1>1, VisitedIs
<1>3. t.page[q[1]][q[2]].locks = 0
    BY <1>2 DEF InUse
<1>4. Freed(t, u, q[1], q[2]) /\ Remembers(t, u)
    BY <1>1, <1>2, <1>3, FreesLocked, FreesRemember
<1>5. g.state = u /\ g.class = f.class /\ g.size = f.size /\ g.at = f.at /\ g.old = f.old /\ g.second = f.second
      /\ g.fix = f.fix /\ g.shrunk = f.shrunk /\ g.done = f.done
    BY <1>1 DEF Searches, SearchFreed
<1> HIDE DEF t, u, pg
<1>6. /\ Settled(t, u) /\ ShapeBut(u, {}) /\ \A r : IsLockedPage(u, r) <=> IsLockedPage(t, r) /\ r # q
      /\ \A r : IsLockedPage(u, r) => PageAt(u, r) = PageAt(t, r)
    BY <1>2, <1>4 DEF Freed, Settled
<1>7. Settled(s, u)
    BY <1>1, <1>6, SettledTwice
<1>8. u \in States
    BY <1>6 DEF ShapeBut
<1>9. FoundState(s, g)
  <2>1. ShapeBut(u, {}) /\ u.overrun = s.overrun /\ SameLocks(s, u)
      BY <1>6, <1>7 DEF Settled
  <2>2. Remembers(s, u)
      BY <1>4, RemembersTwice DEF Found, FoundState, t
  <2>3. \A r : IsLockedPage(u, r) => IsLockedPage(s, r) /\ Narrower(PageAt(s, r), PageAt(u, r))
      BY <1>6 DEF Found, FoundState, t
  <2> QED BY <1>5, <1>7, <2>1, <2>2, <2>3 DEF FoundState
<1>10. FoundSize(g, n)
  <2>1. g \in Searches
      BY <1>1, <1>8 DEF Searches, SearchFreed, u, t
  <2> QED BY <1>5, <2>1 DEF Found, FoundSize
<1>11. FoundPages(g, p, K \cup {q})
  <2>1. FoundPages(f, p, K)
      BY DEF Found
  <2>2. \A r : r \in K /\ IsLockedPage(t, r) => IsLockedPage(u, r) /\ PageAt(u, r) = PageAt(t, r)
      BY <1>6
  <2> QED BY <1>5, <2>1, <2>2 DEF FoundPages, t
<1>12. FoundClear(s, g, p, K \cup {q})
  <2>1. FoundClear(s, f, p, K)
      BY DEF Found
  <2>2. ASSUME NEW r, IsLockedPage(u, r), r \in K, ClearOf(f, p, r) PROVE ClearOf(g, p, r)
      BY <1>5, <1>6, <2>2 DEF ClearOf, t
  <2> QED BY <1>5, <1>6, <2>1, <2>2 DEF FoundClear, t
<1>13. FoundFix(s, g, p) /\ FoundEnd(s, g, p, n)
    BY <1>5 DEF Found, FoundFix, FoundEnd
<1>14. FoundUsed(s, g, p, n)
    BY <1>5, <1>7, SettledUsed DEF FoundUsed
<1> QED BY <1>5, <1>6, <1>9, <1>10, <1>11, <1>12, <1>13, <1>14 DEF Found, t

(* The page begins where the lock does, and is not given back.             *)
LEMMA SearchMeets ==
  ASSUME NEW s, NEW f, NEW p \in Addr \ {0}, NEW n \in Nat, NEW K, Found(s, f, p, n, K), ~f.done, ShapeBut(s, {}),
         NEW q, IsLockedPage(f.state, q), q \notin K, NEW pg, pg = PageAt(f.state, q), pg.start = p,
         ~(f.class # q[1] /\ ~InUse(pg)),
         NEW g, g = SameStart(f, q, pg)
  PROVE  /\ Found(s, g, p, n, K \cup {q})
         /\ \A r : IsLockedPage(f.state, r) => IsLockedPage(g.state, r)
<1> DEFINE t == f.state
           c == q[1]
           i == q[2]
<1>1. ShapeBut(t, {}) /\ Settled(s, t) /\ f \in Searches
    BY DEF Found, FoundState, FoundSize
<1>2. /\ c \in Class /\ i \in Pages1(c) /\ q = <<c, i>> /\ IsLocked(t, c, i) /\ i \in Nat /\ i # 0
      /\ t.page[c][i] = pg /\ pg.locks \in Nat /\ pg.size \in Nat /\ pg.size >= 1 /\ pg.start \in LockSpan(pg)
      /\ pg.size <= PageSize[c] /\ pg.start \in Nat
    BY <1>1, VisitedIs
<1>3. /\ f.class \in Class /\ f.size \in Nat /\ f.size >= 1 /\ f.size <= n /\ f.size <= PageSize[f.class]
      /\ PageSize[c] \in Nat /\ PageSize[c] >= 1 /\ PageSize[f.class] \in Nat
    BY <1>1, <1>2, Sizes DEF Found, FoundSize, Searches
<1>4. Disjoint(s) => f.at = 0 /\ \A r : IsLockedPage(t, r) /\ r # q => Apart(pg, PageAt(t, r))
  <2> SUFFICES ASSUME Disjoint(s) PROVE f.at = 0 /\ \A r : IsLockedPage(t, r) /\ r # q => Apart(pg, PageAt(t, r))
      OBVIOUS
  <2>1. ASSUME NEW r, IsLockedPage(t, r), r # q PROVE Apart(pg, PageAt(t, r))
      BY <1>1, <2>1 DEF Settled, Disjoint
  <2>2. ASSUME f.at # 0 PROVE FALSE
    <3> DEFINE r == <<f.class, f.at>>
    <3>1. r # q /\ IsLockedPage(t, r) /\ PageAt(t, r).start = p
        BY <2>2 DEF Found, FoundPages
    <3> HIDE DEF r
    <3>2. p \in LockSpan(PageAt(t, r))
        BY <1>1, <3>1, VisitedIs
    <3> QED BY <1>2, <2>1, <3>1, <3>2 DEF Apart
  <2> QED BY <2>1, <2>2
<1>5. CASE f.class # c
  <2> DEFINE m == IF PageSize[c] < PageSize[f.class] THEN Smaller(f.size, PageSize[c]) ELSE f.size
  <2>1. g = [f EXCEPT !.class = c, !.size = m, !.at = i, !.done = pg.size = m]
      BY <1>5 DEF SameStart
  <2>2. m \in Nat /\ m >= 1 /\ m <= f.size /\ m <= PageSize[c] /\ m <= n
      BY <1>3 DEF Smaller
  <2> HIDE DEF m, c, i
  <2>3. /\ g.state = t /\ g.class = c /\ g.size = m /\ g.at = i /\ g.done = (pg.size = m) /\ g.fix = f.fix
        /\ g \in Searches
      BY <1>1, <1>2, <2>1, <2>2 DEF Searches
  <2>4. FoundState(s, g)
      BY <1>1, <1>2, <2>3 DEF Found, FoundState
  <2>5. FoundSize(g, n)
      BY <2>2, <2>3 DEF FoundSize
  <2>6. FoundPages(g, p, K \cup {q})
      BY <1>2, <2>3 DEF FoundPages, t
  <2>7. FoundClear(s, g, p, K \cup {q})
    <3> SUFFICES ASSUME Disjoint(s), NEW r, IsLockedPage(t, r), r \in K \cup {q} \/ g.done PROVE ClearOf(g, p, r)
        BY <2>3 DEF FoundClear
    <3>1. CASE r = q
        BY <1>2, <2>3, <3>1 DEF ClearOf
    <3>2. CASE r # q /\ g.done
      <4>1. Apart(pg, PageAt(t, r)) /\ LockSpan(pg) = Span(p, m)
          BY <1>4, <2>3, <3>2 DEF LockSpan
      <4> QED BY <2>3, <4>1 DEF ClearOf, Apart
    <3>3. CASE r # q /\ r \in K
      <4>1. ClearOf(f, p, r) /\ f.at = 0
          BY <1>4, <3>3 DEF Found, FoundClear, t
      <4>2. Span(p, m) \subseteq Span(p, f.size)
          BY <1>2, <1>3, <2>2 DEF Span
      <4> QED BY <2>3, <4>1, <4>2 DEF ClearOf, t
    <3> QED BY <3>1, <3>2, <3>3
  <2>8. FoundFix(s, g, p)
      BY <2>3 DEF Found, FoundFix
  <2>9. FoundEnd(s, g, p, n)
    <3>1. c # "big" \/ m = f.size
        BY <1>3, Sizes DEF m
    <3>2. m = f.size => FoundEnd(s, g, p, n)
        BY <1>2, <1>4, <2>3 DEF Found, FoundEnd
    <3>3. c # "big" => FoundEnd(s, g, p, n)
        BY <1>2, <2>3 DEF FoundEnd
    <3> QED BY <3>1, <3>2, <3>3
  <2>10. FoundUsed(s, g, p, n)
      BY <1>1, <2>3, SettledUsed DEF FoundUsed
  <2> QED BY <2>3, <2>4, <2>5, <2>6, <2>7, <2>8, <2>9, <2>10 DEF Found
<1>6. CASE f.class = c /\ pg.size <= f.size
  <2>1. g = [f EXCEPT !.at = i, !.done = pg.size = f.size]
      BY <1>6 DEF SameStart
  <2> HIDE DEF c, i
  <2>2. /\ g.state = t /\ g.class = c /\ g.size = f.size /\ g.at = i /\ g.done = (pg.size = f.size) /\ g.fix = f.fix
        /\ g \in Searches
      BY <1>1, <1>2, <1>6, <2>1 DEF Searches
  <2>4. FoundState(s, g)
      BY <1>1, <1>2, <2>2 DEF Found, FoundState
  <2>5. FoundSize(g, n)
      BY <1>3, <1>6, <2>2 DEF FoundSize
  <2>6. FoundPages(g, p, K \cup {q})
      BY <1>2, <2>2 DEF FoundPages, t
  <2>7. FoundClear(s, g, p, K \cup {q})
    <3> SUFFICES ASSUME Disjoint(s), NEW r, IsLockedPage(t, r), r \in K \cup {q} \/ g.done PROVE ClearOf(g, p, r)
        BY <2>2 DEF FoundClear
    <3>1. CASE r = q
        BY <1>2, <2>2, <3>1 DEF ClearOf
    <3>2. CASE r # q /\ g.done
      <4>1. Apart(pg, PageAt(t, r)) /\ LockSpan(pg) = Span(p, f.size)
          BY <1>4, <2>2, <3>2 DEF LockSpan
      <4> QED BY <2>2, <4>1 DEF ClearOf, Apart
    <3>3. CASE r # q /\ r \in K
      <4>1. ClearOf(f, p, r) /\ f.at = 0
          BY <1>4, <3>3 DEF Found, FoundClear, t
      <4> QED BY <2>2, <4>1 DEF ClearOf, t
    <3> QED BY <3>1, <3>2, <3>3
  <2>8. FoundFix(s, g, p)
      BY <2>2 DEF Found, FoundFix
  <2>9. FoundEnd(s, g, p, n)
      BY <1>2, <1>4, <2>2 DEF Found, FoundEnd
  <2>10. FoundUsed(s, g, p, n)
      BY <1>1, <2>2, SettledUsed DEF FoundUsed
  <2> QED BY <2>2, <2>4, <2>5, <2>6, <2>7, <2>8, <2>9, <2>10 DEF Found
<1>7. CASE f.class = c /\ ~(pg.size <= f.size)
  <2> DEFINE u == Trimming(t, c, i, f.size)
             w == Require(u, ~InUse(pg))
  <2>1. g = [f EXCEPT !.state = w, !.at = i, !.done = TRUE]
      BY <1>2, <1>7 DEF SameStart, Trimming
  <2>2. TrimmedTo(t, u, q, f.size)
      BY <1>1, <1>2, <1>3, <1>7, Trims
  <2> HIDE DEF u, c, i
  <2>3. ShapeBut(u, {}) /\ u \in States /\ (~InUse(pg)) \in BOOLEAN
      BY <2>2 DEF TrimmedTo, ShapeBut, InUse
  <2>4. Below(u, w) /\ ShapeBut(w, {}) /\ w.page = u.page /\ w.locked = u.locked /\ w.overrun = u.overrun
        /\ w.store = u.store /\ w.free = u.free /\ w \in States
      BY <2>3, RequireBelow, RequireIs
  <2> HIDE DEF w
  <2>5. /\ g.state = w /\ g.class = c /\ g.size = f.size /\ g.at = i /\ g.done /\ g.fix = f.fix
        /\ g \in Searches
      BY <1>1, <1>2, <1>7, <2>1, <2>4 DEF Searches
  <2>6. /\ \A r : IsLockedPage(w, r) <=> IsLockedPage(t, r)
        /\ \A r : IsLockedPage(t, r) /\ r # q => PageAt(w, r) = PageAt(t, r)
        /\ PageAt(w, q).start = p /\ PageAt(w, q).size = f.size /\ PageAt(w, q).dirty = pg.dirty
      BY <2>2, <2>4 DEF TrimmedTo, IsLockedPage, IsLocked, PageAt
  <2>7. FoundState(s, g)
    <3>1. SameLocks(s, w) /\ w.overrun = s.overrun
        BY <1>1, <2>2, <2>4 DEF SameLocks, TrimmedTo, Settled
    <3>2. Remembers(s, w)
      <4>1. Remembers(s, t) /\ Remembers(t, u)
          BY <2>2 DEF Found, FoundState, TrimmedTo
      <4>2. Kept(u, w)
          BY <2>4, SameAgrees DEF Kept
      <4>3. Remembers(u, w)
          BY <2>3, <2>4, <4>2, BelowRemembers
      <4> QED BY <4>1, <4>3, RemembersTwice
    <3>3. ASSUME NEW r, IsLockedPage(w, r) PROVE IsLockedPage(s, r) /\ Narrower(PageAt(s, r), PageAt(w, r))
      <4>1. IsLockedPage(t, r) /\ IsLockedPage(s, r) /\ PageAt(t, r) = PageAt(s, r)
          BY <1>1, <2>6, <3>3 DEF Settled
      <4>2. PageAt(t, r).size \in Nat
          BY <1>1, <4>1, VisitedIs
      <4>3. CASE r = q
          BY <1>2, <1>3, <1>7, <2>6, <4>1, <4>3 DEF Narrower
      <4>4. CASE r # q
          BY <2>6, <4>1, <4>2, <4>4 DEF Narrower
      <4> QED BY <4>1, <4>3, <4>4
    <3> QED BY <1>2, <2>4, <2>5, <3>1, <3>2, <3>3 DEF FoundState
  <2>8. FoundSize(g, n)
      BY <1>3, <1>7, <2>5 DEF FoundSize
  <2>9. FoundPages(g, p, K \cup {q})
      BY <1>2, <2>5, <2>6 DEF FoundPages, t
  <2>10. FoundClear(s, g, p, K \cup {q})
    <3> SUFFICES ASSUME Disjoint(s), NEW r, IsLockedPage(w, r) PROVE ClearOf(g, p, r)
        BY <2>5 DEF FoundClear
    <3>1. CASE r = q
        BY <1>2, <2>5, <3>1 DEF ClearOf
    <3>2. CASE r # q
      <4>1. Apart(pg, PageAt(w, r))
          BY <1>4, <2>6, <3>2
      <4>2. Span(p, f.size) \subseteq LockSpan(pg)
          BY <1>2, <1>3, <1>7 DEF LockSpan, Span
      <4> QED BY <2>5, <4>1, <4>2 DEF ClearOf, Apart
    <3> QED BY <3>1, <3>2
  <2>11. FoundFix(s, g, p)
      BY <2>5 DEF Found, FoundFix
  <2>12. FoundEnd(s, g, p, n)
      BY <1>2, <1>4, <2>5 DEF Found, FoundEnd
  <2>13. FoundUsed(s, g, p, n)
    <3> SUFFICES ASSUME Disjoint(s), Fits(s, p, n), NEW r, IsLockedPage(s, r), InUse(PageAt(s, r))
                 PROVE  PageAt(w, r) = PageAt(s, r)
        BY <2>5 DEF FoundUsed
    <3>1. IsLockedPage(t, r) /\ PageAt(t, r) = PageAt(s, r)
      <4>1. IsLockedPage(t, r)
          BY <1>1, UsedStays DEF Settled
      <4> QED BY <1>1, <4>1 DEF Settled
    <3>2. CASE r # q
        BY <2>6, <3>1, <3>2
    <3>3. CASE r = q
      <4>1. pg.size <= n /\ f.at = 0 /\ f.size # n
          BY <1>2, <1>3, <1>4, <1>7, <3>1, <3>3 DEF Fits
      <4>2. PICK v : IsLockedPage(s, v) /\ InUse(PageAt(s, v)) /\ PageAt(s, v).start = p + f.size
          BY <4>1 DEF Found, FoundEnd
      <4>3. IsLockedPage(t, v) /\ PageAt(t, v) = PageAt(s, v)
        <5>1. IsLockedPage(t, v)
            BY <1>1, <4>2, UsedStays DEF Settled
        <5> QED BY <1>1, <5>1 DEF Settled
      <4>4. v # q /\ p + f.size \in LockSpan(pg)
          BY <1>2, <1>3, <1>7, <4>2, <4>3 DEF LockSpan, Span
      <4>5. p + f.size \in LockSpan(PageAt(t, v))
          BY <1>1, <4>2, <4>3, VisitedIs
      <4>6. Apart(pg, PageAt(t, v))
          BY <1>4, <4>3, <4>4
      <4> QED BY <4>4, <4>5, <4>6 DEF Apart
    <3> QED BY <3>2, <3>3
  <2> QED BY <2>5, <2>6, <2>7, <2>8, <2>9, <2>10, <2>11, <2>12, <2>13 DEF Found
<1> QED BY <1>5, <1>6, <1>7

(* The page begins elsewhere, and is not given back.                       *)
LEMMA SearchPasses ==
  ASSUME NEW s, NEW f, NEW p \in Addr \ {0}, NEW n \in Nat, NEW K, Found(s, f, p, n, K), ~f.done, ShapeBut(s, {}),
         NEW q, IsLockedPage(f.state, q), q \notin K, NEW pg, pg = PageAt(f.state, q), pg.start # p,
         InUse(pg) \/ ~(EndOverlaps(pg, p, f.size) \/ BeginOverlaps(pg, p)),
         NEW g, g = OtherStart(f, q, pg, p)
  PROVE  Found(s, g, p, n, K \cup {q}) /\ g.state = f.state
<1> DEFINE t == f.state
           c == q[1]
           i == q[2]
<1>1. ShapeBut(t, {}) /\ Settled(s, t) /\ f \in Searches
    BY DEF Found, FoundState, FoundSize
<1>2. /\ c \in Class /\ i \in Pages1(c) /\ q = <<c, i>> /\ IsLocked(t, c, i) /\ i \in Nat /\ i # 0
      /\ pg.locks \in Nat /\ pg.size \in Nat /\ pg.size >= 1
      /\ pg.start \in Nat /\ q \in PageIds /\ p \in Nat /\ IsLockedPage(s, q) /\ PageAt(s, q) = pg
  <2>1. IsLockedPage(s, q) /\ PageAt(s, q) = pg
      BY <1>1 DEF Settled
  <2>2. p \in Nat
      BY Sizes
  <2> QED BY <1>1, <2>1, <2>2, VisitedIs
<1>3. f.class \in Class /\ f.size \in Nat /\ f.size >= 1 /\ f.size <= n /\ f.size <= PageSize[f.class] /\ n \in Nat
      /\ PageSize[f.class] \in Nat
    BY <1>1, Sizes DEF Found, FoundSize, Searches
<1> HIDE DEF c, i
<1>4. CASE InUse(pg) /\ EndOverlaps(pg, p, f.size)
  <2>1. g = [f EXCEPT !.size = pg.start - p, !.shrunk = TRUE]
      BY <1>4 DEF OtherStart
  <2>2. pg.start - p \in Nat /\ pg.start - p >= 1 /\ pg.start - p < f.size
      BY <1>2, <1>3, <1>4 DEF EndOverlaps
  <2> DEFINE m == pg.start - p
  <2> HIDE DEF m
  <2>3. /\ g.state = t /\ g.class = f.class /\ g.size = m /\ g.at = f.at /\ g.old = f.old /\ g.second = f.second
        /\ g.done = f.done /\ g.fix = f.fix /\ g \in Searches
      BY <1>1, <2>1, <2>2 DEF Searches, m
  <2>4. FoundState(s, g) /\ FoundPages(g, p, K \cup {q}) /\ FoundFix(s, g, p)
    <3>1. FoundState(s, g)
        BY <2>3 DEF Found, FoundState
    <3>2. FoundPages(g, p, K \cup {q})
        BY <2>3 DEF Found, FoundPages
    <3> QED BY <2>3, <3>1, <3>2 DEF Found, FoundFix
  <2>5. FoundSize(g, n)
    <3>1. m \in Nat /\ m >= 1 /\ m < f.size
        BY <2>2 DEF m
    <3>2. m \in 1 .. n /\ m <= PageSize[f.class]
        BY <1>3, <3>1
    <3> QED BY <2>3, <3>2 DEF FoundSize
  <2>6. FoundClear(s, g, p, K \cup {q})
    <3> SUFFICES ASSUME Disjoint(s), NEW r, IsLockedPage(t, r), r \in K \cup {q} PROVE ClearOf(g, p, r)
        BY <2>3 DEF FoundClear
    <3>1. CASE r = q
      <4>1. \A a \in Span(p, m) : a \notin LockSpan(pg)
          BY <1>2, <2>2 DEF Span, LockSpan, m
      <4> QED BY <2>3, <3>1, <4>1 DEF ClearOf
    <3>2. CASE r # q
      <4>1. ClearOf(f, p, r)
          BY <3>2 DEF Found, FoundClear, t
      <4>2. Span(p, m) \subseteq Span(p, f.size)
          BY <1>2, <1>3, <2>2 DEF Span, m
      <4> QED BY <2>3, <4>1, <4>2 DEF ClearOf
    <3> QED BY <3>1, <3>2
  <2>7. FoundEnd(s, g, p, n)
    <3>1. p + m = pg.start
        BY <1>2 DEF m
    <3> QED BY <1>2, <1>4, <2>3, <3>1 DEF FoundEnd
  <2>8. FoundUsed(s, g, p, n)
      BY <1>1, <2>3, SettledUsed DEF FoundUsed
  <2> QED BY <2>3, <2>4, <2>5, <2>6, <2>7, <2>8 DEF Found
<1>5. CASE InUse(pg) /\ ~EndOverlaps(pg, p, f.size)
  <2> DEFINE b == f.fix \/ BeginOverlaps(pg, p)
  <2>1. g = [f EXCEPT !.fix = b]
      BY <1>5 DEF OtherStart
  <2>2. b \in BOOLEAN
      BY DEF BeginOverlaps
  <2> HIDE DEF b
  <2>3. /\ g.state = t /\ g.class = f.class /\ g.size = f.size /\ g.at = f.at /\ g.old = f.old /\ g.second = f.second
        /\ g.done = f.done /\ g.fix = b /\ g \in Searches
      BY <1>1, <2>1, <2>2 DEF Searches
  <2>4. FoundState(s, g) /\ FoundSize(g, n)
      BY <2>3 DEF Found, FoundState, FoundSize
  <2>5. FoundPages(g, p, K \cup {q})
      BY <2>3 DEF Found, FoundPages
  <2>6. FoundFix(s, g, p)
    <3>1. CASE f.fix
        BY <3>1 DEF Found, FoundFix
    <3>2. CASE ~f.fix
        BY <1>2, <1>5, <2>3, <3>2 DEF FoundFix, b
    <3> QED BY <3>1, <3>2
  <2>7. FoundClear(s, g, p, K \cup {q})
    <3> SUFFICES ASSUME Disjoint(s), NEW r, IsLockedPage(t, r), r \in K \cup {q} PROVE ClearOf(g, p, r)
        BY <2>3 DEF FoundClear
    <3>1. CASE r = q
      <4>1. CASE BeginOverlaps(pg, p)
          BY <1>5, <2>3, <3>1, <4>1 DEF ClearOf, b
      <4>2. CASE ~BeginOverlaps(pg, p)
        <5>1. \A a \in Span(p, f.size) : a \notin LockSpan(pg)
            BY <1>2, <1>3, <1>5, <4>2 DEF Span, LockSpan, EndOverlaps, BeginOverlaps
        <5> QED BY <2>3, <3>1, <5>1 DEF ClearOf
      <4> QED BY <4>1, <4>2
    <3>2. CASE r # q
      <4>1. ClearOf(f, p, r)
          BY <3>2 DEF Found, FoundClear, t
      <4> QED BY <2>3, <4>1 DEF ClearOf, b
    <3> QED BY <3>1, <3>2
  <2>8. FoundEnd(s, g, p, n)
      BY <2>3 DEF Found, FoundEnd
  <2>9. FoundUsed(s, g, p, n)
      BY <1>1, <2>3, SettledUsed DEF FoundUsed
  <2> QED BY <2>3, <2>4, <2>5, <2>6, <2>7, <2>8, <2>9 DEF Found
<1>6. CASE ~InUse(pg) /\ ~EndOverlaps(pg, p, f.size) /\ ~BeginOverlaps(pg, p)
  <2>1. pg.locks = 0
      BY <1>2, <1>6 DEF InUse
  <2>2. \A a \in Span(p, f.size) : a \notin LockSpan(pg)
      BY <1>2, <1>3, <1>6 DEF Span, LockSpan, EndOverlaps, BeginOverlaps
  <2>3. PICK x, y : /\ g = [f EXCEPT !.old = x, !.second = y] /\ x \in Nat /\ y \in PageIds \cup {<<>>}
                    /\ x = f.old \/ (x = i /\ f.class = c)
                    /\ y = f.second \/ (y = q /\ PageSize[f.class] < PageSize[c])
    <3>1. f = [f EXCEPT !.old = f.old, !.second = f.second]
        BY <1>1 DEF Searches
    <3>2. [f EXCEPT !.old = i] = [f EXCEPT !.old = i, !.second = f.second]
        BY <1>1 DEF Searches
    <3>3. [f EXCEPT !.second = q] = [f EXCEPT !.old = f.old, !.second = q]
        BY <1>1 DEF Searches
    <3>4. f.old \in Nat /\ f.second \in PageIds \cup {<<>>}
        BY <1>1 DEF Searches
    <3>5. CASE f.old = 0 /\ f.class = c
      <4>1. g = [f EXCEPT !.old = i]
          BY <1>6, <3>5 DEF OtherStart, c, i
      <4> QED BY <1>2, <3>2, <3>4, <3>5, <4>1
    <3>6. CASE f.old = 0 /\ f.class # c /\ f.second = <<>> /\ PageSize[f.class] < PageSize[c]
      <4>1. g = [f EXCEPT !.second = q]
          BY <1>6, <3>6 DEF OtherStart, c
      <4> QED BY <1>2, <3>3, <3>4, <3>6, <4>1
    <3>7. CASE ~(f.old = 0 /\ f.class = c) /\ ~(f.old = 0 /\ f.class # c /\ f.second = <<>> /\ PageSize[f.class] < PageSize[c])
      <4>1. g = f
          BY <1>6, <3>7 DEF OtherStart, c
      <4> QED BY <3>1, <3>4, <4>1
    <3> QED BY <3>5, <3>6, <3>7
  <2>4. /\ g.state = t /\ g.class = f.class /\ g.size = f.size /\ g.at = f.at /\ g.old = x /\ g.second = y
        /\ g.done = f.done /\ g.fix = f.fix /\ g \in Searches
      BY <1>1, <2>3 DEF Searches
  <2>5. FoundState(s, g) /\ FoundSize(g, n) /\ FoundFix(s, g, p)
    <3>1. FoundState(s, g) /\ FoundSize(g, n)
        BY <2>4 DEF Found, FoundState, FoundSize
    <3> QED BY <2>4, <3>1 DEF Found, FoundFix
  <2>6. FoundPages(g, p, K \cup {q})
    <3>1. FoundPages(f, p, K)
        BY DEF Found
    <3>2. q[1] = c /\ IsLockedPage(t, q) /\ PageAt(t, q).locks = 0
        BY <2>1 DEF c
    <3>3. f.at # 0 => /\ <<f.class, f.at>> \in K /\ IsLockedPage(t, <<f.class, f.at>>)
                      /\ PageAt(t, <<f.class, f.at>>).start = p
        BY <3>1 DEF FoundPages
    <3>4. f.at = 0 /\ x # 0 =>
            /\ <<f.class, x>> \in K \cup {q} /\ IsLockedPage(t, <<f.class, x>>)
            /\ PageAt(t, <<f.class, x>>).locks = 0
      <4>1. CASE x = f.old
          BY <3>1, <4>1 DEF FoundPages
      <4>2. CASE x = i /\ f.class = c
          BY <1>2, <3>2, <4>2
      <4> QED BY <2>3, <4>1, <4>2
    <3>5. f.at = 0 /\ y # <<>> =>
            /\ y \in K \cup {q} /\ IsLockedPage(t, y)
            /\ PageAt(t, y).locks = 0 /\ PageSize[f.class] < PageSize[y[1]]
      <4>1. CASE y = f.second
          BY <3>1, <4>1 DEF FoundPages
      <4>2. CASE y = q /\ PageSize[f.class] < PageSize[c]
          BY <3>2, <4>2
      <4> QED BY <2>3, <4>1, <4>2
    <3> HIDE DEF t
    <3> QED BY <2>4, <3>3, <3>4, <3>5 DEF FoundPages
  <2>7. FoundClear(s, g, p, K \cup {q})
    <3> SUFFICES ASSUME Disjoint(s), NEW r, IsLockedPage(t, r), r \in K \cup {q} PROVE ClearOf(g, p, r)
        BY <2>4 DEF FoundClear
    <3>1. CASE r = q
        BY <2>2, <2>4, <3>1 DEF ClearOf
    <3>2. CASE r # q
      <4>1. ClearOf(f, p, r)
          BY <3>2 DEF Found, FoundClear, t
      <4> QED BY <2>4, <4>1 DEF ClearOf
    <3> QED BY <3>1, <3>2
  <2>8. FoundEnd(s, g, p, n)
      BY <2>4 DEF Found, FoundEnd
  <2>9. FoundUsed(s, g, p, n)
      BY <1>1, <2>4, SettledUsed DEF FoundUsed
  <2> QED BY <2>4, <2>5, <2>6, <2>7, <2>8, <2>9 DEF Found
<1> QED BY <1>4, <1>5, <1>6

(* The walk over the locked pages.                                         *)
Considered(s, f, g, p, n, K, q) ==
    /\ Found(s, g, p, n, K \cup {q})
    /\ \A r : IsLockedPage(f.state, r) /\ r # q => IsLockedPage(g.state, r)
(* Consider, with its four cases, adds the page to those visited.          *)
LEMMA Considers ==
  ASSUME NEW s, NEW f, NEW p \in Addr \ {0}, NEW n \in Nat, NEW K, Found(s, f, p, n, K), ShapeBut(s, {}), ~s.failed,
         NEW q, IsLockedPage(f.state, q), q \notin K
  PROVE  Considered(s, f, Consider(f, q, p), p, n, K, q)
<1> DEFINE g == Consider(f, q, p)
<1> SUFFICES Considered(s, f, g, p, n, K, q)
    OBVIOUS
<1>3. g = IF f.done \/ f.state.failed THEN f
          ELSE IF PageAt(f.state, q).start = p THEN SameStart(f, q, PageAt(f.state, q))
          ELSE OtherStart(f, q, PageAt(f.state, q), p)
    BY DEF Consider
<1> HIDE DEF g
<1>1. CASE f.done
  <2>1. g = f
      BY <1>1, <1>3
  <2>2. FoundPages(f, p, K \cup {q})
      BY DEF Found, FoundPages
  <2>3. FoundClear(s, f, p, K \cup {q})
      BY <1>1 DEF Found, FoundClear
  <2> QED BY <2>1, <2>2, <2>3 DEF Found, Considered
<1>2. CASE ~f.done
  <2> DEFINE pg == PageAt(f.state, q)
  <2>1. ~f.state.failed
      BY <1>2 DEF Found, FoundState, Settled
  <2>2. g = IF pg.start = p THEN SameStart(f, q, pg) ELSE OtherStart(f, q, pg, p)
      BY <1>2, <1>3, <2>1 DEF pg
  <2> HIDE DEF pg
  <2>3. CASE pg.start = p /\ f.class # q[1] /\ ~InUse(pg)
    <3>1. g = SearchFreed(f, q)
        BY <2>2, <2>3 DEF SameStart, SearchFreed
    <3> QED BY <1>2, <2>3, <3>1, SearchFrees DEF pg, Considered
  <2>4. CASE pg.start = p /\ ~(f.class # q[1] /\ ~InUse(pg))
    <3>1. g = SameStart(f, q, pg)
        BY <2>2, <2>4
    <3> QED BY <1>2, <2>4, <3>1, SearchMeets DEF pg, Considered
  <2>5. CASE pg.start # p /\ ~InUse(pg) /\ (EndOverlaps(pg, p, f.size) \/ BeginOverlaps(pg, p))
    <3>1. g = SearchFreed(f, q)
        BY <2>2, <2>5 DEF OtherStart, SearchFreed
    <3> QED BY <1>2, <2>5, <3>1, SearchFrees DEF pg, Considered
  <2>6. CASE pg.start # p /\ (InUse(pg) \/ ~(EndOverlaps(pg, p, f.size) \/ BeginOverlaps(pg, p)))
    <3>1. g = OtherStart(f, q, pg, p)
        BY <2>2, <2>6
    <3> QED BY <1>2, <2>6, <3>1, SearchPasses DEF pg, Considered
  <2> QED BY <2>3, <2>4, <2>5, <2>6
<1> QED BY <1>1, <1>2

IsSearch(f, s, p, b, order, n) ==
    f = [k \in 0 .. n |-> IF k = 0 THEN NoneFound(s, b) ELSE Consider(f[k - 1], order[k], p)]
(* The recursive function of the search exists.                            *)
LEMMA SearchExists ==
  ASSUME NEW s, NEW p, NEW b, NEW order, NEW n \in Nat
  PROVE  \E f : IsSearch(f, s, p, b, order, n)
<1> DEFINE G == {k \in 0 .. n : \E f : IsSearch(f, s, p, b, order, k)}
<1>1. 0 \in G
  <2> DEFINE f == [k \in 0 .. 0 |-> NoneFound(s, b)]
  <2>1. f = [k \in 0 .. 0 |-> IF k = 0 THEN NoneFound(s, b) ELSE Consider(f[k - 1], order[k], p)]
      OBVIOUS
  <2> HIDE DEF f
  <2>2. IsSearch(f, s, p, b, order, 0)
      BY <2>1 DEF IsSearch
  <2> QED BY <2>2
<1>2. ASSUME NEW k \in 0 .. n, k # n, k \in G PROVE k + 1 \in G
  <2>1. PICK f : IsSearch(f, s, p, b, order, k)
      BY <1>2
  <2> DEFINE g == [j \in 0 .. k + 1 |-> IF j = k + 1 THEN Consider(f[k], order[k + 1], p) ELSE f[j]]
             e == [j \in 0 .. k + 1 |-> IF j = 0 THEN NoneFound(s, b) ELSE Consider(g[j - 1], order[j], p)]
  <2>2. ASSUME NEW j \in 0 .. k + 1 PROVE g[j] = e[j]
    <3>1. CASE j = k + 1
      <4>1. j # 0 /\ j - 1 = k /\ k \in 0 .. k + 1 /\ k # k + 1
          BY <3>1
      <4> QED BY <3>1, <4>1
    <3>2. CASE j # k + 1
      <4>1. j \in 0 .. k /\ g[j] = f[j]
          BY <3>2
      <4>2. f[j] = IF j = 0 THEN NoneFound(s, b) ELSE Consider(f[j - 1], order[j], p)
          BY <2>1, <4>1 DEF IsSearch
      <4>3. j # 0 => j - 1 \in 0 .. k + 1 /\ g[j - 1] = f[j - 1]
          BY <4>1
      <4> QED BY <4>1, <4>2, <4>3
    <3> QED BY <3>1, <3>2
  <2>3. g = e
      BY <2>2
  <2> HIDE DEF g
  <2>4. IsSearch(g, s, p, b, order, k + 1)
      BY <2>3 DEF IsSearch
  <2>5. k + 1 \in 0 .. n
      BY <1>2
  <2> QED BY <2>4, <2>5
<1> HIDE DEF G
<1>3. n \in G
    BY <1>1, <1>2, UpTo
<1> QED BY <1>3 DEF G

(* Before the walk.                                                        *)
LEMMA StartsSearch ==
  ASSUME NEW s, ShapeBut(s, {}), NEW p, NEW n \in 1 .. BigSize
  PROVE  Found(s, NoneFound(s, n), p, n, {})
<1> DEFINE f == NoneFound(s, n)
           c == ClassFor(n)
<1> SUFFICES Found(s, f, p, n, {})
    OBVIOUS
<1>1. c \in Class /\ n <= PageSize[c] /\ n \in 1 .. n /\ n \in Nat
  <2>1. n \in Nat /\ n >= 1 /\ n <= PageSize["big"]
      BY Sizes
  <2>2. c \in Class /\ n <= PageSize[c]
      BY <2>1, Sizes DEF ClassFor
  <2> QED BY <2>1, <2>2
<1>2. /\ f = [state |-> s, class |-> c, size |-> n, at |-> 0, old |-> 0, second |-> <<>>,
              fix |-> FALSE, shrunk |-> FALSE, done |-> FALSE]
    BY DEF NoneFound
<1> HIDE DEF f, c
<1>3. /\ f.state = s /\ f.class = c /\ f.size = n /\ f.at = 0 /\ f.old = 0 /\ f.second = <<>>
      /\ f.fix = FALSE /\ f.done = FALSE
    BY <1>2
<1>4. s \in States
    BY DEF ShapeBut
<1>5. f \in Searches
    BY <1>1, <1>2, <1>4 DEF Searches
<1>6. Below(s, s) /\ Settled(s, s) /\ Remembers(s, s) /\ SameLocks(s, s)
    BY BelowSelf, BelowSettled DEF Remembers, SameLocks
<1>7. \A q : IsLockedPage(s, q) => Narrower(PageAt(s, q), PageAt(s, q))
    BY VisitedIs DEF Narrower
<1>8. FoundState(s, f)
    BY <1>3, <1>6, <1>7 DEF FoundState
<1> QED BY <1>1, <1>3, <1>5, <1>8 DEF Found, FoundSize, FoundPages, FoundClear, FoundFix, FoundEnd, FoundUsed

(* The search visits every locked page.                                    *)
Every(s) == {q \in PageIds : IsLockedPage(s, q)}
(* So its result takes account of all of them.                             *)
LEMMA SearchesAll ==
  ASSUME NEW s, ShapeBut(s, {}), ~s.failed, NEW p \in Addr \ {0}, NEW n \in 1 .. BigSize
  PROVE  Found(s, SearchLocked(s, p, n), p, n, Every(s))
<1> DEFINE order == LockedPages(s)
           N1 == Len(order)
           after == CHOOSE f : IsSearch(f, s, p, n, order, N1)
           W(k) == {q \in PageIds : \E j \in 1 .. k : order[j] = q}
           Left(k) == \A j \in 1 .. N1 : k < j => IsLockedPage(after[k].state, order[j])
           G == {k \in 0 .. N1 : Found(s, after[k], p, n, W(k)) /\ Left(k)}
<1>1. N1 \in Nat /\ DOMAIN order = 1 .. N1 /\ (\A q : On(q, order) <=> IsLockedPage(s, q)) /\ Once(order)
    BY LockedPagesAre
<1>2. IsSearch(after, s, p, n, order, N1)
    BY <1>1, SearchExists
<1>3. SearchLocked(s, p, n) = after[N1]
    BY DEF SearchLocked, IsSearch
<1> HIDE DEF after
<1>4. after[0] = NoneFound(s, n) /\ \A k \in 1 .. N1 : after[k] = Consider(after[k - 1], order[k], p)
  <2>1. 0 \in 0 .. N1 /\ \A k \in 1 .. N1 : k \in 0 .. N1 /\ k # 0
      BY <1>1
  <2> QED BY <1>2, <2>1 DEF IsSearch
<1>5. \A j \in 1 .. N1 : IsLockedPage(s, order[j]) /\ order[j] \in PageIds
    BY <1>1, VisitedIs DEF On
<1>6. n \in Nat
    BY Sizes
<1>7. 0 \in G
  <2>1. W(0) = {} /\ 0 \in 0 .. N1
      BY <1>1
  <2>2. Found(s, after[0], p, n, {})
      BY <1>4, StartsSearch
  <2>3. Left(0)
    <3>1. after[0].state = s
        BY <1>4 DEF NoneFound
    <3> QED BY <1>5, <3>1
  <2> QED BY <2>1, <2>2, <2>3
<1>8. ASSUME NEW k \in 0 .. N1, k # N1, k \in G PROVE k + 1 \in G
  <2> DEFINE f == after[k]
             g == after[k + 1]
             q == order[k + 1]
             V == W(k)
  <2>1. k + 1 \in 1 .. N1 /\ k + 1 \in 0 .. N1 /\ k + 1 - 1 = k /\ k \in Nat /\ k < k + 1
    <3> HIDE DEF G, N1
    <3> QED BY <1>1, <1>8
  <2>2. g = Consider(f, q, p)
      BY <1>4, <2>1
  <2>3. Found(s, f, p, n, V) /\ Left(k) /\ IsLockedPage(f.state, q) /\ q \in PageIds
      BY <1>5, <1>8, <2>1
  <2>4. q \notin V
    <3> SUFFICES ASSUME NEW j \in 1 .. k, order[j] = q PROVE FALSE
        OBVIOUS
    <3>1. j \in 1 .. N1 /\ j # k + 1
      <4> HIDE DEF N1, q
      <4> QED BY <1>1, <2>1
    <3> QED BY <1>1, <2>1, <3>1 DEF Once
  <2>5. W(k + 1) = V \cup {q}
    <3>1. \A j : j \in 1 .. k + 1 <=> j \in 1 .. k \/ j = k + 1
        BY <2>1
    <3> QED BY <2>3, <3>1
  <2>6. \A j \in 1 .. N1 : k + 1 < j => k < j /\ order[j] # q
    <3> SUFFICES ASSUME NEW j \in 1 .. N1, k + 1 < j PROVE k < j /\ order[j] # q
        OBVIOUS
    <3>1. k < j /\ j # k + 1
      <4> HIDE DEF N1, q
      <4> QED BY <1>1, <2>1
    <3> QED BY <1>1, <2>1, <3>1 DEF Once
  <2> HIDE DEF V, f, g, q
  <2>10. Found(s, f, p, n, V) /\ IsLockedPage(f.state, q)
      BY <2>3
  <2>7. Considered(s, f, g, p, n, V, q)
      BY <1>6, <2>2, <2>4, <2>10, Considers
  <2>8. Left(k + 1)
    <3> SUFFICES ASSUME NEW j \in 1 .. N1, k + 1 < j PROVE IsLockedPage(g.state, order[j])
        BY DEF g
    <3>1. k < j /\ order[j] # q
        BY <2>6
    <3>2. IsLockedPage(f.state, order[j])
        BY <2>3, <3>1 DEF f
    <3> QED BY <2>7, <3>1, <3>2 DEF Considered
  <2>9. Found(s, g, p, n, W(k + 1))
      BY <2>5, <2>7 DEF Considered
  <2> HIDE DEF W, Left
  <2> QED BY <2>1, <2>8, <2>9 DEF g
<1>9. N1 \in 0 .. N1 /\ N1 \in Nat
    BY <1>1
<1> HIDE DEF G, N1, order
<1>10. \A k \in 0 .. N1 : k # N1 /\ k \in G => k + 1 \in G
    BY <1>8
<1>11. \A k \in 0 .. N1 : k \in G
    BY <1>7, <1>9, <1>10, UpTo
<1>12. Found(s, after[N1], p, n, W(N1))
  <2>1. N1 \in G
      BY <1>9, <1>11
  <2> QED BY <2>1 DEF G
<1>13. W(N1) = Every(s)
    BY <1>1 DEF Every, On
<1> QED BY <1>3, <1>12, <1>13

(* What is known of the page to use, and of the pages around it, when the  *)
(* search has not failed.                                                  *)
ReadyState(s, f) ==
    /\ ShapeBut(f.state, {}) /\ f.state.overrun = s.overrun /\ SameLocks(s, f.state) /\ Remembers(s, f.state)
    /\ \A q : IsLockedPage(f.state, q) => IsLockedPage(s, q) /\ Narrower(PageAt(s, q), PageAt(f.state, q))
ReadyPages(f, p) ==
    /\ f.at # 0 => /\ IsLockedPage(f.state, <<f.class, f.at>>) /\ ~f.fix
                   /\ PageAt(f.state, <<f.class, f.at>>).start = p
                   /\ PageAt(f.state, <<f.class, f.at>>).size <= f.size
    /\ f.at = 0 /\ f.state.free[f.class] = <<>> /\ f.old # 0 =>
          /\ IsLockedPage(f.state, <<f.class, f.old>>) /\ PageAt(f.state, <<f.class, f.old>>).locks = 0
    /\ f.at = 0 /\ f.state.free[f.class] = <<>> /\ f.old = 0 /\ f.second # <<>> =>
          /\ IsLockedPage(f.state, f.second) /\ PageAt(f.state, f.second).locks = 0
          /\ PageSize[f.class] < PageSize[f.second[1]]
ReadyClear(s, f, p) ==
    Disjoint(s) => \A q : IsLockedPage(f.state, q) => ClearOf(f, p, q)
Ready(s, f, p, n) ==
    /\ ReadyState(s, f) /\ FoundSize(f, n) /\ FoundFix(s, f, p) /\ FoundEnd(s, f, p, n) /\ FoundUsed(s, f, p, n)
    /\ ~f.state.failed => ReadyPages(f, p) /\ ReadyClear(s, f, p)

(* The assertion after the search makes its result ready for use.          *)
LEMMA Checks ==
  ASSUME NEW s, ShapeBut(s, {}), NEW f, NEW p, NEW n \in Nat, Found(s, f, p, n, Every(s))
  PROVE  Ready(s, CheckedSearch(f), p, n)
<1> DEFINE t == f.state
           q0 == <<f.class, f.at>>
           b == f.at = 0 \/ (~f.fix /\ f.size >= PageOf(t, f.class, f.at).size)
           u == Require(t, b)
           g == CheckedSearch(f)
<1> SUFFICES Ready(s, g, p, n)
    OBVIOUS
<1>1. ShapeBut(t, {}) /\ t \in States /\ f \in Searches /\ t.failed \in BOOLEAN
    BY StateFields DEF Found, FoundState, FoundSize, ShapeBut
<1>2. g = [f EXCEPT !.state = u]
    BY DEF CheckedSearch
<1>3. b \in BOOLEAN
    OBVIOUS
<1> HIDE DEF b
<1>4. Below(t, u) /\ ShapeBut(u, {}) /\ u \in States /\ u.page = t.page /\ u.locked = t.locked /\ u.free = t.free
      /\ u.store = t.store /\ u.overrun = t.overrun /\ u.failed = (t.failed \/ ~b)
    BY <1>1, <1>3, RequireBelow, RequireIs
<1> HIDE DEF u, g
<1>5. /\ g.state = u /\ g.class = f.class /\ g.size = f.size /\ g.at = f.at /\ g.old = f.old /\ g.second = f.second
      /\ g.fix = f.fix /\ g \in Searches
    BY <1>1, <1>2, <1>4 DEF Searches
<1>6. \A q : (IsLockedPage(u, q) <=> IsLockedPage(t, q)) /\ PageAt(u, q) = PageAt(t, q)
    BY <1>4 DEF IsLockedPage, IsLocked, PageAt
<1>7. ReadyState(s, g)
  <2>1. Remembers(s, u)
    <3>1. Kept(t, u)
        BY <1>4, SameAgrees DEF Kept
    <3>2. Remembers(t, u)
        BY <1>1, <1>4, <3>1, BelowRemembers
    <3> QED BY <3>2, RemembersTwice DEF Found, FoundState
  <2>2. SameLocks(s, u)
      BY <1>4 DEF Found, FoundState, SameLocks
  <2> QED BY <1>4, <1>5, <1>6, <2>1, <2>2 DEF Found, FoundState, ReadyState
<1>8. FoundSize(g, n) /\ FoundFix(s, g, p) /\ FoundEnd(s, g, p, n) /\ FoundUsed(s, g, p, n)
    BY <1>5, <1>6 DEF Found, FoundSize, FoundFix, FoundEnd, FoundUsed
<1>9. ASSUME ~u.failed PROVE ReadyPages(g, p) /\ ReadyClear(s, g, p)
  <2>1. b
      BY <1>1, <1>3, <1>4, <1>9
  <2>2. f.at # 0 => ~f.fix /\ PageAt(t, q0).size <= f.size
    <3>1. f.at # 0 => ~f.fix /\ f.size >= PageAt(t, q0).size
        BY <2>1 DEF b, PageOf, PageAt
    <3>2. f.at # 0 => PageAt(t, q0).size \in Nat
        BY <1>1, VisitedIs DEF Found, FoundPages
    <3>3. f.size \in Nat
        BY <1>1 DEF Searches
    <3> QED BY <3>1, <3>2, <3>3
  <2>3. ReadyPages(g, p)
      BY <1>5, <1>6, <2>2 DEF Found, FoundPages, ReadyPages
  <2>4. ASSUME Disjoint(s), NEW q, IsLockedPage(u, q) PROVE ClearOf(g, p, q)
    <3>1. IsLockedPage(t, q) /\ q \in Every(s)
      <4>1. IsLockedPage(t, q)
          BY <1>6, <2>4
      <4>2. IsLockedPage(s, q)
          BY <4>1 DEF Found, FoundState
      <4> QED BY <4>1, <4>2, VisitedIs DEF Every
    <3>2. ClearOf(f, p, q)
        BY <2>4, <3>1 DEF Found, FoundClear
    <3> QED BY <1>5, <1>6, <3>2 DEF ClearOf
  <2> QED BY <1>5, <2>3, <2>4 DEF ReadyClear
<1> QED BY <1>5, <1>7, <1>8, <1>9 DEF Ready

(* The search result stays ready when a smaller page takes over.           *)
LEMMA MovesToSmaller ==
  ASSUME NEW s, ShapeBut(s, {}), NEW f, NEW p, NEW n \in Nat, Ready(s, f, p, n)
  PROVE  Ready(s, MoveToSmaller(f), p, n)
<1> DEFINE t == f.state
           usable == {c \in {"small", "medium"} :
                        f.size <= PageSize[c] /\ (t.free[c] # <<>> \/ UnusedLocked(t, c) # {})}
           c == IF "small" \in usable THEN "small" ELSE "medium"
           x == IF t.free[c] # <<>> THEN f.old ELSE t.locked[c][Min(UnusedLocked(t, c))]
           u == IF f.at = 0 THEN t ELSE FreeLockedPage(t, "big", f.at)
           moves == /\ ~t.failed /\ f.shrunk /\ f.class = "big" /\ usable # {}
                    /\ f.at = 0 \/ ~InUse(PageOf(t, "big", f.at))
           g == MoveToSmaller(f)
<1> SUFFICES Ready(s, g, p, n)
    OBVIOUS
<1>1. g = IF moves THEN [f EXCEPT !.class = c, !.old = x, !.at = 0, !.state = u] ELSE f
    BY DEF MoveToSmaller
<1> HIDE DEF g
<1>2. CASE ~moves
    BY <1>1, <1>2
<1>3. CASE moves
  <2>1. ShapeBut(t, {}) /\ t \in States /\ f \in Searches /\ ~t.failed /\ ReadyPages(f, p) /\ ReadyClear(s, f, p)
      BY <1>3 DEF Ready, ReadyState, FoundSize, ShapeBut
  <2>2. c \in Class /\ c # "big" /\ f.size <= PageSize[c] /\ (t.free[c] # <<>> \/ UnusedLocked(t, c) # {})
      BY <1>3, Sizes
  <2> HIDE DEF usable, c
  <2>3. t.free[c] = <<>> => x \in Nat /\ x # 0 /\ IsLockedPage(t, <<c, x>>) /\ PageAt(t, <<c, x>>).locks = 0
    <3> SUFFICES ASSUME t.free[c] = <<>>
                 PROVE  x \in Nat /\ x # 0 /\ IsLockedPage(t, <<c, x>>) /\ PageAt(t, <<c, x>>).locks = 0
        OBVIOUS
    <3> DEFINE U == UnusedLocked(t, c)
               j == Min(U)
    <3>1. U # {} /\ U \subseteq DOMAIN t.locked[c] /\ \A k \in U : ~InUse(PageOf(t, c, t.locked[c][k]))
        BY <2>2 DEF UnusedLocked
    <3> DEFINE L == t.locked[c]
    <3>9. L \in Seq(1 .. PageCount[c])
        BY <2>1, <2>2 DEF ShapeBut, Split
    <3>10. DOMAIN L = 1 .. Len(L) /\ Len(L) \in Nat
      <4> HIDE DEF L
      <4> QED BY <3>9, LenProperties
    <3>2. DOMAIN t.locked[c] \subseteq Nat
        BY <3>10
    <3>11. \A k \in DOMAIN L : L[k] \in 1 .. PageCount[c]
      <4> HIDE DEF L
      <4> QED BY <3>9, ElementOfSeq, LenProperties
    <3> HIDE DEF U
    <3>3. j \in U
        BY <3>1, <3>2, MinIsLeast
    <3>4. x = t.locked[c][j]
        BY DEF U
    <3> HIDE DEF j, x
    <3>12. j \in DOMAIN L
        BY <3>1, <3>3
    <3>5. x \in Pages1(c) /\ IsLocked(t, c, x)
        BY <3>4, <3>11, <3>12 DEF IsLocked, On, Pages1
    <3>6. IsLockedPage(t, <<c, x>>)
        BY <2>2, <3>5 DEF IsLockedPage
    <3>7. ~InUse(PageAt(t, <<c, x>>))
        BY <3>1, <3>3, <3>4 DEF PageOf, PageAt
    <3>8. PageAt(t, <<c, x>>).locks \in Nat /\ x \in Nat /\ x # 0
        BY <2>1, <3>6, VisitedIs
    <3> QED BY <3>6, <3>7, <3>8 DEF InUse
  <2>4. x \in Nat
      BY <2>1, <2>3 DEF Searches
  <2> HIDE DEF x
  <2>5. /\ ShapeBut(u, {}) /\ u \in States /\ Remembers(t, u) /\ Settled(t, u) /\ u.free[c] = t.free[c]
        /\ \A q : IsLockedPage(u, q) <=> IsLockedPage(t, q) /\ ~(f.at # 0 /\ q = <<"big", f.at>>)
    <3>1. CASE f.at = 0
      <4>1. u = t
          BY <3>1
      <4>2. Settled(t, t) /\ Remembers(t, t)
          BY <2>1, BelowSelf, BelowSettled DEF Remembers
      <4> HIDE DEF u
      <4> QED BY <2>1, <3>1, <4>1, <4>2
    <3>2. CASE f.at # 0
      <4>1. u = FreeLockedPage(t, "big", f.at)
          BY <3>2
      <4> HIDE DEF u
      <4> DEFINE q == <<"big", f.at>>
      <4>2. IsLockedPage(t, q) /\ ~InUse(PageAt(t, q))
          BY <1>3, <2>1, <3>2 DEF ReadyPages, PageOf, PageAt
      <4>3. f.at \in Pages1("big") /\ IsLocked(t, "big", f.at) /\ PageAt(t, q).locks \in Nat
            /\ PageAt(t, q) = t.page["big"][f.at] /\ "big" \in Class
          BY <2>1, <4>2, VisitedIs
      <4>4. t.page["big"][f.at].locks = 0
          BY <4>2, <4>3 DEF InUse
      <4>5. Freed(t, u, "big", f.at) /\ Remembers(t, u)
          BY <2>1, <4>1, <4>3, <4>4, FreesLocked, FreesRemember
      <4> QED BY <2>2, <3>2, <4>5 DEF Freed, Settled, ShapeBut
    <3> QED BY <3>1, <3>2
  <2> HIDE DEF u
  <2>6. /\ g.state = u /\ g.class = c /\ g.size = f.size /\ g.at = 0 /\ g.old = x
        /\ g.fix = f.fix /\ g \in Searches
      BY <1>1, <1>3, <2>1, <2>2, <2>4, <2>5 DEF Searches
  <2> HIDE DEF moves
  <2>7. ReadyState(s, g)
    <3>1. ReadyState(s, f)
        BY DEF Ready
    <3>2. Remembers(s, u)
        BY <2>5, <3>1, RemembersTwice DEF ReadyState
    <3>3. SameLocks(s, u) /\ u.overrun = s.overrun
        BY <2>5, <3>1 DEF ReadyState, SameLocks, Settled
    <3>4. \A q : IsLockedPage(u, q) => IsLockedPage(s, q) /\ Narrower(PageAt(s, q), PageAt(u, q))
        BY <2>5, <3>1 DEF ReadyState, Settled
    <3> QED BY <2>5, <2>6, <3>2, <3>3, <3>4 DEF ReadyState
  <2>8. FoundSize(g, n) /\ FoundFix(s, g, p)
      BY <2>2, <2>6 DEF Ready, FoundSize, FoundFix
  <2>11. FoundEnd(s, g, p, n)
      BY <1>3, <2>6 DEF Ready, FoundEnd, moves
  <2>12. FoundUsed(s, g, p, n)
    <3> SUFFICES ASSUME Disjoint(s), Fits(s, p, n), NEW r, IsLockedPage(s, r), InUse(PageAt(s, r))
                 PROVE  PageAt(u, r) = PageAt(s, r)
        BY <2>6 DEF FoundUsed
    <3>1. PageAt(t, r) = PageAt(s, r)
        BY DEF Ready, FoundUsed
    <3>2. IsLockedPage(u, r)
        BY <2>6, <2>7, UsedStays DEF ReadyState
    <3> QED BY <2>5, <3>1, <3>2 DEF Settled
  <2>9. ReadyPages(g, p)
    <3>1. t.free[c] = <<>> => /\ x # 0 /\ IsLockedPage(u, <<c, x>>) /\ PageAt(u, <<c, x>>).locks = 0
      <4> SUFFICES ASSUME t.free[c] = <<>>
                   PROVE  x # 0 /\ IsLockedPage(u, <<c, x>>) /\ PageAt(u, <<c, x>>).locks = 0
          OBVIOUS
      <4>1. <<c, x>> # <<"big", f.at>>
          BY <2>2
      <4>2. IsLockedPage(u, <<c, x>>)
          BY <2>3, <2>5, <4>1
      <4> QED BY <2>3, <2>5, <4>2 DEF Settled
    <3> QED BY <2>5, <2>6, <3>1 DEF ReadyPages
  <2>10. ReadyClear(s, g, p)
    <3> SUFFICES ASSUME Disjoint(s), NEW q, IsLockedPage(u, q) PROVE ClearOf(g, p, q)
        BY <2>6 DEF ReadyClear
    <3>1. IsLockedPage(t, q) /\ ~(f.at # 0 /\ q = <<"big", f.at>>) /\ PageAt(u, q) = PageAt(t, q)
        BY <2>5 DEF Settled
    <3>2. ClearOf(f, p, q) /\ f.class = "big"
        BY <1>3, <2>1, <3>1 DEF ReadyClear, moves
    <3> QED BY <2>6, <3>1, <3>2 DEF ClearOf
  <2> QED BY <2>7, <2>8, <2>9, <2>10, <2>11, <2>12 DEF Ready
<1> QED BY <1>2, <1>3

(* The search of makeDataLock, all of it.                                  *)
LEMMA SearchReady ==
  ASSUME NEW s, ShapeBut(s, {}), ~s.failed, NEW p \in Addr \ {0}, NEW n \in 1 .. BigSize
  PROVE  Ready(s, MoveToSmaller(CheckedSearch(SearchLocked(s, p, n))), p, n)
<1>1. n \in Nat
    BY Sizes
<1> DEFINE f == SearchLocked(s, p, n)
<1>2. Found(s, f, p, n, Every(s))
    BY SearchesAll
<1> HIDE DEF f
<1>3. Ready(s, CheckedSearch(f), p, n)
    BY <1>1, <1>2, Checks
<1>4. Ready(s, MoveToSmaller(CheckedSearch(f)), p, n)
    BY <1>1, <1>3, MovesToSmaller
<1> QED BY <1>4 DEF f

-----------------------------------------------------------------------------
(* The page of a new lock                                                  *)

(* From s to u the page q was taken for n bytes at p.  It is not filled    *)
(* yet; when fresh is true a big page was loaded at p.           *)
GotBytes(u, q, p, n, fresh) ==
    q[1] = "big" /\ fresh => \A a \in Span(p, n) \cap Addr : PageAt(u, q).data[a] \in Val
GotMem(s, u, q, p, n, fresh) ==
    Short(s) /\ n < BigSize => \A c : MemIs(s, c, {}) =>
        \E m : /\ Agrees(u, m) /\ MemOf(u, c, {q}, m)
               /\ q[1] = "big" /\ fresh => \A a \in Span(p, n) \cap Addr : PageAt(u, q).data[a] = m[a]
GotPage(s, u, q, p, n, fresh) ==
    /\ ShapeBut(u, {q}) /\ ~u.failed /\ u.overrun = s.overrun /\ SameLocks(s, u)
    /\ IsLockedPage(u, q) /\ PageAt(u, q).locks = 0 /\ n <= PageSize[q[1]]
    /\ \A r : IsLockedPage(u, r) /\ r # q => IsLockedPage(s, r) /\ PageAt(u, r) = PageAt(s, r)
    /\ GotBytes(u, q, p, n, fresh) /\ GotMem(s, u, q, p, n, fresh)

(* A free page is taken.                                                   *)
LEMMA GetsFresh ==
  ASSUME NEW s, ShapeBut(s, {}), ~s.failed, NEW c \in Class, s.free[c] # <<>>, NEW p \in Addr \ {0},
         NEW n \in 1 .. BigSize, n <= PageSize[c], NEW got, got = Fresh(LockPage(s, c, p, n), c)
  PROVE  /\ got.class = c /\ got.fresh \in BOOLEAN
         /\ GotPage(s, got.state, <<c, got.at>>, p, n, got.fresh)
<1> DEFINE u == LockPage(s, c, p, n)
           fresh == TRUE
<1>1. PICK i : Taken(s, u, c, i, p, n)
    BY Takes
<1> DEFINE q == <<c, i>>
<1>2. got = [state |-> u, class |-> c, at |-> IF u.failed THEN 0 ELSE Head(u.locked[c]), fresh |-> TRUE]
    BY DEF Fresh
<1> HIDE DEF u
<1>3. /\ ShapeBut(u, {q}) /\ u.failed = s.failed /\ u.overrun = s.overrun /\ SameLocks(s, u)
      /\ i \in Pages1(c) /\ IsFree(s, c, i) /\ Head(u.locked[c]) = i /\ FreeOK(u.page[c][i], c)
    BY <1>1 DEF Taken, LinkedAs
<1>4. /\ \A r : IsLockedPage(u, r) <=> IsLockedPage(s, r) \/ r = q
      /\ \A r : IsLockedPage(s, r) => PageAt(u, r) = PageAt(s, r)
    BY <1>1 DEF Taken, LinkedAs
<1>5. got.class = c /\ got.fresh = TRUE /\ got.state = u /\ got.at = i
    BY <1>2, <1>3
<1>6. PageAt(u, q) = u.page[c][i]
    BY DEF PageAt
<1>7. ~IsLockedPage(s, q)
  <2>1. ~IsLocked(s, c, i)
      BY <1>3 DEF ShapeBut, Split, IsLocked, IsFree, Pages1
  <2> QED BY <2>1 DEF IsLockedPage
<1>8. GotBytes(u, q, p, n, fresh)
  <2> SUFFICES ASSUME c = "big", NEW a \in Span(p, n) \cap Addr PROVE u.page[c][i].data[a] \in Val
      BY <1>6 DEF GotBytes
  <2>1. u.page[c][i].start = p /\ p # 0
      BY <1>1 DEF Taken
  <2>2. u.page[c][i].data \in [Span(p, PageSize[c]) \cap Addr -> Val]
      BY <1>3, <2>1 DEF FreeOK
  <2>3. a \in Span(p, PageSize[c])
      BY Sizes DEF Span
  <2> QED BY <2>2, <2>3
<1>9. GotMem(s, u, q, p, n, fresh)
  <2> SUFFICES ASSUME n < BigSize, NEW d, MemIs(s, d, {})
               PROVE  \E m : /\ Agrees(u, m) /\ MemOf(u, d, {q}, m)
                             /\ q[1] = "big" /\ fresh => \A a \in Span(p, n) \cap Addr : PageAt(u, q).data[a] = m[a]
      BY DEF GotMem
  <2>1. PICK m : Agrees(s, m) /\ MemOf(s, d, {}, m)
      BY DEF MemIs
  <2>2. Agrees(u, m)
      BY <1>1, <2>1 DEF Taken, Kept
  <2>3. MemOf(u, d, {q}, m)
      BY <1>4, <1>7, <2>1 DEF MemOf
  <2>4. ASSUME c = "big", NEW a \in Span(p, n) \cap Addr PROVE PageAt(u, q).data[a] = m[a]
    <3>1. u.page[c][i].start = p /\ p # 0
        BY <1>1, <2>4 DEF Taken
    <3>2. u.page[c][i].data \in [Span(p, PageSize[c]) \cap Addr -> Val]
        BY <1>3, <3>1 DEF FreeOK
    <3>3. a \in Span(p, PageSize[c])
        BY Sizes DEF Span
    <3>4. Holds(u.page[c][i], a)
        BY <3>2, <3>3 DEF Holds
    <3> QED BY <1>1, <1>6, <2>1, <2>4, <3>4 DEF Taken
  <2> QED BY <2>2, <2>3, <2>4
<1>10. IsLockedPage(u, q) /\ PageAt(u, q).locks = 0 /\ n <= PageSize[q[1]]
    BY <1>3, <1>4, <1>6 DEF FreeOK
<1>11. \A r : IsLockedPage(u, r) /\ r # q => IsLockedPage(s, r) /\ PageAt(u, r) = PageAt(s, r)
    BY <1>4
<1>12. GotPage(s, u, q, p, n, fresh)
    BY <1>3, <1>8, <1>9, <1>10, <1>11 DEF GotPage
<1> QED BY <1>5, <1>12

(* A page without locks is used again.                                     *)
LEMMA Reuses ==
  ASSUME NEW s, ShapeBut(s, {}), ~s.failed, NEW c \in Class, NEW i \in Pages1(c), IsLocked(s, c, i),
         s.page[c][i].locks = 0, NEW p, NEW n \in Nat, n <= PageSize[c], NEW got, got = Reused(s, c, i)
  PROVE  /\ got.class = c /\ got.at = i /\ got.fresh \in BOOLEAN
         /\ GotPage(s, got.state, <<c, got.at>>, p, n, got.fresh)
<1> DEFINE w == SyncLockedPage(s, c, i)
           q == <<c, i>>
           pg == [PageOf(w, c, i) EXCEPT !.dirty = FALSE]
           u == SetPage(w, c, i, pg)
<1>1. got = [state |-> u, class |-> c, at |-> i, fresh |-> FALSE]
    BY DEF Reused
<1>2. q \notin {}
    OBVIOUS
<1>3. SyncedAs(s, w, s.page[c][i])
    BY <1>2, SyncsLocked
<1> HIDE DEF w
<1>4. IsLockedPage(s, q) /\ PageAt(s, q) = s.page[c][i]
    BY DEF IsLockedPage, PageAt
<1>5. Below(s, w) /\ w.failed = s.failed
    BY <1>3 DEF SyncedAs
<1>6. ShapeBut(w, {}) /\ IsLockedPage(w, q) /\ PageAt(w, q) = PageAt(s, q) /\ Settled(s, w)
      /\ \A r : IsLockedPage(w, r) <=> IsLockedPage(s, r)
    BY <1>4, <1>5, BelowShape, BelowLocked, BelowSettled
<1>7. PageOf(w, c, i) = s.page[c][i]
    BY <1>4, <1>6 DEF PageOf, PageAt
<1>8. LockedOK(s.page[c][i], c) /\ s.page[c][i] \in AnyPage
    BY <1>2, LockedPageIs
<1>9. pg \in AnyPage /\ LockedOK(pg, c) /\ pg.locks = 0
  <2>1. pg = [s.page[c][i] EXCEPT !.dirty = FALSE]
      BY <1>7
  <2> HIDE DEF pg
  <2>2. pg \in AnyPage /\ pg.start = s.page[c][i].start /\ pg.size = s.page[c][i].size
        /\ pg.data = s.page[c][i].data /\ pg.locks = s.page[c][i].locks
      BY <1>8, <2>1 DEF AnyPage
  <2> QED BY <1>8, <2>2 DEF LockedOK, LockSpan
<1> HIDE DEF pg
<1>10. IsLocked(w, c, i)
    BY <1>6 DEF IsLockedPage
<1>11. ShapeBut(u, {} \ {q}) /\ PageSet(w, u, q, pg)
    BY <1>6, <1>9, <1>10, SetsLocked
<1> HIDE DEF u
<1>12. ShapeBut(u, {q})
    BY <1>11 DEF ShapeBut
<1>13. ~u.failed /\ u.overrun = s.overrun
    BY <1>5, <1>6, <1>11 DEF PageSet, SameButPages, Settled
<1>14. SameLocks(s, u)
  <2> SUFFICES ASSUME NEW d \in Class, NEW j \in Pages1(d) PROVE u.page[d][j].locks = s.page[d][j].locks
      BY DEF SameLocks
  <2>1. w.page[d][j].locks = s.page[d][j].locks
      BY <1>6 DEF Settled, SameLocks
  <2>2. CASE <<d, j>> = q
    <3>1. d = c /\ j = i
        BY <2>2
    <3> QED BY <1>9, <1>11, <3>1 DEF PageSet
  <2>3. CASE <<d, j>> # q
      BY <1>11, <2>1, <2>3 DEF PageSet
  <2> QED BY <2>2, <2>3
<1>15. IsLockedPage(u, q) /\ PageAt(u, q).locks = 0 /\ n <= PageSize[q[1]]
    BY <1>6, <1>9, <1>11 DEF PageSet
<1>16. \A r : IsLockedPage(u, r) /\ r # q => IsLockedPage(s, r) /\ PageAt(u, r) = PageAt(s, r)
    BY <1>6, <1>11 DEF PageSet, Settled
<1>17. GotBytes(u, q, p, n, FALSE)
    BY DEF GotBytes
<1>18. GotMem(s, u, q, p, n, FALSE)
  <2> SUFFICES ASSUME NEW d, MemIs(s, d, {}) PROVE \E m : Agrees(u, m) /\ MemOf(u, d, {q}, m)
      BY DEF GotMem
  <2>1. PICK m : Agrees(s, m) /\ MemOf(s, d, {}, m)
      BY DEF MemIs
  <2> DEFINE l == Passed(PageAt(s, q), m)
  <2>2. Agrees(w, l)
      BY <1>3, <1>4, <2>1 DEF SyncedAs, Passed
  <2>3. m \in [Addr -> Val]
      BY <2>1 DEF Agrees, Consistent
  <2>4. q \notin {} /\ {} \cup {q} = {q}
      OBVIOUS
  <2>5. MemOf(s, d, {q}, l)
      BY <1>4, <2>1, <2>3, <2>4, Passes
  <2> HIDE DEF l
  <2>6. Agrees(u, l)
      BY <1>11, <2>2 DEF PageSet, Kept
  <2>7. \A r : IsLockedPage(u, r) <=> IsLockedPage(s, r)
      BY <1>6, <1>11 DEF PageSet
  <2>8. MemOf(u, d, {q}, l)
      BY <1>16, <2>5, <2>7 DEF MemOf
  <2> QED BY <2>6, <2>8
<1>19. GotPage(s, u, q, p, n, FALSE)
    BY <1>12, <1>13, <1>14, <1>15, <1>16, <1>17, <1>18 DEF GotPage
<1>20. got.class = c /\ got.at = i /\ got.fresh = FALSE /\ got.state = u
    BY <1>1
<1> QED BY <1>19, <1>20

(* The page of a new lock, or none and a stop of the program.              *)
GotFor(s, got, p, n) ==
    IF got.state.failed
    THEN Below(s, got.state) /\ got.state.page = s.page /\ got.state.store = s.store
    ELSE /\ GotPage(s, got.state, <<got.class, got.at>>, p, n, got.fresh)
         /\ got.class \in Class /\ got.fresh \in BOOLEAN
(* The page for a new lock, from a list of free pages or an old lock.      *)
LEMMA Gets ==
  ASSUME NEW s, NEW f, NEW p \in Addr \ {0}, NEW n \in 1 .. BigSize, Ready(s, f, p, n), ~f.state.failed, f.at = 0
  PROVE  GotFor(f.state, PageForLock(f, p), p, f.size)
<1> DEFINE t == f.state
           larger == {c \in {"medium", "big"} : PageSize[f.class] < PageSize[c] /\ t.free[c] # <<>>}
           c == IF t.free[f.class] # <<>> \/ f.old # 0 \/ larger = {} THEN f.class
                ELSE IF "medium" \in larger THEN "medium" ELSE "big"
           got == PageForLock(f, p)
<1> SUFFICES GotFor(t, got, p, f.size)
    OBVIOUS
<1>1. got = IF t.free[c] # <<>> THEN Fresh(LockPage(t, c, p, f.size), c)
            ELSE IF f.old # 0 THEN Reused(t, c, f.old)
            ELSE IF f.second # <<>> THEN Reused(t, f.second[1], f.second[2])
            ELSE [state |-> Require(t, FALSE), class |-> c, at |-> 0, fresh |-> FALSE]
    BY DEF PageForLock
<1> HIDE DEF got
<1>2. /\ ShapeBut(t, {}) /\ ~t.failed /\ f \in Searches /\ f.size \in 1 .. n /\ f.size <= PageSize[f.class]
      /\ ReadyPages(f, p)
    BY DEF Ready, ReadyState, FoundSize
<1>3. f.class \in Class /\ f.size \in Nat /\ f.size \in 1 .. BigSize /\ f.old \in Nat
    BY <1>2, Sizes DEF Searches
<1>4. c \in Class /\ f.size <= PageSize[c] /\ (c = f.class \/ t.free[c] # <<>>)
  <2>1. c = f.class \/ c \in larger
      OBVIOUS
  <2>2. ASSUME c \in larger PROVE c \in Class /\ f.size <= PageSize[c] /\ t.free[c] # <<>>
    <3>1. c \in Class /\ PageSize[f.class] < PageSize[c] /\ t.free[c] # <<>>
        BY <2>2 DEF Class
    <3> QED BY <1>2, <1>3, <3>1, Sizes
  <2> HIDE DEF c, larger
  <2> QED BY <1>2, <1>3, <2>1, <2>2
<1> HIDE DEF c
<1>5. CASE t.free[c] # <<>>
  <2>1. got = Fresh(LockPage(t, c, p, f.size), c)
      BY <1>1, <1>5
  <2>2. /\ got.class = c /\ got.fresh \in BOOLEAN
        /\ GotPage(t, got.state, <<c, got.at>>, p, f.size, got.fresh)
      BY <1>2, <1>3, <1>4, <1>5, <2>1, GetsFresh
  <2>4. ~got.state.failed
      BY <2>2 DEF GotPage
  <2> QED BY <1>4, <2>2, <2>4 DEF GotFor
<1>6. CASE t.free[c] = <<>>
  <2>1. c = f.class
      BY <1>4, <1>6
  <2>2. ASSUME NEW d, NEW j, IsLockedPage(t, <<d, j>>), PageAt(t, <<d, j>>).locks = 0, f.size <= PageSize[d],
               got = Reused(t, d, j)
        PROVE  GotFor(t, got, p, f.size)
    <3>1. d \in Class /\ j \in Pages1(d) /\ IsLocked(t, d, j) /\ t.page[d][j].locks = 0
        BY <2>2 DEF IsLockedPage, PageAt
    <3>2. /\ got.class = d /\ got.at = j /\ got.fresh \in BOOLEAN
          /\ GotPage(t, got.state, <<d, got.at>>, p, f.size, got.fresh)
      <4>1. ShapeBut(t, {}) /\ ~t.failed /\ f.size \in Nat /\ f.size <= PageSize[d] /\ got = Reused(t, d, j)
          BY <1>2, <1>3, <2>2
      <4> HIDE DEF t
      <4> QED BY <3>1, <4>1, Reuses
    <3>4. ~got.state.failed
        BY <3>2 DEF GotPage
    <3> QED BY <3>1, <3>2, <3>4 DEF GotFor
  <2>3. CASE f.old # 0
    <3>1. got = Reused(t, c, f.old)
        BY <1>1, <1>6, <2>3
    <3>2. IsLockedPage(t, <<c, f.old>>) /\ PageAt(t, <<c, f.old>>).locks = 0
        BY <1>2, <1>6, <2>1, <2>3 DEF ReadyPages
    <3> QED BY <1>4, <2>2, <3>1, <3>2
  <2>4. CASE f.old = 0 /\ f.second # <<>>
    <3>1. got = Reused(t, f.second[1], f.second[2])
        BY <1>1, <1>6, <2>4
    <3>2. /\ IsLockedPage(t, f.second) /\ PageAt(t, f.second).locks = 0
          /\ PageSize[f.class] < PageSize[f.second[1]]
        BY <1>2, <1>6, <2>1, <2>4 DEF ReadyPages
    <3>3. f.second = <<f.second[1], f.second[2]>> /\ f.second[1] \in Class
        BY <3>2 DEF IsLockedPage
    <3>4. f.size <= PageSize[f.second[1]]
        BY <1>2, <1>3, <3>2, <3>3, Sizes
    <3> QED BY <2>2, <3>1, <3>2, <3>3, <3>4
  <2>5. CASE f.old = 0 /\ f.second = <<>>
    <3>1. got = [state |-> Require(t, FALSE), class |-> c, at |-> 0, fresh |-> FALSE]
        BY <1>1, <1>6, <2>5
    <3>2. FALSE \in BOOLEAN /\ t \in States
        BY <1>2 DEF ShapeBut
    <3>3. /\ Below(t, Require(t, FALSE)) /\ Require(t, FALSE).page = t.page /\ Require(t, FALSE).store = t.store
          /\ Require(t, FALSE).failed = (t.failed \/ ~FALSE)
        BY <1>2, <3>2, RequireBelow, RequireIs
    <3> QED BY <3>1, <3>3 DEF GotFor
  <2> QED BY <2>3, <2>4, <2>5
<1> QED BY <1>5, <1>6

-----------------------------------------------------------------------------
(* Filling the page of a new lock                                          *)

SetTable(s, G) == [s EXCEPT !.page = G]
TableSet(s, t, G) ==
    /\ ShapeBut(t, {}) /\ SameButPages(s, t) /\ t.page = G /\ Kept(s, t)
    /\ \A r : IsLockedPage(t, r) <=> IsLockedPage(s, r)

(* Many locked pages change at once.                                       *)
LEMMA SetsTable ==
  ASSUME NEW s, NEW X, ShapeBut(s, X), NEW G, G = [d \in Class |-> G[d]],
         \A d \in Class : G[d] \in [Pages1(d) -> AnyPage],
         \A d \in Class : \A j \in Pages1(d) : ~IsLocked(s, d, j) => G[d][j] = s.page[d][j],
         \A d \in Class : \A j \in Pages1(d) : IsLocked(s, d, j) => LockedOK(G[d][j], d)
  PROVE  TableSet(s, SetTable(s, G), G)
<1> DEFINE t == SetTable(s, G)
<1> SUFFICES TableSet(s, t, G)
    OBVIOUS
<1>1. G \in Tables
    BY TableIs
<1>2. t \in States /\ SameButPages(s, t) /\ t.page = G
    BY <1>1 DEF SetTable, States, SameButPages, ShapeBut
<1> HIDE DEF t
<1>3. \A r : IsLockedPage(t, r) <=> IsLockedPage(s, r)
    BY <1>2 DEF SameButPages, IsLockedPage, IsLocked
<1>4. /\ \A d \in Class : Split(t.free[d], t.locked[d], PageCount[d])
      /\ NextOK(t)
    BY <1>2 DEF ShapeBut, SameButPages, NextOK
<1>5. ASSUME NEW d \in Class, NEW j \in Pages1(d), IsFree(t, d, j)
      PROVE  FreeOK(t.page[d][j], d) /\ t.page[d][j] = s.page[d][j]
  <2>1. IsFree(s, d, j)
      BY <1>2, <1>5 DEF IsFree, SameButPages
  <2>2. ~IsLocked(s, d, j)
      BY <2>1 DEF ShapeBut, Split, IsLocked, IsFree, Pages1
  <2> QED BY <1>2, <2>1, <2>2 DEF ShapeBut
<1>6. ASSUME NEW d \in Class, NEW j \in Pages1(d), IsLocked(t, d, j)
      PROVE  LockedOK(t.page[d][j], d)
    BY <1>2, <1>6 DEF IsLocked, SameButPages
<1>7. ShapeBut(t, {})
    BY <1>2, <1>4, <1>5, <1>6 DEF ShapeBut
<1>8. View(t) = View(s)
  <2>1. ASSUME NEW j \in Numbers
        PROVE  (IF IsFree(t, "big", j) THEN t.page["big"][j] ELSE Blank) = (IF IsFree(s, "big", j) THEN s.page["big"][j] ELSE Blank)
    <3>1. j \in Pages1("big") /\ "big" \in Class
        BY Sizes DEF Numbers, N, Pages1
    <3>2. IsFree(t, "big", j) <=> IsFree(s, "big", j)
        BY <1>2 DEF IsFree, SameButPages
    <3> QED BY <1>5, <3>1, <3>2
  <2> QED BY <2>1 DEF View
<1>9. Kept(s, t)
    BY <1>2, <1>8 DEF Kept, Agrees, SameButPages
<1> QED BY <1>2, <1>3, <1>7, <1>9 DEF TableSet

(* The locked pages that are cut off.                                      *)
Cut(s, q, p, fix) == {r \in Range(LockedPages(s)) : fix /\ r # q /\ BeginOverlaps(PageAt(s, r), p)}
(* They are the locked pages with a start before p and an end behind it.   *)
LEMMA CutIs ==
  ASSUME NEW s, NEW X, ShapeBut(s, X), NEW q, NEW p, NEW fix \in BOOLEAN
  PROVE  \A r : r \in Cut(s, q, p, fix) <=> IsLockedPage(s, r) /\ fix /\ r # q /\ BeginOverlaps(PageAt(s, r), p)
<1>1. \A r : On(r, LockedPages(s)) <=> IsLockedPage(s, r)
    BY LockedPagesAre
<1>2. \A r : r \in Range(LockedPages(s)) <=> On(r, LockedPages(s))
    BY DEF Range, On
<1> QED BY <1>1, <1>2 DEF Cut

FilledByte(s, q, p, fresh, fix, a, v) ==
    IF \E r \in Cut(s, q, p, fix) : Holds(PageAt(s, r), a)
    THEN \E r \in Cut(s, q, p, fix) : Holds(PageAt(s, r), a) /\ v = PageAt(s, r).data[a]
    ELSE v = IF q[1] = "big" /\ fresh THEN PageAt(s, q).data[a] ELSE RawByte(s, a)
FilledAs(s, t, q, p, n, fresh, fix) ==
    /\ ShapeBut(t, {}) /\ t.overrun = s.overrun /\ SameLocks(s, t) /\ Kept(s, t)
    /\ t.failed = (s.failed \/ ~(Cardinality(Cut(s, q, p, fix)) <= 1))
    /\ \A r : IsLockedPage(t, r) <=> IsLockedPage(s, r)
    /\ \A r \in Cut(s, q, p, fix) :
          ResizedTo(PageAt(s, r), PageAt(t, r), PageAt(s, r).start, p - PageAt(s, r).start, PageAt(s, r).data)
    /\ \A r : IsLockedPage(s, r) /\ r # q /\ r \notin Cut(s, q, p, fix) => PageAt(t, r) = PageAt(s, r)
    /\ PageAt(t, q).start = p /\ PageAt(t, q).size = n /\ PageAt(t, q).dirty = PageAt(s, q).dirty
    /\ DOMAIN PageAt(t, q).data = Span(p, n)
    /\ \A a \in Span(p, n) : FilledByte(s, q, p, fresh, fix, a, PageAt(t, q).data[a])

(* A locked page keeps what is in front of p.                              *)
CutPage(pg, p) == Resized(pg, pg.start, p - pg.start, pg.data)
(* A page that is cut off stays well-formed and keeps its bytes.           *)
LEMMA CutsOff ==
  ASSUME NEW s, NEW X, ShapeBut(s, X), NEW r, IsLockedPage(s, r), r \notin X, NEW p \in Nat,
         BeginOverlaps(PageAt(s, r), p), NEW pg, pg = PageAt(s, r)
  PROVE  /\ CutPage(pg, p) \in AnyPage /\ LockedOK(CutPage(pg, p), r[1])
         /\ ResizedTo(pg, CutPage(pg, p), pg.start, p - pg.start, pg.data)
<1> DEFINE c == r[1]
           i == r[2]
<1>1. c \in Class /\ i \in Pages1(c) /\ IsLocked(s, c, i) /\ <<c, i>> \notin X /\ pg = s.page[c][i]
    BY DEF IsLockedPage, PageAt
<1> HIDE DEF c, i
<1>2. LockedOK(pg, c) /\ pg \in AnyPage
    BY <1>1, LockedPageIs
<1>3. pg.start \in Addr \ {0} /\ pg.start \in Nat /\ pg.size \in 1 .. PageSize[c] /\ PageSize[c] \in Nat
    BY <1>1, <1>2, Sizes DEF LockedOK, AnyPage
<1>4. p > pg.start /\ p < pg.start + pg.size
    BY DEF BeginOverlaps
<1> DEFINE n == p - pg.start
<1>5. n \in 1 .. PageSize[c]
    BY <1>3, <1>4
<1>6. Span(pg.start, n) \subseteq LockSpan(pg)
    BY <1>3, <1>4 DEF LockSpan, Span
<1>7. Span(pg.start, n) \subseteq Addr /\ \A a \in Span(pg.start, n) : pg.data[a] \in Val
    BY <1>2, <1>6 DEF LockedOK
<1> HIDE DEF n
<1>8. /\ Resized(pg, pg.start, n, pg.data) \in AnyPage /\ LockedOK(Resized(pg, pg.start, n, pg.data), c)
      /\ ResizedTo(pg, Resized(pg, pg.start, n, pg.data), pg.start, n, pg.data)
    BY <1>1, <1>2, <1>3, <1>5, <1>7, Resizes
<1> QED BY <1>8 DEF n, c, CutPage

(* FillLock cuts the others off and gives the page the bytes of the block. *)
LEMMA Fills ==
  ASSUME NEW s, NEW c \in Class, NEW i \in Pages1(c), NEW q, q = <<c, i>>, ShapeBut(s, {q}), IsLockedPage(s, q),
         NEW p \in Addr \ {0}, NEW n \in 1 .. PageSize[c], Span(p, n) \subseteq Addr,
         NEW fresh \in BOOLEAN, NEW fix \in BOOLEAN, GotBytes(s, q, p, n, fresh)
  PROVE  FilledAs(s, FillLock(s, c, i, p, n, fresh, fix), q, p, n, fresh, fix)
<1> DEFINE cut == Cut(s, q, p, fix)
           Byte(a) == IF \E r \in cut : Holds(PageAt(s, r), a)
                      THEN PageAt(s, CHOOSE r \in cut : Holds(PageAt(s, r), a)).data[a]
                      ELSE IF c = "big" /\ fresh THEN PageOf(s, c, i).data[a] ELSE RawByte(s, a)
           bytes == [a \in Span(p, n) |-> Byte(a)]
           filled == Resized(PageOf(s, c, i), p, n, bytes)
           G == [d \in Class |-> [j \in DOMAIN s.page[d] |->
                    IF <<d, j>> = q THEN filled
                    ELSE IF <<d, j>> \in cut THEN CutPage(s.page[d][j], p) ELSE s.page[d][j]]]
           b == Cardinality(cut) <= 1
           w == SetTable(s, G)
           t == FillLock(s, c, i, p, n, fresh, fix)
<1> SUFFICES FilledAs(s, t, q, p, n, fresh, fix)
    OBVIOUS
<1>1. t = Require(w, b)
    BY DEF FillLock, SetTable, CutPage, Cut
<1>2. b \in BOOLEAN
    OBVIOUS
<1>3. \A r : r \in cut <=> IsLockedPage(s, r) /\ fix /\ r # q /\ BeginOverlaps(PageAt(s, r), p)
    BY CutIs
<1> HIDE DEF t, b, cut
<1>4. s \in States /\ PageAt(s, q) = s.page[c][i] /\ s.page[c][i] \in AnyPage /\ PageOf(s, c, i) = PageAt(s, q)
    BY StateFields DEF ShapeBut, PageAt, PageOf
<1>5. ASSUME NEW r \in cut
      PROVE  /\ CutPage(PageAt(s, r), p) \in AnyPage /\ LockedOK(CutPage(PageAt(s, r), p), r[1])
             /\ ResizedTo(PageAt(s, r), CutPage(PageAt(s, r), p), PageAt(s, r).start, p - PageAt(s, r).start, PageAt(s, r).data)
             /\ PageAt(s, r).data \in [LockSpan(PageAt(s, r)) -> Val]
  <2>1. IsLockedPage(s, r) /\ r \notin {q} /\ BeginOverlaps(PageAt(s, r), p) /\ p \in Nat
      BY <1>3, <1>5, Sizes
  <2>2. PageAt(s, r).data \in [LockSpan(PageAt(s, r)) -> Val]
    <3>1. r[1] \in Class /\ r[2] \in Pages1(r[1]) /\ IsLocked(s, r[1], r[2]) /\ <<r[1], r[2]>> \notin {q}
        BY <2>1 DEF IsLockedPage
    <3> QED BY <3>1, LockedPageIs DEF PageAt
  <2> QED BY <2>1, <2>2, CutsOff
<1>6. ASSUME NEW a \in Span(p, n) PROVE Byte(a) \in Val /\ FilledByte(s, q, p, fresh, fix, a, Byte(a))
  <2>1. CASE \E r \in cut : Holds(PageAt(s, r), a)
    <3> DEFINE r == CHOOSE x \in cut : Holds(PageAt(s, x), a)
    <3>1. r \in cut /\ Holds(PageAt(s, r), a)
        BY <2>1
    <3>2. Byte(a) = PageAt(s, r).data[a]
        BY <2>1
    <3> HIDE DEF r
    <3>3. PageAt(s, r).data[a] \in Val
        BY <1>5, <3>1 DEF Holds
    <3> HIDE DEF Byte
    <3> QED BY <3>1, <3>2, <3>3 DEF FilledByte, cut
  <2>2. CASE ~\E r \in cut : Holds(PageAt(s, r), a)
    <3>1. Byte(a) = IF q[1] = "big" /\ fresh THEN PageAt(s, q).data[a] ELSE RawByte(s, a)
        BY <1>4, <2>2
    <3>2. RawByte(s, a) \in Val
        BY RawByteIs
    <3>3. q[1] = "big" /\ fresh => PageAt(s, q).data[a] \in Val
        BY DEF GotBytes
    <3> HIDE DEF Byte
    <3>4. Byte(a) \in Val
        BY <3>1, <3>2, <3>3
    <3>5. FilledByte(s, q, p, fresh, fix, a, Byte(a))
        BY <2>2, <3>1 DEF FilledByte, cut
    <3> QED BY <3>4, <3>5
  <2> QED BY <2>1, <2>2
<1>7. \A a \in Span(p, n) : bytes[a] = Byte(a)
    OBVIOUS
<1> HIDE DEF Byte, bytes
<1>8. \A a \in Span(p, n) : bytes[a] \in Val /\ FilledByte(s, q, p, fresh, fix, a, bytes[a])
    BY <1>6, <1>7
<1>9. filled \in AnyPage /\ LockedOK(filled, c) /\ ResizedTo(PageAt(s, q), filled, p, n, bytes)
    BY <1>4, <1>8, Resizes
<1> HIDE DEF filled
<1>10. \A d \in Class : DOMAIN s.page[d] = Pages1(d) /\ \A j \in Pages1(d) : s.page[d][j] \in AnyPage
    BY <1>4, StateFields
<1>11. G = [d \in Class |-> G[d]]
    OBVIOUS
<1>12. \A d \in Class : \A j \in Pages1(d) :
          G[d][j] = IF <<d, j>> = q THEN filled
                    ELSE IF <<d, j>> \in cut THEN CutPage(s.page[d][j], p) ELSE s.page[d][j]
    BY <1>10
<1>13. ASSUME NEW d \in Class PROVE G[d] \in [Pages1(d) -> AnyPage]
  <2>1. ASSUME NEW j \in Pages1(d)
        PROVE  (IF <<d, j>> = q THEN filled
                ELSE IF <<d, j>> \in cut THEN CutPage(s.page[d][j], p) ELSE s.page[d][j]) \in AnyPage
    <3>1. CASE <<d, j>> = q
        BY <1>9, <3>1
    <3>2. CASE <<d, j>> # q /\ <<d, j>> \in cut
      <4>1. PageAt(s, <<d, j>>) = s.page[d][j]
          BY DEF PageAt
      <4> QED BY <1>5, <3>2, <4>1
    <3>3. CASE <<d, j>> # q /\ <<d, j>> \notin cut
        BY <1>10, <3>3
    <3> QED BY <3>1, <3>2, <3>3
  <2> QED BY <1>10, <2>1
<1> HIDE DEF G
<1>14. ASSUME NEW d \in Class, NEW j \in Pages1(d), ~IsLocked(s, d, j) PROVE G[d][j] = s.page[d][j]
  <2>1. ~IsLockedPage(s, <<d, j>>)
      BY <1>14 DEF IsLockedPage
  <2> QED BY <1>3, <1>12, <2>1
<1>15. ASSUME NEW d \in Class, NEW j \in Pages1(d), IsLocked(s, d, j) PROVE LockedOK(G[d][j], d)
  <2>1. CASE <<d, j>> = q
    <3>1. d = c /\ j = i
        BY <2>1
    <3> QED BY <1>9, <1>12, <3>1
  <2>2. CASE <<d, j>> # q /\ <<d, j>> \in cut
    <3>1. PageAt(s, <<d, j>>) = s.page[d][j]
        BY DEF PageAt
    <3>2. LockedOK(CutPage(s.page[d][j], p), <<d, j>>[1])
        BY <1>5, <2>2, <3>1
    <3> QED BY <1>12, <2>2, <3>2
  <2>3. CASE <<d, j>> # q /\ <<d, j>> \notin cut
      BY <1>12, <1>15, <2>3 DEF ShapeBut
  <2> QED BY <2>1, <2>2, <2>3
<1>16. TableSet(s, w, G)
    BY <1>11, <1>13, <1>14, <1>15, SetsTable
<1> HIDE DEF w
<1>17. ShapeBut(w, {}) /\ w \in States
    BY <1>16 DEF TableSet, ShapeBut
<1>18. /\ Below(w, t) /\ ShapeBut(t, {}) /\ t.page = w.page /\ t.free = w.free /\ t.locked = w.locked
       /\ t.store = w.store /\ t.overrun = w.overrun /\ t.failed = (w.failed \/ ~b)
  <2>1. Below(w, Require(w, b)) /\ ShapeBut(Require(w, b), {})
      BY <1>2, <1>17, RequireBelow
  <2> QED BY <1>1, <1>2, <1>17, <2>1, RequireIs
<1>19. Kept(s, t)
  <2>1. Kept(w, t)
      BY <1>18, SameAgrees DEF Kept
  <2> QED BY <1>16, <2>1, KeptTwice DEF TableSet
<1>20. t.page = G /\ t.overrun = s.overrun /\ t.failed = (s.failed \/ ~b) /\ \A r : IsLockedPage(t, r) <=> IsLockedPage(s, r)
    BY <1>16, <1>18 DEF TableSet, SameButPages, IsLockedPage, IsLocked
<1>21. \A r : IsLockedPage(s, r) => /\ r[1] \in Class /\ r[2] \in Pages1(r[1]) /\ r = <<r[1], r[2]>>
                                    /\ PageAt(s, r) = s.page[r[1]][r[2]] /\ PageAt(t, r) = G[r[1]][r[2]]
    BY <1>20 DEF IsLockedPage, PageAt
<1>22. PageAt(t, q) = filled
    BY <1>12, <1>20 DEF PageAt
<1>23. \A r \in cut : PageAt(t, r) = CutPage(PageAt(s, r), p)
    BY <1>3, <1>12, <1>21
<1>24. \A r : IsLockedPage(s, r) /\ r # q /\ r \notin cut => PageAt(t, r) = PageAt(s, r)
    BY <1>12, <1>21
<1>25. SameLocks(s, t)
  <2> SUFFICES ASSUME NEW d \in Class, NEW j \in Pages1(d) PROVE G[d][j].locks = s.page[d][j].locks
      BY <1>20 DEF SameLocks
  <2>1. CASE <<d, j>> = q
    <3>1. d = c /\ j = i
        BY <2>1
    <3> QED BY <1>4, <1>9, <1>12, <3>1 DEF ResizedTo
  <2>2. CASE <<d, j>> # q /\ <<d, j>> \in cut
    <3>1. PageAt(s, <<d, j>>) = s.page[d][j]
        BY DEF PageAt
    <3> QED BY <1>5, <1>12, <2>2, <3>1 DEF ResizedTo
  <2>3. CASE <<d, j>> # q /\ <<d, j>> \notin cut
      BY <1>12, <2>3
  <2> QED BY <2>1, <2>2, <2>3
<1>26. /\ PageAt(t, q).start = p /\ PageAt(t, q).size = n /\ PageAt(t, q).dirty = PageAt(s, q).dirty
       /\ DOMAIN PageAt(t, q).data = Span(p, n) /\ \A a \in Span(p, n) : PageAt(t, q).data[a] = bytes[a]
    BY <1>9, <1>22 DEF ResizedTo
<1>27. \A a \in Span(p, n) : FilledByte(s, q, p, fresh, fix, a, PageAt(t, q).data[a])
    BY <1>8, <1>26
<1>28. \A r \in cut : ResizedTo(PageAt(s, r), PageAt(t, r), PageAt(s, r).start, p - PageAt(s, r).start, PageAt(s, r).data)
    BY <1>5, <1>23
<1>29. t.failed = (s.failed \/ ~(Cardinality(cut) <= 1))
    BY <1>20 DEF b
<1> QED BY <1>18, <1>19, <1>20, <1>24, <1>25, <1>26, <1>27, <1>28, <1>29 DEF FilledAs, cut

-----------------------------------------------------------------------------
(* The page of a new lock, before the lock is counted                      *)

(* A page in use that p is inside of ends with the block, or before.       *)
Covers(s, p, n) ==
    \A r : IsLockedPage(s, r) /\ InUse(PageAt(s, r)) /\ BeginOverlaps(PageAt(s, r), p) =>
        PageAt(s, r).start + PageAt(s, r).size <= p + n

(* The page q has the right bytes, but when fix is true it may be clean    *)
(* although they are nowhere else.                                         *)
PrepMem(t, c, q, fix) ==
    \E m : /\ Agrees(t, m)
           /\ \A r : IsLockedPage(t, r) /\ r # q => \A a \in Addr : Holds(PageAt(t, r), a) =>
                  PageAt(t, r).data[a] = c[a] /\ (PageAt(t, r).dirty \/ m[a] = c[a])
           /\ \A a \in Addr : Holds(PageAt(t, q), a) =>
                  PageAt(t, q).data[a] = c[a] /\ (fix \/ PageAt(t, q).dirty \/ m[a] = c[a])
           /\ \A a \in Addr : (\E r : IsLockedPage(t, r) /\ Holds(PageAt(t, r), a)) \/ m[a] = c[a]

(* From s to t the page q was prepared for a lock on k bytes at p; n bytes *)
(* were asked for.                                                         *)
PreparedPages(s, t, q, p, k) ==
    /\ ShapeBut(t, {}) /\ t.overrun = s.overrun /\ SameLocks(s, t)
    /\ IsLockedPage(t, q) /\ PageAt(t, q).start = p /\ PageAt(t, q).size = k
    /\ \A r : IsLockedPage(t, r) /\ r # q => IsLockedPage(s, r) /\ Narrower(PageAt(s, r), PageAt(t, r))
    /\ IsLockedPage(s, q) /\ InUse(PageAt(s, q)) =>
          PageAt(s, q).start = p /\ PageAt(t, q).dirty = PageAt(s, q).dirty
PreparedUsed(s, t, p, k, n) ==
    Disjoint(s) /\ Fits(s, p, n) /\ Covers(s, p, n) =>
        \A r : IsLockedPage(s, r) /\ InUse(PageAt(s, r)) =>
            \A a \in LockSpan(PageAt(s, r)) : a \in LockSpan(PageAt(t, r)) \/ a \in Span(p, k)
PreparedMem(s, t, q, p, k, n, fix) ==
    Disjoint(s) /\ Covers(s, p, n) /\ Short(s) /\ k < BigSize =>
        Short(t) /\ \A c : MemIs(s, c, {}) => PrepMem(t, c, q, fix)
Prepared(s, t, q, p, k, n, fix) ==
    /\ PreparedPages(s, t, q, p, k) /\ PreparedUsed(s, t, p, k, n) /\ PreparedMem(s, t, q, p, k, n, fix)
    /\ Disjoint(s) => Disjoint(t) /\ ~t.failed

(* Narrowing twice narrows.                                                *)
LEMMA NarrowerTwice ==
  ASSUME NEW x, NEW y, NEW z, Narrower(x, y), Narrower(y, z), x.size \in Nat, y.size \in Nat, z.size \in Nat
  PROVE  Narrower(x, z)
BY DEF Narrower
(* A narrower page has no byte that the wider one lacks.                   *)
LEMMA NarrowerSpan ==
  ASSUME NEW x, NEW y, Narrower(x, y), x.start \in Nat, x.size \in Nat, y.size \in Nat
  PROVE  \A a \in LockSpan(y) : a \in LockSpan(x)
BY DEF Narrower, LockSpan, Span

(* A page that was taken and filled.                                       *)
LEMMA PreparesNew ==
  ASSUME NEW s, ShapeBut(s, {}), NEW f, NEW p \in Addr \ {0}, NEW n \in 1 .. BigSize, Ready(s, f, p, n),
         ~f.state.failed, f.at = 0, NEW k, k = f.size, NEW fix, fix = f.fix, Span(p, n) \subseteq Addr,
         NEW u, NEW q, NEW fresh \in BOOLEAN, GotPage(f.state, u, q, p, k, fresh),
         NEW t, FilledAs(u, t, q, p, k, fresh, fix)
  PROVE  Prepared(s, t, q, p, k, n, fix)
<1> DEFINE e == f.state
           cut == Cut(u, q, p, fix)
<1>1. /\ ShapeBut(e, {}) /\ f \in Searches /\ k \in 1 .. n /\ k \in Nat /\ n \in Nat /\ k <= n /\ k >= 1 /\ fix \in BOOLEAN
      /\ p \in Nat /\ e.overrun = s.overrun /\ SameLocks(s, e)
  <2>1. /\ ShapeBut(e, {}) /\ f \in Searches /\ k \in 1 .. n /\ e.overrun = s.overrun /\ SameLocks(s, e)
      BY DEF Ready, ReadyState, FoundSize
  <2>2. n \in Nat /\ p \in Nat
      BY Sizes
  <2> QED BY <2>1, <2>2 DEF Searches
<1>2. /\ ShapeBut(u, {q}) /\ ~u.failed /\ u.overrun = e.overrun /\ SameLocks(e, u)
      /\ IsLockedPage(u, q) /\ PageAt(u, q).locks = 0 /\ k <= PageSize[q[1]]
      /\ \A r : IsLockedPage(u, r) /\ r # q => IsLockedPage(e, r) /\ PageAt(u, r) = PageAt(e, r)
    BY DEF GotPage
<1>3. /\ ShapeBut(t, {}) /\ t.overrun = u.overrun /\ SameLocks(u, t) /\ Kept(u, t)
      /\ t.failed = (u.failed \/ ~(Cardinality(cut) <= 1))
      /\ \A r : IsLockedPage(t, r) <=> IsLockedPage(u, r)
      /\ \A r \in cut : ResizedTo(PageAt(u, r), PageAt(t, r), PageAt(u, r).start, p - PageAt(u, r).start, PageAt(u, r).data)
      /\ \A r : IsLockedPage(u, r) /\ r # q /\ r \notin cut => PageAt(t, r) = PageAt(u, r)
      /\ PageAt(t, q).start = p /\ PageAt(t, q).size = k /\ PageAt(t, q).dirty = PageAt(u, q).dirty
      /\ DOMAIN PageAt(t, q).data = Span(p, k)
      /\ \A a \in Span(p, k) : FilledByte(u, q, p, fresh, fix, a, PageAt(t, q).data[a])
    BY DEF FilledAs
<1>4. \A r : r \in cut <=> IsLockedPage(u, r) /\ fix /\ r # q /\ BeginOverlaps(PageAt(u, r), p)
    BY <1>1, <1>2, CutIs
<1> HIDE DEF cut
<1>5. ASSUME NEW r, IsLockedPage(u, r), r # q
      PROVE  /\ IsLockedPage(s, r) /\ IsLockedPage(e, r) /\ IsLockedPage(t, r) /\ PageAt(u, r) = PageAt(e, r)
             /\ Narrower(PageAt(s, r), PageAt(u, r))
             /\ PageAt(u, r).start \in Nat /\ PageAt(u, r).size \in Nat /\ PageAt(s, r).size \in Nat
             /\ PageAt(u, r).data \in [LockSpan(PageAt(u, r)) -> Val]
  <2>1. IsLockedPage(e, r) /\ PageAt(u, r) = PageAt(e, r) /\ IsLockedPage(t, r)
      BY <1>2, <1>3, <1>5
  <2>2. IsLockedPage(s, r) /\ Narrower(PageAt(s, r), PageAt(u, r))
      BY <2>1 DEF Ready, ReadyState
  <2>3. PageAt(u, r).start \in Nat /\ PageAt(u, r).size \in Nat /\ PageAt(u, r).data \in [LockSpan(PageAt(u, r)) -> Val]
      BY <1>1, <2>1, VisitedIs
  <2>4. PageAt(s, r).size \in Nat
      BY <2>2, VisitedIs
  <2> QED BY <2>1, <2>2, <2>3, <2>4
<1>6. ASSUME NEW r, r \in cut
      PROVE  /\ PageAt(t, r).start = PageAt(u, r).start /\ PageAt(t, r).size = p - PageAt(u, r).start
             /\ PageAt(t, r).dirty = PageAt(u, r).dirty
             /\ PageAt(u, r).start < p /\ p < PageAt(u, r).start + PageAt(u, r).size
             /\ DOMAIN PageAt(t, r).data = Span(PageAt(u, r).start, p - PageAt(u, r).start)
             /\ \A a \in Span(PageAt(u, r).start, p - PageAt(u, r).start) : PageAt(t, r).data[a] = PageAt(u, r).data[a]
             /\ IsLockedPage(u, r) /\ r # q /\ fix
  <2>1. IsLockedPage(u, r) /\ r # q /\ fix /\ BeginOverlaps(PageAt(u, r), p)
      BY <1>4, <1>6
  <2>2. PageAt(u, r).start < p /\ p < PageAt(u, r).start + PageAt(u, r).size
      BY <1>1, <1>5, <2>1 DEF BeginOverlaps
  <2>3. ResizedTo(PageAt(u, r), PageAt(t, r), PageAt(u, r).start, p - PageAt(u, r).start, PageAt(u, r).data)
      BY <1>3, <1>6
  <2> QED BY <2>1, <2>2, <2>3 DEF ResizedTo
<1>7. ASSUME NEW r, IsLockedPage(t, r), r # q PROVE Narrower(PageAt(u, r), PageAt(t, r)) /\ Narrower(PageAt(s, r), PageAt(t, r))
  <2>1. IsLockedPage(u, r)
      BY <1>3, <1>7
  <2>2. PageAt(t, r).size \in Nat /\ Narrower(PageAt(u, r), PageAt(t, r))
    <3>1. CASE r \in cut
        BY <1>1, <1>5, <1>6, <1>7, <2>1, <3>1 DEF Narrower
    <3>2. CASE r \notin cut
        BY <1>3, <1>5, <1>7, <2>1, <3>2 DEF Narrower
    <3> QED BY <3>1, <3>2
  <2> QED BY <1>5, <1>7, <2>1, <2>2, NarrowerTwice
<1>8. PreparedPages(s, t, q, p, k)
  <2>1. IsLockedPage(t, q)
      BY <1>2, <1>3
  <2>2. \A r : IsLockedPage(t, r) /\ r # q => IsLockedPage(s, r) /\ Narrower(PageAt(s, r), PageAt(t, r))
      BY <1>3, <1>5, <1>7
  <2>3. ~(IsLockedPage(s, q) /\ InUse(PageAt(s, q)))
    <3> SUFFICES ASSUME IsLockedPage(s, q) PROVE PageAt(s, q).locks = 0
        BY DEF InUse
    <3>1. PageAt(u, q).locks = PageAt(s, q).locks
        BY <1>1, <1>2 DEF SameLocks, PageAt, IsLockedPage
    <3> QED BY <1>2, <3>1
  <2>4. SameLocks(s, t)
      BY <1>1, <1>2, <1>3 DEF SameLocks
  <2> QED BY <1>1, <1>2, <1>3, <2>1, <2>2, <2>3, <2>4 DEF PreparedPages
<1>9. ASSUME Disjoint(s), NEW r, IsLockedPage(u, r), r # q
      PROVE  \/ \A a \in Span(p, k) : a \notin LockSpan(PageAt(u, r))
             \/ r \in cut /\ InUse(PageAt(s, r))
  <2>1. ClearOf(f, p, r)
      BY <1>5, <1>9 DEF Ready, ReadyClear
  <2>2. CASE \A a \in Span(p, k) : a \notin LockSpan(PageAt(e, r))
      BY <1>5, <1>9, <2>2
  <2>3. CASE fix /\ BeginOverlaps(PageAt(e, r), p) /\ InUse(PageAt(e, r))
    <3>1. r \in cut
        BY <1>4, <1>5, <1>9, <2>3
    <3>2. PageAt(e, r).locks = PageAt(s, r).locks
        BY <1>1, <1>5, <1>9 DEF SameLocks, PageAt, IsLockedPage
    <3> QED BY <2>3, <3>1, <3>2 DEF InUse
  <2> QED BY <2>1, <2>2, <2>3 DEF ClearOf
<1>10. ASSUME Disjoint(s) PROVE Disjoint(t)
  <2>1. ASSUME NEW r, IsLockedPage(t, r), r # q, NEW a \in LockSpan(PageAt(t, r)) PROVE a \notin Span(p, k)
    <3>1. IsLockedPage(u, r)
        BY <1>3, <2>1
    <3>2. CASE r \in cut
      <4>1. a < p
          BY <1>1, <1>5, <1>6, <2>1, <3>1, <3>2 DEF LockSpan, Span
      <4>2. a \in Int
          BY <1>5, <1>6, <2>1, <3>1, <3>2 DEF LockSpan, Span
      <4> QED BY <1>1, <4>1, <4>2 DEF Span
    <3>3. CASE r \notin cut
      <4>1. PageAt(t, r) = PageAt(u, r)
          BY <1>3, <2>1, <3>1, <3>3
      <4> QED BY <1>9, <1>10, <2>1, <3>1, <3>3, <4>1
    <3> QED BY <3>2, <3>3
  <2>2. LockSpan(PageAt(t, q)) = Span(p, k)
      BY <1>3 DEF LockSpan
  <2>3. ASSUME NEW v, NEW r, IsLockedPage(t, v), IsLockedPage(t, r), v # r, v # q, r # q
        PROVE  Apart(PageAt(t, v), PageAt(t, r))
    <3>1. \A x : IsLockedPage(t, x) /\ x # q => \A a \in LockSpan(PageAt(t, x)) : a \in LockSpan(PageAt(s, x))
      <4> SUFFICES ASSUME NEW x, IsLockedPage(t, x), x # q
                   PROVE  \A a \in LockSpan(PageAt(t, x)) : a \in LockSpan(PageAt(s, x))
          OBVIOUS
      <4>1. IsLockedPage(s, x) /\ Narrower(PageAt(s, x), PageAt(t, x)) /\ PageAt(t, x).size \in Nat
          BY <1>3, <1>5, <1>7, VisitedIs
      <4>2. PageAt(s, x).start \in Nat /\ PageAt(s, x).size \in Nat
          BY <4>1, VisitedIs
      <4> QED BY <4>1, <4>2, NarrowerSpan
    <3>2. Apart(PageAt(s, v), PageAt(s, r))
        BY <1>3, <1>5, <1>10, <2>3 DEF Disjoint
    <3> QED BY <2>3, <3>1, <3>2 DEF Apart
  <2>4. ASSUME NEW r, IsLockedPage(t, r), r # q
        PROVE  Apart(PageAt(t, q), PageAt(t, r)) /\ Apart(PageAt(t, r), PageAt(t, q))
      BY <2>1, <2>2, <2>4 DEF Apart
  <2> QED BY <2>3, <2>4 DEF Disjoint
<1>11. ASSUME Disjoint(s) PROVE ~t.failed
  <2>1. ASSUME NEW r \in cut, NEW v \in cut PROVE r = v
    <3>1. p \in LockSpan(PageAt(s, r)) /\ IsLockedPage(s, r)
      <4>1. IsLockedPage(s, r) /\ Narrower(PageAt(s, r), PageAt(u, r)) /\ PageAt(s, r).size \in Nat
            /\ PageAt(u, r).start \in Nat /\ PageAt(u, r).size \in Nat
          BY <1>5, <1>6
      <4>2. p \in LockSpan(PageAt(u, r))
          BY <1>1, <1>6, <4>1 DEF LockSpan, Span
      <4> QED BY <4>1, <4>2, NarrowerSpan DEF Narrower
    <3>2. p \in LockSpan(PageAt(s, v)) /\ IsLockedPage(s, v)
      <4>1. IsLockedPage(s, v) /\ Narrower(PageAt(s, v), PageAt(u, v)) /\ PageAt(s, v).size \in Nat
            /\ PageAt(u, v).start \in Nat /\ PageAt(u, v).size \in Nat
          BY <1>5, <1>6
      <4>2. p \in LockSpan(PageAt(u, v))
          BY <1>1, <1>6, <4>1 DEF LockSpan, Span
      <4> QED BY <4>1, <4>2, NarrowerSpan DEF Narrower
    <3> QED BY <1>11, <3>1, <3>2 DEF Disjoint, Apart
  <2>2. Cardinality(cut) <= 1
    <3>1. CASE cut = {}
        BY <3>1, FS_EmptySet
    <3>2. CASE cut # {}
      <4>1. PICK r : r \in cut
          BY <3>2
      <4>2. cut = {r}
          BY <2>1, <4>1
      <4>3. Cardinality({r}) = 1
          BY FS_Singleton
      <4>4. Cardinality(cut) = 1
          BY <4>2, <4>3
      <4> QED BY <4>4
    <3> QED BY <3>1, <3>2
  <2> QED BY <1>2, <1>3, <2>2
<1>12. ASSUME Disjoint(s), Covers(s, p, n), NEW r \in cut, NEW a \in LockSpan(PageAt(s, r)), a >= p PROVE a \in Span(p, k)
  <2>1. /\ IsLockedPage(s, r) /\ Narrower(PageAt(s, r), PageAt(u, r)) /\ PageAt(s, r).size \in Nat
        /\ PageAt(u, r).start \in Nat /\ PageAt(u, r).size \in Nat /\ PageAt(u, r).start < p
        /\ p < PageAt(u, r).start + PageAt(u, r).size
      BY <1>5, <1>6
  <2>2. PageAt(s, r).start = PageAt(u, r).start
      BY <2>1 DEF Narrower
  <2>3. InUse(PageAt(s, r))
    <3>1. p \in Span(p, k)
        BY <1>1 DEF Span
    <3>2. p \in LockSpan(PageAt(u, r))
        BY <1>1, <2>1 DEF LockSpan, Span
    <3> QED BY <1>6, <1>9, <1>12, <3>1, <3>2
  <2>4. BeginOverlaps(PageAt(s, r), p) /\ a < PageAt(s, r).start + PageAt(s, r).size /\ a \in Int
    <3>1. PageAt(u, r).size <= PageAt(s, r).size
        BY <2>1 DEF Narrower
    <3> QED BY <1>1, <1>12, <2>1, <2>2, <3>1 DEF BeginOverlaps, LockSpan, Span
  <2>5. PageAt(s, r).start + PageAt(s, r).size <= p + n
      BY <1>12, <2>1, <2>3, <2>4 DEF Covers
  <2>6. CASE k = n
      BY <1>1, <1>12, <2>1, <2>2, <2>4, <2>5, <2>6 DEF Span
  <2>7. CASE k # n
    <3>1. PICK v : IsLockedPage(s, v) /\ InUse(PageAt(s, v)) /\ PageAt(s, v).start = p + k
        BY <1>12, <2>7 DEF Ready, FoundEnd
    <3>2. v # r /\ p + k \in LockSpan(PageAt(s, v))
      <4>1. PageAt(s, v).start # PageAt(s, r).start
          BY <1>1, <2>1, <2>2, <3>1
      <4> QED BY <3>1, <4>1, VisitedIs
    <3>3. ASSUME a >= p + k PROVE FALSE
      <4>1. p + k \in LockSpan(PageAt(s, r))
          BY <1>1, <2>1, <2>2, <2>4, <3>3 DEF LockSpan, Span
      <4> QED BY <1>12, <2>1, <3>1, <3>2, <4>1 DEF Disjoint, Apart
    <3> QED BY <1>1, <1>12, <2>4, <3>3 DEF Span
  <2> QED BY <2>6, <2>7
<1>13. PreparedUsed(s, t, p, k, n)
  <2> SUFFICES ASSUME Disjoint(s), Fits(s, p, n), Covers(s, p, n), NEW r, IsLockedPage(s, r), InUse(PageAt(s, r)),
                      NEW a \in LockSpan(PageAt(s, r)), a \notin Span(p, k)
               PROVE  a \in LockSpan(PageAt(t, r))
      BY DEF PreparedUsed
  <2>1. IsLockedPage(t, r) /\ r # q /\ IsLockedPage(u, r)
    <3>1. SameLocks(s, t) /\ ~(IsLockedPage(s, q) /\ InUse(PageAt(s, q)) /\ PageAt(u, q).locks # 0)
        BY <1>2, <1>8 DEF PreparedPages
    <3>2. IsLockedPage(t, r)
        BY <1>3, <3>1, UsedStays
    <3>3. ASSUME r = q PROVE FALSE
      <4>1. PageAt(u, q).locks = PageAt(s, q).locks
          BY <1>1, <1>2, <3>3 DEF SameLocks, PageAt, IsLockedPage
      <4> QED BY <1>2, <3>3, <4>1 DEF InUse
    <3> QED BY <1>3, <3>2, <3>3
  <2>2. PageAt(u, r) = PageAt(s, r)
    <3>1. PageAt(e, r) = PageAt(s, r)
        BY DEF Ready, FoundUsed
    <3> QED BY <1>5, <2>1, <3>1
  <2>3. CASE r \notin cut
      BY <1>3, <2>1, <2>2, <2>3
  <2>4. CASE r \in cut
    <3>1. a \in Int /\ ~(a >= p) /\ a >= PageAt(u, r).start
        BY <1>5, <1>12, <2>1, <2>2, <2>4 DEF LockSpan, Span
    <3> QED BY <1>1, <1>5, <1>6, <2>1, <2>4, <3>1 DEF LockSpan, Span
  <2> QED BY <2>3, <2>4
<1>14. PreparedMem(s, t, q, p, k, n, fix)
  <2> SUFFICES ASSUME Disjoint(s), Covers(s, p, n), Short(s), k < BigSize
               PROVE  Short(t) /\ \A c : MemIs(s, c, {}) => PrepMem(t, c, q, fix)
      BY DEF PreparedMem
  <2>1. Short(t)
    <3> SUFFICES ASSUME NEW r, IsLockedPage(t, r) PROVE PageAt(t, r).size < BigSize
        BY DEF Short
    <3>1. CASE r = q
        BY <1>3, <3>1
    <3>2. CASE r # q
      <4>1. /\ IsLockedPage(s, r) /\ PageAt(t, r).size <= PageAt(s, r).size /\ PageAt(s, r).size \in Nat
            /\ PageAt(t, r).size \in Nat
          BY <1>3, <1>5, <1>7, <3>2, VisitedIs DEF Narrower
      <4> QED BY <4>1, Sizes DEF Short
    <3> QED BY <3>1, <3>2
  <2>2. ASSUME NEW c, MemIs(s, c, {}) PROVE PrepMem(t, c, q, fix)
    <3>1. Short(e) /\ MemIs(e, c, {})
        BY <2>2 DEF Ready, ReadyState, Remembers
    <3>2. PICK m : /\ Agrees(u, m) /\ MemOf(u, c, {q}, m)
                   /\ q[1] = "big" /\ fresh => \A a \in Span(p, k) \cap Addr : PageAt(u, q).data[a] = m[a]
        BY <3>1 DEF GotPage, GotMem
    <3>3. Agrees(t, m)
        BY <1>3, <3>2 DEF Kept
    <3>4. ASSUME NEW r, IsLockedPage(u, r), r # q, NEW a \in Addr, Holds(PageAt(u, r), a)
          PROVE  PageAt(u, r).data[a] = c[a] /\ (PageAt(u, r).dirty \/ m[a] = c[a])
        BY <3>2, <3>4 DEF MemOf
    <3>5. ASSUME NEW r, IsLockedPage(t, r), r # q, NEW a \in Addr, Holds(PageAt(t, r), a)
          PROVE  PageAt(t, r).data[a] = c[a] /\ (PageAt(t, r).dirty \/ m[a] = c[a])
      <4>1. IsLockedPage(u, r)
          BY <1>3, <3>5
      <4>2. CASE r \notin cut
          BY <1>3, <3>4, <3>5, <4>1, <4>2
      <4>3. CASE r \in cut
        <5>1. a \in Span(PageAt(u, r).start, p - PageAt(u, r).start)
            BY <1>6, <3>5, <4>3 DEF Holds
        <5>2. a \in LockSpan(PageAt(u, r))
            BY <1>1, <1>5, <1>6, <3>5, <4>1, <4>3, <5>1 DEF LockSpan, Span
        <5>3. Holds(PageAt(u, r), a)
            BY <1>5, <3>5, <4>1, <5>2 DEF Holds
        <5> QED BY <1>6, <3>4, <3>5, <4>1, <4>3, <5>1, <5>3
      <4> QED BY <4>2, <4>3
    <3>6. ASSUME NEW a \in Addr, Holds(PageAt(t, q), a)
          PROVE  PageAt(t, q).data[a] = c[a] /\ (fix \/ PageAt(t, q).dirty \/ m[a] = c[a])
      <4>1. a \in Span(p, k) /\ FilledByte(u, q, p, fresh, fix, a, PageAt(t, q).data[a])
          BY <1>3, <3>6 DEF Holds
      <4>2. CASE \E r \in cut : Holds(PageAt(u, r), a)
        <5>1. PICK r \in cut : Holds(PageAt(u, r), a) /\ PageAt(t, q).data[a] = PageAt(u, r).data[a]
            BY <4>1, <4>2 DEF FilledByte, cut
        <5>2. IsLockedPage(u, r) /\ r # q /\ fix
            BY <1>4, <5>1
        <5> QED BY <3>4, <5>1, <5>2
      <4>3. CASE ~\E r \in cut : Holds(PageAt(u, r), a)
        <5>1. PageAt(t, q).data[a] = IF q[1] = "big" /\ fresh THEN PageAt(u, q).data[a] ELSE RawByte(u, a)
            BY <4>1, <4>3 DEF FilledByte, cut
        <5>2. RawByte(u, a) = m[a]
            BY <1>2, <3>2, RawByteIs
        <5>3. PageAt(t, q).data[a] = m[a]
            BY <3>2, <4>1, <5>1, <5>2
        <5>4. m[a] = c[a]
          <6>1. ASSUME NEW r, IsLockedPage(u, r), r # q, Holds(PageAt(u, r), a) PROVE FALSE
            <7>1. a \in LockSpan(PageAt(u, r))
                BY <1>5, <6>1 DEF Holds
            <7>2. r \in cut
                BY <1>9, <4>1, <6>1, <7>1
            <7> QED BY <4>3, <6>1, <7>2
          <6> QED BY <3>2, <6>1 DEF MemOf
        <5> QED BY <5>3, <5>4
      <4> QED BY <4>2, <4>3
    <3>7. ASSUME NEW a \in Addr, m[a] # c[a] PROVE \E r : IsLockedPage(t, r) /\ Holds(PageAt(t, r), a)
      <4>1. PICK r : IsLockedPage(u, r) /\ r # q /\ Holds(PageAt(u, r), a)
          BY <3>2, <3>7 DEF MemOf
      <4>2. IsLockedPage(t, r)
          BY <1>3, <4>1
      <4>3. CASE r \notin cut
          BY <1>3, <4>1, <4>2, <4>3
      <4>4. CASE r \in cut
        <5>1. a \in LockSpan(PageAt(u, r)) /\ a \in Int /\ a >= PageAt(u, r).start
            BY <1>5, <4>1 DEF Holds, LockSpan, Span
        <5>2. CASE a < p
          <6>1. a \in Span(PageAt(u, r).start, p - PageAt(u, r).start)
              BY <1>1, <1>5, <4>1, <5>1, <5>2 DEF Span
          <6>2. Holds(PageAt(t, r), a)
              BY <1>6, <4>4, <6>1 DEF Holds
          <6> QED BY <4>2, <6>2
        <5>3. CASE a >= p
          <6>1. a \in LockSpan(PageAt(s, r))
            <7>1. Narrower(PageAt(s, r), PageAt(u, r)) /\ PageAt(s, r).size \in Nat
                  /\ PageAt(u, r).start \in Nat /\ PageAt(u, r).size \in Nat
                BY <1>5, <4>1
            <7> QED BY <5>1, <7>1, NarrowerSpan DEF Narrower
          <6>2. a \in Span(p, k)
              BY <1>12, <4>4, <5>3, <6>1
          <6>3. Holds(PageAt(t, q), a) /\ IsLockedPage(t, q)
              BY <1>2, <1>3, <6>2 DEF Holds
          <6> QED BY <6>3
        <5> QED BY <1>1, <5>1, <5>2, <5>3
      <4> QED BY <4>3, <4>4
    <3> QED BY <3>3, <3>5, <3>6, <3>7 DEF PrepMem
  <2> QED BY <2>1, <2>2
<1> QED BY <1>8, <1>10, <1>11, <1>13, <1>14 DEF Prepared

(* A page that begins at p already and grows.                              *)
LEMMA PreparesGrown ==
  ASSUME NEW s, ShapeBut(s, {}), NEW f, NEW p \in Addr \ {0}, NEW n \in 1 .. BigSize, Ready(s, f, p, n),
         ~f.state.failed, f.at # 0, NEW k, k = f.size, Span(p, n) \subseteq Addr,
         NEW q, q = <<f.class, f.at>>, NEW t, t = GrownLock(f.state, f.class, f.at, p, k)
  PROVE  Prepared(s, t, q, p, k, n, f.fix)
<1> DEFINE e == f.state
           c == f.class
           i == f.at
           fix == f.fix
           old == PageAt(e, q)
           Byte(a) == IF Holds(old, a) THEN old.data[a] ELSE RawByte(e, a)
           bytes == [a \in Span(p, k) |-> Byte(a)]
           pg == Resized(old, p, k, bytes)
<1>1. /\ ShapeBut(e, {}) /\ f \in Searches /\ k \in 1 .. n /\ k \in Nat /\ n \in Nat /\ k <= n /\ k >= 1 /\ ~fix
      /\ p \in Nat /\ e.overrun = s.overrun /\ SameLocks(s, e) /\ k <= PageSize[c] /\ IsLockedPage(e, q) /\ old.start = p
      /\ old.size <= k
  <2>1. /\ ShapeBut(e, {}) /\ f \in Searches /\ k \in 1 .. n /\ e.overrun = s.overrun /\ SameLocks(s, e) /\ k <= PageSize[c]
      BY DEF Ready, ReadyState, FoundSize
  <2>2. n \in Nat /\ p \in Nat
      BY Sizes
  <2>3. IsLockedPage(e, q) /\ ~fix /\ old.start = p /\ old.size <= k
      BY DEF Ready, ReadyPages
  <2> QED BY <2>1, <2>2, <2>3 DEF Searches
<1>2. /\ c \in Class /\ i \in Pages1(c) /\ IsLocked(e, c, i) /\ old = e.page[c][i] /\ old \in AnyPage /\ old.size \in Nat
      /\ old.data \in [LockSpan(old) -> Val] /\ PageSize[c] \in Nat
  <2>1. q[1] = c /\ q[2] = i
      OBVIOUS
  <2>2. /\ q[1] \in Class /\ q[2] \in Pages1(q[1]) /\ IsLocked(e, q[1], q[2]) /\ old = e.page[q[1]][q[2]] /\ old \in AnyPage
        /\ old.size \in Nat /\ old.data \in [LockSpan(old) -> Val]
      BY <1>1, VisitedIs
  <2> QED BY <2>1, <2>2, Sizes
<1>3. t = SetPage(e, c, i, pg)
    BY <1>2 DEF GrownLock, PageOf
<1>4. \A a \in Span(p, k) : bytes[a] = Byte(a)
    OBVIOUS
<1>5. Span(p, k) \subseteq Span(p, n) /\ Span(p, k) \subseteq Addr
    BY <1>1 DEF Span
<1>6. \A a \in Span(p, k) : Byte(a) \in Val
  <2> SUFFICES ASSUME NEW a \in Span(p, k) PROVE Byte(a) \in Val
      OBVIOUS
  <2>1. CASE Holds(old, a)
    <3>1. old.data[a] \in Val
        BY <1>2, <2>1 DEF Holds
    <3> QED BY <2>1, <3>1
  <2>2. CASE ~Holds(old, a)
    <3>1. RawByte(e, a) \in Val
        BY <1>1, <1>5, RawByteIs
    <3> QED BY <2>2, <3>1
  <2> QED BY <2>1, <2>2
<1> DEFINE B == Byte(0)
<1>7. \A a \in Span(p, k) : bytes[a] \in Val
    BY <1>4, <1>6
<1>8. \A a \in Span(p, k) : bytes[a] = IF Holds(old, a) THEN old.data[a] ELSE RawByte(e, a)
    BY <1>4
<1> HIDE DEF bytes, Byte
<1>9. k \in 1 .. PageSize[c]
    BY <1>1, <1>2
<1>10. pg \in AnyPage /\ LockedOK(pg, c) /\ ResizedTo(old, pg, p, k, bytes)
    BY <1>2, <1>5, <1>7, <1>9, Resizes
<1> HIDE DEF pg
<1>11. ShapeBut(t, {} \ {q}) /\ PageSet(e, t, q, pg)
  <2> HIDE DEF c, i, e
  <2>1. q = <<c, i>>
      BY DEF c, i
  <2> QED BY <1>1, <1>2, <1>3, <1>10, <2>1, SetsLocked
<1>12. ShapeBut(t, {})
  <2>1. {} \ {q} = {}
      OBVIOUS
  <2> QED BY <1>11, <2>1
<1>13. /\ t.overrun = s.overrun /\ t.failed = e.failed /\ Kept(e, t)
       /\ \A r : IsLockedPage(t, r) <=> IsLockedPage(e, r)
       /\ \A r : IsLockedPage(e, r) /\ r # q => PageAt(t, r) = PageAt(e, r)
       /\ PageAt(t, q) = pg
    BY <1>1, <1>11 DEF PageSet, SameButPages
<1>14. /\ PageAt(t, q).start = p /\ PageAt(t, q).size = k /\ PageAt(t, q).dirty = old.dirty /\ PageAt(t, q).locks = old.locks
       /\ DOMAIN PageAt(t, q).data = Span(p, k) /\ \A a \in Span(p, k) : PageAt(t, q).data[a] = bytes[a]
    BY <1>10, <1>13 DEF ResizedTo
<1>15. SameLocks(s, t)
  <2> SUFFICES ASSUME NEW d \in Class, NEW j \in Pages1(d) PROVE t.page[d][j].locks = e.page[d][j].locks
      BY <1>1 DEF SameLocks
  <2>1. CASE <<d, j>> = q
    <3>1. PageAt(t, q) = t.page[d][j] /\ PageAt(e, q) = e.page[d][j]
        BY <2>1 DEF PageAt
    <3> QED BY <1>14, <3>1
  <2>2. CASE <<d, j>> # q
      BY <1>11, <2>2 DEF PageSet
  <2> QED BY <2>1, <2>2
<1>16. \A r : IsLockedPage(e, r) => IsLockedPage(s, r) /\ Narrower(PageAt(s, r), PageAt(e, r))
    BY DEF Ready, ReadyState
<1> HIDE DEF e, c, i, fix, old, pg
<1>17. PreparedPages(s, t, q, p, k)
  <2>1. IsLockedPage(s, q) /\ InUse(PageAt(s, q)) =>
          PageAt(s, q).start = p /\ PageAt(t, q).dirty = PageAt(s, q).dirty
      BY <1>1, <1>14, <1>16 DEF Narrower, old
  <2>2. \A r : IsLockedPage(t, r) /\ r # q => IsLockedPage(s, r) /\ Narrower(PageAt(s, r), PageAt(t, r))
      BY <1>13, <1>16
  <2> QED BY <1>1, <1>12, <1>13, <1>14, <1>15, <2>1, <2>2 DEF PreparedPages
<1>18. ASSUME Disjoint(s), NEW r, IsLockedPage(e, r), r # q, NEW a \in Span(p, k) PROVE a \notin LockSpan(PageAt(e, r))
    BY <1>1, <1>18 DEF Ready, ReadyClear, ClearOf, e, fix
<1>19. ASSUME Disjoint(s) PROVE Disjoint(t)
  <2>1. LockSpan(PageAt(t, q)) = Span(p, k)
      BY <1>14 DEF LockSpan
  <2>2. ASSUME NEW r, IsLockedPage(t, r), r # q
        PROVE  Apart(PageAt(t, q), PageAt(t, r)) /\ Apart(PageAt(t, r), PageAt(t, q))
      BY <1>13, <1>18, <1>19, <2>1, <2>2 DEF Apart
  <2>3. ASSUME NEW v, NEW r, IsLockedPage(t, v), IsLockedPage(t, r), v # r, v # q, r # q
        PROVE  Apart(PageAt(t, v), PageAt(t, r))
    <3>1. \A x : IsLockedPage(t, x) /\ x # q => \A a \in LockSpan(PageAt(t, x)) : a \in LockSpan(PageAt(s, x))
      <4> SUFFICES ASSUME NEW x, IsLockedPage(t, x), x # q
                   PROVE  \A a \in LockSpan(PageAt(t, x)) : a \in LockSpan(PageAt(s, x))
          OBVIOUS
      <4>1. IsLockedPage(s, x) /\ Narrower(PageAt(s, x), PageAt(t, x)) /\ PageAt(t, x).size \in Nat
          BY <1>12, <1>13, <1>16, VisitedIs
      <4>2. PageAt(s, x).start \in Nat /\ PageAt(s, x).size \in Nat
          BY <4>1, VisitedIs
      <4> QED BY <4>1, <4>2, NarrowerSpan
    <3>2. Apart(PageAt(s, v), PageAt(s, r))
        BY <1>13, <1>16, <1>19, <2>3 DEF Disjoint
    <3> QED BY <2>3, <3>1, <3>2 DEF Apart
  <2> QED BY <2>2, <2>3 DEF Disjoint
<1>20. PreparedUsed(s, t, p, k, n)
  <2> SUFFICES ASSUME Disjoint(s), Fits(s, p, n), NEW r, IsLockedPage(s, r), InUse(PageAt(s, r)),
                      NEW a \in LockSpan(PageAt(s, r))
               PROVE  a \in LockSpan(PageAt(t, r)) \/ a \in Span(p, k)
      BY DEF PreparedUsed
  <2>1. PageAt(e, r) = PageAt(s, r) /\ IsLockedPage(e, r)
      BY <1>1, UsedStays DEF Ready, FoundUsed, e
  <2>2. CASE r = q
      BY <1>1, <1>2, <2>1, <2>2 DEF LockSpan, Span, old
  <2>3. CASE r # q
      BY <1>13, <2>1, <2>3
  <2> QED BY <2>2, <2>3
<1>21. PreparedMem(s, t, q, p, k, n, fix)
  <2> SUFFICES ASSUME Disjoint(s), Short(s), k < BigSize
               PROVE  Short(t) /\ \A d : MemIs(s, d, {}) => PrepMem(t, d, q, fix)
      BY DEF PreparedMem
  <2>1. Short(t)
    <3> SUFFICES ASSUME NEW r, IsLockedPage(t, r) PROVE PageAt(t, r).size < BigSize
        BY DEF Short
    <3>1. CASE r = q
        BY <1>14, <3>1
    <3>2. CASE r # q
      <4>1. /\ IsLockedPage(s, r) /\ PageAt(t, r).size <= PageAt(s, r).size /\ PageAt(s, r).size \in Nat
            /\ PageAt(t, r).size \in Nat
          BY <1>12, <1>13, <1>16, <3>2, VisitedIs DEF Narrower
      <4> QED BY <4>1, Sizes DEF Short
    <3> QED BY <3>1, <3>2
  <2>2. ASSUME NEW d, MemIs(s, d, {}) PROVE PrepMem(t, d, q, fix)
    <3>1. Short(e) /\ MemIs(e, d, {})
        BY <2>2 DEF Ready, ReadyState, Remembers, e
    <3>2. PICK m : Agrees(e, m) /\ MemOf(e, d, {}, m)
        BY <3>1 DEF MemIs
    <3>3. Agrees(t, m)
        BY <1>13, <3>2 DEF Kept
    <3>4. ASSUME NEW r, IsLockedPage(e, r), NEW a \in Addr, Holds(PageAt(e, r), a)
          PROVE  PageAt(e, r).data[a] = d[a] /\ (PageAt(e, r).dirty \/ m[a] = d[a])
        BY <3>2, <3>4 DEF MemOf
    <3>5. ASSUME NEW r, IsLockedPage(t, r), r # q, NEW a \in Addr, Holds(PageAt(t, r), a)
          PROVE  PageAt(t, r).data[a] = d[a] /\ (PageAt(t, r).dirty \/ m[a] = d[a])
      <4>1. IsLockedPage(e, r) /\ PageAt(t, r) = PageAt(e, r)
          BY <1>13, <3>5
      <4> QED BY <3>4, <3>5, <4>1
    <3>6. ASSUME NEW a \in Addr, Holds(PageAt(t, q), a)
          PROVE  PageAt(t, q).data[a] = d[a] /\ (fix \/ PageAt(t, q).dirty \/ m[a] = d[a])
      <4>1. a \in Span(p, k) /\ PageAt(t, q).data[a] = IF Holds(old, a) THEN old.data[a] ELSE RawByte(e, a)
          BY <1>8, <1>14, <3>6 DEF Holds
      <4>2. CASE Holds(old, a)
          BY <1>1, <1>14, <3>4, <4>1, <4>2 DEF old
      <4>3. CASE ~Holds(old, a)
        <5>1. PageAt(t, q).data[a] = m[a]
            BY <1>1, <3>2, <4>1, <4>3, RawByteIs
        <5>2. m[a] = d[a]
          <6>1. ASSUME NEW r, IsLockedPage(e, r), Holds(PageAt(e, r), a) PROVE FALSE
            <7>1. a \in LockSpan(PageAt(e, r))
              <8>1. PageAt(e, r).data \in [LockSpan(PageAt(e, r)) -> Val]
                  BY <1>1, <6>1, VisitedIs
              <8> QED BY <6>1, <8>1 DEF Holds
            <7>2. r # q
                BY <4>3, <6>1 DEF old
            <7> QED BY <1>18, <4>1, <6>1, <7>1, <7>2
          <6> QED BY <3>2, <6>1 DEF MemOf
        <5> QED BY <5>1, <5>2
      <4> QED BY <4>2, <4>3
    <3>7. ASSUME NEW a \in Addr, m[a] # d[a] PROVE \E r : IsLockedPage(t, r) /\ Holds(PageAt(t, r), a)
      <4>1. PICK r : IsLockedPage(e, r) /\ Holds(PageAt(e, r), a)
          BY <3>2, <3>7 DEF MemOf
      <4>2. CASE r # q
          BY <1>13, <4>1, <4>2
      <4>3. CASE r = q
        <5>1. a \in LockSpan(old)
            BY <1>2, <4>1, <4>3 DEF Holds, old
        <5>2. a \in Span(p, k)
          <6>1. old.size \in Nat /\ old.start = p /\ old.size <= k /\ p \in Nat /\ k \in Nat
              BY <1>1, <1>2
          <6> HIDE DEF old
          <6> QED BY <5>1, <6>1 DEF LockSpan, Span
        <5> QED BY <1>13, <1>14, <4>1, <4>3, <5>2 DEF Holds
      <4> QED BY <4>2, <4>3
    <3> QED BY <3>3, <3>5, <3>6, <3>7 DEF PrepMem
  <2> QED BY <2>1, <2>2
<1>22. ~t.failed
    BY <1>13 DEF e
<1>23. Prepared(s, t, q, p, k, n, fix)
    BY <1>17, <1>19, <1>20, <1>21, <1>22 DEF Prepared
<1> QED BY <1>23 DEF fix

-----------------------------------------------------------------------------
(* Counting a lock                                                         *)

CountedAs(s, t, q, ro, b) ==
    /\ ShapeBut(t, {}) /\ t.overrun = s.overrun /\ t.failed = (s.failed \/ ~b) /\ Kept(s, t)
    /\ \A r : IsLockedPage(t, r) <=> IsLockedPage(s, r)
    /\ \A r : IsLockedPage(s, r) /\ r # q => PageAt(t, r) = PageAt(s, r)
    /\ PageAt(t, q).start = PageAt(s, q).start /\ PageAt(t, q).size = PageAt(s, q).size
    /\ PageAt(t, q).data = PageAt(s, q).data /\ PageAt(t, q).dirty = (PageAt(s, q).dirty \/ ~ro)
    /\ \A c \in Class : \A i \in Pages1(c) :
          t.page[c][i].locks = IF <<c, i>> = q THEN (s.page[c][i].locks + 1) % LocksModulus ELSE s.page[c][i].locks
(* The last lines of makeDataLock() count the lock and the dirty flag.     *)
LEMMA Counts ==
  ASSUME NEW s, ShapeBut(s, {}), NEW c \in Class, NEW i \in Pages1(c), IsLocked(s, c, i),
         NEW ro \in BOOLEAN, NEW b \in BOOLEAN, NEW t, t = Require(CountLock(s, c, i, ro), b)
  PROVE  CountedAs(s, t, <<c, i>>, ro, b)
<1> DEFINE q == <<c, i>>
           old == s.page[c][i]
           dirty == old.dirty \/ ~ro
           locks == (old.locks + 1) % LocksModulus
           pg == [old EXCEPT !.dirty = dirty, !.locks = locks]
           u == SetPage(s, c, i, pg)
<1>1. t = Require(u, b)
    BY DEF CountLock, PageOf
<1>2. q \notin {} /\ {} \ {q} = {}
    OBVIOUS
<1>3. LockedOK(old, c) /\ old \in AnyPage
    BY <1>2, LockedPageIs
<1>4. dirty \in BOOLEAN /\ old.locks \in Nat
    BY <1>3 DEF AnyPage
<1> HIDE DEF dirty
<1>5. locks \in Nat
    BY <1>4, LocksAssumption
<1> HIDE DEF locks, old
<1>6. pg \in AnyPage /\ pg.start = old.start /\ pg.size = old.size /\ pg.data = old.data /\ pg.dirty = dirty
      /\ pg.locks = locks
    BY <1>3, <1>4, <1>5 DEF AnyPage
<1> HIDE DEF pg
<1>7. LockedOK(pg, c)
    BY <1>3, <1>6 DEF LockedOK, LockSpan
<1>8. ShapeBut(u, {} \ {q}) /\ PageSet(s, u, q, pg)
    BY <1>6, <1>7, SetsLocked
<1> HIDE DEF u
<1>9. ShapeBut(u, {}) /\ u \in States
    BY <1>2, <1>8 DEF ShapeBut
<1>10. Below(u, t) /\ ShapeBut(t, {})
    BY <1>1, <1>9, RequireBelow
<1>11. /\ t.page = u.page /\ t.locked = u.locked /\ t.free = u.free /\ t.store = u.store /\ t.overrun = u.overrun
       /\ t.failed = (u.failed \/ ~b)
    BY <1>1, <1>9, RequireIs
<1>12. t.overrun = s.overrun /\ t.failed = (s.failed \/ ~b)
    BY <1>8, <1>11 DEF PageSet, SameButPages
<1>13. Kept(s, t)
  <2>1. Kept(u, t)
      BY <1>11, SameAgrees DEF Kept
  <2> QED BY <1>8, <2>1, KeptTwice DEF PageSet
<1>14. (\A r : IsLockedPage(t, r) <=> IsLockedPage(u, r)) /\ \A r : PageAt(t, r) = PageAt(u, r)
    BY <1>11 DEF IsLockedPage, IsLocked, PageAt
<1>15. \A r : IsLockedPage(t, r) <=> IsLockedPage(s, r)
    BY <1>8, <1>14 DEF PageSet
<1>16. \A r : IsLockedPage(s, r) /\ r # q => PageAt(t, r) = PageAt(s, r)
    BY <1>8, <1>14 DEF PageSet
<1>17. PageAt(t, q) = pg /\ PageAt(s, q) = old
    BY <1>8, <1>14 DEF PageSet, PageAt, old
<1>18. \A d \in Class : \A j \in Pages1(d) : u.page[d][j].locks = IF <<d, j>> = q THEN locks ELSE s.page[d][j].locks
    BY <1>6, <1>8 DEF PageSet
<1>19. ASSUME NEW d \in Class, NEW j \in Pages1(d)
       PROVE  t.page[d][j].locks = IF <<d, j>> = q THEN (s.page[d][j].locks + 1) % LocksModulus ELSE s.page[d][j].locks
  <2>1. CASE <<d, j>> = q
    <3>1. d = c /\ j = i
        BY <2>1
    <3> QED BY <1>11, <1>18, <2>1, <3>1 DEF locks, old
  <2>2. CASE <<d, j>> # q
      BY <1>11, <1>18, <2>2
  <2> QED BY <2>1, <2>2
<1> QED BY <1>6, <1>10, <1>12, <1>13, <1>15, <1>16, <1>17, <1>19 DEF CountedAs, dirty

-----------------------------------------------------------------------------
(* What a call that takes a lock returns                                   *)

LockPages == UNION {{c} \X (1 .. PageCount[c]) : c \in Class}
(* The lock l that was given out on at most n bytes at p.                  *)
GivenLock(t, l, p, n, ro) ==
    /\ l \in LockType /\ l.ptr = p /\ l.size <= n /\ l.ro = ro
    /\ IsLockedPage(t, l.page) /\ PageAt(t, l.page).start + l.offset = p /\ p \in LockSpan(PageAt(t, l.page))
    /\ ro \/ PageAt(t, l.page).dirty
MadeLocks(s, t, l) ==
    \A c \in Class : \A i \in Pages1(c) :
        t.page[c][i].locks = IF l # NoLock /\ <<c, i>> = l.page THEN (s.page[c][i].locks + 1) % LocksModulus
                             ELSE s.page[c][i].locks
MadeUsed(s, t) ==
    \A r : IsLockedPage(s, r) /\ InUse(PageAt(s, r)) =>
        /\ IsLockedPage(t, r) /\ PageAt(t, r).start = PageAt(s, r).start
        /\ PageAt(s, r).dirty => PageAt(t, r).dirty
MadeDisjoint(s, t, l) ==
    Disjoint(s) => /\ Disjoint(t)
                   /\ \A r : IsLockedPage(t, r) => IsLockedPage(s, r) \/ (l # NoLock /\ r = l.page)
Made(s, t, l, p, n, ro) ==
    /\ ShapeBut(t, {}) /\ t.overrun = s.overrun
    /\ IF l = NoLock THEN t.failed ELSE GivenLock(t, l, p, n, ro)
    /\ MadeLocks(s, t, l) /\ MadeUsed(s, t) /\ MadeDisjoint(s, t, l)

(* The lock begins inside one that is held.                                *)
Inside(s, p) == \E r : IsLockedPage(s, r) /\ InUse(PageAt(s, r)) /\ BeginOverlaps(PageAt(s, r), p)

(* More on those of makeDataLock: the page has the lock's size, or one     *)
(* that it had; and only bytes of the new lock leave another one.          *)
DataSize(s, t, l) ==
    /\ l # NoLock => l.offset = 0 /\ PageAt(t, l.page).size = l.size
    /\ \A r : IsLockedPage(s, r) /\ InUse(PageAt(s, r)) =>
          \/ PageAt(t, r).size <= PageAt(s, r).size
          \/ l # NoLock /\ r = l.page
DataUsed(s, t, l, p, n) ==
    Disjoint(s) /\ Fits(s, p, n) /\ Covers(s, p, n) =>
        \A r : IsLockedPage(s, r) /\ InUse(PageAt(s, r)) =>
            \A a \in LockSpan(PageAt(s, r)) : a \in LockSpan(PageAt(t, r)) \/ (l # NoLock /\ a \in Span(p, l.size))
DataMem(s, t, p, n, ro) ==
    Disjoint(s) /\ Covers(s, p, n) /\ Short(s) /\ n < BigSize /\ (ro => ~Inside(s, p)) =>
        Short(t) /\ \A c : MemIs(s, c, {}) => MemIs(t, c, {})
MadeData(s, t, l, p, n, ro) ==
    Made(s, t, l, p, n, ro) /\ DataSize(s, t, l) /\ DataUsed(s, t, l, p, n) /\ DataMem(s, t, p, n, ro)

(* A prepared page is given out.                                           *)
LEMMA GivesData ==
  ASSUME NEW s, ShapeBut(s, {}), NEW c \in Class, NEW i \in Pages1(c), NEW p \in Addr \ {0}, NEW n \in 1 .. BigSize,
         NEW k \in 1 .. n, k <= PageSize[c], NEW ro \in BOOLEAN, NEW fix, fix => Inside(s, p),
         NEW w, Prepared(s, w, <<c, i>>, p, k, n, fix), ~w.failed, NEW r, r = GiveLock(w, c, i, p, k, ro)
  PROVE  MadeData(s, r.state, r.lock, p, n, ro)
<1> DEFINE q == <<c, i>>
           b == k <= PageSize[c]
           t == r.state
           l == r.lock
<1>1. r = [state |-> Require(CountLock(w, c, i, ro), b),
           lock |-> [ptr |-> p, size |-> k, ro |-> ro, page |-> q, offset |-> p - PageOf(w, c, i).start]]
    BY DEF GiveLock
<1>2. /\ ShapeBut(w, {}) /\ w.overrun = s.overrun /\ SameLocks(s, w)
      /\ IsLockedPage(w, q) /\ PageAt(w, q).start = p /\ PageAt(w, q).size = k
      /\ \A v : IsLockedPage(w, v) /\ v # q => IsLockedPage(s, v) /\ Narrower(PageAt(s, v), PageAt(w, v))
      /\ IsLockedPage(s, q) /\ InUse(PageAt(s, q)) =>
            PageAt(s, q).start = p /\ PageAt(w, q).dirty = PageAt(s, q).dirty
    BY DEF Prepared, PreparedPages
<1>3. IsLocked(w, c, i) /\ PageOf(w, c, i).start = p /\ b \in BOOLEAN /\ b
    BY <1>2 DEF IsLockedPage, PageAt, PageOf
<1> HIDE DEF b
<1>4. CountedAs(w, t, q, ro, b)
  <2>1. t = Require(CountLock(w, c, i, ro), b)
      BY <1>1
  <2> HIDE DEF t, q
  <2>2. CountedAs(w, t, <<c, i>>, ro, b)
      BY <1>2, <1>3, <2>1, Counts
  <2> QED BY <2>2 DEF q
<1>5. p \in Nat /\ k \in Nat /\ n \in Nat /\ k >= 1 /\ k <= n /\ n <= BigSize /\ BigSize \in Nat /\ p - p = 0
    BY Sizes
<1>6. l.ptr = p /\ l.size = k /\ l.ro = ro /\ l.page = q /\ l.offset = 0
    BY <1>1, <1>3, <1>5
<1>7. l \in LockType
  <2>1. q \in LockPages
      BY DEF LockPages, Pages1
  <2>2. k \in 1 .. BigSize /\ 0 \in Nat
      BY <1>5
  <2> QED BY <1>1, <1>3, <1>5, <2>1, <2>2 DEF LockType, LockPages
<1>8. l # NoLock
  <2>1. NoLock.ptr = 0
      BY DEF NoLock
  <2> QED BY <1>6, <2>1
<1> HIDE DEF t, l
<1>9. /\ ShapeBut(t, {}) /\ t.overrun = s.overrun /\ ~t.failed /\ Kept(w, t)
      /\ \A v : IsLockedPage(t, v) <=> IsLockedPage(w, v)
      /\ \A v : IsLockedPage(w, v) /\ v # q => PageAt(t, v) = PageAt(w, v)
      /\ PageAt(t, q).start = p /\ PageAt(t, q).size = k
      /\ PageAt(t, q).data = PageAt(w, q).data /\ PageAt(t, q).dirty = (PageAt(w, q).dirty \/ ~ro)
    BY <1>2, <1>3, <1>4 DEF CountedAs
<1>10. \A v : IsLockedPage(t, v) => LockSpan(PageAt(t, v)) = LockSpan(PageAt(w, v))
    BY <1>2, <1>9 DEF LockSpan
<1>11. GivenLock(t, l, p, n, ro)
  <2>1. p \in LockSpan(PageAt(t, q))
      BY <1>5, <1>9 DEF LockSpan, Span
  <2>2. p + 0 = p
      BY <1>5
  <2> QED BY <1>2, <1>5, <1>6, <1>7, <1>9, <2>1, <2>2 DEF GivenLock
<1>12. MadeLocks(s, t, l)
    BY <1>2, <1>4, <1>6, <1>8 DEF MadeLocks, CountedAs, SameLocks
<1>13. ASSUME NEW v, IsLockedPage(s, v), InUse(PageAt(s, v))
       PROVE  /\ IsLockedPage(t, v) /\ IsLockedPage(w, v) /\ PageAt(t, v).start = PageAt(s, v).start
              /\ (PageAt(s, v).dirty => PageAt(t, v).dirty)
              /\ (v = q \/ PageAt(t, v).size <= PageAt(s, v).size)
  <2>1. IsLockedPage(w, v)
      BY <1>2, <1>13, UsedStays
  <2>2. CASE v = q
      BY <1>2, <1>9, <1>13, <2>1, <2>2
  <2>3. CASE v # q
    <3>1. Narrower(PageAt(s, v), PageAt(w, v)) /\ PageAt(t, v) = PageAt(w, v)
        BY <1>2, <1>9, <2>1, <2>3
    <3> QED BY <1>9, <2>1, <3>1 DEF Narrower
  <2> QED BY <2>2, <2>3
<1>14. MadeUsed(s, t)
    BY <1>13 DEF MadeUsed
<1>15. MadeDisjoint(s, t, l)
  <2> SUFFICES ASSUME Disjoint(s)
               PROVE  Disjoint(t) /\ \A v : IsLockedPage(t, v) => IsLockedPage(s, v) \/ (l # NoLock /\ v = l.page)
      BY DEF MadeDisjoint
  <2>1. Disjoint(w)
      BY DEF Prepared
  <2>2. Disjoint(t)
      BY <1>9, <1>10, <2>1 DEF Disjoint, Apart
  <2> QED BY <1>2, <1>6, <1>8, <1>9, <2>2
<1>16. Made(s, t, l, p, n, ro)
    BY <1>8, <1>9, <1>11, <1>12, <1>14, <1>15 DEF Made
<1>17. DataSize(s, t, l)
    BY <1>6, <1>8, <1>9, <1>13 DEF DataSize
<1>18. DataUsed(s, t, l, p, n)
  <2> SUFFICES ASSUME Disjoint(s), Fits(s, p, n), Covers(s, p, n), NEW v, IsLockedPage(s, v), InUse(PageAt(s, v)),
                      NEW a \in LockSpan(PageAt(s, v))
               PROVE  a \in LockSpan(PageAt(t, v)) \/ (l # NoLock /\ a \in Span(p, l.size))
      BY DEF DataUsed
  <2>1. a \in LockSpan(PageAt(w, v)) \/ a \in Span(p, k)
      BY DEF Prepared, PreparedUsed
  <2> QED BY <1>6, <1>8, <1>10, <1>13, <2>1
<1>19. DataMem(s, t, p, n, ro)
  <2> SUFFICES ASSUME Disjoint(s), Covers(s, p, n), Short(s), n < BigSize, ro => ~Inside(s, p)
               PROVE  Short(t) /\ \A d : MemIs(s, d, {}) => MemIs(t, d, {})
      BY DEF DataMem
  <2>1. Short(w) /\ \A d : MemIs(s, d, {}) => PrepMem(w, d, q, fix)
      BY <1>5 DEF Prepared, PreparedMem
  <2>2. \A v : IsLockedPage(t, v) => PageAt(t, v).size = PageAt(w, v).size
      BY <1>2, <1>9
  <2>3. Short(t)
      BY <1>9, <2>1, <2>2 DEF Short
  <2>4. ASSUME NEW d, MemIs(s, d, {}) PROVE MemIs(t, d, {})
    <3>1. PICK m : /\ Agrees(w, m)
                   /\ \A v : IsLockedPage(w, v) /\ v # q => \A a \in Addr : Holds(PageAt(w, v), a) =>
                          PageAt(w, v).data[a] = d[a] /\ (PageAt(w, v).dirty \/ m[a] = d[a])
                   /\ \A a \in Addr : Holds(PageAt(w, q), a) =>
                          PageAt(w, q).data[a] = d[a] /\ (fix \/ PageAt(w, q).dirty \/ m[a] = d[a])
                   /\ \A a \in Addr : (\E v : IsLockedPage(w, v) /\ Holds(PageAt(w, v), a)) \/ m[a] = d[a]
        BY <2>1, <2>4 DEF PrepMem
    <3>2. Agrees(t, m)
        BY <1>9, <3>1 DEF Kept
    <3>3. \A v : IsLockedPage(t, v) => PageAt(t, v).data = PageAt(w, v).data
        BY <1>9
    <3>4. ASSUME NEW v, IsLockedPage(t, v), NEW a \in Addr, Holds(PageAt(t, v), a)
          PROVE  PageAt(t, v).data[a] = d[a] /\ (PageAt(t, v).dirty \/ m[a] = d[a])
      <4>1. Holds(PageAt(w, v), a) /\ IsLockedPage(w, v)
          BY <1>9, <3>3, <3>4 DEF Holds
      <4>2. CASE v = q
          BY <1>9, <3>1, <3>3, <3>4, <4>1, <4>2
      <4>3. CASE v # q
          BY <1>9, <3>1, <4>1, <4>3
      <4> QED BY <4>2, <4>3
    <3>5. ASSUME NEW a \in Addr, m[a] # d[a] PROVE \E v : IsLockedPage(t, v) /\ Holds(PageAt(t, v), a)
        BY <1>9, <3>1, <3>3, <3>5 DEF Holds
    <3>6. MemOf(t, d, {}, m)
        BY <3>4, <3>5 DEF MemOf
    <3> QED BY <3>2, <3>6 DEF MemIs
  <2> QED BY <2>3, <2>4
<1> QED BY <1>16, <1>17, <1>18, <1>19 DEF MadeData, t, l

-----------------------------------------------------------------------------
(* The whole of makeDataLock                                               *)

(* When it stops the program, the pages are as the search left them.       *)
LEMMA StopsData ==
  ASSUME NEW s, ShapeBut(s, {}), NEW t, ShapeBut(t, {}), t.failed, t.overrun = s.overrun, SameLocks(s, t), Remembers(s, t),
         \A q : IsLockedPage(t, q) => IsLockedPage(s, q) /\ Narrower(PageAt(s, q), PageAt(t, q)),
         NEW p, NEW n,
         Disjoint(s) /\ Fits(s, p, n) =>
            \A q : IsLockedPage(s, q) /\ InUse(PageAt(s, q)) => PageAt(t, q) = PageAt(s, q),
         NEW ro \in BOOLEAN
  PROVE  MadeData(s, t, NoLock, p, n, ro)
<1>1. MadeLocks(s, t, NoLock)
    BY DEF MadeLocks, SameLocks
<1>2. \A r : IsLockedPage(s, r) /\ InUse(PageAt(s, r)) =>
         /\ IsLockedPage(t, r) /\ PageAt(t, r).start = PageAt(s, r).start
         /\ PageAt(t, r).dirty = PageAt(s, r).dirty /\ PageAt(t, r).size <= PageAt(s, r).size
    BY UsedStays DEF Narrower
<1>3. MadeUsed(s, t)
    BY <1>2 DEF MadeUsed
<1>4. MadeDisjoint(s, t, NoLock)
  <2>1. \A q : IsLockedPage(t, q) => \A a \in LockSpan(PageAt(t, q)) : a \in LockSpan(PageAt(s, q))
    <3> SUFFICES ASSUME NEW q, IsLockedPage(t, q) PROVE \A a \in LockSpan(PageAt(t, q)) : a \in LockSpan(PageAt(s, q))
        OBVIOUS
    <3>1. PageAt(s, q).start \in Nat /\ PageAt(s, q).size \in Nat
        BY VisitedIs
    <3>2. PageAt(t, q).size \in Nat
        BY VisitedIs
    <3> QED BY <3>1, <3>2, NarrowerSpan
  <2> QED BY <2>1 DEF MadeDisjoint, Disjoint, Apart
<1>5. Made(s, t, NoLock, p, n, ro)
    BY <1>1, <1>3, <1>4 DEF Made
<1>6. DataSize(s, t, NoLock)
    BY <1>2 DEF DataSize
<1>7. DataUsed(s, t, NoLock, p, n)
    BY DEF DataUsed
<1>8. DataMem(s, t, p, n, ro)
    BY DEF DataMem, Remembers
<1> QED BY <1>5, <1>6, <1>7, <1>8 DEF MadeData

(* When two locks begin in front of the new one and run into it, the       *)
(* program stops after the pages were filled.                              *)
LEMMA StopsFilled ==
  ASSUME NEW s, ShapeBut(s, {}), NEW t, NEW q, NEW p, NEW k, NEW n, NEW fix, Prepared(s, t, q, p, k, n, fix), t.failed,
         ~(IsLockedPage(s, q) /\ InUse(PageAt(s, q))), NEW ro \in BOOLEAN
  PROVE  MadeData(s, t, NoLock, p, n, ro)
<1>1. ~Disjoint(s)
    BY DEF Prepared
<1>2. /\ ShapeBut(t, {}) /\ t.overrun = s.overrun /\ SameLocks(s, t)
      /\ \A r : IsLockedPage(t, r) /\ r # q => IsLockedPage(s, r) /\ Narrower(PageAt(s, r), PageAt(t, r))
    BY DEF Prepared, PreparedPages
<1>3. MadeLocks(s, t, NoLock)
    BY <1>2 DEF MadeLocks, SameLocks
<1>4. \A r : IsLockedPage(s, r) /\ InUse(PageAt(s, r)) =>
         /\ IsLockedPage(t, r) /\ PageAt(t, r).start = PageAt(s, r).start
         /\ PageAt(t, r).dirty = PageAt(s, r).dirty /\ PageAt(t, r).size <= PageAt(s, r).size
    BY <1>2, UsedStays DEF Narrower
<1>5. MadeUsed(s, t)
    BY <1>4 DEF MadeUsed
<1>6. Made(s, t, NoLock, p, n, ro)
    BY <1>1, <1>2, <1>3, <1>5 DEF Made, MadeDisjoint
<1>7. DataSize(s, t, NoLock)
    BY <1>4 DEF DataSize
<1> QED BY <1>1, <1>6, <1>7 DEF MadeData, DataUsed, DataMem

(* What a data lock does to the pages, and which page it gets.             *)
LEMMA MakesData ==
  ASSUME NEW s, ShapeBut(s, {}), ~s.failed, NEW p \in Addr \ {0}, NEW n \in 1 .. BigSize, Span(p, n) \subseteq Addr,
         NEW ro \in BOOLEAN, NEW r, r = MakeDataLock(s, p, n, ro)
  PROVE  MadeData(s, r.state, r.lock, p, n, ro)
<1> DEFINE f == MoveToSmaller(CheckedSearch(SearchLocked(s, p, n)))
           e == f.state
           c == f.class
           k == f.size
           got == PageForLock(f, p)
           u == got.state
<1>1. Ready(s, f, p, n)
    BY SearchReady
<1>2. r = LockFound(f, p, ro)
    BY DEF MakeDataLock
<1> HIDE DEF f
<1>3. /\ ShapeBut(e, {}) /\ e.overrun = s.overrun /\ SameLocks(s, e) /\ Remembers(s, e)
      /\ \A q : IsLockedPage(e, q) => IsLockedPage(s, q) /\ Narrower(PageAt(s, q), PageAt(e, q))
      /\ f \in Searches /\ k \in 1 .. n /\ k <= PageSize[c] /\ e.failed \in BOOLEAN
      /\ (Disjoint(s) /\ Fits(s, p, n) =>
            \A q : IsLockedPage(s, q) /\ InUse(PageAt(s, q)) => PageAt(e, q) = PageAt(s, q))
  <2>1. ShapeBut(e, {}) /\ f \in Searches
      BY <1>1 DEF Ready, ReadyState, FoundSize
  <2>2. e.failed \in BOOLEAN
      BY <2>1, StateFields DEF ShapeBut
  <2> QED BY <1>1, <2>1, <2>2 DEF Ready, ReadyState, FoundSize, FoundUsed
<1>4. c \in Class /\ k \in Nat /\ f.fix \in BOOLEAN /\ f.at \in Nat /\ k \in 1 .. PageSize[c]
  <2>1. c \in Class /\ k \in Nat /\ f.fix \in BOOLEAN /\ f.at \in Nat
      BY <1>3 DEF Searches
  <2>2. PageSize[c] \in Nat
      BY <2>1, Sizes
  <2> QED BY <1>3, <2>1, <2>2
<1>5. f.fix => Inside(s, p)
    BY <1>1 DEF Ready, FoundFix, Inside
<1>6. Span(p, k) \subseteq Addr
  <2>1. k \in Nat /\ n \in Nat /\ k <= n /\ p \in Nat
      BY <1>3, <1>4, Sizes
  <2>2. Span(p, k) \subseteq Span(p, n)
    <3> HIDE DEF k
    <3> QED BY <2>1 DEF Span
  <2> QED BY <2>2
<1>7. CASE e.failed
  <2>1. r.state = e /\ r.lock = NoLock
      BY <1>2, <1>7 DEF LockFound, Stopped
  <2>2. MadeData(s, e, NoLock, p, n, ro)
      BY <1>3, <1>7, StopsData
  <2> QED BY <2>1, <2>2
<1>8. CASE ~e.failed /\ f.at = 0
  <2>1. r = NewLock(got, f, p, ro)
      BY <1>2, <1>8 DEF LockFound
  <2>2. GotFor(e, got, p, k)
      BY <1>1, <1>8, Gets
  <2>3. CASE u.failed
    <3>1. r.state = u /\ r.lock = NoLock
        BY <2>1, <2>3 DEF NewLock, Stopped
    <3>2. Below(e, u) /\ u.page = e.page /\ u.store = e.store
        BY <2>2, <2>3 DEF GotFor
    <3>3. ShapeBut(u, {}) /\ u.overrun = e.overrun /\ u.free = e.free /\ u.locked = e.locked
        BY <1>3, <3>2, BelowShape DEF Below
    <3>4. Kept(e, u)
        BY <3>2, <3>3, SameAgrees DEF Kept
    <3>5. Remembers(s, u)
        BY <1>3, <3>2, <3>4, BelowRemembers, RemembersTwice
    <3>6. SameLocks(s, u)
        BY <1>3, <3>2 DEF SameLocks
    <3>7. \A q : IsLockedPage(u, q) <=> IsLockedPage(e, q)
        BY <3>3 DEF IsLockedPage, IsLocked
    <3>8. \A q : PageAt(u, q) = PageAt(e, q)
        BY <3>2 DEF PageAt
    <3>9. u.overrun = s.overrun
        BY <1>3, <3>3
    <3>10. MadeData(s, u, NoLock, p, n, ro)
      <4> HIDE DEF e, u
      <4>1. \A q : IsLockedPage(u, q) => IsLockedPage(s, q) /\ Narrower(PageAt(s, q), PageAt(u, q))
          BY <1>3, <3>7, <3>8
      <4>2. Disjoint(s) /\ Fits(s, p, n) =>
                \A q : IsLockedPage(s, q) /\ InUse(PageAt(s, q)) => PageAt(u, q) = PageAt(s, q)
          BY <1>3, <3>8
      <4> QED BY <2>3, <3>3, <3>5, <3>6, <3>9, <4>1, <4>2, StopsData
    <3> QED BY <3>1, <3>10
  <2>4. CASE ~u.failed
    <3> DEFINE d == got.class
               i == got.at
               q == <<d, i>>
               w == FillLock(u, d, i, p, k, got.fresh, f.fix)
    <3>1. GotPage(e, u, q, p, k, got.fresh) /\ d \in Class /\ got.fresh \in BOOLEAN
        BY <2>2, <2>4 DEF GotFor
    <3>2. r = GiveLock(w, d, i, p, k, ro)
        BY <2>1, <2>4 DEF NewLock
    <3>3. /\ ShapeBut(u, {q}) /\ IsLockedPage(u, q) /\ k <= PageSize[d] /\ GotBytes(u, q, p, k, got.fresh)
          /\ PageAt(u, q).locks = 0 /\ SameLocks(e, u)
        BY <3>1 DEF GotPage
    <3>4. d \in Class /\ i \in Pages1(d) /\ q[1] = d /\ q[2] = i
        BY <3>3 DEF IsLockedPage
    <3>5. k \in 1 .. PageSize[d]
      <4>1. PageSize[d] \in Nat
          BY <3>1, Sizes
      <4> QED BY <1>3, <1>4, <3>3, <4>1
    <3>6. FilledAs(u, w, q, p, k, got.fresh, f.fix)
      <4> HIDE DEF u, d, i, k
      <4> QED BY <1>4, <1>6, <3>1, <3>3, <3>4, <3>5, Fills
    <3> HIDE DEF w, q
    <3>7. Prepared(s, w, q, p, k, n, f.fix)
      <4> HIDE DEF u, got
      <4> QED BY <1>1, <1>8, <3>1, <3>6, PreparesNew
    <3>8. CASE w.failed
      <4>1. r.state = w /\ r.lock = NoLock
          BY <3>2, <3>8 DEF GiveLock, Stopped
      <4>2. PageAt(s, q).locks = 0
        <5>1. s.page[d][i].locks = e.page[d][i].locks /\ e.page[d][i].locks = u.page[d][i].locks
            BY <1>3, <3>3, <3>4 DEF SameLocks
        <5> QED BY <3>3, <3>4, <5>1 DEF PageAt
      <4>3. ~InUse(PageAt(s, q))
          BY <4>2 DEF InUse
      <4>4. MadeData(s, w, NoLock, p, n, ro)
          BY <3>7, <3>8, <4>3, StopsFilled
      <4> QED BY <4>1, <4>4
    <3>9. CASE ~w.failed
      <4> HIDE DEF d, i, k
      <4>1. Prepared(s, w, <<d, i>>, p, k, n, f.fix)
          BY <3>7 DEF q
      <4>2. k \in 1 .. n /\ k <= PageSize[d] /\ d \in Class /\ i \in Pages1(d)
          BY <1>3, <3>3, <3>4
      <4> HIDE DEF e, u, got
      <4> QED BY <1>5, <3>2, <3>9, <4>1, <4>2, GivesData
    <3> QED BY <3>8, <3>9
  <2> QED BY <2>3, <2>4
<1>9. CASE ~e.failed /\ f.at # 0
  <2> DEFINE i == f.at
             q == <<c, i>>
             w == GrownLock(e, c, i, p, k)
  <2>1. r = GiveLock(w, c, i, p, k, ro)
      BY <1>2, <1>9 DEF LockFound
  <2>2. Prepared(s, w, q, p, k, n, f.fix)
      BY <1>1, <1>9, PreparesGrown
  <2>3. IsLockedPage(e, q)
      BY <1>1, <1>9 DEF Ready, ReadyPages
  <2>4. i \in Pages1(c)
      BY <2>3 DEF IsLockedPage
  <2>5. ~w.failed
    <3>1. e \in States
        BY <1>3 DEF ShapeBut
    <3> QED BY <1>9, <3>1 DEF GrownLock, SetPage, States
  <2> HIDE DEF w, c, k, i
  <2> QED BY <1>3, <1>4, <1>5, <2>1, <2>2, <2>4, <2>5, GivesData DEF q
<1> QED BY <1>3, <1>7, <1>8, <1>9

=============================================================================
